\* The comment's claim about sparc64.
SPECIFICATION Spec
CONSTANTS
  Poll = 2
  MaxSeconds = 12
  AckSilence = 4
  ConsoleSilence = 6
  MaxSize = 3
INVARIANT SparcWaitsForBanner
\* The wait returns.
CHECK_DEADLOCK FALSE
