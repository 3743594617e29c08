\* Four failed probes to a boot, two restarts, a storm of two lines.
SPECIFICATION FairSpec
CONSTANTS
  Transports = {"ssh", "telnet"}
  Addrs = {"a254", "a15"}
  Expected = "a254"
  None = "none"
  MaxRetries = 3
  MaxRestarts = 2
  WedgeAfter = 1
  WedgeLines = 2
  MaxLost = 3
  LateMoves = FALSE
INVARIANTS TypeOK GuardMeansForwarded VisibleGuestReached
PROPERTIES EveryBootHasItsBudget StormCutShort WaitEnds
\* The wait ends.
CHECK_DEADLOCK FALSE
