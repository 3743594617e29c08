\* Polls of 2 ticks: two silent polls after an acknowledgement, three on a
\* console build, six polls in all.
SPECIFICATION FairSpec
CONSTANTS
  Poll = 2
  MaxSeconds = 12
  AckSilence = 4
  ConsoleSilence = 6
  MaxSize = 3
INVARIANTS TypeOK StalledIsSilence ForcedOnSilence
PROPERTIES Terminates
\* The wait returns.
CHECK_DEADLOCK FALSE
