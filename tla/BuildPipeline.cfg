\* Two runs in one tree, the first of which may be killed.
SPECIFICATION FairSpec
CONSTANTS
  Pids = {p1, p2}
  NoPid = NoPid
  CrashPoints <- KilledElsewhere
  MaxRuns = 2
INVARIANTS TypeOK ShippedIsSealed CleanSlate DoneLeavesNoMachine
PROPERTIES ImplementsRelease EveryRunEnds
\* build.py ends.
CHECK_DEADLOCK FALSE
