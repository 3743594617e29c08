\* The conf's claim about a truncated shutdown.
SPECIFICATION Spec
CONSTANTS
  Pids = {p1, p2}
  NoPid = NoPid
  CrashPoints <- KilledElsewhere
  MaxRuns = 1
INVARIANTS ShippedHasAgent
\* build.py ends.
CHECK_DEADLOCK FALSE
