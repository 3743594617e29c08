\* The docstring's claim, for the zip this repository builds from.
SPECIFICATION Spec
CONSTANTS
  Kinds = {"zip"}
  MaxRuns = 3
INVARIANTS LeftoverIsReplaced
\* build.py ends.
CHECK_DEADLOCK FALSE
