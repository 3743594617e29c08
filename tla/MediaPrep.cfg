\* Three runs in one tree, each of which may be killed anywhere.
SPECIFICATION FairSpec
CONSTANTS
  Kinds = {"zip", "tar", "gz", "img", "qcow2", "qcow2gz", "xz"}
  MaxRuns = 3
INVARIANTS TypeOK ReadyIsWhole CorruptIsItsOwn
PROPERTIES EveryRunEnds
\* build.py ends.
CHECK_DEADLOCK FALSE
