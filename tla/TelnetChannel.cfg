\* Two pushes of archives of two and three records, two sessions of commands.
SPECIFICATION FairSpec
CONSTANTS
  Bytes <- MCBytes
  Streams <- Sessions
  Record = 2
INVARIANTS TypeOK DecodeIgnoresCuts MarkerMeansWhole LinesAsSent
PROPERTIES SessionEnds
\* The session ends.
CHECK_DEADLOCK FALSE
