\* A server that honours Range requests: 5 blocks in pieces of 2, 2
\* and 1, two tries each, then the fallback.
SPECIFICATION FairSpec
CONSTANTS
  Blocks = 5
  Threads = 3
  ChunkMin = 1
  Attempts = 2
  RangeIgnored = FALSE
INVARIANTS TypeOK RangedDownloadIsComplete ResumeOwnsFile
PROPERTIES Terminates
\* download() returns or exits.
CHECK_DEADLOCK FALSE
