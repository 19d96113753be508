\* A fair writer under every fault at once: a database that may fail every
\* time or report an error for a COMMIT that took effect, spool operations
\* that fail, read only part of a file or leave half a record, crashes and two restarts.
SPECIFICATION FairSpec
CONSTANTS
  Clicks = {c1, c2}
  QueueSize = 1
  BatchSize = 2
  MaxStarts = 3
  AmbiguousCommit = TRUE
  DiskFaults = TRUE
CHECK_DEADLOCK FALSE
INVARIANTS
  NoSilentLoss
  RowsBounded
PROPERTIES
  MemoryDrains
  CloseIsAnswered
