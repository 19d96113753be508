\* Five clicks, three starts, a truthful database and disk: full channel,
\* full batches, retries, spooling, replay, crashes and shutdowns.
SPECIFICATION Spec
CONSTANTS
  Clicks = {c1, c2, c3, c4, c5}
  QueueSize = 2
  BatchSize = 2
  MaxStarts = 3
  AmbiguousCommit = FALSE
  DiskFaults = FALSE
CHECK_DEADLOCK FALSE
SYMMETRY ClickSymmetry
INVARIANTS
  CopiesBounded
  OnePlace
PROPERTIES
  GracefulExitLosesNothing
  ImplementsLedger
