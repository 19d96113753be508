\* One code in two spellings, two visitors, one API handler: loads, answers
\* and evictions interleave with up to two changes of the row, and every
\* behaviour is one the abstract specification allows.
SPECIFICATION Spec
CONSTANTS
  Links = {l1}
  Codes <- OneCode
  Lower <- LowerOneCode
  Requests = {r1, r2}
  Mutators = {m1}
  TTL = 2
  NegTTL = 1
  LoadTimeout = 1
  Past = {"none", "deleted"}
  MaxStamp = 2
SYMMETRY RequestSymmetry
INVARIANTS
  MonotonicReads
  BoundedStaleness
PROPERTY
  ImplementsMonotoneReads
