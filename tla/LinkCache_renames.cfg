\* Two codes, one visitor, two API handlers: renames, deletions and purges of
\* a link one handler has read while the other moves it.
SPECIFICATION Spec
CONSTANTS
  Links = {l1}
  Codes <- TwoCodes
  Lower <- LowerTwoCodes
  Requests = {r1}
  Mutators = {m1, m2}
  TTL = 1
  NegTTL = 1
  LoadTimeout = 1
  Past = {"none"}
  MaxStamp = 2
SYMMETRY MutatorSymmetry
INVARIANT
  WriteThroughUnlessRaced
