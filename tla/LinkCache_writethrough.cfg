\* The same code and visitors under the claim of Cache.Invalidate's comment.
SPECIFICATION Spec
CONSTANTS
  Links = {l1}
  Codes <- OneCode
  Lower <- LowerOneCode
  Requests = {r1, r2}
  Mutators = {m1}
  TTL = 2
  NegTTL = 1
  LoadTimeout = 1
  Past = {"none"}
  MaxStamp = 2
SYMMETRY RequestSymmetry
INVARIANT WriteThrough
