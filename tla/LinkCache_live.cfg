\* One visitor, one handler, a fair scheduler: requests are answered and the
\* cache converges after the last change.
SPECIFICATION FairSpec
CONSTANTS
  Links = {l1}
  Codes <- TwoCodes
  Lower <- LowerTwoCodes
  Requests = {r1}
  Mutators = {m1}
  TTL = 1
  NegTTL = 1
  LoadTimeout = 1
  Past = {"none"}
  MaxStamp = 2
PROPERTIES
  RequestsAnswered
  CacheConverges
