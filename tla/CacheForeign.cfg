SPECIFICATION Spec
CONSTANTS
  r1 = r1  r2 = r2  r3 = r3  r4 = r4  h1 = h1  h2 = h2  h3 = h3
  NoHash = NoHash  NoRequest = NoRequest
  Blocks = {b1}
  Hashes = {h1, h2, h3}
  Requests = {r1, r2, r3}
  Chain <- Single
  Rejected = {}
  Failing = {}
  Executors = {TRUE}
INVARIANT OwnPrefixOnly
CHECK_DEADLOCK FALSE
