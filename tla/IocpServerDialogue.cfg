SPECIFICATION FairSpec
CONSTANTS
  Clients = {c1}
  Paths = {a}
  Root = root
  NULL = null
  Inputs <- Followed
  Found <- Readable
  Faults = {"abort", "other"}
  MaxRequests = 3
INVARIANTS
  InStep
  PromiseKept
  AssertionsHold
PROPERTY
  ResponsesEnd
