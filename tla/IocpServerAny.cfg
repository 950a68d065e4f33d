SPECIFICATION Spec
CONSTANTS
  Clients = {c1, c2, c3}
  Paths = {a}
  Root = root
  NULL = null
  Inputs <- AnyInput
  Found <- Opened
  Faults = {"abort", "other", "junk"}
  MaxRequests = 1
INVARIANTS
  CurrentAccepts
  DisconnectFrees
SYMMETRY Symmetry
