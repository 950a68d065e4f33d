SPECIFICATION Spec
CONSTANTS
  Clients = {c1, c2}
  Kinds = {"small", "undeletable", "head", "special", "directory", "unlistable", "file", "terminal"}
  Refusals = {TRUE, FALSE}
  MaxFd = 5
  MaxRequests = 2
INVARIANT
  NumbersKept
PROPERTY
  FirstStaleClose
SYMMETRY Symmetry
CHECK_DEADLOCK FALSE
