SPECIFICATION FairSpec
CONSTANTS
  Terminals = {s1, s2}
  Strays = {x1}
  Pids = {2}
  None = None
  Unset = {TRUE, FALSE}
  MaxFailures = 1
INVARIANTS
  SignalsReachChildren
  PursuedUnlessLost
  SignalsItsShell
PROPERTY
  ClosedShellEndsUnlessLost
