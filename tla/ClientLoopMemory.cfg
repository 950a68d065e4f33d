SPECIFICATION Spec
CONSTANTS
  Clients = {c1}
  Requests <- AnyRequest
  Inputs <- AnyInput
  MaxRequests = 2
  MaxChunks = 1
INVARIANTS
  IInv
  OpsAccounting
  NoUseAfterFree
  ListenerArmed
  KillsItsShell
PROPERTY
  ClosingIsFinal
