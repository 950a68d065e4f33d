SPECIFICATION Spec
CONSTANTS
  Clients = {c1, c2}
  Kinds <- FileOrTerminal
  Refusals = {FALSE}
  MaxFd = 8
  MaxRequests = 1
INVARIANT
  SeekSucceeds
CHECK_DEADLOCK FALSE
