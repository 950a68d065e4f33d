SPECIFICATION FairSpec
CONSTANTS
  Events <- AnyInput
  buffer_max = 6
  AmountMax = 12
  ShortMax = 5
  BufferSize = 16
  InRoom = 6
  OutRoom = 1
  Echoes = TRUE
  MaxEvents = 2
  MaxResizes = 1
INVARIANTS
  InputKept
  AsciiAccepted
PROPERTIES
  WriteReturns
  AllArrives
CHECK_DEADLOCK FALSE
