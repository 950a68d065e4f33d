SPECIFICATION AskSpec
CONSTANTS
  Parts <- AnyPart
  BufSize = 3
  Word = 16
  Wrap = 16
  Characters = {0, 1, 2, 10, 11, 12}
  MaxLen = 4
  MaxSize = 11
INVARIANT
  RangesMeant
PROPERTIES
  Delivers
  Ends
CHECK_DEADLOCK FALSE
