SPECIFICATION SpliceSpec
CONSTANTS
  Sizes = {0, 1, 2, 3, 4, 5, 6, 7, 8, 9}
  SpliceSize = 4
  Interrupted = FALSE
PROPERTY
  SpliceDelivers
CHECK_DEADLOCK FALSE
