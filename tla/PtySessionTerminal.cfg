SPECIFICATION FairSpec
CONSTANTS
  Frames = {"data", "close", "control", "empty", "bad"}
  Failures = {"spawn", "register"}
INVARIANTS
  SessionWhole
  TwiceOnlyOverlapping
  CallbackKeptOff
PROPERTY
  ExitTold
CHECK_DEADLOCK FALSE
