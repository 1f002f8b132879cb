SPECIFICATION Spec
CONSTANTS
  Calls = {k1, k2}
  nil = nil
  Sessions = 3
INVARIANTS
  TypeOK
  NothingForgotten
  NoCallTwice
CHECK_DEADLOCK FALSE
