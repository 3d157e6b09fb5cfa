\* A client that keeps every contract, elements of one byte.
SPECIFICATION Spec
CONSTANTS
  Heads = {0, 1}
  Tails = {0}
  MaxSize = 4
  Careless = {}
INVARIANT Sound
PROPERTIES IsVector
CHECK_DEADLOCK FALSE
