\* Insertion anywhere in the array, elements of several bytes.
SPECIFICATION Spec
CONSTANTS
  Heads = {0, 1}
  Tails = {0, 1}
  MaxSize = 3
  Careless = {"shift"}
PROPERTY IsVector
CHECK_DEADLOCK FALSE
