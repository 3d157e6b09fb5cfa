\* Two strings over two characters, and blocks for a few lost headers.
SPECIFICATION Spec
CONSTANTS
  Addresses = {1, 2, 3, 4, 5, 6, 7, 8, 9, 10}
  Handles = {"a", "b"}
  Texts <- OneChar
  Chars = {0, 1}
  None = None
INVARIANTS Accounted HashIsOfText
PROPERTY IsStringStore
CHECK_DEADLOCK FALSE
