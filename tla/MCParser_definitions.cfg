\* The forms of a definition only.
SPECIFICATION Spec
CONSTANTS
  Files <- Definitions
INVARIANT AcceptsDefinitions
CHECK_DEADLOCK FALSE
