\* The end of the output, written between the last peek and the test.
SPECIFICATION Spec
CONSTANTS
  PipeSize = 2
  BufSize = 1
  MaxOutput = 2
INVARIANT PipeDrained
CHECK_DEADLOCK FALSE
