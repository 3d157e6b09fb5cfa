\* The pipe is smaller than the output and larger than the read buffer.
SPECIFICATION FairSpec
CONSTANTS
  PipeSize = 3
  BufSize = 2
  MaxOutput = 5
INVARIANTS TypeOK Conserved ReaderOutlivesChild
PROPERTIES WriterUnblocked ReturnsOrHangs
CHECK_DEADLOCK FALSE
