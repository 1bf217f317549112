CONSTANTS
  MaxSizes = {0, 2, 3, 5}
  BufferSize = 2
  NumBytes = 9
SPECIFICATION FairSpec
PROPERTIES Fifo Closes
CHECK_DEADLOCK FALSE
