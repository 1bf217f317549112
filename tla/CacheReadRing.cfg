CONSTANTS
  MaxSizes = {2, 3, 5}
  BufferSize = 2
  CopySize = 2
  NumBytes = 8
SPECIFICATION FairSpec
PROPERTIES Fifo CallsReturn
