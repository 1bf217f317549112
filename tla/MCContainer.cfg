CONSTANTS
  FSlots = 3
  FSize = 2
  InputSizes <- MCInputSizes
  MaxFuture = 6
  MaxInputs = 2
  Files <- MCFiles
  DecodeMemBlock = 5
  MemoryParts = {0, 3}
  FilePart = 100
SPECIFICATION EncSpec
INVARIANTS WindowRight EmittedRight DecodedRight MemoryForetold
