CONSTANTS
  NumThreads = 2
  LowMem = FALSE
  MaxDepth = 2
  NumChunks = 3
  MaxStreams = 1
  MaxNested = 2
  Ahead = 0
  MaxDeferred = 0
  Moduli = {1}
  MaxFaults = 1
SPECIFICATION FairSpec
INVARIANTS NestedQuiet EncoderInv
PROPERTY Terminates
