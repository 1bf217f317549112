CONSTANTS
  NumThreads = 2
  LowMem = FALSE
  MaxDepth = 1
  NumChunks = 3
  MaxStreams = 2
  MaxNested = 0
  Ahead = 2
  MaxDeferred = 1
  Moduli = {1, 2}
  MaxFaults = 1
SPECIFICATION Spec
INVARIANTS EncoderInv SlotQuiet ProcessedOnce InOrder NoStaleFuture SafeEnd
PROPERTY NoLostStart
