CONSTANTS
  NumThreads = 3
  MaxDepth = 1
  Archives <- SingleAtEnd
  MaxFaults = 1
  InputRaises = FALSE
SPECIFICATION Spec
INVARIANTS WrongIsReported BitExact RestoredOnce BlockQuiet
