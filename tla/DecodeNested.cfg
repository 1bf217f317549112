CONSTANTS
  NumThreads = 3
  MaxDepth = 2
  Archives <- Small
  MaxFaults = 1
  InputRaises = TRUE
SPECIFICATION FairSpec
PROPERTY Terminates
CHECK_DEADLOCK FALSE
