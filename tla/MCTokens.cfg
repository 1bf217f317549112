CONSTANTS
  a = a
  b = b
  N = 7
  Hash <- HashDef
  Cases <- MCCases
  Window = 12
  MinLookahead = 6
  MaxMatch = 5
  TooFar = 4
  MaxTokenCount = 3
  MaxBlocks = 2
  MaxEmpty = 1
SPECIFICATION Spec
INVARIANTS RoundTrip NoLateFailure CountsRight SeqMatchAgrees
CHECK_DEADLOCK FALSE
