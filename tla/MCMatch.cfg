CONSTANTS
  a = a
  b = b
  Byte = {a, b}
  Hashes = {0, 1}
  Hash <- HashDef
  Window = 4
  Delta = 5
  Low = 1
  MaxBlk = 3
  Cap = 13
  Calls = {2,4}
  Skips = {3}
  N = 13
SPECIFICATION MCSpec
INVARIANTS LinksRight DepthsRight RunsRight ReachRight
PROPERTY ImplementsChains
CHECK_DEADLOCK FALSE
