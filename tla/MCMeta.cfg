SPECIFICATION Spec
CONSTANTS
  ByteBits = 8  BufSize = 6  PreExtra = 4  WordBits = 32
  CoderBits = 14  ScaleBits = 8  ShareBits = 3  DeriveShift = 2  Dynamic = 1
  TCClamp = 1  LDClamp = 1  LenClamp = 1  HopClamp = 1
  TCRange <- MCRange  LDRange <- MCRange  RepRange <- MCRepRange  LenRange <- MCRange  HopRange <- MCRange
  Streams <- MCStreams  Parameters <- MCParameters
  Window = 2  MinMeta = 3  DefaultMeta = 1  Capacities = {4, 40}  SizeBits = 3
INVARIANTS OutputWhole SameInput BlocksBack
CHECK_DEADLOCK FALSE
