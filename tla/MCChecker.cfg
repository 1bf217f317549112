SPECIFICATION Spec
CONSTANTS
  ByteBits = 4  BufSize = 4  PreExtra = 3  WordBits = 12
  LitCount = 2  MinMatch = 2  MaxBits = 3  CodeMaxBits = 3
  TCBits = 2  TCMin = 4  SizeBits = 4
  LenBase <- MCLenBase  LenExtra <- MCLenExtra  DistBase <- MCDistBase  DistExtra <- MCDistExtra
  StaticLit <- MCStaticLit  StaticDist <- MCStaticDist
  TCOrder <- MCTCOrder  RepMin <- MCRepMin  RepExtra <- MCRepExtra  HeadBits <- MCHeadBits
  MetaByteBits = 8  MetaBufSize = 5  MetaPreExtra = 4  MetaWordBits = 32
  CoderBits = 14  ScaleBits = 8  ShareBits = 3  DeriveShift = 2
  TCClamp = 2  LDClamp = 2  LenClamp = 2  HopClamp = 2
  LenRange <- MCLenRange  HopRange <- MCHopRange
  Streams <- MCStreams  OwnCodes <- MCOwnCodes  Parameters <- MCParameters
INVARIANTS StreamBack BlocksBack ModelsBack CodesCounted TreesRight
CHECK_DEADLOCK FALSE
