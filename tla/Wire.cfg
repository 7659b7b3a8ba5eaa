SPECIFICATION WireSpec
CONSTANTS
  Base = 4
  Limit = 64
  MaxPn = 6
  MaxAckPn = 6
  MaxRanges = 3
  AckMaxRanges = 3
  MaxInFlight = 2
  W = 8
  TokenLen = 2
  PathLen = 2
  MaxCidLen = 3
  MaxRangesInFrame = 2
  Room = {0, 9, 24}
  MaxFrames = 2
  B = 4
  LenBits = 2
  AppCap = 15
  MaxSends = 2
INVARIANTS
  
  AckFramesAreExact
  FramesReadBack
  
CHECK_DEADLOCK FALSE
