CONSTANTS
  Streams = {s1}
  Cap = 2
  MaxStreamData = 2
  MaxData = 5
  Rooms = {1}
  MaxFrames = 1
  Thresh = 1
  NoByte = NoByte
  MaxPkts = 3
  Lost = {}
SPECIFICATION Spec
INVARIANTS RecvContiguous
CHECK_DEADLOCK FALSE
