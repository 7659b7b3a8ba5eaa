CONSTANTS
  Streams = {s1}
  Cap = 2
  MaxStreamData = 3
  MaxData = 5
  Rooms = {0, 1, 2}
  MaxFrames = 1
  Thresh = 2
  NoByte = NoByte
  MaxPkts = 3
  Lost = {}
SPECIFICATION Spec
INVARIANTS SendWindow FinalSize FlowRespected
CHECK_DEADLOCK FALSE
