SPECIFICATION Spec
CONSTANTS
  Conns = {c1, c2, c3}
  MaxConns = 2
  MaxPps = 1
  MaxPending = 2
  Streaming = {c2}
  Closable = {c2}
INVARIANTS
  RoutedIsHeld
  
  FaultNeedsCause
PROPERTY NoOvertaking
CHECK_DEADLOCK FALSE
