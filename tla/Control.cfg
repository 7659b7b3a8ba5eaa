CONSTANTS
  Users = {a, b}
  Timers = {t1, t2}
  Delays = {1, None}
  Ms = 2
  InitialCap = 2
  MaxBatch = 2
  None = None
  Second = 4
  Mds = 2
  InitPkts = 5
  MinPkts = 1
  FullCount = 2
  Phases = 3
  RtpropWindow = 3
  ProbeDuration = 1
  InitialRtt = 1
  MaxAckDelay = 1
  Millisecond = 1
  Reorder = 2
  AckDelays = {1}
  AckOnly = {2}
  Drained = {3}
  Start = 4
  MaxElapsed = 4
  MaxPackets = 4
  MaxProbes = 1
  Window = 4
  SampleValues = {1, 2}
  MaxFilterTime = 8
  Scale = 3
  PaceSecond = 4
  Burst = 4
  Datagram = 2
  Rates = {1, 2, 5}
  MaxPaceTime = 6
SPECIFICATION CtlSpec
INVARIANTS
  TimersMatchUsers 
  AckStateIsSound BbrStateIsSound
  FilterIsRecent 
PROPERTIES  StopStops
CHECK_DEADLOCK FALSE
