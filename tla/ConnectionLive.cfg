SPECIFICATION FairSpec
CONSTANTS
  Offer <- MCOffer
  Supported = {"AES_256_GCM", "CHACHA20_POLY1305"}
  Params <- MCParams
  Heartbeats = {"server"}
  Closers = {"client"}
  Writers = {}
  MissThreshold = 1
  MaxPto = 1
  MaxFly = 1
  MaxNet = 1
  MaxEvents = 2
PROPERTIES HandshakeResolves CloseResolves
CHECK_DEADLOCK FALSE
