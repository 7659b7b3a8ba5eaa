SPECIFICATION Spec
CONSTANTS
  Offer <- MCOffer
  Supported = {"AES_256_GCM", "CHACHA20_POLY1305"}
  Params <- MCParams
  Heartbeats = {"server"}
  Closers = {"client"}
  Writers = {"client"}
  MissThreshold = 2
  MaxPto = 1
  MaxFly = 2
  MaxNet = 1
  MaxEvents = 2
INVARIANTS  NothingInPlaintext DrainsOnlyOnClose EstablishedIsAgreed
PROPERTIES SilentOnceDone
CHECK_DEADLOCK FALSE
