SPECIFICATION Spec
CONSTANTS
  SeqMod = 16
  SizeMod = 1000
  WinMod = 16
  MAX_PAYLOAD_SIZE = 2
  RtTimeout = 1
  MAX_RETX_ATTEMPTS = 1
  TickStep = 5
  MaxPassedOn = 4
  Scenarios <- ShortAndGoing
  PeerBytes <- TwoBytes
  Addresses <- SocketAndPeer
  Capacity = 4
  Isn = 14
INVARIANTS
  NoException
CHECK_DEADLOCK FALSE
