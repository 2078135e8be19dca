SPECIFICATION PeerSpec
CONSTANTS
  SeqMod = 16
  SizeMod = 1000
  MAX_PAYLOAD_SIZE = 2
  RtTimeout = 1
  Stream <- FiveBytes
  Capacity = 3
  Isns = {13}
  MaxWindow = 3
  MAX_RETX_ATTEMPTS = 1
  PeerKinds = {"conforming"}
  PeerCapacity = 3
  MaxAcks = 2
  Reordering = TRUE
INVARIANTS
  WindowRespected
