SPECIFICATION FairSpec
CONSTANTS
  SeqMod = 16
  SizeMod = 1000
  WinMod = 16
  MAX_PAYLOAD_SIZE = 2
  RtTimeout = 1
  MAX_RETX_ATTEMPTS = 1
  TickStep = 5
  MaxPassedOn = 4
  Scenarios <- Chosen
  PeerBytes <- TwoBytes
  Addresses <- SocketAndPeer
  Capacity = 4
  Isn = 14
INVARIANTS
  NoException
  PassedOnInOrder
  EndsMeanDelivered
  OnlyPeerResets
PROPERTIES
  CallsReturn
  EndReachesOwner
\* Everything stops when the thread has been joined.
CHECK_DEADLOCK FALSE
