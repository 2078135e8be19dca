SPECIFICATION MCSpec
CONSTANTS
  Byte = {x, y}
  Capacity = 2
  MaxWrite = 3
  MaxAccepted = 5
  MaxBuffers = 4
  SeqMod = 8
  SizeMod = 1000
  MaxCheckpoint = 27
  AddressBits = 3
  Direct = Direct
  IpAddress = {1, 2}
  ETHERNET_BROADCAST = ETHERNET_BROADCAST
  NoEthernetAddress = NoEthernetAddress
  ArpEntryTtl = 2
  ArpResponseTtl = 3
  OwnEthernet = own
  OwnIp = 1
  EthernetAddress = {e, f}
  Datagrams = {d}
  Steps = {1, 2, 3}
  MaxOut = 2
  MaxWaiting = 2
  Fed <- ThreeBytes
  Answer <- ThreeBytes
  BufferSize = 3
  PipeRoom = 2
  max_copy_length = 2
  InputKinds = {"pipe", "file"}
INVARIANTS
  InOrder
  BuffersHoldStream
  UnwrapClosest
  InterfaceWaits
  TimesLeft
  CopiedInOrder
  LongestPrefixWins
  SegmentSurvivesWire
  MessageSurvivesWire
PROPERTIES
  ReliableIfWriterStops
  CopyReturns
\* A pure function takes no step.
CHECK_DEADLOCK FALSE
