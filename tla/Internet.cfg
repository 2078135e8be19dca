SPECIFICATION FairSpec
CONSTANTS
  a = a
  b = b
  r = r
  IpAddress <- ThreeBits
  ETHERNET_BROADCAST = ETHERNET_BROADCAST
  NoEthernetAddress = NoEthernetAddress
  Direct = Direct
  ArpEntryTtl = 2
  ArpResponseTtl = 2
  AddressBits = 3
  Hosts <- TwoHosts
  Routers <- OneRouter
  Addresses <- RouterAndHosts
  Links <- TwoLinks
  Tables <- ByPrefix
  Gateway <- ToRouter
  RoutedTo <- ByTable
  Hops = 1
  Ttls = {0, 1, 2}
  Budgets <- TwoOrOneEach
  MaxFrames = 1
  LossyTypes = {"ARP"}
  TickStep = 1
INVARIANTS
  ArpTableIsTrue
  OnlyExpectedArrive
PROPERTIES
  AllArrive
CHECK_DEADLOCK FALSE
