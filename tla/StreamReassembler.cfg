SPECIFICATION FairReassemblerSpec
CONSTANTS
  a = a
  b = b
  c = c
  d = d
  e = e
  f = f
  Stream <- SixBytes
  Capacity = 3
INVARIANTS
  OutputIsStreamPrefix
  StoredBytesCounted
  CapacityRespected
PROPERTIES
  EverythingDelivered
