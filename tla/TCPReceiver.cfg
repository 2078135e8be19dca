SPECIFICATION FairSpec
CONSTANTS
  SeqMod = 8
  SizeMod = 1000
  Stream <- TenBytes
  Capacity = 3
INVARIANTS
  DeliveredInOrder
  AckIsFirstMissing
  WindowIsWhatIsAccepted
PROPERTIES
  FinEventuallyAcked
