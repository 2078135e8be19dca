SPECIFICATION Spec
CONSTANTS
  SeqMod = 16
  SizeMod = 1000
  WinMod = 16
  MAX_PAYLOAD_SIZE = 1
  RtTimeout = 1
  MAX_RETX_ATTEMPTS = 1
  client = client
  server = server
  Ends <- Two
  Isns <- TwoIsns
  Openers <- Client
  Streams <- OneAndNone
  RecvCapacity = 1
  SendCapacity = 2
  MaxNet = 2
  Conditions <- Losing
PROPERTIES
  FollowsRFC793
\* The two ends stop when both are closed.
CHECK_DEADLOCK FALSE
