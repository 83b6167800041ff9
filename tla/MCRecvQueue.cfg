SPECIFICATION RecvSpec
CONSTANTS
  bufSize = 5
  HeaderSize = 3
  LengthAt = 2
  SbufSize = 2
  Window = 6
  LongestData = 2
  Bytes <- MCBytes
  Inputs <- MCPackets
CHECK_DEADLOCK FALSE
INVARIANTS
  StreamIntact
PROPERTIES
  ReceivesGoOn
