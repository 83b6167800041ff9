SPECIFICATION MCSpec
CONSTANTS
  bufSize = 4
  Length = 3
  Bytes <- MCBytes
  Inputs <- MCInputs
  Producers = {p1, p2}
  Consumer = consumer
  StackSize = 3
  QueueSize = 4
  MaxOps = 4
  MaxMade = 3
  chunkSize = 2
  MaxChunks = 3
  defaultBuffer = 8
  Code = 2
  Key = 1
  Rands = {3}
CHECK_DEADLOCK FALSE
INVARIANTS
  NodesFound
  PeekExact
  OneHolder
PROPERTIES
  ImplementsByteQueue
  ImplementsLifo
  ImplementsFifo
  PacketImplementsQueue
