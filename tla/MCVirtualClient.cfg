SPECIFICATION MCSpec
CONSTANTS
  Workers = {w1, w2}
  Users = {main}
  Connector = connector
  Main = main
  Conns = {c1}
  NoSock = NoSock
  MaxWSABUF = 1
  maxClient = 1
  MaxInputs = 2
SYMMETRY Symmetry
CHECK_DEADLOCK FALSE
INVARIANTS
  FlagsExact
  SomebodyLooks
