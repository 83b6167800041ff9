SPECIFICATION Spec
CONSTANTS
  Workers = {w1, w2}
  Users = {u1, u2}
  Acceptor = acceptor
  Main = main
  Conns = {c1, c2, c3}
  NoSock = NoSock
  maxCounter = 2
  MaxWSABUF = 1
  MaxInputs = 2
CHECK_DEADLOCK FALSE
SYMMETRY Symmetry
CONSTRAINT Bound
INVARIANTS
  RefCountExact
  LeaveOnce
  InFlightQueued
  OwnPackets
  TeardownAlone
