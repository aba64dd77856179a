SPECIFICATION FairSpec
CONSTANTS
  Writers = {w1, w2}
  Readers = {r1}
  Creator = c
  None = none
  Nodes = {n1, n2}
  Descs = {d1, d2, d3}
  CtrlRoom = 1
INVARIANTS TypeOK OpenNodeLives NothingLeft
PROPERTIES LockReturned
CHECK_DEADLOCK FALSE
