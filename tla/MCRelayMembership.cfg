SPECIFICATION Spec
CONSTANTS
  w1 = w1
  w2 = w2
  w3 = w3
  w4 = w4
  a = a
  b = b
  c = c
  None = None
  Writers <- FourWriters
  Nodes <- ThreeNodes
  NodeOf <- Owner
  Pool = 2
  Stallable <- Third
INVARIANTS UniqueVirt Attributed ViewExact
PROPERTY VirtStable
CHECK_DEADLOCK FALSE
