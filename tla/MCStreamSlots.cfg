SPECIFICATION FairSpec
CONSTANTS
  f1 = f1
  d1 = d1
  d2 = d2
  d3 = d3
  None = None
  Fds <- OneFd
  Dials <- ThreeDials
  MaxStream = 2
INVARIANTS OwnStream PumpOwns
PROPERTY DialResolves
