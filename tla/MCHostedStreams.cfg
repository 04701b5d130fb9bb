SPECIFICATION FairSpec
CONSTANTS
  r1 = r1
  r2 = r2
  r3 = r3
  p1 = p1
  p2 = p2
  g1 = g1
  None = None
  Reqs <- ThreeReqs
  Ports <- TwoPorts
  Fds <- OneFd
  MaxHost = 2
INVARIANT ClosedOnce
PROPERTIES  RowsReclaimed
