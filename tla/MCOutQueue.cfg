SPECIFICATION OutFairSpec
CONSTANTS
  t1 = t1
  t2 = t2
  Threads <- TwoThreads
  NAsk = 4
  MaxOut = 3
INVARIANTS WireInOrder QueueCounted FinLast SleeperPoked
PROPERTY SendReturns
