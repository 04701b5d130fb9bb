SPECIFICATION FairSpec
CONSTANTS
  t1 = t1
  t2 = t2
  k1 = k1
  Threads <- TwoThreads
  Socks <- OneSock
  MaxWait = 1
  WaitNS = 1
  MaxQ = 1
INVARIANTS SlotExclusive WakeKept
PROPERTY FinReleases
