SPECIFICATION StreamFairSpec
CONSTANTS
  o1 = o1
  o2 = o2
  j1 = j1
  j2 = j2
  s1 = s1
  na = na
  nb = nb
  nc = nc
  None = None
  Openers <- TwoOpeners
  Joiners <- TwoJoiners
  Nodes <- ThreeNodes
  Sids <- OneSid
  SidOf <- SameSid
  OpenerNode <- FromA
  DestOf <- Mixed
  JSid <- Claimed
  JNode <- Serving
  HostClaim <- HostB
  MaxBacks = 1
INVARIANTS OneServer PipeAgreed NoOrphanOpener
PROPERTIES ImplementsConnect OpenerAnswered
CHECK_DEADLOCK FALSE
