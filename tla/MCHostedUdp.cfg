SPECIFICATION Spec
CONSTANTS
  pa = pa
  pb = pb
  byUdp = byUdp
  byTcp = byTcp
  Rows <- TwoRows
  Fds <- ThreeFds
  MaxSocks = 3
  MaxHeld = 1
  MaxRead = 1
  Sessions <- TwoSessions
  Nobody = Nobody
  Threads <- Ingresses
SYMMETRY Symmetry
INVARIANTS OneSession SocketsOwned ShownAsPeer
