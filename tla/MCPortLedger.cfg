SPECIFICATION Spec
CONSTANTS
  p1 = p1
  p2 = p2
  p3 = p3
  p4 = p4
  s1 = s1
  s2 = s2
  s3 = s3
  s4 = s4
  d1 = d1
  d2 = d2
  Procs = {p1, p2, p3, p4}
  Socks = {s1, s2, s3, s4, d1, d2}
  PidOf <- Pids
  NodeOf <- Nodes
  ProcOf <- Owners
  Proto <- Protos
  Reuse <- Reuses
  Wants <- Asked
  NPorts = 2
  SLP_MAX = 2
INVARIANTS OneClaim StreamExclusive NoLeakedClaim
CHECK_DEADLOCK FALSE
