SPECIFICATION UdpSpec
CONSTANTS
  a1 = a1
  b1 = b1
  c1 = c1
  a = a
  b = b
  c = c
  na = na
  nb = nb
  nc = nc
  ea = ea
  eb = eb
  ec = ec
  t1 = t1
  gp = gp
  None = None
  Old = 1
  MaxSent = 2
  MaxEvents = 1
  Links <- TheLinks
  Procs <- TheProcs
  ProcOf <- TheProcOf
  NodeOf <- TheNodeOf
  Ext <- TheExt
  Decl <- TheDecl
  Tunnels <- TheTunnels
  Trips <- TheTrips
  PortOf <- ThePortOf
  TripsOf <- TheTripsOf
INVARIANTS OnlyAddressed ReplyToAsker
CHECK_DEADLOCK FALSE
