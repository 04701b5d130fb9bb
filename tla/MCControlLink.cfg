SPECIFICATION Spec
CONSTANTS
  AppFrames = 2
  Breaks = 2
  CTLQ_DROP = 3
  UDP_TCP = FALSE
  NoWait = FALSE
  UdpOpen = TRUE
INVARIANTS CtlOrdered BytesCounted NoTornFrame LeaseFirst
PROPERTIES ClaimStamped
CHECK_DEADLOCK FALSE
