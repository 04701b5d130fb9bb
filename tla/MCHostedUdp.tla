---------------------------- MODULE MCHostedUdp ----------------------------
(* Instance of HostedUdp for TLC: two sessions, two rows and three sockets *)
(* in a run, two threads that receive datagrams, and the poller.           *)
EXTENDS HostedUdp, TLC

CONSTANTS pa, pb, byUdp, byTcp

TwoRows == 1 .. 2
ThreeFds == 1 .. 3
TwoSessions == {pa, pb}
Ingresses == {byUdp, byTcp}

\* No session and no thread is named anywhere.
Symmetry == Permutations(TwoSessions) \cup Permutations(Ingresses)
=============================================================================
