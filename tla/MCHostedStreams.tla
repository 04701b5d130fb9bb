-------------------------- MODULE MCHostedStreams --------------------------
(* Instance of HostedStreams for TLC: three requests for two rows.         *)
EXTENDS HostedStreams, TLC

CONSTANTS r1, r2, r3, p1, p2, g1

ThreeReqs == {r1, r2, r3}
TwoPorts == {p1, p2}
OneFd == {g1}
=============================================================================
