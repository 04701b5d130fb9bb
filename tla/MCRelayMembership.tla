------------------------- MODULE MCRelayMembership -------------------------
(* Instances of RelayMembership for TLC: three nodes share two addresses,  *)
(* one node has two processes (or one that dials again), and one reader may *)
(* stall.                                                                  *)
EXTENDS RelayMembership

CONSTANTS w1, w2, w3, w4, a, b, c

FourWriters == {w1, w2, w3, w4}
ThreeNodes == {a, b, c}
\* w1 and w4 are two processes of node a
Owner == [w \in Writers |-> IF w = w2 THEN b ELSE IF w = w3 THEN c ELSE a]
Third == {w3}
=============================================================================
