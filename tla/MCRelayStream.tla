--------------------------- MODULE MCRelayStream ---------------------------
(* Instance of RelayStream for TLC: a port-only dial that several hosts    *)
(* answer, and an addressed one that collides with it on one stream id.    *)
EXTENDS RelayStream, TLC

CONSTANTS o1, o2, j1, j2, s1, na, nb, nc

TwoOpeners == {o1, o2}
TwoJoiners == {j1, j2}
OneSid == {s1}
ThreeNodes == {na, nb, nc}

SameSid == [o \in Openers |-> s1]
FromA == [o \in Openers |-> na]
\* the first opener dials the port, the second a node
Mixed == [o \in Openers |-> IF o = o1 THEN None ELSE nb]
Claimed == [j \in Joiners |-> s1]
\* a process of nb and one of nc serve the port
Serving == [j \in Joiners |-> IF j = j2 THEN nc ELSE nb]
HostB == [n \in Nodes |-> IF n = nb THEN 1 ELSE 0]
=============================================================================
