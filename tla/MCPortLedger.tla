---------------------------- MODULE MCPortLedger ----------------------------
(***************************************************************************)
(* Three processes of node A, the last under the pid of the first, and one *)
(* of node B, over two ports and a ledger of two entries.                  *)
(***************************************************************************)
EXTENDS PortLedger

CONSTANTS p1, p2, p3, p4, s1, s2, s3, s4, d1, d2

Pids == [p \in Procs |-> IF p = p2 THEN 1 ELSE IF p = p3 THEN 2 ELSE 0]
Nodes == [p \in Procs |-> IF p = p3 THEN "B" ELSE "A"]
Owners == [s \in Socks |-> IF s \in {s1, d1} THEN p1 ELSE IF s \in {s2, d2} THEN p2
                           ELSE IF s = s3 THEN p3 ELSE p4]
Protos == [s \in Socks |-> IF s \in {d1, d2} THEN "dgram" ELSE "stream"]
Reuses == [s \in Socks |-> s \in {d1, d2}]
Asked == [s \in Socks |-> IF s = s4 THEN {0} ELSE {1}]
=============================================================================
