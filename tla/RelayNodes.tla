----------------------------- MODULE RelayNodes -----------------------------
(***************************************************************************)
(* What the tables of the relay (server.py) share: the machines that have  *)
(* a node id, and Python's None.                                           *)
(***************************************************************************)
CONSTANTS Nodes,      \* node ids
          None
=============================================================================
