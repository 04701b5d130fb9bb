----------------------------- MODULE MCInQueue -----------------------------
(* Six bytes through a queue of four, read two at a time.                  *)
EXTENDS InQueue
=============================================================================
