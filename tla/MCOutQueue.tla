----------------------------- MODULE MCOutQueue -----------------------------
(* Two sending threads; a write of four bytes is larger than the queue.    *)
EXTENDS OutQueue, TLC

CONSTANTS t1, t2

TwoThreads == {t1, t2}
=============================================================================
