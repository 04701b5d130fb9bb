--------------------------- MODULE MCWaitChannel ---------------------------
(* Two threads, one socket and a pool of one slot: it can be exhausted.    *)
EXTENDS WaitChannel

CONSTANTS t1, t2, k1

TwoThreads == {t1, t2}
OneSock == {k1}
=============================================================================
