------------------------------ MODULE InQueue ------------------------------
(***************************************************************************)
(* The bytes an application receives on a tunnel stream.  The stream's     *)
(* pump thread reads the relay connection into the in-queue and stops      *)
(* reading while the queue is full (hk_stream.c); recv() takes bytes from  *)
(* the queue and lets the pump read again (hk_route.c, hk_linux.c).        *)
(*                                                                         *)
(* A step is one section under the hook's lock or one system call.  The    *)
(* k-th byte the peer sent is the number k.  recv() gathers over chunks,   *)
(* so the queue is a sequence of bytes.  That a blocked recv() is woken is *)
(* the subject of WaitChannel: here it just tries again.                   *)
(***************************************************************************)
EXTENDS TunnelStream, Integers, Sequences

CONSTANTS NBytes,   \* bound: bytes the peer sends
          MaxIn,    \* DT_ST_MAXIN
          Buf       \* bytes the pump reads at once

\* The program reads 64 KB at once into a queue of 1 MB.
ASSUME InAssumption ==
  /\ NBytes \in Nat \ {0} /\ MaxIn \in Nat /\ Buf \in Nat \ {0}
  /\ 2 * Buf <= MaxIn

VARIABLES sent, fin,      \* bytes and FIN of the peer in the relay connection
          got,            \* bytes the pump has read
          inq,            \* the queue
          paused, peerFin, rdShut, failed,
          may, buf,       \* the pump: it may read, what it has read
          app,            \* the application in recv()
          read,           \* bytes recv() returned
          seen,           \* "eof" or "reset" as recv() reported the end
          lost            \* history: why the stream was cut short

ends == <<rdShut, wrShut, dead>>
vars == <<sent, fin, got, inq, paused, peerFin, rdShut, wrShut, dead, used, open, failed,
          pump, may, buf, app, read, seen, lost>>

Init ==
  /\ sent = 0 /\ fin = FALSE /\ got = 0
  /\ inq = <<>>
  /\ paused = FALSE /\ peerFin = FALSE
  /\ rdShut = FALSE /\ wrShut = FALSE /\ dead = FALSE
  /\ used = TRUE /\ open = TRUE /\ failed = FALSE
  /\ pump = "top" /\ may = FALSE /\ buf = <<>>
  /\ app = "idle" /\ read = <<>> /\ seen = "none"
  /\ lost = {}

-----------------------------------------------------------------------------
\* The relay forwards a byte, or the peer's end.
PeerSend ==
  /\ sent < NBytes /\ ~fin
  /\ sent' = sent + 1
  /\ UNCHANGED <<fin, got, inq, paused, peerFin, ends, used, open, failed, pump, may, buf,
                 app, read, seen, lost>>

PeerEnd ==
  /\ ~fin
  /\ fin' = TRUE
  /\ UNCHANGED <<sent, got, inq, paused, peerFin, ends, used, open, failed, pump, may, buf,
                 app, read, seen, lost>>

-----------------------------------------------------------------------------
\* The head of the pump's loop: what it will wait for.
PumpTop ==
  /\ pump = "top"
  /\ pump' = IF dead THEN "tail" ELSE "wait"
  /\ may' = (~paused /\ ~peerFin)
  /\ UNCHANGED <<sent, fin, got, inq, paused, peerFin, ends, used, open, failed, buf, app,
                 read, seen, lost>>

\* select() ends without anything to read ...
PumpIdle ==
  /\ pump = "wait"
  /\ pump' = "top"
  /\ UNCHANGED <<sent, fin, got, inq, paused, peerFin, ends, used, open, failed, may, buf,
                 app, read, seen, lost>>

\* ... or fails, as a signal makes it do, and the pump gives up.
PumpInterrupted ==
  /\ pump = "wait"
  /\ pump' = "tail"
  /\ lost' = lost \union {"signal"}
  /\ UNCHANGED <<sent, fin, got, inq, paused, peerFin, ends, used, open, failed, may, buf,
                 app, read, seen>>

\* recv() on the relay connection gives n bytes ...
PumpRead(n) ==
  /\ pump = "wait" /\ may
  /\ n \in 1 .. Buf /\ got + n <= sent
  /\ buf' = [i \in 1 .. n |-> got + i]
  /\ got' = got + n
  /\ pump' = "put"
  /\ UNCHANGED <<sent, fin, inq, paused, peerFin, ends, used, open, failed, may, app, read,
                 seen, lost>>

\* Mutant: the end is taken for read before the bytes in front of it are.
PumpFinEarly ==
  /\ pump = "wait" /\ may
  /\ fin
  /\ peerFin' = TRUE
  /\ pump' = "top"
  /\ UNCHANGED <<sent, fin, got, inq, paused, ends, used, open, failed, may, buf, app, read,
                 seen, lost>>

\* ... the peer's end ...
PumpFin ==
  /\ pump = "wait" /\ may
  /\ fin /\ got = sent
  /\ peerFin' = TRUE
  /\ pump' = "top"
  /\ UNCHANGED <<sent, fin, got, inq, paused, ends, used, open, failed, may, buf, app, read,
                 seen, lost>>

\* ... or a hard error.
PumpReset ==
  /\ pump = "wait" /\ may
  /\ open' = FALSE /\ failed' = TRUE
  /\ pump' = "tail"
  /\ UNCHANGED <<sent, fin, got, inq, paused, peerFin, ends, used, may, buf, app, read,
                 seen, lost>>

\* Mutant: the end of what was read is queued, as far as it fits.
PumpPutCut ==
  LET room == MaxIn - Len(inq) IN
  /\ pump = "put"
  /\ IF Len(buf) > room
     THEN paused' = TRUE /\ inq' = inq \o SubSeq(buf, Len(buf) - room + 1, Len(buf))
     ELSE inq' = inq \o buf /\ UNCHANGED paused
  /\ buf' = <<>>
  /\ pump' = "top"
  /\ UNCHANGED <<sent, fin, got, peerFin, ends, used, open, failed, may, app, read, seen,
                 lost>>

(* What was read is queued.  If it does not fit the pump stops reading,    *)
(* and what it has read is gone.                                           *)
PumpPut ==
  /\ pump = "put"
  /\ IF Len(inq) + Len(buf) > MaxIn
     THEN paused' = TRUE /\ lost' = lost \union {"full"} /\ UNCHANGED inq
     ELSE inq' = inq \o buf /\ UNCHANGED <<paused, lost>>
  /\ buf' = <<>>
  /\ pump' = "top"
  /\ UNCHANGED <<sent, fin, got, peerFin, ends, used, open, failed, may, app, read, seen>>

(* The pump retires.  The slot of a stream the application has closed or   *)
(* shut for writing is freed, with what is queued in it.                   *)
PumpTail ==
  /\ pump = "tail"
  /\ pump' = "over"
  /\ open' = FALSE
  /\ IF dead \/ wrShut
     THEN used' = FALSE /\ inq' = <<>> /\ lost' = lost \union {"freed"}
     ELSE UNCHANGED <<used, inq, lost>>
  /\ UNCHANGED <<sent, fin, got, paused, peerFin, ends, failed, may, buf, app, read, seen>>

-----------------------------------------------------------------------------
\* dt_stream_by_sock: the descriptor still names the stream.
Found == used /\ ~dead

\* recv() is called.
Recv ==
  /\ app = "idle" /\ Found /\ seen = "none"
  /\ app' = "recv"
  /\ UNCHANGED <<sent, fin, got, inq, paused, peerFin, ends, used, open, failed, pump, may,
                 buf, read, seen, lost>>

(* It takes n bytes, as many as it asked for or all there are, and lets    *)
(* the pump read again when less than half of the queue is left.           *)
RecvData(n) ==
  /\ app = "recv" /\ Found /\ inq # <<>>
  /\ n \in 1 .. Len(inq)
  /\ read' = read \o SubSeq(inq, 1, n)
  /\ inq' = SubSeq(inq, n + 1, Len(inq))
  /\ paused' = (paused /\ Len(inq) - n >= MaxIn \div 2)
  /\ app' = "idle"
  /\ UNCHANGED <<sent, fin, got, peerFin, ends, used, open, failed, pump, may, buf, seen,
                 lost>>

\* Mutant: the peer's end is not looked at.
RecvEndDeaf ==
  /\ app = "recv"
  /\ Found => inq = <<>> /\ (~open \/ rdShut)
  /\ app' = "verdict"
  /\ UNCHANGED <<sent, fin, got, inq, paused, peerFin, ends, used, open, failed, pump, may,
                 buf, read, seen, lost>>

\* There is nothing, and nothing will come: ended, dead, or closed under it.
RecvEnd ==
  /\ app = "recv"
  /\ Found => inq = <<>> /\ (~open \/ peerFin \/ rdShut)
  /\ app' = "verdict"
  /\ UNCHANGED <<sent, fin, got, inq, paused, peerFin, ends, used, open, failed, pump, may,
                 buf, read, seen, lost>>

\* A second look at the stream tells a reset from an end.
RecvVerdict ==
  /\ app = "verdict"
  /\ seen' = IF Found /\ failed THEN "reset" ELSE "eof"
  /\ app' = "idle"
  /\ UNCHANGED <<sent, fin, got, inq, paused, peerFin, ends, used, open, failed, pump, may,
                 buf, read, lost>>

\* A nonblocking call, or one whose time is up, returns without anything.
RecvNothing ==
  /\ app = "recv" /\ Found /\ inq = <<>> /\ open /\ ~peerFin /\ ~rdShut
  /\ app' = "idle"
  /\ UNCHANGED <<sent, fin, got, inq, paused, peerFin, ends, used, open, failed, pump, may,
                 buf, read, seen, lost>>

\* Mutant: the queue is emptied and the pump left waiting for it to drain.
ShutdownReadPaused ==
  /\ Found
  /\ rdShut' = TRUE
  /\ inq' = <<>>
  /\ lost' = lost \union {"shut"}
  /\ UNCHANGED <<sent, fin, got, paused, peerFin, wrShut, dead, used, open, failed, pump, may,
                 buf, app, read, seen>>

\* shutdown(): SHUT_RD drops what is queued.
ShutdownRead ==
  /\ Found
  /\ rdShut' = TRUE
  /\ inq' = <<>> /\ paused' = FALSE
  /\ lost' = lost \union {"shut"}
  /\ UNCHANGED <<sent, fin, got, peerFin, wrShut, dead, used, open, failed, pump, may, buf,
                 app, read, seen>>

ShutdownWrite ==
  /\ Found /\ ~wrShut
  /\ wrShut' = TRUE
  /\ UNCHANGED <<sent, fin, got, inq, paused, peerFin, rdShut, dead, used, open, failed, pump,
                 may, buf, app, read, seen, lost>>

\* close(): dt_on_close.
Close ==
  /\ Found
  /\ dead' = TRUE
  /\ UNCHANGED <<sent, fin, got, inq, paused, peerFin, rdShut, wrShut, used, open, failed,
                 pump, may, buf, app, read, seen, lost>>

-----------------------------------------------------------------------------
PumpRecv == (\E n \in 1 .. Buf : PumpRead(n)) \/ PumpFin \/ PumpReset

Receiving == (\E n \in 1 .. MaxIn : RecvData(n)) \/ RecvEnd

\* The pump has retired and the application is done with the stream.
Done ==
  /\ pump = "over" /\ app = "idle"
  /\ UNCHANGED vars

Next ==
  \/ PeerSend \/ PeerEnd
  \/ PumpTop \/ PumpIdle \/ PumpInterrupted \/ PumpRecv \/ PumpPut \/ PumpTail
  \/ Recv \/ Receiving \/ RecvVerdict \/ RecvNothing
  \/ ShutdownRead \/ ShutdownWrite \/ Close
  \/ Done

Spec == Init /\ [][Next]_vars

(* The pump runs, and select() reports a connection that keeps having      *)
(* something to read; a recv() in progress goes on.                        *)
Fairness ==
  /\ WF_vars(PumpTop) /\ WF_vars(PumpPut) /\ WF_vars(PumpTail)
  /\ SF_vars(PumpRecv) /\ WF_vars(PumpIdle)
  /\ WF_vars(Receiving) /\ WF_vars(RecvVerdict)

FairSpec == Spec /\ Fairness

-----------------------------------------------------------------------------
(* What recv() returned, what is queued and what the pump holds are, in    *)
(* this order, the bytes read from the relay - all of them, unless bytes   *)
(* were dropped, and never one twice or out of order.                      *)
ReadInOrder ==
  LET all == read \o inq \o buf IN
  /\ \A i, k \in 1 .. Len(all) : i < k => all[i] < all[k]
  /\ lost = {} => Len(all) = got

(* A stopped pump has a queue at least half full: there is a recv() that   *)
(* will let it go, and the stream does not hang.                           *)
PausedHasData == paused /\ used => Len(inq) >= MaxIn \div 2 /\ inq # <<>>

(* recv() reports a clean end only when the peer has ended and every byte  *)
(* it sent was returned - unless the application closed the stream or shut *)
(* it down, the queue overflowed or a signal hit the pump.                 *)
CleanEnd == seen = "eof" /\ lost = {} /\ ~dead => fin /\ Len(read) = sent

(* An application that keeps reading sees the peer's end, however often    *)
(* the queue was full.                                                     *)
EndReaches ==
  []<>(app = "recv") => (fin ~> (seen # "none"))

(* "full app queue pauses reads": the pump does not lose bytes.            *)
PauseKeepsBytes == "full" \notin lost
=============================================================================
