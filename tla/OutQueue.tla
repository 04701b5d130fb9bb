------------------------------ MODULE OutQueue ------------------------------
(***************************************************************************)
(* The bytes an application sends on a tunnel stream.  send() appends a    *)
(* chunk to the stream's out-queue, or blocks while it is full             *)
(* (hk_route.c); the stream's pump thread moves the queue to the relay     *)
(* connection, and flushes it after close(); exit() drains it from the     *)
(* exiting thread (hk_stream.c).  Pump and exit drain share the queue      *)
(* through the flags flushing and sending.  The stream is open: the dial   *)
(* and the verdict are the subject of StreamSlots.                         *)
(*                                                                         *)
(* A step is one section under the hook's lock or one bounded send.  The   *)
(* k-th byte that was queued is the number k.  The chunk c holds the bytes *)
(* c.base + 1 .. c.base + c.n, and c.off of them are done.                 *)
(***************************************************************************)
EXTENDS TunnelStream, Integers, Sequences

CONSTANTS Threads,   \* application threads that send
          NAsk,      \* bound: bytes the application asks to send
          MaxOut     \* DT_ST_MAXOUT

ASSUME OutAssumption == NAsk \in Nat \ {0} /\ MaxOut \in Nat \ {0}

WRoom == (MaxOut \div 3) * 2   \* DT_ST_WROOM

VARIABLES out, ototal, written,  \* queue, its byte count, bytes ever queued
          shutDone, wrFull, flushing, sending,
          asked, call, left, armed, poked,   \* senders and their wait slots
          pchunk, pgot,          \* the pump: chunk it sends, bytes taken
          exit, echunk, esent,   \* the exit drain: point, chunk, all of it sent
          wire,                  \* bytes the relay connection took
          excuse                 \* history: how the queue had two owners

stream == <<used, open, dead, wrShut, shutDone>>
senders == <<asked, call, left, armed>>
pumping == <<pump, pchunk, pgot>>
exiting == <<exit, echunk, esent>>
outVars == <<out, ototal, written, used, open, dead, wrShut, shutDone, wrFull, flushing,
          sending, asked, call, left, armed, poked, pump, pchunk, pgot, exit, echunk,
          esent, wire, excuse>>

NoChunk == [base |-> 0, n |-> 0, off |-> 0]

OutInit ==
  /\ out = <<>> /\ ototal = 0 /\ written = 0
  /\ used = TRUE /\ open = TRUE
  /\ dead = FALSE /\ wrShut = FALSE /\ shutDone = FALSE
  /\ wrFull = FALSE /\ flushing = FALSE /\ sending = FALSE
  /\ asked = 0
  /\ call = [t \in Threads |-> "idle"]
  /\ left = [t \in Threads |-> 0]
  /\ armed = [t \in Threads |-> FALSE]
  /\ poked = [t \in Threads |-> FALSE]
  /\ pump = "top" /\ pchunk = NoChunk /\ pgot = 0
  /\ exit = "none" /\ echunk = NoChunk /\ esent = FALSE
  /\ wire = <<>>
  /\ excuse = {}

-----------------------------------------------------------------------------
\* The first k bytes of a chunk that are not done.
Bytes(c, k) == [i \in 1 .. k |-> c.base + c.off + i]
Rest(c) == c.n - c.off

\* dt_sig_locked: every armed waiter of the socket is poked.
Signal == poked' = [t \in Threads |-> poked[t] \/ armed[t]]

-----------------------------------------------------------------------------
\* send(): a blocking or a nonblocking call of n bytes.
Send(t, n, point) ==
  /\ exit # "gone" /\ ~dead
  /\ call[t] = "idle" /\ asked + n <= NAsk
  /\ asked' = asked + n
  /\ call' = [call EXCEPT ![t] = point]
  /\ left' = [left EXCEPT ![t] = n]
  /\ UNCHANGED <<out, ototal, written, stream, wrFull, flushing, sending, armed, poked,
                 pumping, exiting, wire, excuse>>

\* Mutant: a write larger than the whole queue waits for room too.
AcceptedWhole(len) == IF ototal + len <= MaxOut THEN len ELSE 0

(* Bytes dt_stream_send takes of len: all of them; none if they do not     *)
(* fit; as many as fit if they could never fit at once.                    *)
Accepted(len) ==
  IF ototal + len <= MaxOut THEN len
  ELSE IF len <= MaxOut \/ ototal >= MaxOut THEN 0
  ELSE MaxOut - ototal

Returns(t) ==
  /\ call' = [call EXCEPT ![t] = "idle"]
  /\ left' = [left EXCEPT ![t] = 0]
  /\ armed' = [armed EXCEPT ![t] = FALSE]
  /\ poked' = [poked EXCEPT ![t] = FALSE]

\* The stream is closed, shut down or dead: the call returns.
SendRefused(t) ==
  /\ exit # "gone"
  /\ call[t] \in {"try", "poll"}
  /\ dead \/ wrShut \/ ~open
  /\ Returns(t)
  /\ UNCHANGED <<out, ototal, written, stream, wrFull, flushing, sending, asked,
                 pumping, exiting, wire, excuse>>

\* A chunk is queued; a blocking call that has bytes left goes on.
SendQueued(t) ==
  LET k == Accepted(left[t]) IN
  /\ exit # "gone"
  /\ call[t] \in {"try", "poll"}
  /\ ~dead /\ ~wrShut /\ open
  /\ k > 0
  /\ wrFull' = (wrFull \/ ototal + left[t] > MaxOut)
  /\ out' = Append(out, [base |-> written, n |-> k, off |-> 0])
  /\ ototal' = ototal + k
  /\ written' = written + k
  /\ \/ /\ left[t] = k \/ call[t] = "poll"
        /\ Returns(t)
     \/ /\ left[t] > k /\ call[t] = "try"
        /\ left' = [left EXCEPT ![t] = @ - k]
        /\ UNCHANGED <<call, armed, poked>>
  /\ UNCHANGED <<stream, flushing, sending, asked, pumping, exiting, wire, excuse>>

\* Mutant: the pump is not told that a sender saw the queue full.
SendFullSilent(t) ==
  /\ exit # "gone"
  /\ call[t] \in {"try", "poll"}
  /\ ~dead /\ ~wrShut /\ open
  /\ Accepted(left[t]) = 0
  /\ \/ /\ call[t] = "poll" /\ Returns(t)
     \/ /\ call[t] = "try" /\ ~armed[t]
        /\ armed' = [armed EXCEPT ![t] = TRUE]
        /\ poked' = [poked EXCEPT ![t] = FALSE]
        /\ UNCHANGED <<call, left>>
     \/ /\ call[t] = "try" /\ armed[t]
        /\ call' = [call EXCEPT ![t] = "asleep"]
        /\ UNCHANGED <<left, armed, poked>>
  /\ UNCHANGED <<out, ototal, written, stream, wrFull, flushing, sending, asked,
                 pumping, exiting, wire, excuse>>

(* The queue is full.  A nonblocking call returns; a blocking one arms a   *)
(* wait slot and tries again before it sleeps.                             *)
SendFull(t) ==
  /\ exit # "gone"
  /\ call[t] \in {"try", "poll"}
  /\ ~dead /\ ~wrShut /\ open
  /\ Accepted(left[t]) = 0
  /\ wrFull' = TRUE
  /\ \/ /\ call[t] = "poll" /\ Returns(t)
     \/ /\ call[t] = "try" /\ ~armed[t]
        /\ armed' = [armed EXCEPT ![t] = TRUE]
        /\ poked' = [poked EXCEPT ![t] = FALSE]
        /\ UNCHANGED <<call, left>>
     \/ /\ call[t] = "try" /\ armed[t]
        /\ call' = [call EXCEPT ![t] = "asleep"]
        /\ UNCHANGED <<left, armed, poked>>
  /\ UNCHANGED <<out, ototal, written, stream, flushing, sending, asked,
                 pumping, exiting, wire, excuse>>

\* dt_wait_sleep ends, poked or after its backstop; dt_wait_rearm.
SendAwake(t) ==
  /\ exit # "gone"
  /\ call[t] = "asleep"
  /\ call' = [call EXCEPT ![t] = "try"]
  /\ poked' = [poked EXCEPT ![t] = FALSE]
  /\ UNCHANGED <<out, ototal, written, stream, wrFull, flushing, sending, asked, left,
                 armed, pumping, exiting, wire, excuse>>

\* shutdown(SHUT_WR).
Shutdown ==
  /\ exit # "gone" /\ ~dead /\ used /\ ~wrShut
  /\ wrShut' = TRUE
  /\ UNCHANGED <<out, ototal, written, used, open, dead, shutDone, wrFull, flushing,
                 sending, senders, poked, pumping, exiting, wire, excuse>>

\* The exit drain owns a chunk.
Draining == exit \in {"pick", "send", "pop"}

\* close(): dt_on_close.
OnClose ==
  /\ exit # "gone" /\ ~dead /\ used
  /\ dead' = TRUE
  /\ Signal
  /\ excuse' = IF Draining THEN excuse \union {"both"} ELSE excuse
  /\ UNCHANGED <<out, ototal, written, used, open, wrShut, shutDone, wrFull, flushing,
                 sending, senders, pumping, exiting, wire>>

-----------------------------------------------------------------------------
\* Mutant: STSHUT is sent with bytes still queued.
ShutNowUnflushed == used /\ wrShut /\ ~shutDone

(* The head of the pump's loop, one section under the lock: STSHUT is due  *)
(* when a shut-down queue is empty; a closed stream is flushed; otherwise  *)
(* the pump waits for room to write.                                       *)
ShutNow == used /\ wrShut /\ ~shutDone /\ ototal = 0

PumpHead ==
  /\ exit # "gone" /\ pump = "top"
  /\ shutDone' = (shutDone \/ ShutNow)
  /\ pump' = IF dead THEN "flush" ELSE IF ototal > 0 /\ ~flushing THEN "take" ELSE "top"
  /\ UNCHANGED <<out, ototal, written, used, open, dead, wrShut, wrFull, flushing, sending,
                 senders, poked, pchunk, pgot, exiting, wire, excuse>>

\* A hard receive error, or select() fails.
PumpBreak ==
  /\ exit # "gone" /\ pump = "top"
  /\ pump' = "tail"
  /\ \/ open' = FALSE /\ Signal
     \/ UNCHANGED <<open, poked>>
  /\ UNCHANGED <<out, ototal, written, used, dead, wrShut, shutDone, wrFull, flushing,
                 sending, senders, pchunk, pgot, exiting, wire, excuse>>

\* Mutant: the pump does not look at flushing again.
PumpTakeBlind ==
  /\ exit # "gone" /\ pump = "take"
  /\ out # <<>>
  /\ pchunk' = Head(out) /\ sending' = TRUE /\ pump' = "send"
  /\ UNCHANGED <<out, ototal, written, stream, wrFull, flushing, senders, poked, pgot,
                 exiting, wire, excuse>>

\* The head chunk is marked as being sent, unless the exit drain has it ...
PumpTake ==
  /\ exit # "gone" /\ pump = "take"
  /\ out # <<>> /\ ~flushing
  /\ pchunk' = Head(out) /\ sending' = TRUE /\ pump' = "send"
  /\ UNCHANGED <<out, ototal, written, stream, wrFull, flushing, senders, poked, pgot,
                 exiting, wire, excuse>>

\* ... or there is nothing to send.
PumpNone ==
  /\ exit # "gone" /\ pump = "take"
  /\ out = <<>> \/ flushing
  /\ pump' = "top"
  /\ UNCHANGED <<out, ototal, written, stream, wrFull, flushing, sending, senders, poked,
                 pchunk, pgot, exiting, wire, excuse>>

\* send() takes k bytes ...
PumpSend(k) ==
  /\ exit # "gone" /\ pump = "send"
  /\ k \in 1 .. Rest(pchunk)
  /\ wire' = wire \o Bytes(pchunk, k)
  /\ pgot' = k
  /\ pump' = "sent"
  /\ UNCHANGED <<out, ototal, written, stream, wrFull, flushing, sending, senders, poked,
                 pchunk, exiting, excuse>>

\* ... or none, for now or for good.
PumpAgain ==
  /\ exit # "gone" /\ pump = "send"
  /\ sending' = FALSE
  /\ pump' = "top" /\ pchunk' = NoChunk
  /\ UNCHANGED <<out, ototal, written, stream, wrFull, flushing, senders, poked, pgot,
                 exiting, wire, excuse>>

\* The head chunk moves on, and a queue with room again wakes its senders.
PumpSent ==
  /\ exit # "gone" /\ pump = "sent"
  /\ sending' = FALSE
  /\ pump' = "take" /\ pchunk' = NoChunk /\ pgot' = 0
  /\ ototal' = ototal - pgot
  /\ LET c == [Head(out) EXCEPT !.off = @ + pgot]
     IN out' = IF c.off >= c.n THEN Tail(out) ELSE <<c>> \o Tail(out)
  /\ \/ /\ wrFull /\ ototal' <= WRoom
        /\ wrFull' = FALSE
        /\ IF dead THEN UNCHANGED poked ELSE Signal
     \/ /\ ~(wrFull /\ ototal' <= WRoom)
        /\ UNCHANGED <<wrFull, poked>>
  /\ UNCHANGED <<written, stream, flushing, senders, exiting, wire, excuse>>

-----------------------------------------------------------------------------
\* After close() the pump sends what is queued, chunk by chunk ...
FlushTake ==
  /\ exit # "gone" /\ pump = "flush"
  /\ used /\ out # <<>>
  /\ pchunk' = Head(out) /\ pump' = "fsend"
  /\ UNCHANGED <<out, ototal, written, stream, wrFull, flushing, sending, senders, poked,
                 pgot, exiting, wire, excuse>>

FlushNone ==
  /\ exit # "gone" /\ pump = "flush"
  /\ ~used \/ out = <<>>
  /\ pump' = "tail"
  /\ UNCHANGED <<out, ototal, written, stream, wrFull, flushing, sending, senders, poked,
                 pchunk, pgot, exiting, wire, excuse>>

\* ... each whole, or part of it when the send's 150 ms are over ...
FlushSend(k) ==
  /\ exit # "gone" /\ pump = "fsend"
  /\ k \in 0 .. Rest(pchunk)
  /\ wire' = wire \o Bytes(pchunk, k)
  /\ pump' = IF k = Rest(pchunk) THEN "fpop" ELSE "tail"
  /\ pchunk' = NoChunk
  /\ UNCHANGED <<out, ototal, written, stream, wrFull, flushing, sending, senders, poked,
                 pgot, exiting, excuse>>

\* ... and drops what is then the head of the queue.
FlushPop ==
  /\ exit # "gone" /\ pump = "fpop"
  /\ pump' = "flush"
  /\ IF used /\ out # <<>>
     THEN out' = Tail(out) /\ ototal' = ototal - Rest(Head(out))
     ELSE UNCHANGED <<out, ototal>>
  /\ UNCHANGED <<written, stream, wrFull, flushing, sending, senders, poked, pchunk, pgot,
                 exiting, wire, excuse>>

\* The pump retires; a stream the application is done with is freed.
PumpRetire ==
  /\ exit # "gone" /\ pump = "tail"
  /\ pump' = "over"
  /\ open' = FALSE
  /\ \/ /\ dead \/ wrShut
        /\ used' = FALSE /\ out' = <<>> /\ ototal' = 0
        /\ Signal
        /\ excuse' = IF Draining THEN excuse \union {"both"} ELSE excuse
     \/ /\ ~dead /\ ~wrShut
        /\ UNCHANGED <<used, out, ototal, poked, excuse>>
  /\ UNCHANGED <<written, dead, wrShut, shutDone, wrFull, flushing, sending, senders,
                 pchunk, pgot, exiting, wire>>

-----------------------------------------------------------------------------
\* exit(): dt_flush_streams reaches this stream ...
Exit ==
  /\ exit = "none"
  /\ exit' = "claim"
  /\ UNCHANGED <<out, ototal, written, stream, wrFull, flushing, sending, senders, poked,
                 pumping, echunk, esent, wire, excuse>>

\* ... and takes over a queue with bytes in it ...
ExitClaim ==
  /\ exit = "claim"
  /\ used /\ open /\ out # <<>>
  /\ flushing' = TRUE
  /\ exit' = "pick"
  /\ excuse' = IF dead THEN excuse \union {"both"} ELSE excuse
  /\ UNCHANGED <<out, ototal, written, stream, wrFull, sending, senders, poked, pumping,
                 echunk, esent, wire>>

\* ... or finds none before its time is up.
ExitSkip ==
  /\ exit = "claim"
  /\ ~(used /\ open /\ out # <<>>)
  /\ exit' = "left"
  /\ UNCHANGED <<out, ototal, written, stream, wrFull, flushing, sending, senders, poked,
                 pumping, echunk, esent, wire, excuse>>

\* It takes the head chunk when the pump is not sending ...
ExitTake ==
  /\ exit = "pick"
  /\ used /\ out # <<>> /\ ~sending
  /\ echunk' = Head(out) /\ sending' = TRUE /\ exit' = "send"
  /\ UNCHANGED <<out, ototal, written, stream, wrFull, flushing, senders, poked, pumping,
                 esent, wire, excuse>>

\* ... finds no more, or the pump still sending when the 900 ms are over ...
ExitNone ==
  /\ exit = "pick"
  /\ ~used \/ out = <<>> \/ sending
  /\ exit' = "give"
  /\ UNCHANGED <<out, ototal, written, stream, wrFull, flushing, sending, senders, poked,
                 pumping, echunk, esent, wire, excuse>>

\* ... and gives the queue back.
ExitGive ==
  /\ exit = "give"
  /\ flushing' = (flushing /\ ~used)
  /\ exit' = "left"
  /\ UNCHANGED <<out, ototal, written, stream, wrFull, sending, senders, poked, pumping,
                 echunk, esent, wire, excuse>>

(* The chunk is sent whole, or part of it is when the send's 150 ms are    *)
(* over.                                                                   *)
ExitSend(k) ==
  /\ exit = "send"
  /\ k \in 0 .. Rest(echunk)
  /\ wire' = wire \o Bytes(echunk, k)
  /\ esent' = (k = Rest(echunk))
  /\ exit' = "pop"
  /\ excuse' = IF 0 < k /\ k < Rest(echunk) THEN excuse \union {"torn"} ELSE excuse
  /\ UNCHANGED <<out, ototal, written, stream, wrFull, flushing, sending, senders, poked,
                 pumping, echunk>>

\* Mutant: the whole chunk is taken off the count, the part the pump sent too.
ExitPopWhole ==
  /\ exit = "pop"
  /\ sending' = FALSE
  /\ IF used /\ esent /\ out # <<>>
     THEN out' = Tail(out) /\ ototal' = ototal - Head(out).n
     ELSE UNCHANGED <<out, ototal>>
  /\ exit' \in IF esent THEN {"pick", "give"} ELSE {"give"}
  /\ echunk' = NoChunk /\ esent' = FALSE
  /\ UNCHANGED <<written, stream, wrFull, flushing, senders, poked, pumping, wire, excuse>>

(* The head of the queue goes if the send was whole; the drain gives up    *)
(* otherwise, or when its time is over.                                     *)
ExitPop ==
  /\ exit = "pop"
  /\ sending' = FALSE
  /\ IF used /\ esent /\ out # <<>>
     THEN out' = Tail(out) /\ ototal' = ototal - (Head(out).n - echunk.off)
     ELSE UNCHANGED <<out, ototal>>
  /\ exit' \in IF esent THEN {"pick", "give"} ELSE {"give"}
  /\ echunk' = NoChunk /\ esent' = FALSE
  /\ UNCHANGED <<written, stream, wrFull, flushing, senders, poked, pumping, wire, excuse>>

\* The process ends after the other streams were drained.
Gone ==
  /\ exit = "left"
  /\ exit' = "gone"
  /\ UNCHANGED <<out, ototal, written, stream, wrFull, flushing, sending, senders, poked,
                 pumping, echunk, esent, wire, excuse>>

-----------------------------------------------------------------------------
Sender(t) == SendRefused(t) \/ SendQueued(t) \/ SendFull(t) \/ SendAwake(t)

PumpStep ==
  \/ PumpHead \/ PumpBreak \/ PumpTake \/ PumpNone \/ PumpAgain \/ PumpSent
  \/ FlushTake \/ FlushNone \/ FlushPop \/ PumpRetire
  \/ (\E k \in 1 .. MaxOut : PumpSend(k)) \/ (\E k \in 0 .. MaxOut : FlushSend(k))

ExitStep ==
  \/ ExitClaim \/ ExitSkip \/ ExitTake \/ ExitNone \/ ExitGive \/ ExitPop \/ Gone
  \/ \E k \in 0 .. MaxOut : ExitSend(k)

\* The process has ended.
Exited == exit = "gone" /\ UNCHANGED outVars

OutNext ==
  \/ \E t \in Threads :
       \/ Sender(t)
       \/ \E n \in 1 .. NAsk, point \in {"try", "poll"} : Send(t, n, point)
  \/ Shutdown \/ OnClose
  \/ PumpStep
  \/ Exit \/ ExitStep \/ Exited

OutSpec == OutInit /\ [][OutNext]_outVars

(* Threads run.  The relay reads its connection, so that a pump that keeps *)
(* trying gets bytes through.                                              *)
OutFairness ==
  /\ \A t \in Threads : WF_outVars(Sender(t))
  /\ WF_outVars(PumpHead) /\ WF_outVars(PumpTake \/ PumpNone)
  /\ SF_outVars(\E k \in 1 .. MaxOut : PumpSend(k))
  /\ WF_outVars(PumpAgain) /\ WF_outVars(PumpSent)
  /\ WF_outVars(FlushTake \/ FlushNone) /\ WF_outVars(FlushPop) /\ WF_outVars(PumpRetire)
  /\ WF_outVars(\E k \in 0 .. MaxOut : FlushSend(k))
  /\ WF_outVars(ExitStep)

OutFairSpec == OutSpec /\ OutFairness

-----------------------------------------------------------------------------
\* The relay connection took the first bytes of the stream, each once.
WireAscends == wire = [i \in 1 .. Len(wire) |-> i]

(* Whatever pump and exit drain do to the queue, the bytes go out in the   *)
(* order they were queued, none twice and none left out - unless the drain *)
(* gave up in the middle of a chunk, or shared the queue with the pump of  *)
(* a stream that was closed or freed.                                      *)
WireInOrder == excuse = {} => WireAscends

\* From the first byte that is not done to the last one queued.
Pending == IF out = <<>> THEN 0 ELSE written - (Head(out).base + Head(out).off)

(* The byte count of the queue, by which send() and the pump decide, is    *)
(* that of the bytes in it, also when the exit drain takes over a chunk of *)
(* which the pump has sent a part.                                         *)
QueueCounted == "both" \notin excuse => ototal = Pending

(* STSHUT, the FIN toward the peer, is sent when every byte that was       *)
(* queued is on the relay connection.                                      *)
FinLast ==
  shutDone /\ excuse = {} => Len(wire) = written

(* A sender asleep on a queue that the pump has drained to the writable    *)
(* mark was poked, if its write fits: until the process exits it need not  *)
(* wait for its backstop.                                                  *)
SleeperPoked ==
  \A t \in Threads :
    call[t] = "asleep" /\ ~dead /\ open /\ exit \in {"none", "claim"}
      /\ ototal <= WRoom /\ Accepted(left[t]) > 0
    => poked[t]

(* A send() returns, also one larger than the queue, while the relay reads *)
(* and the process lives.                                                  *)
SendReturns ==
  \A t \in Threads : call[t] # "idle" ~> (call[t] = "idle" \/ exit # "none")
=============================================================================
