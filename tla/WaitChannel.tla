---------------------------- MODULE WaitChannel ----------------------------
(***************************************************************************)
(* The pool of wake channels behind the hook's blocking calls              *)
(* (hook/hk_sess.c, dt_wait_arm .. done).  A thread blocked in recv or     *)
(* poll on a tunnelled socket takes a slot of g_wt, names the sockets it   *)
(* watches and sleeps on the slot's wake fd; the pump threads poke the     *)
(* armed slots whenever they change a socket (dt_sig_locked).              *)
(*                                                                         *)
(* Every critical section under DLOCK is one step; what the code does      *)
(* between two critical sections (draining the wake fd, sleeping) is a     *)
(* step of its own.  The wake fd is abstracted to "a datagram is pending"  *)
(* (dt_wake_drain reads them all).                                         *)
(***************************************************************************)
EXTENDS Integers, FiniteSets

CONSTANTS Threads,   \* application threads that block
          Socks,     \* sockets of tunnelled streams
          MaxWait,   \* slots of the pool (DT_MAXWAIT)
          WaitNS,    \* sockets a slot can name (DT_WAIT_NS)
          MaxQ       \* bound: chunks queued on one socket

ASSUME MaxWaitAssumption == MaxWait \in Nat
ASSUME WaitNSAssumption == WaitNS \in Nat
ASSUME MaxQAssumption == MaxQ \in Nat
ASSUME SocksFinite == IsFiniteSet(Socks)

VARIABLES used, armed, any, socks, paired, wake,   \* g_wt[slot]
          q, life,                                 \* the sockets
          pc, op, slot, watch, expired,            \* the blocked calls
          stolen                                   \* history: see DoneDrain

table == <<used, armed, any, socks, paired, wake>>
sockets == <<q, life>>
vars == <<used, armed, any, socks, paired, wake, q, life,
          pc, op, slot, watch, expired, stolen>>

Slots == 1 .. MaxWait
NoSlot == 0            \* the -1 of the code

Ops == {"recv", "recvtimeo", "poll"}
PCs == {"idle", "look", "take", "pair", "arm", "check", "sleep", "relook",
        "drain", "rearm", "done", "donedrain"}

\* What a readiness scan of op reports: queued bytes, an end of stream.
Ready(k) == q[k] > 0 \/ life[k] = "fin"

\* A change of the socket that must get a blocked call moving again.
Attention(k) == Ready(k) \/ life[k] = "gone"

Init ==
  /\ used = [s \in Slots |-> FALSE]
  /\ armed = [s \in Slots |-> FALSE]
  /\ any = [s \in Slots |-> FALSE]
  /\ socks = [s \in Slots |-> {}]
  /\ paired = [s \in Slots |-> FALSE]
  /\ wake = [s \in Slots |-> FALSE]
  /\ q = [k \in Socks |-> 0]
  /\ life = [k \in Socks |-> "open"]
  /\ pc = [t \in Threads |-> "idle"]
  /\ op = [t \in Threads |-> "recv"]
  /\ slot = [t \in Threads |-> NoSlot]
  /\ watch = [t \in Threads |-> {}]
  /\ expired = [t \in Threads |-> FALSE]
  /\ stolen = [s \in Slots |-> FALSE]

-----------------------------------------------------------------------------
(* The application enters a blocking call.  dt_tcp_wait looks before it    *)
(* takes a slot, dt_poll_core takes its slot first.                        *)
Call(t) ==
  /\ pc[t] = "idle"
  /\ \E o \in Ops, S \in SUBSET Socks :
       /\ S # {}
       /\ o # "poll" => Cardinality(S) = 1
       /\ \A k \in S : life[k] # "gone"
       /\ op' = [op EXCEPT ![t] = o]
       /\ watch' = [watch EXCEPT ![t] = S]
       /\ pc' = [pc EXCEPT ![t] = IF o = "poll" THEN "take" ELSE "look"]
       /\ expired' = [expired EXCEPT ![t] = FALSE]
  /\ UNCHANGED <<table, sockets, slot, stolen>>

(* The readiness look: dt_stream_pop takes bytes, the scan of poll does    *)
(* not.  recv with nothing to return takes a slot if it has none and looks *)
(* again; that retry comes before the timeout is looked at.                *)
Look(t) ==
  /\ pc[t] = "look"
  /\ \/ /\ \E k \in watch[t] : Ready(k)
        /\ pc' = [pc EXCEPT ![t] = "done"]
        /\ IF op[t] = "poll" THEN UNCHANGED q
           ELSE \E k \in watch[t], n \in 0 .. MaxQ :
                  /\ Ready(k)
                  /\ n <= q[k] /\ (q[k] > 0 => n > 0)
                  /\ q' = [q EXCEPT ![k] = @ - n]
     \/ /\ \A k \in watch[t] : ~Ready(k)
        /\ pc' = [pc EXCEPT ![t] = IF op[t] # "poll" /\ slot[t] = NoSlot
                                   THEN "take" ELSE "check"]
        /\ UNCHANGED q
  /\ UNCHANGED <<table, life, op, slot, watch, expired, stolen>>

\* First half of dt_wait_arm: the lowest free slot, or -1.
Take(t) ==
  /\ pc[t] = "take"
  /\ \/ \E s \in Slots :
          /\ ~used[s] /\ \A r \in Slots : ~used[r] => s <= r
          /\ used' = [used EXCEPT ![s] = TRUE]
          /\ slot' = [slot EXCEPT ![t] = s]
          /\ pc' = [pc EXCEPT ![t] = IF paired[s] THEN "arm" ELSE "pair"]
     \/ /\ \A s \in Slots : used[s]
        /\ pc' = [pc EXCEPT ![t] = "look"]
        /\ UNCHANGED <<used, slot>>
  /\ UNCHANGED <<armed, any, socks, paired, wake, sockets, op, watch, expired, stolen>>

\* Mutant: a slot whose pair cannot be made stays taken.
PairLeaks(t) ==
  /\ pc[t] = "pair"
  /\ \/ /\ paired' = [paired EXCEPT ![slot[t]] = TRUE]
        /\ pc' = [pc EXCEPT ![t] = "arm"]
        /\ UNCHANGED slot
     \/ /\ slot' = [slot EXCEPT ![t] = NoSlot]
        /\ pc' = [pc EXCEPT ![t] = "look"]
        /\ UNCHANGED paired
  /\ UNCHANGED <<used, armed, any, socks, wake, sockets, op, watch, expired, stolen>>

\* The slot's socket pair is made once; failure gives the slot back.
Pair(t) ==
  /\ pc[t] = "pair"
  /\ \/ /\ paired' = [paired EXCEPT ![slot[t]] = TRUE]
        /\ pc' = [pc EXCEPT ![t] = "arm"]
        /\ UNCHANGED <<used, slot>>
     \/ /\ used' = [used EXCEPT ![slot[t]] = FALSE]
        /\ slot' = [slot EXCEPT ![t] = NoSlot]
        /\ pc' = [pc EXCEPT ![t] = "look"]
        /\ UNCHANGED paired
  /\ UNCHANGED <<armed, any, socks, wake, sockets, op, watch, expired, stolen>>

\* Second half of dt_wait_arm: more sockets than a slot can name watches all.
Arm(t) ==
  /\ pc[t] = "arm"
  /\ LET wide == Cardinality(watch[t]) > WaitNS IN
       /\ any' = [any EXCEPT ![slot[t]] = wide]
       /\ socks' = [socks EXCEPT ![slot[t]] = IF wide THEN {} ELSE watch[t]]
  /\ armed' = [armed EXCEPT ![slot[t]] = TRUE]
  /\ stolen' = [stolen EXCEPT ![slot[t]] = FALSE]
  /\ pc' = [pc EXCEPT ![t] = "look"]
  /\ UNCHANGED <<used, paired, wake, sockets, op, slot, watch, expired>>

\* The timeout and the "closed under us" test before the sleep.
Check(t) ==
  /\ pc[t] = "check"
  /\ pc' = [pc EXCEPT ![t] = IF expired[t] \/ \E k \in watch[t] : life[k] = "gone"
                             THEN "done" ELSE "sleep"]
  /\ UNCHANGED <<table, sockets, op, slot, watch, expired, stolen>>

\* The clock passes the call's timeout.
Expire(t) ==
  /\ pc[t] # "idle" /\ op[t] = "recvtimeo" /\ ~expired[t]
  /\ expired' = [expired EXCEPT ![t] = TRUE]
  /\ UNCHANGED <<table, sockets, pc, op, slot, watch, stolen>>

\* recv rearms at once after the sleep, poll scans first.
AfterSleep(t) == IF op[t] = "poll" THEN "relook" ELSE "drain"

\* dt_wait_sleep ends because the slot was poked ...
Wake(t) ==
  /\ pc[t] = "sleep" /\ slot[t] # NoSlot /\ wake[slot[t]]
  /\ pc' = [pc EXCEPT ![t] = AfterSleep(t)]
  /\ UNCHANGED <<table, sockets, op, slot, watch, expired, stolen>>

\* Mutant: only a call without a slot sleeps for a bounded time.
BackstopSlotless(t) ==
  /\ pc[t] = "sleep" /\ slot[t] = NoSlot
  /\ pc' = [pc EXCEPT ![t] = AfterSleep(t)]
  /\ UNCHANGED <<table, sockets, op, slot, watch, expired, stolen>>

\* ... or after DT_WAIT_BACKSTOP_MS.
Backstop(t) ==
  /\ pc[t] = "sleep"
  /\ pc' = [pc EXCEPT ![t] = AfterSleep(t)]
  /\ UNCHANGED <<table, sockets, op, slot, watch, expired, stolen>>

\* The scan dt_poll_core makes between its sleep and its rearm.
Relook(t) ==
  /\ pc[t] = "relook"
  /\ pc' = [pc EXCEPT ![t] = IF \E k \in watch[t] : Ready(k) THEN "done" ELSE "drain"]
  /\ UNCHANGED <<table, sockets, op, slot, watch, expired, stolen>>

\* dt_wait_rearm: drain outside the lock ...
Drain(t) ==
  /\ pc[t] = "drain"
  /\ \/ /\ slot[t] = NoSlot
        /\ pc' = [pc EXCEPT ![t] = "look"]
        /\ UNCHANGED wake
     \/ /\ slot[t] # NoSlot
        /\ wake' = [wake EXCEPT ![slot[t]] = FALSE]
        /\ pc' = [pc EXCEPT ![t] = "rearm"]
  /\ UNCHANGED <<used, armed, any, socks, paired, sockets, op, slot, watch, expired, stolen>>

\* ... then arm under it, and look again.
Rearm(t) ==
  /\ pc[t] = "rearm"
  /\ armed' = [armed EXCEPT ![slot[t]] = TRUE]
  /\ stolen' = [stolen EXCEPT ![slot[t]] = FALSE]
  /\ pc' = [pc EXCEPT ![t] = "look"]
  /\ UNCHANGED <<used, any, socks, paired, wake, sockets, op, slot, watch, expired>>

\* dt_wait_done: the slot is free for others here ...
Done(t) ==
  /\ pc[t] = "done"
  /\ \/ /\ slot[t] = NoSlot
        /\ pc' = [pc EXCEPT ![t] = "idle"]
        /\ UNCHANGED <<used, armed>>
     \/ /\ slot[t] # NoSlot
        /\ used' = [used EXCEPT ![slot[t]] = FALSE]
        /\ armed' = [armed EXCEPT ![slot[t]] = FALSE]
        /\ pc' = [pc EXCEPT ![t] = "donedrain"]
  /\ UNCHANGED <<any, socks, paired, wake, sockets, op, slot, watch, expired, stolen>>

\* ... but its wake fd is drained here, after the unlock.  stolen records
\* that the datagram read was the wake of the slot's next user.
DoneDrain(t) ==
  /\ pc[t] = "donedrain"
  /\ wake' = [wake EXCEPT ![slot[t]] = FALSE]
  /\ stolen' = [stolen EXCEPT ![slot[t]] = @ \/ (wake[slot[t]] /\ used[slot[t]])]
  /\ slot' = [slot EXCEPT ![t] = NoSlot]
  /\ pc' = [pc EXCEPT ![t] = "idle"]
  /\ UNCHANGED <<used, armed, any, socks, paired, sockets, op, watch, expired>>

-----------------------------------------------------------------------------
\* dt_wait_poke_locked: every armed slot that watches k, once.
Hit(s, k) == used[s] /\ armed[s] /\ (any[s] \/ k \in socks[s])

Poke(k) ==
  /\ armed' = [s \in Slots |-> armed[s] /\ ~Hit(s, k)]
  /\ wake' = [s \in Slots |-> wake[s] \/ Hit(s, k)]

PumpUnchanged == UNCHANGED <<used, any, socks, paired, pc, op, slot, watch, expired, stolen>>

\* The pump queues bytes for the application.
Enqueue(k) ==
  /\ life[k] = "open" /\ q[k] < MaxQ
  /\ q' = [q EXCEPT ![k] = @ + 1]
  /\ Poke(k)
  /\ UNCHANGED life /\ PumpUnchanged

\* Mutant: the end of the stream is not signalled.
FinSilent(k) ==
  /\ life[k] = "open"
  /\ life' = [life EXCEPT ![k] = "fin"]
  /\ UNCHANGED <<q, armed, wake>> /\ PumpUnchanged

\* The peer's FIN: an edge, signalled only when no bytes are queued.
Fin(k) ==
  /\ life[k] = "open"
  /\ life' = [life EXCEPT ![k] = "fin"]
  /\ IF q[k] = 0 THEN Poke(k) ELSE UNCHANGED <<armed, wake>>
  /\ UNCHANGED q /\ PumpUnchanged

\* Another thread of the application closes the socket.
Close(k) ==
  /\ life[k] # "gone"
  /\ life' = [life EXCEPT ![k] = "gone"]
  /\ q' = [q EXCEPT ![k] = 0]
  /\ Poke(k)
  /\ PumpUnchanged

\* The application connects a new stream under the same descriptor.
Reopen(k) ==
  /\ life[k] = "gone"
  /\ life' = [life EXCEPT ![k] = "open"]
  /\ UNCHANGED <<table, q, pc, op, slot, watch, expired, stolen>>

Blocked(t) ==
  \/ Look(t) \/ Take(t) \/ Pair(t) \/ Arm(t) \/ Check(t) \/ Wake(t)
  \/ Backstop(t) \/ Relook(t) \/ Drain(t) \/ Rearm(t) \/ Done(t) \/ DoneDrain(t)

Pump(k) == Enqueue(k) \/ Fin(k) \/ Close(k) \/ Reopen(k)

Next ==
  \/ \E t \in Threads : Call(t) \/ Expire(t) \/ Blocked(t)
  \/ \E k \in Socks : Pump(k)

Spec == Init /\ [][Next]_vars

\* Threads that have entered a call keep running and the clock advances.
FairSpec ==
  /\ Spec
  /\ \A t \in Threads : WF_vars(Blocked(t)) /\ WF_vars(Expire(t))

-----------------------------------------------------------------------------
TypeOK ==
  /\ used \in [Slots -> BOOLEAN]
  /\ armed \in [Slots -> BOOLEAN]
  /\ any \in [Slots -> BOOLEAN]
  /\ socks \in [Slots -> SUBSET Socks]
  /\ paired \in [Slots -> BOOLEAN]
  /\ wake \in [Slots -> BOOLEAN]
  /\ stolen \in [Slots -> BOOLEAN]
  /\ q \in [Socks -> 0 .. MaxQ]
  /\ life \in [Socks -> {"open", "fin", "gone"}]
  /\ pc \in [Threads -> PCs]
  /\ op \in [Threads -> Ops]
  /\ slot \in [Threads -> Slots \union {NoSlot}]
  /\ watch \in [Threads -> SUBSET Socks]
  /\ expired \in [Threads -> BOOLEAN]

\* The threads inside dt_wait_arm .. dt_wait_done with a slot.
Owns(t) == slot[t] # NoSlot /\ pc[t] # "donedrain"

(* No two blocked calls ever hold the same slot, and a slot marked used is *)
(* held by somebody: dt_wait_arm and dt_wait_done neither share nor leak   *)
(* one, whichever way the call ends (data, timeout, close, pair failure).  *)
SlotExclusive ==
  /\ \A t, u \in Threads : Owns(t) /\ Owns(u) /\ slot[t] = slot[u] => t = u
  /\ \A s \in Slots : used[s] <=> \E t \in Threads : Owns(t) /\ slot[t] = s

(* "An event is either seen by the scan or pokes the fd": a thread asleep  *)
(* on its slot while a watched socket wants attention has a wake pending,  *)
(* unless the late drain of dt_wait_done took it.                          *)
WakeKept ==
  \A t \in Threads :
    /\ pc[t] = "sleep" /\ slot[t] # NoSlot /\ ~stolen[slot[t]]
    /\ \E k \in watch[t] : Attention(k)
    => wake[slot[t]]

(* A call blocked on a stream that has ended returns, a lost wake or an    *)
(* exhausted pool notwithstanding: the backstop bounds every sleep.        *)
FinReleases ==
  \A t \in Threads, k \in Socks :
    (pc[t] # "idle" /\ k \in watch[t] /\ life[k] = "fin")
      ~> (pc[t] = "idle" \/ life[k] # "fin")
=============================================================================
