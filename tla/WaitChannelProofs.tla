------------------------- MODULE WaitChannelProofs -------------------------
(***************************************************************************)
(* Proofs about WaitChannel: for any number of threads, sockets and slots, *)
(* the pool neither shares nor leaks a slot, and the late drain of         *)
(* dt_wait_done is the only way a wake can be lost.                        *)
(***************************************************************************)
EXTENDS WaitChannel, TLAPS

\* The states of a call that holds an armed or once armed slot.
Settled == {"look", "check", "sleep", "relook", "drain", "rearm", "done"}

\* A slot is held from Take to DoneDrain.
SlotPC ==
  \A t \in Threads :
    /\ pc[t] \in {"pair", "arm", "rearm", "donedrain"} => slot[t] # NoSlot
    /\ pc[t] \in {"idle", "take"} => slot[t] = NoSlot

\* The slot of a settled call watches that call's sockets.
Watching ==
  \A t \in Threads :
    slot[t] # NoSlot /\ pc[t] \in Settled
      => any[slot[t]] \/ socks[slot[t]] = watch[t]

\* From the arm to the sleep the slot is armed, or was poked since.
Covered ==
  \A t \in Threads :
    slot[t] # NoSlot /\ pc[t] \in {"look", "check", "sleep"}
      => armed[slot[t]] \/ wake[slot[t]] \/ stolen[slot[t]]

\* A call about to sleep, or asleep, on a socket that wants attention.
Stale(t, k) ==
  \/ pc[t] = "check" /\ Ready(k)
  \/ pc[t] = "sleep" /\ Attention(k)

\* A slot still armed after the look means nothing has happened since.
Fresh ==
  \A t \in Threads :
    slot[t] # NoSlot /\ armed[slot[t]] => \A k \in watch[t] : ~Stale(t, k)

\* The two halves of SlotExclusive and the converse of the second.
UniqueOwner ==
  \A t, u \in Threads : Owns(t) /\ Owns(u) /\ slot[t] = slot[u] => t = u

OwnerUsed == \A t \in Threads : Owns(t) => used[slot[t]]

NoLeak == \A s \in Slots : used[s] => \E t \in Threads : Owns(t) /\ slot[t] = s

\* The inductive invariant.
IInv == TypeOK /\ UniqueOwner /\ OwnerUsed /\ NoLeak /\ SlotPC /\ Watching /\ Covered /\ Fresh

USE DEF Slots, NoSlot, Ops, PCs

-----------------------------------------------------------------------------
\* No slot is used and no call is blocked at the start.
LEMMA InitIInv == Init => IInv
BY MaxQAssumption, MaxWaitAssumption
      DEF Init, IInv, TypeOK, UniqueOwner, OwnerUsed, NoLeak, Owns, SlotPC, Watching,
          Covered, Fresh, Stale, Settled

\* Each step of the pool, of a call and of a pump keeps the types.
LEMMA TypeStep == TypeOK /\ SlotPC /\ [Next]_vars => TypeOK'
<1> SUFFICES ASSUME TypeOK, SlotPC, [Next]_vars PROVE TypeOK'
  OBVIOUS
<1> USE MaxQAssumption, MaxWaitAssumption
<1>1. ASSUME NEW t \in Threads, Call(t) PROVE TypeOK'
  BY <1>1 DEF TypeOK, Call, table, sockets
<1>2. ASSUME NEW t \in Threads, Expire(t) PROVE TypeOK'
  BY <1>2 DEF TypeOK, Expire, table, sockets
<1>3. ASSUME NEW t \in Threads, Blocked(t) PROVE TypeOK'
  <2>1. CASE Look(t)
    <3>1. CASE UNCHANGED q
      BY <2>1, <3>1 DEF TypeOK, Look, table, sockets
    <3>2. ASSUME NEW k \in watch[t], NEW n \in 0 .. MaxQ,
                 n <= q[k], q' = [q EXCEPT ![k] = @ - n]
          PROVE  q' \in [Socks -> 0 .. MaxQ]
      <4>1. k \in Socks /\ q[k] \in 0 .. MaxQ
        BY DEF TypeOK
      <4>2. q[k] - n \in 0 .. MaxQ
        BY <3>2, <4>1
      <4> QED BY <3>2, <4>1, <4>2 DEF TypeOK
    <3>3. q' \in [Socks -> 0 .. MaxQ]
      BY <2>1, <3>1, <3>2 DEF Look, TypeOK
    <3>4. pc' \in [Threads -> PCs]
      BY <2>1 DEF TypeOK, Look
    <3>5. UNCHANGED <<used, armed, any, socks, paired, wake,
                      life, op, slot, watch, expired, stolen>>
      BY <2>1 DEF Look, table
    <3> QED BY <3>3, <3>4, <3>5 DEF TypeOK
  <2>2. CASE Take(t)
    <3>1. /\ used' \in [Slots -> BOOLEAN]
          /\ slot' \in [Threads -> Slots \union {NoSlot}]
          /\ pc' \in [Threads -> PCs]
      <4>1. ASSUME NEW s \in Slots,
                   used' = [used EXCEPT ![s] = TRUE],
                   slot' = [slot EXCEPT ![t] = s],
                   pc' = [pc EXCEPT ![t] = IF paired[s] THEN "arm" ELSE "pair"]
            PROVE  <3>1!:
        BY <4>1 DEF TypeOK
      <4>2. CASE pc' = [pc EXCEPT ![t] = "look"] /\ UNCHANGED <<used, slot>>
        BY <4>2 DEF TypeOK
      <4> QED BY <2>2, <4>1, <4>2 DEF Take
    <3> QED BY <2>2, <3>1 DEF TypeOK, Take, sockets
  <2>3. CASE Pair(t)
    BY <2>3 DEF TypeOK, Pair, sockets, SlotPC
  <2>4. CASE Arm(t)
    BY <2>4 DEF TypeOK, Arm, sockets, SlotPC
  <2>5. CASE Check(t)
    BY <2>5 DEF TypeOK, Check, table, sockets
  <2>6. CASE Wake(t) \/ Backstop(t)
    BY <2>6 DEF TypeOK, Wake, Backstop, AfterSleep, table, sockets
  <2>7. CASE Relook(t)
    BY <2>7 DEF TypeOK, Relook, table, sockets
  <2>8. CASE Drain(t)
    BY <2>8 DEF TypeOK, Drain, sockets
  <2>9. CASE Rearm(t)
    BY <2>9 DEF TypeOK, Rearm, sockets, SlotPC
  <2>10. CASE Done(t)
    BY <2>10 DEF TypeOK, Done, sockets
  <2>11. CASE DoneDrain(t)
    BY <2>11 DEF TypeOK, DoneDrain, sockets, SlotPC
  <2> QED BY <1>3, <2>1, <2>2, <2>3, <2>4, <2>5, <2>6, <2>7, <2>8, <2>9, <2>10, <2>11
          DEF Blocked
<1>4. ASSUME NEW k \in Socks, Pump(k) PROVE TypeOK'
  <2>1. CASE Enqueue(k)
    BY <1>4, <2>1 DEF TypeOK, Enqueue, Poke, Hit, PumpUnchanged
  <2>2. CASE Fin(k)
    BY ZenonT(60), <1>4, <2>2 DEF TypeOK, Fin, Poke, Hit, PumpUnchanged
  <2>3. CASE Close(k)
    BY <1>4, <2>3 DEF TypeOK, Close, Poke, Hit, PumpUnchanged
  <2>4. CASE Reopen(k)
    BY <1>4, <2>4 DEF TypeOK, Reopen, table
  <2> QED BY <1>4, <2>1, <2>2, <2>3, <2>4 DEF Pump
<1>5. CASE UNCHANGED vars
  BY <1>5 DEF TypeOK, vars
<1> QED BY <1>1, <1>2, <1>3, <1>4, <1>5 DEF Next

\* Where a call stands tells whether it holds a slot.
LEMMA SlotPCStep == TypeOK /\ SlotPC /\ [Next]_vars => SlotPC'
<1> SUFFICES ASSUME TypeOK, SlotPC, [Next]_vars PROVE SlotPC'
  BY DEF SlotPC
<1> USE MaxWaitAssumption
<1>1. ASSUME NEW t \in Threads, Call(t) PROVE SlotPC'
  BY <1>1 DEF TypeOK, SlotPC, Call, table, sockets
<1>2. ASSUME NEW t \in Threads, Expire(t) PROVE SlotPC'
  BY <1>2 DEF TypeOK, SlotPC, Expire, table, sockets
<1>3. ASSUME NEW t \in Threads, Blocked(t) PROVE SlotPC'
  <2>1. CASE Look(t)
    BY <2>1 DEF TypeOK, SlotPC, Look, table, sockets
  <2>2. CASE Take(t)
    BY <2>2 DEF TypeOK, SlotPC, Take, sockets
  <2>3. CASE Pair(t)
    BY <2>3 DEF TypeOK, SlotPC, Pair, sockets
  <2>4. CASE Arm(t)
    BY <2>4 DEF TypeOK, SlotPC, Arm, sockets
  <2>5. CASE Check(t)
    BY <2>5 DEF TypeOK, SlotPC, Check, table, sockets
  <2>6. CASE Wake(t) \/ Backstop(t)
    BY <2>6 DEF TypeOK, SlotPC, Wake, Backstop, AfterSleep, table, sockets
  <2>7. CASE Relook(t)
    BY <2>7 DEF TypeOK, SlotPC, Relook, table, sockets
  <2>8. CASE Drain(t)
    BY <2>8 DEF TypeOK, SlotPC, Drain, sockets
  <2>9. CASE Rearm(t)
    BY <2>9 DEF TypeOK, SlotPC, Rearm, sockets
  <2>10. CASE Done(t)
    BY <2>10 DEF TypeOK, SlotPC, Done, sockets
  <2>11. CASE DoneDrain(t)
    BY <2>11 DEF TypeOK, SlotPC, DoneDrain, sockets
  <2> QED BY <1>3, <2>1, <2>2, <2>3, <2>4, <2>5, <2>6, <2>7, <2>8, <2>9, <2>10, <2>11
          DEF Blocked
<1>4. ASSUME NEW k \in Socks, Pump(k) PROVE SlotPC'
  <2>1. CASE Enqueue(k)
    BY <2>1 DEF TypeOK, SlotPC, Enqueue, Poke, Hit, PumpUnchanged
  <2>2. CASE Fin(k)
    BY <2>2 DEF TypeOK, SlotPC, Fin, Poke, Hit, PumpUnchanged
  <2>3. CASE Close(k)
    BY <2>3 DEF TypeOK, SlotPC, Close, Poke, Hit, PumpUnchanged
  <2>4. CASE Reopen(k)
    BY <2>4 DEF TypeOK, SlotPC, Reopen, table
  <2> QED BY <1>4, <2>1, <2>2, <2>3, <2>4 DEF Pump
<1>5. CASE UNCHANGED vars
  BY <1>5 DEF TypeOK, SlotPC, vars
<1> QED BY <1>1, <1>2, <1>3, <1>4, <1>5 DEF Next

\* A call takes only a slot that nobody holds.
LEMMA UniqueOwnerStep ==
  /\ TypeOK /\ SlotPC /\ OwnerUsed /\ UniqueOwner /\ [Next]_vars
  => UniqueOwner'
<1> SUFFICES ASSUME TypeOK, SlotPC, OwnerUsed, UniqueOwner, [Next]_vars, NEW v \in Threads, NEW u \in Threads,
                    Owns(v)', Owns(u)', slot'[v] = slot'[u] PROVE v = u
  BY DEF UniqueOwner
<1> USE MaxWaitAssumption
<1>1. ASSUME NEW t \in Threads, Call(t) PROVE v = u
  BY <1>1 DEF TypeOK, SlotPC, OwnerUsed, UniqueOwner, Owns, Call, table, sockets
<1>2. ASSUME NEW t \in Threads, Expire(t) PROVE v = u
  BY <1>2 DEF TypeOK, SlotPC, OwnerUsed, UniqueOwner, Owns, Expire, table, sockets
<1>3. ASSUME NEW t \in Threads, Blocked(t) PROVE v = u
  <2>1. CASE Look(t)
    BY ZenonT(60), <2>1 DEF TypeOK, SlotPC, OwnerUsed, UniqueOwner, Owns, Look, table, sockets
  <2>2. CASE Take(t)
    <3>1. CASE pc' = [pc EXCEPT ![t] = "look"] /\ UNCHANGED <<used, slot>>
      BY <2>2, <3>1 DEF TypeOK, SlotPC, UniqueOwner, Owns, Take
    <3>2. CASE \E s \in Slots :
                 /\ ~used[s]
                 /\ slot' = [slot EXCEPT ![t] = s]
                 /\ pc' = [pc EXCEPT ![t] = IF paired[s] THEN "arm" ELSE "pair"]
      <4>0. PICK s \in Slots :
              /\ ~used[s]
              /\ slot' = [slot EXCEPT ![t] = s]
              /\ pc' = [pc EXCEPT ![t] = IF paired[s] THEN "arm" ELSE "pair"]
        BY <3>2
      <4>1. \A w \in Threads : w # t /\ Owns(w)' => Owns(w) /\ slot'[w] # s
        BY <4>0 DEF TypeOK, OwnerUsed, Owns
      <4>2. slot'[t] = s
        BY <4>0 DEF TypeOK
      <4>3. \A w \in Threads : w # t => slot'[w] = slot[w]
        BY <4>0 DEF TypeOK
      <4> QED BY <4>1, <4>2, <4>3 DEF UniqueOwner
    <3> QED BY <2>2, <3>1, <3>2 DEF Take
  <2>3. CASE Pair(t)
    <3>1. CASE pc' = [pc EXCEPT ![t] = "arm"] /\ UNCHANGED slot
      BY <2>3, <3>1 DEF TypeOK, UniqueOwner, Owns, Pair
    <3>2. CASE pc' = [pc EXCEPT ![t] = "look"] /\ slot' = [slot EXCEPT ![t] = NoSlot]
      BY <3>2 DEF TypeOK, UniqueOwner, Owns
    <3> QED BY <2>3, <3>1, <3>2 DEF Pair
  <2>4. CASE Arm(t)
    BY <2>4 DEF TypeOK, SlotPC, OwnerUsed, UniqueOwner, Owns, Arm, sockets
  <2>5. CASE Check(t)
    BY <2>5 DEF TypeOK, SlotPC, OwnerUsed, UniqueOwner, Owns, Check, table, sockets
  <2>6. CASE Wake(t) \/ Backstop(t)
    BY <2>6
       DEF TypeOK, SlotPC, OwnerUsed, UniqueOwner, Owns, Wake, Backstop, AfterSleep,
           table, sockets
  <2>7. CASE Relook(t)
    BY <2>7 DEF TypeOK, SlotPC, OwnerUsed, UniqueOwner, Owns, Relook, table, sockets
  <2>8. CASE Drain(t)
    BY ZenonT(60), <2>8 DEF TypeOK, SlotPC, OwnerUsed, UniqueOwner, Owns, Drain, sockets
  <2>9. CASE Rearm(t)
    BY <2>9 DEF TypeOK, SlotPC, OwnerUsed, UniqueOwner, Owns, Rearm, sockets
  <2>10. CASE Done(t)
    BY ZenonT(60), <2>10 DEF TypeOK, SlotPC, OwnerUsed, UniqueOwner, Owns, Done, sockets
  <2>11. CASE DoneDrain(t)
    BY <2>11 DEF TypeOK, SlotPC, OwnerUsed, UniqueOwner, Owns, DoneDrain, sockets
  <2> QED BY <1>3, <2>1, <2>2, <2>3, <2>4, <2>5, <2>6, <2>7, <2>8, <2>9, <2>10, <2>11
          DEF Blocked
<1>4. ASSUME NEW k \in Socks, Pump(k) PROVE v = u
  <2>1. CASE Enqueue(k)
    BY <2>1
       DEF TypeOK, SlotPC, OwnerUsed, UniqueOwner, Owns, Enqueue, Poke, Hit,
           PumpUnchanged
  <2>2. CASE Fin(k)
    BY <2>2 DEF TypeOK, SlotPC, OwnerUsed, UniqueOwner, Owns, Fin, Poke, Hit, PumpUnchanged
  <2>3. CASE Close(k)
    BY <2>3 DEF TypeOK, SlotPC, OwnerUsed, UniqueOwner, Owns, Close, Poke, Hit,
       PumpUnchanged
  <2>4. CASE Reopen(k)
    BY <2>4 DEF TypeOK, SlotPC, OwnerUsed, UniqueOwner, Owns, Reopen, table
  <2> QED BY <1>4, <2>1, <2>2, <2>3, <2>4 DEF Pump
<1>5. CASE UNCHANGED vars
  BY <1>5 DEF TypeOK, SlotPC, OwnerUsed, UniqueOwner, Owns, vars
<1> QED BY <1>1, <1>2, <1>3, <1>4, <1>5 DEF Next

\* Only its owner frees a slot.
LEMMA OwnerUsedStep ==
  /\ TypeOK /\ SlotPC /\ UniqueOwner /\ OwnerUsed /\ [Next]_vars
  => OwnerUsed'
<1> SUFFICES ASSUME TypeOK, SlotPC, UniqueOwner, OwnerUsed, [Next]_vars PROVE OwnerUsed'
  BY DEF OwnerUsed
<1> USE MaxWaitAssumption
<1>1. ASSUME NEW t \in Threads, Call(t) PROVE OwnerUsed'
  BY <1>1 DEF TypeOK, SlotPC, UniqueOwner, OwnerUsed, Owns, Call, table, sockets
<1>2. ASSUME NEW t \in Threads, Expire(t) PROVE OwnerUsed'
  BY <1>2 DEF TypeOK, SlotPC, UniqueOwner, OwnerUsed, Owns, Expire, table, sockets
<1>3. ASSUME NEW t \in Threads, Blocked(t) PROVE OwnerUsed'
  <2>1. CASE Look(t)
    BY <2>1 DEF TypeOK, SlotPC, UniqueOwner, OwnerUsed, Owns, Look, table, sockets
  <2>2. CASE Take(t)
    BY <2>2 DEF TypeOK, SlotPC, UniqueOwner, OwnerUsed, Owns, Take, sockets
  <2>3. CASE Pair(t)
    BY <2>3 DEF TypeOK, SlotPC, UniqueOwner, OwnerUsed, Owns, Pair, sockets
  <2>4. CASE Arm(t)
    BY <2>4 DEF TypeOK, SlotPC, UniqueOwner, OwnerUsed, Owns, Arm, sockets
  <2>5. CASE Check(t)
    BY <2>5 DEF TypeOK, SlotPC, UniqueOwner, OwnerUsed, Owns, Check, table, sockets
  <2>6. CASE Wake(t) \/ Backstop(t)
    BY <2>6
       DEF TypeOK, SlotPC, UniqueOwner, OwnerUsed, Owns, Wake, Backstop, AfterSleep,
           table, sockets
  <2>7. CASE Relook(t)
    BY <2>7 DEF TypeOK, SlotPC, UniqueOwner, OwnerUsed, Owns, Relook, table, sockets
  <2>8. CASE Drain(t)
    BY <2>8 DEF TypeOK, SlotPC, UniqueOwner, OwnerUsed, Owns, Drain, sockets
  <2>9. CASE Rearm(t)
    BY <2>9 DEF TypeOK, SlotPC, UniqueOwner, OwnerUsed, Owns, Rearm, sockets
  <2>10. CASE Done(t)
    BY <2>10 DEF TypeOK, SlotPC, UniqueOwner, OwnerUsed, Owns, Done, sockets
  <2>11. CASE DoneDrain(t)
    BY <2>11 DEF TypeOK, SlotPC, UniqueOwner, OwnerUsed, Owns, DoneDrain, sockets
  <2> QED BY <1>3, <2>1, <2>2, <2>3, <2>4, <2>5, <2>6, <2>7, <2>8, <2>9, <2>10, <2>11
          DEF Blocked
<1>4. ASSUME NEW k \in Socks, Pump(k) PROVE OwnerUsed'
  <2>1. CASE Enqueue(k)
    BY <2>1
       DEF TypeOK, SlotPC, UniqueOwner, OwnerUsed, Owns, Enqueue, Poke, Hit,
           PumpUnchanged
  <2>2. CASE Fin(k)
    BY <2>2 DEF TypeOK, SlotPC, UniqueOwner, OwnerUsed, Owns, Fin, Poke, Hit, PumpUnchanged
  <2>3. CASE Close(k)
    BY <2>3 DEF TypeOK, SlotPC, UniqueOwner, OwnerUsed, Owns, Close, Poke, Hit,
       PumpUnchanged
  <2>4. CASE Reopen(k)
    BY <2>4 DEF TypeOK, SlotPC, UniqueOwner, OwnerUsed, Owns, Reopen, table
  <2> QED BY <1>4, <2>1, <2>2, <2>3, <2>4 DEF Pump
<1>5. CASE UNCHANGED vars
  BY <1>5 DEF TypeOK, SlotPC, UniqueOwner, OwnerUsed, Owns, vars
<1> QED BY <1>1, <1>2, <1>3, <1>4, <1>5 DEF Next

\* A call that leaves frees its slot.
LEMMA NoLeakStep == TypeOK /\ SlotPC /\ NoLeak /\ [Next]_vars => NoLeak'
<1> SUFFICES ASSUME TypeOK, SlotPC, NoLeak, [Next]_vars, NEW s \in Slots, used'[s]
             PROVE  \E u \in Threads : Owns(u)' /\ slot'[u] = s
  BY DEF NoLeak
<1> USE MaxWaitAssumption
<1>1. ASSUME NEW t \in Threads, Call(t) PROVE \E u \in Threads : Owns(u)' /\ slot'[u] = s
  BY <1>1 DEF TypeOK, SlotPC, NoLeak, Owns, Call, table, sockets
<1>2. ASSUME NEW t \in Threads, Expire(t) PROVE \E u \in Threads : Owns(u)' /\ slot'[u] = s
  BY <1>2 DEF TypeOK, SlotPC, NoLeak, Owns, Expire, table, sockets
<1>3. ASSUME NEW t \in Threads, Blocked(t) PROVE \E u \in Threads : Owns(u)' /\ slot'[u] = s
  <2>1. CASE Look(t)
    BY <2>1 DEF TypeOK, SlotPC, NoLeak, Owns, Look, table, sockets
  <2>2. CASE Take(t)
    <3>1. CASE used[s]
      <4>1. PICK u \in Threads : Owns(u) /\ slot[u] = s
        BY <3>1 DEF NoLeak
      <4>2. u # t
        BY <2>2, <4>1 DEF Owns, SlotPC, Take
      <4> QED BY <2>2, <4>1, <4>2 DEF Owns, Take, TypeOK
    <3>2. CASE ~used[s]
      <4>1. PICK r \in Slots :
              /\ used' = [used EXCEPT ![r] = TRUE]
              /\ slot' = [slot EXCEPT ![t] = r]
              /\ pc' = [pc EXCEPT ![t] = IF paired[r] THEN "arm" ELSE "pair"]
        BY <2>2, <3>2 DEF Take
      <4>2. r = s
        BY <3>2, <4>1 DEF TypeOK
      <4> QED BY <4>1, <4>2 DEF Owns, TypeOK
    <3> QED BY <3>1, <3>2
  <2>3. CASE Pair(t)
    <3>1. PICK u \in Threads : Owns(u) /\ slot[u] = s
      BY <2>3 DEF NoLeak, Pair, TypeOK, SlotPC
    <3>2. CASE u = t
      BY <2>3, <3>1, <3>2 DEF Owns, Pair, TypeOK, SlotPC
    <3>3. CASE u # t
      BY <2>3, <3>1, <3>3 DEF Owns, Pair, TypeOK
    <3> QED BY <3>2, <3>3
  <2>4. CASE Arm(t)
    BY <2>4 DEF TypeOK, SlotPC, NoLeak, Owns, Arm, sockets
  <2>5. CASE Check(t)
    BY <2>5 DEF TypeOK, SlotPC, NoLeak, Owns, Check, table, sockets
  <2>6. CASE Wake(t) \/ Backstop(t)
    BY <2>6 DEF TypeOK, SlotPC, NoLeak, Owns, Wake, Backstop, AfterSleep, table, sockets
  <2>7. CASE Relook(t)
    BY <2>7 DEF TypeOK, SlotPC, NoLeak, Owns, Relook, table, sockets
  <2>8. CASE Drain(t)
    BY <2>8 DEF TypeOK, SlotPC, NoLeak, Owns, Drain, sockets
  <2>9. CASE Rearm(t)
    BY <2>9 DEF TypeOK, SlotPC, NoLeak, Owns, Rearm, sockets
  <2>10. CASE Done(t)
    BY <2>10 DEF TypeOK, SlotPC, NoLeak, Owns, Done, sockets
  <2>11. CASE DoneDrain(t)
    BY <2>11 DEF TypeOK, SlotPC, NoLeak, Owns, DoneDrain, sockets
  <2> QED BY <1>3, <2>1, <2>2, <2>3, <2>4, <2>5, <2>6, <2>7, <2>8, <2>9, <2>10, <2>11
          DEF Blocked
<1>4. ASSUME NEW k \in Socks, Pump(k) PROVE \E u \in Threads : Owns(u)' /\ slot'[u] = s
  <2>1. CASE Enqueue(k)
    BY <2>1 DEF TypeOK, SlotPC, NoLeak, Owns, Enqueue, Poke, Hit, PumpUnchanged
  <2>2. CASE Fin(k)
    BY <2>2 DEF TypeOK, SlotPC, NoLeak, Owns, Fin, Poke, Hit, PumpUnchanged
  <2>3. CASE Close(k)
    BY <2>3 DEF TypeOK, SlotPC, NoLeak, Owns, Close, Poke, Hit, PumpUnchanged
  <2>4. CASE Reopen(k)
    BY <2>4 DEF TypeOK, SlotPC, NoLeak, Owns, Reopen, table
  <2> QED BY <1>4, <2>1, <2>2, <2>3, <2>4 DEF Pump
<1>5. CASE UNCHANGED vars
  BY <1>5 DEF TypeOK, SlotPC, NoLeak, Owns, vars
<1> QED BY <1>1, <1>2, <1>3, <1>4, <1>5 DEF Next

\* The watch list of a slot is written by its owner alone.
LEMMA WatchingStep ==
  /\ TypeOK /\ SlotPC /\ UniqueOwner /\ OwnerUsed /\ Watching /\ [Next]_vars
  => Watching'
<1> SUFFICES ASSUME TypeOK, SlotPC, UniqueOwner, OwnerUsed, Watching, [Next]_vars
             PROVE  Watching'
  BY DEF Watching
<1> USE MaxWaitAssumption
<1>1. ASSUME NEW t \in Threads, Call(t) PROVE Watching'
  BY <1>1
     DEF TypeOK, SlotPC, UniqueOwner, OwnerUsed, Owns, Watching, Settled, Call, table,
         sockets
<1>2. ASSUME NEW t \in Threads, Expire(t) PROVE Watching'
  BY <1>2
     DEF TypeOK, SlotPC, UniqueOwner, OwnerUsed, Owns, Watching, Settled, Expire, table,
         sockets
<1>3. ASSUME NEW t \in Threads, Blocked(t) PROVE Watching'
  <2>1. CASE Look(t)
    BY <2>1
       DEF TypeOK, SlotPC, UniqueOwner, OwnerUsed, Owns, Watching, Settled, Look, table,
           sockets
  <2>2. CASE Take(t)
    BY <2>2 DEF TypeOK, SlotPC, UniqueOwner, OwnerUsed, Owns, Watching, Settled, Take,
       sockets
  <2>3. CASE Pair(t)
    BY <2>3 DEF TypeOK, SlotPC, UniqueOwner, OwnerUsed, Owns, Watching, Settled, Pair,
       sockets
  <2>4. CASE Arm(t)
    <3> SUFFICES ASSUME NEW v \in Threads, slot'[v] # NoSlot, pc'[v] \in Settled
                 PROVE  any'[slot'[v]] \/ socks'[slot'[v]] = watch'[v]
      BY DEF Watching
    <3>1. CASE v = t
      BY <2>4, <3>1 DEF TypeOK, SlotPC, Arm
    <3>2. CASE v # t
      BY <2>4, <3>2 DEF TypeOK, SlotPC, UniqueOwner, Owns, Watching, Settled, Arm
    <3> QED BY <3>1, <3>2
  <2>5. CASE Check(t)
    BY <2>5
       DEF TypeOK, SlotPC, UniqueOwner, OwnerUsed, Owns, Watching, Settled, Check, table,
           sockets
  <2>6. CASE Wake(t) \/ Backstop(t)
    BY <2>6
       DEF TypeOK, SlotPC, UniqueOwner, OwnerUsed, Owns, Watching, Settled, Wake,
           Backstop, AfterSleep, table, sockets
  <2>7. CASE Relook(t)
    BY <2>7
       DEF TypeOK, SlotPC, UniqueOwner, OwnerUsed, Owns, Watching, Settled, Relook,
           table, sockets
  <2>8. CASE Drain(t)
    BY <2>8
       DEF TypeOK, SlotPC, UniqueOwner, OwnerUsed, Owns, Watching, Settled, Drain,
           sockets
  <2>9. CASE Rearm(t)
    BY <2>9
       DEF TypeOK, SlotPC, UniqueOwner, OwnerUsed, Owns, Watching, Settled, Rearm,
           sockets
  <2>10. CASE Done(t)
    BY <2>10
       DEF TypeOK, SlotPC, UniqueOwner, OwnerUsed, Owns, Watching, Settled, Done,
           sockets
  <2>11. CASE DoneDrain(t)
    BY <2>11
       DEF TypeOK, SlotPC, UniqueOwner, OwnerUsed, Owns, Watching, Settled, DoneDrain,
           sockets
  <2> QED BY <1>3, <2>1, <2>2, <2>3, <2>4, <2>5, <2>6, <2>7, <2>8, <2>9, <2>10, <2>11
          DEF Blocked
<1>4. ASSUME NEW k \in Socks, Pump(k) PROVE Watching'
  <2>1. CASE Enqueue(k)
    BY <2>1
       DEF TypeOK, SlotPC, UniqueOwner, OwnerUsed, Owns, Watching, Settled, Enqueue,
           Poke, Hit, PumpUnchanged
  <2>2. CASE Fin(k)
    BY <2>2
       DEF TypeOK, SlotPC, UniqueOwner, OwnerUsed, Owns, Watching, Settled, Fin, Poke,
           Hit, PumpUnchanged
  <2>3. CASE Close(k)
    BY <2>3
       DEF TypeOK, SlotPC, UniqueOwner, OwnerUsed, Owns, Watching, Settled, Close, Poke,
           Hit, PumpUnchanged
  <2>4. CASE Reopen(k)
    BY <2>4 DEF TypeOK, SlotPC, UniqueOwner, OwnerUsed, Owns, Watching, Settled,
       Reopen, table
  <2> QED BY <1>4, <2>1, <2>2, <2>3, <2>4 DEF Pump
<1>5. CASE UNCHANGED vars
  BY <1>5 DEF TypeOK, SlotPC, UniqueOwner, OwnerUsed, Owns, Watching, Settled, vars
<1> QED BY <1>1, <1>2, <1>3, <1>4, <1>5 DEF Next

\* Only a poke or the late drain disarms or empties another call's slot.
LEMMA CoveredStep ==
  /\ TypeOK /\ SlotPC /\ UniqueOwner /\ OwnerUsed /\ Covered /\ [Next]_vars
  => Covered'
<1> SUFFICES ASSUME TypeOK, SlotPC, UniqueOwner, OwnerUsed, Covered, [Next]_vars
             PROVE  Covered'
  BY DEF Covered
<1> USE MaxWaitAssumption
<1>1. ASSUME NEW t \in Threads, Call(t) PROVE Covered'
  BY <1>1 DEF TypeOK, SlotPC, UniqueOwner, OwnerUsed, Owns, Covered, Call, table, sockets
<1>2. ASSUME NEW t \in Threads, Expire(t) PROVE Covered'
  BY <1>2 DEF TypeOK, SlotPC, UniqueOwner, OwnerUsed, Owns, Covered, Expire, table, sockets
<1>3. ASSUME NEW t \in Threads, Blocked(t) PROVE Covered'
  <2>1. CASE Look(t)
    BY <2>1 DEF TypeOK, SlotPC, UniqueOwner, OwnerUsed, Owns, Covered, Look, table, sockets
  <2>2. CASE Take(t)
    BY <2>2 DEF TypeOK, SlotPC, UniqueOwner, OwnerUsed, Owns, Covered, Take, sockets
  <2>3. CASE Pair(t)
    BY <2>3 DEF TypeOK, SlotPC, UniqueOwner, OwnerUsed, Owns, Covered, Pair, sockets
  <2>4. CASE Arm(t)
    BY <2>4 DEF TypeOK, SlotPC, UniqueOwner, OwnerUsed, Owns, Covered, Arm, sockets
  <2>5. CASE Check(t)
    BY <2>5 DEF TypeOK, SlotPC, UniqueOwner, OwnerUsed, Owns, Covered, Check, table, sockets
  <2>6. CASE Wake(t) \/ Backstop(t)
    BY <2>6
       DEF TypeOK, SlotPC, UniqueOwner, OwnerUsed, Owns, Covered, Wake, Backstop,
           AfterSleep, table, sockets
  <2>7. CASE Relook(t)
    BY <2>7 DEF TypeOK, SlotPC, UniqueOwner, OwnerUsed, Owns, Covered, Relook, table,
       sockets
  <2>8. CASE Drain(t)
    BY <2>8 DEF TypeOK, SlotPC, UniqueOwner, OwnerUsed, Owns, Covered, Drain, sockets
  <2>9. CASE Rearm(t)
    BY <2>9 DEF TypeOK, SlotPC, UniqueOwner, OwnerUsed, Owns, Covered, Rearm, sockets
  <2>10. CASE Done(t)
    BY <2>10 DEF TypeOK, SlotPC, UniqueOwner, OwnerUsed, Owns, Covered, Done, sockets
  <2>11. CASE DoneDrain(t)
    BY <2>11 DEF TypeOK, SlotPC, UniqueOwner, OwnerUsed, Owns, Covered, DoneDrain, sockets
  <2> QED BY <1>3, <2>1, <2>2, <2>3, <2>4, <2>5, <2>6, <2>7, <2>8, <2>9, <2>10, <2>11
          DEF Blocked
<1>4. ASSUME NEW k \in Socks, Pump(k) PROVE Covered'
  <2>1. CASE Enqueue(k)
    BY <2>1
       DEF TypeOK, SlotPC, UniqueOwner, OwnerUsed, Owns, Covered, Enqueue, Poke, Hit,
           PumpUnchanged
  <2>2. CASE Fin(k)
    BY <2>2
       DEF TypeOK, SlotPC, UniqueOwner, OwnerUsed, Owns, Covered, Fin, Poke, Hit,
           PumpUnchanged
  <2>3. CASE Close(k)
    BY <2>3
       DEF TypeOK, SlotPC, UniqueOwner, OwnerUsed, Owns, Covered, Close, Poke, Hit,
           PumpUnchanged
  <2>4. CASE Reopen(k)
    BY <2>4 DEF TypeOK, SlotPC, UniqueOwner, OwnerUsed, Owns, Covered, Reopen, table
  <2> QED BY <1>4, <2>1, <2>2, <2>3, <2>4 DEF Pump
<1>5. CASE UNCHANGED vars
  BY <1>5 DEF TypeOK, SlotPC, UniqueOwner, OwnerUsed, Owns, Covered, vars
<1> QED BY <1>1, <1>2, <1>3, <1>4, <1>5 DEF Next

\* A pump that changes a watched socket disarms the slot.
LEMMA FreshStep ==
  /\ TypeOK /\ SlotPC /\ UniqueOwner /\ OwnerUsed /\ Watching /\ Fresh /\ [Next]_vars
  => Fresh'
<1> SUFFICES ASSUME TypeOK, SlotPC, UniqueOwner, OwnerUsed, Watching, Fresh, [Next]_vars, NEW v \in Threads, slot'[v] # NoSlot,
                    armed'[slot'[v]], NEW j \in watch'[v] PROVE ~Stale(v, j)'
  BY DEF Fresh
<1> USE MaxWaitAssumption
<1>1. ASSUME NEW t \in Threads, Call(t) PROVE ~Stale(v, j)'
  BY <1>1
     DEF TypeOK, SlotPC, UniqueOwner, OwnerUsed, Owns, Watching, Settled, Fresh, Stale,
         Ready, Attention, Call, table, sockets
<1>2. ASSUME NEW t \in Threads, Expire(t) PROVE ~Stale(v, j)'
  BY <1>2
     DEF TypeOK, SlotPC, UniqueOwner, OwnerUsed, Owns, Watching, Settled, Fresh, Stale,
         Ready, Attention, Expire, table, sockets
<1>3. ASSUME NEW t \in Threads, Blocked(t) PROVE ~Stale(v, j)'
  <2>1. CASE Look(t)
    <3>1. CASE v = t
      BY <2>1, <3>1
         DEF TypeOK, SlotPC, UniqueOwner, OwnerUsed, Owns, Fresh, Stale, Ready,
             Attention, Look, table, sockets
    <3>2. CASE v # t
      BY ZenonT(60), <2>1, <3>2
         DEF TypeOK, SlotPC, UniqueOwner, OwnerUsed, Owns, Fresh, Stale, Ready,
             Attention, Look, table, sockets
    <3> QED BY <3>1, <3>2
  <2>2. CASE Take(t)
    <3>1. CASE v = t
      BY <2>2, <3>1
         DEF TypeOK, SlotPC, UniqueOwner, OwnerUsed, Owns, Fresh, Stale, Ready,
             Attention, Take, sockets
    <3>2. CASE v # t
      BY <2>2, <3>2
         DEF TypeOK, SlotPC, UniqueOwner, OwnerUsed, Owns, Fresh, Stale, Ready,
             Attention, Take, sockets
    <3> QED BY <3>1, <3>2
  <2>3. CASE Pair(t)
    <3>1. CASE v = t
      BY <2>3, <3>1
         DEF TypeOK, SlotPC, UniqueOwner, OwnerUsed, Owns, Fresh, Stale, Ready,
             Attention, Pair, sockets
    <3>2. CASE v # t
      BY <2>3, <3>2
         DEF TypeOK, SlotPC, UniqueOwner, OwnerUsed, Owns, Fresh, Stale, Ready,
             Attention, Pair, sockets
    <3> QED BY <3>1, <3>2
  <2>4. CASE Arm(t)
    BY <2>4
       DEF TypeOK, SlotPC, UniqueOwner, OwnerUsed, Owns, Watching, Settled, Fresh, Stale,
           Ready, Attention, Arm, sockets
  <2>5. CASE Check(t)
    BY <2>5
       DEF TypeOK, SlotPC, UniqueOwner, OwnerUsed, Owns, Watching, Settled, Fresh, Stale,
           Ready, Attention, Check, table, sockets
  <2>6. CASE Wake(t) \/ Backstop(t)
    <3>1. CASE v = t
      BY <2>6, <3>1
         DEF TypeOK, SlotPC, UniqueOwner, OwnerUsed, Owns, Fresh, Stale, Ready,
             Attention, Wake, Backstop, AfterSleep, table, sockets
    <3>2. CASE v # t
      BY <2>6, <3>2
         DEF TypeOK, SlotPC, UniqueOwner, OwnerUsed, Owns, Fresh, Stale, Ready,
             Attention, Wake, Backstop, AfterSleep, table, sockets
    <3> QED BY <3>1, <3>2
  <2>7. CASE Relook(t)
    BY <2>7
       DEF TypeOK, SlotPC, UniqueOwner, OwnerUsed, Owns, Watching, Settled, Fresh, Stale,
           Ready, Attention, Relook, table, sockets
  <2>8. CASE Drain(t)
    BY <2>8
       DEF TypeOK, SlotPC, UniqueOwner, OwnerUsed, Owns, Watching, Settled, Fresh, Stale,
           Ready, Attention, Drain, sockets
  <2>9. CASE Rearm(t)
    BY <2>9
       DEF TypeOK, SlotPC, UniqueOwner, OwnerUsed, Owns, Watching, Settled, Fresh, Stale,
           Ready, Attention, Rearm, sockets
  <2>10. CASE Done(t)
    <3>1. CASE v = t
      BY <2>10, <3>1
         DEF TypeOK, SlotPC, UniqueOwner, OwnerUsed, Owns, Fresh, Stale, Ready,
             Attention, Done, sockets
    <3>2. CASE v # t
      BY <2>10, <3>2
         DEF TypeOK, SlotPC, UniqueOwner, OwnerUsed, Owns, Fresh, Stale, Ready,
             Attention, Done, sockets
    <3> QED BY <3>1, <3>2
  <2>11. CASE DoneDrain(t)
    BY <2>11
       DEF TypeOK, SlotPC, UniqueOwner, OwnerUsed, Owns, Watching, Settled, Fresh, Stale,
           Ready, Attention, DoneDrain, sockets
  <2> QED BY <1>3, <2>1, <2>2, <2>3, <2>4, <2>5, <2>6, <2>7, <2>8, <2>9, <2>10, <2>11
          DEF Blocked
<1>4. ASSUME NEW k \in Socks, Pump(k) PROVE ~Stale(v, j)'
  <2>1. CASE Enqueue(k)
    BY <2>1
       DEF TypeOK, SlotPC, UniqueOwner, OwnerUsed, Owns, Watching, Settled, Fresh, Stale,
           Ready, Attention, Enqueue, Poke, Hit, PumpUnchanged
  <2>2. CASE Fin(k)
    <3>1. CASE q[k] = 0
      <4>1. /\ UNCHANGED <<used, any, socks, slot, watch, pc, q>>
            /\ life' = [life EXCEPT ![k] = "fin"]
            /\ Poke(k)
        BY <2>2, <3>1 DEF Fin, PumpUnchanged
      <4>2. armed[slot[v]] /\ ~Hit(slot[v], k)
        BY <4>1 DEF Poke, TypeOK
      <4>3. ASSUME pc[v] \in {"check", "sleep"} PROVE j # k
        BY <4>1, <4>2, <4>3 DEF Hit, Watching, Settled, OwnerUsed, Owns, TypeOK
      <4>4. ~Stale(v, j)
        BY <4>1, <4>2 DEF Fresh
      <4>5. j # k => (Stale(v, j)' <=> Stale(v, j))
        BY <4>1 DEF Stale, Ready, Attention, TypeOK
      <4>6. pc[v] \notin {"check", "sleep"} => ~Stale(v, j)'
        BY <4>1 DEF Stale
      <4> QED BY <4>3, <4>4, <4>5, <4>6
    <3>2. CASE q[k] # 0
      <4>1. q[k] > 0
        BY <3>2, MaxQAssumption DEF TypeOK
      <4>2. Ready(k) /\ Attention(k)
        BY <4>1 DEF Ready, Attention
      <4>3. UNCHANGED <<armed, slot, watch, pc, q>> /\ life' = [life EXCEPT ![k] = "fin"]
        BY <2>2, <3>2 DEF Fin, PumpUnchanged
      <4>4. ~Stale(v, j)
        BY <4>3 DEF Fresh
      <4>5. j # k => (Stale(v, j)' <=> Stale(v, j))
        BY <4>3 DEF Stale, Ready, Attention, TypeOK
      <4>6. ASSUME j = k PROVE pc[v] # "check" /\ pc[v] # "sleep"
        BY <4>2, <4>4, <4>6 DEF Stale
      <4>7. ASSUME j = k PROVE ~Stale(v, j)'
        BY <4>3, <4>6, <4>7 DEF Stale
      <4> QED BY <4>4, <4>5, <4>7
    <3> QED BY <3>1, <3>2
  <2>3. CASE Close(k)
    BY ZenonT(60), <2>3
       DEF TypeOK, SlotPC, UniqueOwner, OwnerUsed, Owns, Watching, Settled, Fresh, Stale,
           Ready, Attention, Close, Poke, Hit, PumpUnchanged
  <2>4. CASE Reopen(k)
    BY <2>4
       DEF TypeOK, SlotPC, UniqueOwner, OwnerUsed, Owns, Watching, Settled, Fresh, Stale,
           Ready, Attention, Reopen, table
  <2> QED BY <1>4, <2>1, <2>2, <2>3, <2>4 DEF Pump
<1>5. CASE UNCHANGED vars
  BY <1>5
     DEF TypeOK, SlotPC, UniqueOwner, OwnerUsed, Owns, Watching, Settled, Fresh, Stale,
         Ready, Attention, vars
<1> QED BY <1>1, <1>2, <1>3, <1>4, <1>5 DEF Next

-----------------------------------------------------------------------------
\* The parts together are preserved by every step.
LEMMA IInvStep == IInv /\ [Next]_vars => IInv'
BY TypeStep, SlotPCStep, UniqueOwnerStep, OwnerUsedStep, NoLeakStep, WatchingStep,
   CoveredStep, FreshStep
   DEF IInv

\* The inductive invariant holds throughout.
LEMMA Invariance == Spec => []IInv
BY InitIInv, IInvStep, PTL DEF Spec

(* The state of the pool, the sockets and the calls keeps its types.       *)
THEOREM TypeCorrect == Spec => []TypeOK
<1>1. IInv => TypeOK
  BY DEF IInv
<1> QED BY <1>1, Invariance, PTL

(* No slot is held by two calls or lost: dt_wait_arm and dt_wait_done pair *)
(* up on every path, for any number of threads and slots.                  *)
THEOREM SlotsExclusive == Spec => []SlotExclusive
<1>1. IInv => SlotExclusive
  BY DEF IInv, TypeOK, UniqueOwner, OwnerUsed, NoLeak, SlotExclusive, Owns
<1> QED BY <1>1, Invariance, PTL

(* A sleeping call whose socket changed has its wake pending, unless the   *)
(* late drain of dt_wait_done read it.                                     *)
THEOREM WakesKept == Spec => []WakeKept
<1>1. IInv => WakeKept
  <2> SUFFICES ASSUME IInv, NEW t \in Threads, pc[t] = "sleep", slot[t] # NoSlot,
                      ~stolen[slot[t]], NEW k \in watch[t], Attention(k)
               PROVE  wake[slot[t]]
    BY DEF WakeKept
  <2>1. ~armed[slot[t]]
    BY DEF IInv, Fresh, Stale
  <2> QED BY <2>1 DEF IInv, Covered
<1> QED BY <1>1, Invariance, PTL
=============================================================================
