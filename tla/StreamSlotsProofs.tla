------------------------- MODULE StreamSlotsProofs -------------------------
(***************************************************************************)
(* Proofs about StreamSlots: for any number of descriptors, dials and      *)
(* slots, a descriptor whose calls do not overlap finds the stream of its  *)
(* own dial, and a pump's slot is never given to another stream.           *)
(***************************************************************************)
EXTENDS StreamSlots, TLAPS

\* The states of a thread that points to a slot.
Running == {"dial", "stopen", "verdict", "pump", "tail"}

Points ==
  \A d \in Dials : /\ pc[d] \in Running => at[d] \in Slots
                   /\ pc[d] = "looked" => call[d] \in Fds

\* A slot in use belongs to a stream id that was drawn, and to no other slot.
SidDrawn ==
  \A s \in Slots : used[s] => sid[s] \in Dials /\ pc[sid[s]] \notin {"unused", "looked"}

SidUnique == \A r, s \in Slots : used[r] /\ used[s] /\ sid[r] = sid[s] => r = s

\* The thread of a slot's stream points to that slot.
PointsBack == \A s \in Slots : used[s] /\ pc[sid[s]] \in Running => at[sid[s]] = s

\* Only close() detaches a descriptor.
DetachedDead == \A s \in Slots : used[s] /\ gsock[s] = None => dead[s]

\* The slot of a pump has had its verdict, so close() does not free it.
PumpSettled ==
  \A d \in Dials : pc[d] \in {"pump", "tail"} => Mine(d) /\ state[at[d]] # "connecting"

\* A connect() that nobody raced still finds what it saw: an open descriptor
\* without a stream.
Alone ==
  \A d \in Dials :
    pc[d] = "looked" /\ call[d] \notin raced =>
      /\ desc[call[d]] = "open"
      /\ \A s \in Slots : used[s] => gsock[s] # call[d]
      /\ \A e \in Dials : pc[e] = "looked" /\ call[e] = call[d] => e = d

\* The inductive invariant.
IInv == /\ TypeOK /\ Points /\ SidDrawn /\ SidUnique /\ PointsBack /\ DetachedDead
        /\ PumpSettled /\ Alone /\ OwnStream /\ PumpOwns

USE DEF Slots, Running

-----------------------------------------------------------------------------
\* Nothing is open, used or running at the start.
LEMMA InitIInv == Init => IInv
BY StreamAssumption, NoneAssumption
   DEF Init, IInv, TypeOK, Points, SidDrawn, SidUnique, PointsBack, DetachedDead,
       PumpSettled, Alone, OwnStream, PumpOwns, Mine, BySock

\* What close() does to the table, the lookup resolved.
LEMMA CloseEffect ==
  ASSUME NEW f \in Fds, Close(f)
  PROVE  /\ UNCHANGED <<sid, state, fd_live, wr_shut, pc, at, call>>
         /\ desc' = [desc EXCEPT ![f] = "closed"]
         /\ dial' = [dial EXCEPT ![f] = None]
         /\ raced' = IF Pending(f) = {} THEN raced ELSE raced \union {f}
         /\ \/ UNCHANGED <<used, gsock, dead>>
            \/ \E s \in Slots :
                 /\ used[s] /\ gsock[s] = f
                 /\ dead' = [dead EXCEPT ![s] = TRUE]
                 /\ gsock' = [gsock EXCEPT ![s] = IF state[s] # "connecting" /\ fd_live[s]
                                                  THEN None ELSE @]
                 /\ used' = [used EXCEPT ![s] = ~(state[s] = "connecting" /\ ~fd_live[s])]
<1>1. CASE UNCHANGED <<used, gsock, dead>>
  BY <1>1 DEF Close, Closed
<1>2. CASE ~UNCHANGED <<used, gsock, dead>>
  BY <1>2 DEF Close, Closed, Finds, BySock
<1> QED BY <1>1, <1>2

\* Every step keeps the types and the pointers of the threads.
LEMMA TypeStep == TypeOK /\ Points /\ [Next]_vars => TypeOK' /\ Points'
<1> SUFFICES ASSUME TypeOK, Points, [Next]_vars PROVE TypeOK' /\ Points'
  OBVIOUS
<1> USE StreamAssumption
<1>1. ASSUME NEW f \in Fds, Socket(f) PROVE TypeOK' /\ Points'
  BY <1>1 DEF TypeOK, Points, Socket, slots
<1>16. ASSUME NEW f \in Fds, NEW d \in Dials, Lookup(f, d) PROVE TypeOK' /\ Points'
  BY <1>16 DEF TypeOK, Points, Lookup, slots
<1>17. ASSUME NEW d \in Dials, AllocFull(d) PROVE TypeOK' /\ Points'
  BY <1>17 DEF TypeOK, Points, AllocFull, slots, app
<1>2. ASSUME NEW d \in Dials, Alloc(d) PROVE TypeOK' /\ Points'
  <2>1. TypeOK'
    BY <1>2 DEF TypeOK, Points, Alloc
  <2>2. Points'
    BY <1>2 DEF TypeOK, Points, Alloc
  <2> QED BY <2>1, <2>2
<1>3. ASSUME NEW f \in Fds, Shutdown(f) PROVE TypeOK' /\ Points'
  BY <1>3 DEF TypeOK, Points, Shutdown, Finds, app
<1>4. ASSUME NEW f \in Fds, Close(f) PROVE TypeOK' /\ Points'
  <2>1. UNCHANGED <<sid, state, fd_live, wr_shut, pc, at, call>>
        /\ desc' = [desc EXCEPT ![f] = "closed"] /\ dial' = [dial EXCEPT ![f] = None]
        /\ raced' = IF Pending(f) = {} THEN raced ELSE raced \union {f}
    BY <1>4, CloseEffect
  <2>2. used' \in [Slots -> BOOLEAN] /\ gsock' \in [Slots -> Fds \union {None}]
        /\ dead' \in [Slots -> BOOLEAN]
    <3>1. CASE UNCHANGED <<used, gsock, dead>>
      BY <3>1 DEF TypeOK
    <3>2. CASE ~UNCHANGED <<used, gsock, dead>>
      <4>1. PICK s \in Slots :
                 /\ dead' = [dead EXCEPT ![s] = TRUE]
                 /\ gsock' = [gsock EXCEPT ![s] = IF state[s] # "connecting" /\ fd_live[s]
                                                  THEN None ELSE @]
                 /\ used' = [used EXCEPT ![s] = ~(state[s] = "connecting" /\ ~fd_live[s])]
        BY <1>4, <3>2, CloseEffect
      <4> QED BY <4>1 DEF TypeOK
    <3> QED BY <3>1, <3>2
  <2> QED BY <2>1, <2>2 DEF TypeOK, Points
<1>5. ASSUME NEW d \in Dials, Start(d) PROVE TypeOK' /\ Points'
  <2>1. CASE UNCHANGED at /\ pc' = [pc EXCEPT ![d] = "over"]
    BY <1>5, <2>1 DEF TypeOK, Points, Start, slots, app
  <2>2. ASSUME NEW s \in Slots, at' = [at EXCEPT ![d] = s], pc' = [pc EXCEPT ![d] = "dial"]
        PROVE  TypeOK' /\ Points'
    <3>1. UNCHANGED <<used, gsock, sid, state, dead, fd_live, wr_shut, desc, dial, call, raced>>
      BY <1>5 DEF Start, slots, app
    <3>2. at' \in [Dials -> Slots \union {0}]
      BY <2>2 DEF TypeOK
    <3> QED BY <2>2, <3>1, <3>2 DEF TypeOK, Points
  <2> QED BY <1>5, <2>1, <2>2 DEF Start
<1>6. ASSUME NEW d \in Dials, DialFail(d) PROVE TypeOK' /\ Points'
  BY <1>6 DEF TypeOK, Points, DialFail, FailLocal, flags, app
<1>7. ASSUME NEW d \in Dials, DialDone(d) \/ PumpClosed(d) PROVE TypeOK' /\ Points'
  BY ZenonT(60), <1>7 DEF TypeOK, Points, DialDone, PumpClosed, slots, app
<1>8. ASSUME NEW d \in Dials, OpenSent(d) PROVE TypeOK' /\ Points'
  BY <1>8 DEF TypeOK, Points, OpenSent, Mine, app
<1>9. ASSUME NEW d \in Dials, VerdictEOF(d) \/ PumpError(d) PROVE TypeOK' /\ Points'
  <2>1. CASE VerdictEOF(d)
    BY <2>1 DEF TypeOK, Points, VerdictEOF, flags, app
  <2>2. CASE PumpError(d)
    BY <2>2 DEF TypeOK, Points, PumpError, flags, app
  <2> QED BY <1>9, <2>1, <2>2
<1>10. ASSUME NEW d \in Dials, NEW ok \in BOOLEAN, Verdict(d, ok) PROVE TypeOK' /\ Points'
  BY <1>10 DEF TypeOK, Points, Verdict, flags, app
<1>11. ASSUME NEW d \in Dials, NEW ok \in BOOLEAN, VerdictDetached(d, ok)
       PROVE TypeOK' /\ Points'
  BY <1>11 DEF TypeOK, Points, VerdictDetached, flags, app
<1>12. ASSUME NEW d \in Dials, Tail(d) PROVE TypeOK' /\ Points'
  BY <1>12 DEF TypeOK, Points, Tail, Mine, flags, app
<1>13. CASE UNCHANGED vars
  BY <1>13 DEF TypeOK, Points, vars
<1> QED BY <1>1, <1>2, <1>3, <1>4, <1>5, <1>6, <1>7, <1>8, <1>9, <1>10, <1>11, <1>12, <1>13,
   <1>16, <1>17
        DEF Next, Application, Thread

\* The id of a slot in use was drawn, and stays drawn.
LEMMA SidDrawnStep == TypeOK /\ Points /\ SidDrawn /\ [Next]_vars => SidDrawn'
<1> SUFFICES ASSUME TypeOK, Points, SidDrawn, [Next]_vars PROVE SidDrawn'
  OBVIOUS
<1> USE StreamAssumption, NoneAssumption
<1>1. ASSUME NEW f \in Fds, Socket(f) PROVE SidDrawn'
  BY <1>1 DEF TypeOK, Points, SidDrawn, Mine, Socket, slots
<1>16. ASSUME NEW f \in Fds, NEW d \in Dials, Lookup(f, d) PROVE SidDrawn'
  BY <1>16 DEF TypeOK, Points, SidDrawn, Mine, Lookup, slots
<1>17. ASSUME NEW d \in Dials, AllocFull(d) PROVE SidDrawn'
  BY <1>17 DEF TypeOK, Points, SidDrawn, Mine, AllocFull, slots, app
<1>2. ASSUME NEW d \in Dials, Alloc(d) PROVE SidDrawn'
  BY <1>2 DEF TypeOK, Points, SidDrawn, Mine, Alloc
<1>3. ASSUME NEW f \in Fds, Shutdown(f) PROVE SidDrawn'
  BY <1>3 DEF TypeOK, Points, SidDrawn, Mine, Shutdown, Finds, app
<1>4. ASSUME NEW f \in Fds, Close(f) PROVE SidDrawn'
  <2>1. UNCHANGED <<sid, state, fd_live, wr_shut, pc, at, call>>
        /\ desc' = [desc EXCEPT ![f] = "closed"] /\ dial' = [dial EXCEPT ![f] = None]
        /\ raced' = IF Pending(f) = {} THEN raced ELSE raced \union {f}
    BY <1>4, CloseEffect
  <2>2. CASE UNCHANGED <<used, gsock, dead>>
    BY <2>1, <2>2 DEF TypeOK, Points, SidDrawn, Mine
  <2>3. CASE ~UNCHANGED <<used, gsock, dead>>
    <3>1. PICK s \in Slots :
            /\ used[s] /\ gsock[s] = f
            /\ dead' = [dead EXCEPT ![s] = TRUE]
            /\ gsock' = [gsock EXCEPT ![s] = IF state[s] # "connecting" /\ fd_live[s]
                                             THEN None ELSE @]
            /\ used' = [used EXCEPT ![s] = ~(state[s] = "connecting" /\ ~fd_live[s])]
      BY <1>4, <2>3, CloseEffect
    <3> QED BY <2>1, <3>1 DEF TypeOK, Points, SidDrawn, Mine
  <2> QED BY <2>2, <2>3
<1>5. ASSUME NEW d \in Dials, Start(d) PROVE SidDrawn'
  BY <1>5 DEF TypeOK, Points, SidDrawn, Mine, Start, slots, app
<1>6. ASSUME NEW d \in Dials, DialFail(d) PROVE SidDrawn'
  BY <1>6 DEF TypeOK, Points, SidDrawn, Mine, DialFail, FailLocal, flags, app
<1>7. ASSUME NEW d \in Dials, DialDone(d) PROVE SidDrawn'
  BY <1>7 DEF TypeOK, Points, SidDrawn, Mine, DialDone, slots, app
<1>8. ASSUME NEW d \in Dials, OpenSent(d) PROVE SidDrawn'
  BY <1>8 DEF TypeOK, Points, SidDrawn, Mine, OpenSent, app
<1>9. ASSUME NEW d \in Dials, VerdictEOF(d) PROVE SidDrawn'
  BY <1>9 DEF TypeOK, Points, SidDrawn, Mine, VerdictEOF, flags, app
<1>10. ASSUME NEW d \in Dials, NEW ok \in BOOLEAN, Verdict(d, ok) PROVE SidDrawn'
  BY <1>10 DEF TypeOK, Points, SidDrawn, Mine, Verdict, flags, app
<1>11. ASSUME NEW d \in Dials, NEW ok \in BOOLEAN, VerdictDetached(d, ok) PROVE SidDrawn'
  BY <1>11 DEF TypeOK, Points, SidDrawn, Mine, VerdictDetached, flags, app
<1>12. ASSUME NEW d \in Dials, PumpClosed(d) PROVE SidDrawn'
  BY <1>12 DEF TypeOK, Points, SidDrawn, Mine, PumpClosed, slots, app
<1>13. ASSUME NEW d \in Dials, PumpError(d) PROVE SidDrawn'
  BY <1>13 DEF TypeOK, Points, SidDrawn, Mine, PumpError, flags, app
<1>14. ASSUME NEW d \in Dials, Tail(d) PROVE SidDrawn'
  BY <1>14 DEF TypeOK, Points, SidDrawn, Mine, Tail, flags, app
<1>15. CASE UNCHANGED vars
  BY <1>15 DEF TypeOK, Points, SidDrawn, Mine, vars
<1> QED BY <1>1, <1>2, <1>3, <1>4, <1>5, <1>6, <1>7, <1>8, <1>9, <1>10, <1>11, <1>12,
   <1>13, <1>14, <1>15, <1>16, <1>17
        DEF Next, Application, Thread

\* A drawn id is not drawn again, so no two slots share one.
LEMMA SidUniqueStep ==
  /\ TypeOK /\ Points /\ SidDrawn /\ SidUnique /\ [Next]_vars
  => SidUnique'
<1> SUFFICES ASSUME TypeOK, Points, SidDrawn, SidUnique, [Next]_vars
             PROVE  SidUnique'
  OBVIOUS
<1> USE StreamAssumption, NoneAssumption
<1>1. ASSUME NEW f \in Fds, Socket(f) PROVE SidUnique'
  BY <1>1 DEF TypeOK, Points, SidDrawn, SidUnique, Mine, Socket, slots
<1>16. ASSUME NEW f \in Fds, NEW d \in Dials, Lookup(f, d) PROVE SidUnique'
  BY <1>16 DEF TypeOK, Points, SidDrawn, SidUnique, Mine, Lookup, slots
<1>17. ASSUME NEW d \in Dials, AllocFull(d) PROVE SidUnique'
  BY <1>17 DEF TypeOK, Points, SidDrawn, SidUnique, Mine, AllocFull, slots, app
<1>2. ASSUME NEW d \in Dials, Alloc(d) PROVE SidUnique'
  BY <1>2 DEF TypeOK, Points, SidDrawn, SidUnique, Mine, Alloc
<1>3. ASSUME NEW f \in Fds, Shutdown(f) PROVE SidUnique'
  BY <1>3 DEF TypeOK, Points, SidDrawn, SidUnique, Mine, Shutdown, Finds, app
<1>4. ASSUME NEW f \in Fds, Close(f) PROVE SidUnique'
  <2>1. UNCHANGED <<sid, state, fd_live, wr_shut, pc, at, call>>
        /\ desc' = [desc EXCEPT ![f] = "closed"] /\ dial' = [dial EXCEPT ![f] = None]
        /\ raced' = IF Pending(f) = {} THEN raced ELSE raced \union {f}
    BY <1>4, CloseEffect
  <2>2. CASE UNCHANGED <<used, gsock, dead>>
    BY <2>1, <2>2 DEF TypeOK, Points, SidDrawn, SidUnique, Mine
  <2>3. CASE ~UNCHANGED <<used, gsock, dead>>
    <3>1. PICK s \in Slots :
            /\ used[s] /\ gsock[s] = f
            /\ dead' = [dead EXCEPT ![s] = TRUE]
            /\ gsock' = [gsock EXCEPT ![s] = IF state[s] # "connecting" /\ fd_live[s]
                                             THEN None ELSE @]
            /\ used' = [used EXCEPT ![s] = ~(state[s] = "connecting" /\ ~fd_live[s])]
      BY <1>4, <2>3, CloseEffect
    <3> QED BY <2>1, <3>1 DEF TypeOK, Points, SidDrawn, SidUnique, Mine
  <2> QED BY <2>2, <2>3
<1>5. ASSUME NEW d \in Dials, Start(d) PROVE SidUnique'
  BY <1>5 DEF TypeOK, Points, SidDrawn, SidUnique, Mine, Start, slots, app
<1>6. ASSUME NEW d \in Dials, DialFail(d) PROVE SidUnique'
  BY <1>6 DEF TypeOK, Points, SidDrawn, SidUnique, Mine, DialFail, FailLocal, flags, app
<1>7. ASSUME NEW d \in Dials, DialDone(d) PROVE SidUnique'
  BY <1>7 DEF TypeOK, Points, SidDrawn, SidUnique, Mine, DialDone, slots, app
<1>8. ASSUME NEW d \in Dials, OpenSent(d) PROVE SidUnique'
  BY <1>8 DEF TypeOK, Points, SidDrawn, SidUnique, Mine, OpenSent, app
<1>9. ASSUME NEW d \in Dials, VerdictEOF(d) PROVE SidUnique'
  BY <1>9 DEF TypeOK, Points, SidDrawn, SidUnique, Mine, VerdictEOF, flags, app
<1>10. ASSUME NEW d \in Dials, NEW ok \in BOOLEAN, Verdict(d, ok) PROVE SidUnique'
  BY <1>10 DEF TypeOK, Points, SidDrawn, SidUnique, Mine, Verdict, flags, app
<1>11. ASSUME NEW d \in Dials, NEW ok \in BOOLEAN, VerdictDetached(d, ok) PROVE SidUnique'
  BY <1>11 DEF TypeOK, Points, SidDrawn, SidUnique, Mine, VerdictDetached, flags, app
<1>12. ASSUME NEW d \in Dials, PumpClosed(d) PROVE SidUnique'
  BY <1>12 DEF TypeOK, Points, SidDrawn, SidUnique, Mine, PumpClosed, slots, app
<1>13. ASSUME NEW d \in Dials, PumpError(d) PROVE SidUnique'
  BY <1>13 DEF TypeOK, Points, SidDrawn, SidUnique, Mine, PumpError, flags, app
<1>14. ASSUME NEW d \in Dials, Tail(d) PROVE SidUnique'
  BY <1>14 DEF TypeOK, Points, SidDrawn, SidUnique, Mine, Tail, flags, app
<1>15. CASE UNCHANGED vars
  BY <1>15 DEF TypeOK, Points, SidDrawn, SidUnique, Mine, vars
<1> QED BY <1>1, <1>2, <1>3, <1>4, <1>5, <1>6, <1>7, <1>8, <1>9, <1>10, <1>11, <1>12,
   <1>13, <1>14, <1>15, <1>16, <1>17
        DEF Next, Application, Thread

\* A thread finds the slot of its stream and keeps to it.
LEMMA PointsBackStep ==
  /\ TypeOK /\ Points /\ SidDrawn /\ SidUnique /\ PointsBack /\ [Next]_vars
  => PointsBack'
<1> SUFFICES ASSUME TypeOK, Points, SidDrawn, SidUnique, PointsBack, [Next]_vars
             PROVE  PointsBack'
  OBVIOUS
<1> USE StreamAssumption, NoneAssumption
<1>1. ASSUME NEW f \in Fds, Socket(f) PROVE PointsBack'
  BY <1>1 DEF TypeOK, Points, SidDrawn, SidUnique, PointsBack, Mine, Socket, slots
<1>16. ASSUME NEW f \in Fds, NEW d \in Dials, Lookup(f, d) PROVE PointsBack'
  BY <1>16 DEF TypeOK, Points, SidDrawn, SidUnique, PointsBack, Mine, Lookup, slots
<1>17. ASSUME NEW d \in Dials, AllocFull(d) PROVE PointsBack'
  BY <1>17
     DEF TypeOK, Points, SidDrawn, SidUnique, PointsBack, Mine, AllocFull, slots, app
<1>2. ASSUME NEW d \in Dials, Alloc(d) PROVE PointsBack'
  BY <1>2 DEF TypeOK, Points, SidDrawn, SidUnique, PointsBack, Mine, Alloc
<1>3. ASSUME NEW f \in Fds, Shutdown(f) PROVE PointsBack'
  BY <1>3 DEF TypeOK, Points, SidDrawn, SidUnique, PointsBack, Mine, Shutdown, Finds, app
<1>4. ASSUME NEW f \in Fds, Close(f) PROVE PointsBack'
  <2>1. UNCHANGED <<sid, state, fd_live, wr_shut, pc, at, call>>
        /\ desc' = [desc EXCEPT ![f] = "closed"] /\ dial' = [dial EXCEPT ![f] = None]
        /\ raced' = IF Pending(f) = {} THEN raced ELSE raced \union {f}
    BY <1>4, CloseEffect
  <2>2. CASE UNCHANGED <<used, gsock, dead>>
    BY <2>1, <2>2 DEF TypeOK, Points, SidDrawn, SidUnique, PointsBack, Mine
  <2>3. CASE ~UNCHANGED <<used, gsock, dead>>
    <3>1. PICK s \in Slots :
            /\ used[s] /\ gsock[s] = f
            /\ dead' = [dead EXCEPT ![s] = TRUE]
            /\ gsock' = [gsock EXCEPT ![s] = IF state[s] # "connecting" /\ fd_live[s]
                                             THEN None ELSE @]
            /\ used' = [used EXCEPT ![s] = ~(state[s] = "connecting" /\ ~fd_live[s])]
      BY <1>4, <2>3, CloseEffect
    <3> QED BY <2>1, <3>1 DEF TypeOK, Points, SidDrawn, SidUnique, PointsBack, Mine
  <2> QED BY <2>2, <2>3
<1>5. ASSUME NEW d \in Dials, Start(d) PROVE PointsBack'
  BY <1>5 DEF TypeOK, Points, SidDrawn, SidUnique, PointsBack, Mine, Start, slots, app
<1>6. ASSUME NEW d \in Dials, DialFail(d) PROVE PointsBack'
  BY <1>6
     DEF TypeOK, Points, SidDrawn, SidUnique, PointsBack, Mine, DialFail, FailLocal,
         flags, app
<1>7. ASSUME NEW d \in Dials, DialDone(d) PROVE PointsBack'
  BY <1>7 DEF TypeOK, Points, SidDrawn, SidUnique, PointsBack, Mine, DialDone, slots, app
<1>8. ASSUME NEW d \in Dials, OpenSent(d) PROVE PointsBack'
  BY <1>8 DEF TypeOK, Points, SidDrawn, SidUnique, PointsBack, Mine, OpenSent, app
<1>9. ASSUME NEW d \in Dials, VerdictEOF(d) PROVE PointsBack'
  BY <1>9 DEF TypeOK, Points, SidDrawn, SidUnique, PointsBack, Mine, VerdictEOF, flags, app
<1>10. ASSUME NEW d \in Dials, NEW ok \in BOOLEAN, Verdict(d, ok) PROVE PointsBack'
  BY <1>10 DEF TypeOK, Points, SidDrawn, SidUnique, PointsBack, Mine, Verdict, flags, app
<1>11. ASSUME NEW d \in Dials, NEW ok \in BOOLEAN, VerdictDetached(d, ok) PROVE PointsBack'
  BY <1>11
     DEF TypeOK, Points, SidDrawn, SidUnique, PointsBack, Mine, VerdictDetached, flags,
         app
<1>12. ASSUME NEW d \in Dials, PumpClosed(d) PROVE PointsBack'
  BY <1>12 DEF TypeOK, Points, SidDrawn, SidUnique, PointsBack, Mine, PumpClosed, slots, app
<1>13. ASSUME NEW d \in Dials, PumpError(d) PROVE PointsBack'
  BY <1>13 DEF TypeOK, Points, SidDrawn, SidUnique, PointsBack, Mine, PumpError, flags, app
<1>14. ASSUME NEW d \in Dials, Tail(d) PROVE PointsBack'
  BY <1>14 DEF TypeOK, Points, SidDrawn, SidUnique, PointsBack, Mine, Tail, flags, app
<1>15. CASE UNCHANGED vars
  BY <1>15 DEF TypeOK, Points, SidDrawn, SidUnique, PointsBack, Mine, vars
<1> QED BY <1>1, <1>2, <1>3, <1>4, <1>5, <1>6, <1>7, <1>8, <1>9, <1>10, <1>11, <1>12,
   <1>13, <1>14, <1>15, <1>16, <1>17
        DEF Next, Application, Thread

\* A descriptor is detached by close() alone, which marks the slot dead.
LEMMA DetachedDeadStep ==
  /\ TypeOK /\ Points /\ DetachedDead /\ [Next]_vars
  => DetachedDead'
<1> SUFFICES ASSUME TypeOK, Points, DetachedDead, [Next]_vars PROVE DetachedDead'
  OBVIOUS
<1> USE StreamAssumption, NoneAssumption
<1>1. ASSUME NEW f \in Fds, Socket(f) PROVE DetachedDead'
  BY <1>1 DEF TypeOK, Points, DetachedDead, Mine, Socket, slots
<1>16. ASSUME NEW f \in Fds, NEW d \in Dials, Lookup(f, d) PROVE DetachedDead'
  BY <1>16 DEF TypeOK, Points, DetachedDead, Mine, Lookup, slots
<1>17. ASSUME NEW d \in Dials, AllocFull(d) PROVE DetachedDead'
  BY <1>17 DEF TypeOK, Points, DetachedDead, Mine, AllocFull, slots, app
<1>2. ASSUME NEW d \in Dials, Alloc(d) PROVE DetachedDead'
  BY <1>2 DEF TypeOK, Points, DetachedDead, Mine, Alloc
<1>3. ASSUME NEW f \in Fds, Shutdown(f) PROVE DetachedDead'
  BY <1>3 DEF TypeOK, Points, DetachedDead, Mine, Shutdown, Finds, app
<1>4. ASSUME NEW f \in Fds, Close(f) PROVE DetachedDead'
  <2>1. UNCHANGED <<sid, state, fd_live, wr_shut, pc, at, call>>
        /\ desc' = [desc EXCEPT ![f] = "closed"] /\ dial' = [dial EXCEPT ![f] = None]
        /\ raced' = IF Pending(f) = {} THEN raced ELSE raced \union {f}
    BY <1>4, CloseEffect
  <2>2. CASE UNCHANGED <<used, gsock, dead>>
    BY <2>1, <2>2 DEF TypeOK, Points, DetachedDead, Mine
  <2>3. CASE ~UNCHANGED <<used, gsock, dead>>
    <3>1. PICK s \in Slots :
            /\ used[s] /\ gsock[s] = f
            /\ dead' = [dead EXCEPT ![s] = TRUE]
            /\ gsock' = [gsock EXCEPT ![s] = IF state[s] # "connecting" /\ fd_live[s]
                                             THEN None ELSE @]
            /\ used' = [used EXCEPT ![s] = ~(state[s] = "connecting" /\ ~fd_live[s])]
      BY <1>4, <2>3, CloseEffect
    <3> QED BY <2>1, <3>1 DEF TypeOK, Points, DetachedDead, Mine
  <2> QED BY <2>2, <2>3
<1>5. ASSUME NEW d \in Dials, Start(d) PROVE DetachedDead'
  BY <1>5 DEF TypeOK, Points, DetachedDead, Mine, Start, slots, app
<1>6. ASSUME NEW d \in Dials, DialFail(d) PROVE DetachedDead'
  BY <1>6 DEF TypeOK, Points, DetachedDead, Mine, DialFail, FailLocal, flags, app
<1>7. ASSUME NEW d \in Dials, DialDone(d) PROVE DetachedDead'
  BY <1>7 DEF TypeOK, Points, DetachedDead, Mine, DialDone, slots, app
<1>8. ASSUME NEW d \in Dials, OpenSent(d) PROVE DetachedDead'
  BY <1>8 DEF TypeOK, Points, DetachedDead, Mine, OpenSent, app
<1>9. ASSUME NEW d \in Dials, VerdictEOF(d) PROVE DetachedDead'
  BY <1>9 DEF TypeOK, Points, DetachedDead, Mine, VerdictEOF, flags, app
<1>10. ASSUME NEW d \in Dials, NEW ok \in BOOLEAN, Verdict(d, ok) PROVE DetachedDead'
  BY <1>10 DEF TypeOK, Points, DetachedDead, Mine, Verdict, flags, app
<1>11. ASSUME NEW d \in Dials, NEW ok \in BOOLEAN, VerdictDetached(d, ok) PROVE DetachedDead'
  BY <1>11 DEF TypeOK, Points, DetachedDead, Mine, VerdictDetached, flags, app
<1>12. ASSUME NEW d \in Dials, PumpClosed(d) PROVE DetachedDead'
  BY <1>12 DEF TypeOK, Points, DetachedDead, Mine, PumpClosed, slots, app
<1>13. ASSUME NEW d \in Dials, PumpError(d) PROVE DetachedDead'
  BY <1>13 DEF TypeOK, Points, DetachedDead, Mine, PumpError, flags, app
<1>14. ASSUME NEW d \in Dials, Tail(d) PROVE DetachedDead'
  BY <1>14 DEF TypeOK, Points, DetachedDead, Mine, Tail, flags, app
<1>15. CASE UNCHANGED vars
  BY <1>15 DEF TypeOK, Points, DetachedDead, Mine, vars
<1> QED BY <1>1, <1>2, <1>3, <1>4, <1>5, <1>6, <1>7, <1>8, <1>9, <1>10, <1>11, <1>12,
   <1>13, <1>14, <1>15, <1>16, <1>17
        DEF Next, Application, Thread

\* Neither close() nor another thread frees the slot of a pump.
LEMMA PumpSettledStep ==
  /\ TypeOK /\ Points /\ SidDrawn /\ PumpSettled /\ [Next]_vars
  => PumpSettled'
<1> SUFFICES ASSUME TypeOK, Points, SidDrawn, PumpSettled, [Next]_vars
             PROVE  PumpSettled'
  OBVIOUS
<1> USE StreamAssumption, NoneAssumption
<1>1. ASSUME NEW f \in Fds, Socket(f) PROVE PumpSettled'
  BY <1>1 DEF TypeOK, Points, SidDrawn, PumpSettled, Mine, Socket, slots
<1>16. ASSUME NEW f \in Fds, NEW d \in Dials, Lookup(f, d) PROVE PumpSettled'
  BY <1>16 DEF TypeOK, Points, SidDrawn, PumpSettled, Mine, Lookup, slots
<1>17. ASSUME NEW d \in Dials, AllocFull(d) PROVE PumpSettled'
  BY <1>17 DEF TypeOK, Points, SidDrawn, PumpSettled, Mine, AllocFull, slots, app
<1>2. ASSUME NEW d \in Dials, Alloc(d) PROVE PumpSettled'
  BY <1>2 DEF TypeOK, Points, SidDrawn, PumpSettled, Mine, Alloc
<1>3. ASSUME NEW f \in Fds, Shutdown(f) PROVE PumpSettled'
  BY <1>3 DEF TypeOK, Points, SidDrawn, PumpSettled, Mine, Shutdown, Finds, app
<1>4. ASSUME NEW f \in Fds, Close(f) PROVE PumpSettled'
  <2>1. UNCHANGED <<sid, state, fd_live, wr_shut, pc, at, call>>
        /\ desc' = [desc EXCEPT ![f] = "closed"] /\ dial' = [dial EXCEPT ![f] = None]
        /\ raced' = IF Pending(f) = {} THEN raced ELSE raced \union {f}
    BY <1>4, CloseEffect
  <2>2. CASE UNCHANGED <<used, gsock, dead>>
    BY <2>1, <2>2 DEF TypeOK, Points, SidDrawn, PumpSettled, Mine
  <2>3. CASE ~UNCHANGED <<used, gsock, dead>>
    <3>1. PICK s \in Slots :
            /\ used[s] /\ gsock[s] = f
            /\ dead' = [dead EXCEPT ![s] = TRUE]
            /\ gsock' = [gsock EXCEPT ![s] = IF state[s] # "connecting" /\ fd_live[s]
                                             THEN None ELSE @]
            /\ used' = [used EXCEPT ![s] = ~(state[s] = "connecting" /\ ~fd_live[s])]
      BY <1>4, <2>3, CloseEffect
    <3> QED BY <2>1, <3>1 DEF TypeOK, Points, SidDrawn, PumpSettled, Mine
  <2> QED BY <2>2, <2>3
<1>5. ASSUME NEW d \in Dials, Start(d) PROVE PumpSettled'
  BY <1>5 DEF TypeOK, Points, SidDrawn, PumpSettled, Mine, Start, slots, app
<1>6. ASSUME NEW d \in Dials, DialFail(d) PROVE PumpSettled'
  BY <1>6 DEF TypeOK, Points, SidDrawn, PumpSettled, Mine, DialFail, FailLocal, flags, app
<1>7. ASSUME NEW d \in Dials, DialDone(d) PROVE PumpSettled'
  BY <1>7 DEF TypeOK, Points, SidDrawn, PumpSettled, Mine, DialDone, slots, app
<1>8. ASSUME NEW d \in Dials, OpenSent(d) PROVE PumpSettled'
  BY <1>8 DEF TypeOK, Points, SidDrawn, PumpSettled, Mine, OpenSent, app
<1>9. ASSUME NEW d \in Dials, VerdictEOF(d) PROVE PumpSettled'
  BY <1>9 DEF TypeOK, Points, SidDrawn, PumpSettled, Mine, VerdictEOF, flags, app
<1>10. ASSUME NEW d \in Dials, NEW ok \in BOOLEAN, Verdict(d, ok) PROVE PumpSettled'
  BY <1>10 DEF TypeOK, Points, SidDrawn, PumpSettled, Mine, Verdict, flags, app
<1>11. ASSUME NEW d \in Dials, NEW ok \in BOOLEAN, VerdictDetached(d, ok) PROVE PumpSettled'
  BY <1>11 DEF TypeOK, Points, SidDrawn, PumpSettled, Mine, VerdictDetached, flags, app
<1>12. ASSUME NEW d \in Dials, PumpClosed(d) PROVE PumpSettled'
  BY <1>12 DEF TypeOK, Points, SidDrawn, PumpSettled, Mine, PumpClosed, slots, app
<1>13. ASSUME NEW d \in Dials, PumpError(d) PROVE PumpSettled'
  BY <1>13 DEF TypeOK, Points, SidDrawn, PumpSettled, Mine, PumpError, flags, app
<1>14. ASSUME NEW d \in Dials, Tail(d) PROVE PumpSettled'
  BY <1>14 DEF TypeOK, Points, SidDrawn, PumpSettled, Mine, Tail, flags, app
<1>15. CASE UNCHANGED vars
  BY <1>15 DEF TypeOK, Points, SidDrawn, PumpSettled, Mine, vars
<1> QED BY <1>1, <1>2, <1>3, <1>4, <1>5, <1>6, <1>7, <1>8, <1>9, <1>10, <1>11, <1>12,
   <1>13, <1>14, <1>15, <1>16, <1>17
        DEF Next, Application, Thread

\* A thread's step binds no descriptor: it may only free a slot.
LEMMA ThreadStep ==
  ASSUME TypeOK, Points, NEW d \in Dials, Thread(d) \/ PumpError(d) \/ AllocFull(d)
  PROVE  /\ UNCHANGED <<gsock, sid, desc, dial, call, raced>>
         /\ \A s \in Slots : used'[s] => used[s]
         /\ \A e \in Dials : pc'[e] = "looked" => pc[e] = "looked"
<1>1. CASE Start(d)
  BY <1>1 DEF TypeOK, Start, slots, app
<1>2. CASE DialFail(d) \/ PumpError(d) \/ VerdictEOF(d)
  BY <1>2 DEF TypeOK, DialFail, PumpError, VerdictEOF, flags, app
<1>3. CASE DialDone(d) \/ PumpClosed(d) \/ AllocFull(d)
  <2>1. UNCHANGED <<used, gsock, sid, desc, dial, call, raced>>
    BY <1>3 DEF DialDone, PumpClosed, AllocFull, slots, app
  <2>2. \E x \in {"over", "stopen", "tail"} : pc' = [pc EXCEPT ![d] = x]
    BY <1>3 DEF DialDone, PumpClosed, AllocFull
  <2> QED BY <2>1, <2>2 DEF TypeOK
<1>4. CASE OpenSent(d)
  BY <1>4 DEF TypeOK, OpenSent, app
<1>5. ASSUME NEW ok \in BOOLEAN, Verdict(d, ok) \/ VerdictDetached(d, ok)
      PROVE  /\ UNCHANGED <<gsock, sid, desc, dial, call, raced>>
             /\ \A s \in Slots : used'[s] => used[s]
             /\ \A e \in Dials : pc'[e] = "looked" => pc[e] = "looked"
  BY <1>5 DEF TypeOK, Points, Verdict, VerdictDetached, flags, app
<1>6. CASE Tail(d)
  BY <1>6 DEF TypeOK, Points, Tail, flags, app
<1> QED BY <1>1, <1>2, <1>3, <1>4, <1>5, <1>6 DEF Thread

(* A descriptor that nobody raced is bound to one stream, that of its last *)
(* connect(), and a call between its two sections keeps it unbound.        *)
LEMMA BoundStep ==
  TypeOK /\ Points /\ Alone /\ OwnStream /\ [Next]_vars => Alone' /\ OwnStream'
<1> SUFFICES ASSUME TypeOK, Points, Alone, OwnStream, [Next]_vars
             PROVE  Alone' /\ OwnStream'
  OBVIOUS
<1> USE StreamAssumption, NoneAssumption
<1>1. ASSUME NEW f \in Fds, Socket(f) PROVE Alone' /\ OwnStream'
  <2>1. UNCHANGED <<used, gsock, sid, pc, dial, call>>
    BY <1>1 DEF Socket, slots
  <2>2. desc' = [desc EXCEPT ![f] = "open"]
    BY <1>1 DEF Socket
  <2>3. CASE BySock(f) = {} /\ Pending(f) = {}
    <3>1. raced' = raced \ {f}
      BY <1>1, <2>3 DEF Socket
    <3>2. \A d \in Dials : pc[d] = "looked" => call[d] # f
      BY <2>3 DEF Pending
    <3>3. Alone'
      BY <2>1, <2>2, <3>1, <3>2 DEF Alone, TypeOK, Points
    <3>4. OwnStream'
      BY <2>1, <2>3, <3>1 DEF OwnStream, BySock
    <3> QED BY <3>3, <3>4
  <2>4. CASE ~(BySock(f) = {} /\ Pending(f) = {})
    <3>1. raced' = raced
      BY <1>1, <2>4 DEF Socket
    <3> QED BY <2>1, <2>2, <3>1 DEF Alone, OwnStream, BySock, TypeOK, Points
  <2> QED BY <2>3, <2>4
<1>2. ASSUME NEW f \in Fds, NEW d \in Dials, Lookup(f, d) PROVE Alone' /\ OwnStream'
  <2>1. /\ UNCHANGED <<used, gsock, sid, desc, dial>>
        /\ pc' = [pc EXCEPT ![d] = "looked"] /\ call' = [call EXCEPT ![d] = f]
        /\ desc[f] = "open" /\ \A s \in Slots : used[s] => gsock[s] # f
    BY <1>2 DEF Lookup, slots, BySock
  <2>2. raced \subseteq raced' /\ (f \notin raced' => Pending(f) = {} /\ f \notin raced)
    BY <1>2 DEF Lookup
  <2>3. OwnStream'
    BY <2>1, <2>2 DEF OwnStream, BySock
  <2>4. ASSUME NEW e \in Dials, pc'[e] = "looked", call'[e] \notin raced'
        PROVE  /\ desc'[call'[e]] = "open"
               /\ \A s \in Slots : used'[s] => gsock'[s] # call'[e]
               /\ \A x \in Dials : pc'[x] = "looked" /\ call'[x] = call'[e] => x = e
    <3>1. CASE e = d
      <4>1. call'[e] = f /\ Pending(f) = {}
        BY <2>1, <2>2, <2>4, <3>1 DEF TypeOK
      <4>2. \A x \in Dials : pc[x] = "looked" => call[x] # f
        BY <4>1 DEF Pending
      <4> QED BY <2>1, <3>1, <4>1, <4>2 DEF TypeOK
    <3>2. CASE e # d
      <4>1. pc[e] = "looked" /\ call'[e] = call[e] /\ call[e] \notin raced
        BY <2>1, <2>2, <2>4, <3>2 DEF TypeOK
      <4>2. call[e] # f
        <5>1. SUFFICES ASSUME call[e] = f PROVE FALSE
          OBVIOUS
        <5>2. Pending(f) = {}
          BY <2>2, <2>4, <4>1, <5>1
        <5> QED BY <4>1, <5>1, <5>2 DEF Pending
      <4> QED BY <2>1, <4>1, <4>2 DEF TypeOK, Alone
    <3> QED BY <3>1, <3>2
  <2> QED BY <2>3, <2>4 DEF Alone
<1>3. ASSUME NEW d \in Dials, Alloc(d) PROVE Alone' /\ OwnStream'
  <2> DEFINE f == call[d]
  <2>1. PICK s \in Slots : /\ ~used[s]
                           /\ used' = [used EXCEPT ![s] = TRUE]
                           /\ gsock' = [gsock EXCEPT ![s] = f]
                           /\ sid' = [sid EXCEPT ![s] = d]
    BY <1>3 DEF Alloc
  <2>2. /\ pc[d] = "looked" /\ pc' = [pc EXCEPT ![d] = "start"]
        /\ dial' = [dial EXCEPT ![f] = d] /\ UNCHANGED <<desc, call, raced>>
    BY <1>3 DEF Alloc
  <2>3. f \in Fds
    BY <2>2 DEF Points
  <2>4. Alone'
    <3> SUFFICES ASSUME NEW e \in Dials, pc'[e] = "looked", call[e] \notin raced
                 PROVE  /\ desc[call[e]] = "open"
                        /\ \A r \in Slots : used'[r] => gsock'[r] # call[e]
                        /\ \A x \in Dials : pc'[x] = "looked" /\ call[x] = call[e] => x = e
      BY <2>2 DEF Alone
    <3>1. pc[e] = "looked" /\ e # d
      BY <2>2 DEF TypeOK
    <3>2. f # call[e]
      BY <2>2, <3>1 DEF Alone
    <3>3. \A x \in Dials : pc'[x] = "looked" => pc[x] = "looked"
      BY <2>2 DEF TypeOK
    <3> QED BY <2>1, <2>3, <3>1, <3>2, <3>3 DEF Alone, TypeOK
  <2>5. ASSUME NEW g \in Fds, g \notin raced, NEW r \in Slots, used'[r], gsock'[r] = g
        PROVE  /\ \A q \in Slots : used'[q] /\ gsock'[q] = g => q = r
               /\ dial'[g] # None => sid'[r] = dial'[g]
    <3>1. CASE g = f
      <4>1. \A q \in Slots : used[q] => gsock[q] # f
        BY <2>2, <2>5, <3>1 DEF Alone
      <4>2. \A q \in Slots : used'[q] /\ gsock'[q] = g => q = s
        BY <2>1, <3>1, <4>1 DEF TypeOK
      <4>3. sid'[s] = d /\ dial'[g] = d
        BY <2>1, <2>2, <2>3, <3>1 DEF TypeOK
      <4> QED BY <2>5, <4>2, <4>3
    <3>2. CASE g # f
      <4>1. \A q \in Slots : used'[q] /\ gsock'[q] = g =>
                used[q] /\ gsock[q] = g /\ sid'[q] = sid[q]
        BY <2>1, <2>3, <3>2 DEF TypeOK
      <4>2. dial'[g] = dial[g]
        BY <2>2, <2>3, <3>2 DEF TypeOK
      <4> QED BY <2>5, <4>1, <4>2 DEF OwnStream, BySock
    <3> QED BY <3>1, <3>2
  <2>6. OwnStream'
    BY <2>2, <2>5 DEF OwnStream, BySock
  <2> QED BY <2>4, <2>6
<1>4. ASSUME NEW f \in Fds, Shutdown(f) PROVE Alone' /\ OwnStream'
  BY <1>4 DEF Alone, OwnStream, BySock, Shutdown, app
<1>5. ASSUME NEW f \in Fds, Close(f) PROVE Alone' /\ OwnStream'
  <2>1. /\ UNCHANGED <<sid, pc, call>>
        /\ desc' = [desc EXCEPT ![f] = "closed"] /\ dial' = [dial EXCEPT ![f] = None]
        /\ raced' = IF Pending(f) = {} THEN raced ELSE raced \union {f}
    BY <1>5, CloseEffect
  <2>2. /\ \A r \in Slots : used'[r] => used[r]
        /\ \A r \in Slots : gsock'[r] \in {gsock[r], None}
    <3>1. CASE UNCHANGED <<used, gsock, dead>>
      BY <3>1
    <3>2. CASE ~UNCHANGED <<used, gsock, dead>>
      <4>1. PICK s \in Slots :
              /\ used[s]
              /\ gsock' = [gsock EXCEPT ![s] = IF state[s] # "connecting" /\ fd_live[s]
                                               THEN None ELSE @]
              /\ used' = [used EXCEPT ![s] = ~(state[s] = "connecting" /\ ~fd_live[s])]
        BY <1>5, <3>2, CloseEffect
      <4> QED BY <4>1 DEF TypeOK
    <3> QED BY <3>1, <3>2
  <2>3. raced \subseteq raced'
    BY <2>1
  <2>4. Alone'
    <3> SUFFICES ASSUME NEW d \in Dials, pc[d] = "looked", call[d] \notin raced'
                 PROVE  /\ desc'[call[d]] = "open"
                        /\ \A s \in Slots : used'[s] => gsock'[s] # call[d]
                        /\ \A e \in Dials : pc[e] = "looked" /\ call[e] = call[d] => e = d
      BY <2>1 DEF Alone
    <3>1. call[d] \in Fds /\ call[d] \notin raced
      BY <2>3 DEF Points
    <3>2. call[d] # f
      <4>1. SUFFICES ASSUME call[d] = f PROVE FALSE
        OBVIOUS
      <4>2. Pending(f) = {}
        BY <2>1, <4>1
      <4> QED BY <4>1, <4>2 DEF Pending
    <3> QED BY <2>1, <2>2, <3>1, <3>2 DEF Alone, TypeOK
  <2>5. OwnStream'
    <3>1. \A g \in Fds : dial'[g] # None => dial'[g] = dial[g]
      BY <2>1 DEF TypeOK
    <3>2. \A g \in Fds, s \in Slots : used'[s] /\ gsock'[s] = g => used[s] /\ gsock[s] = g
      BY <2>2
    <3> QED BY <2>1, <2>3, <3>1, <3>2 DEF OwnStream, BySock
  <2> QED BY <2>4, <2>5
<1>6. ASSUME NEW d \in Dials, Thread(d) \/ PumpError(d) \/ AllocFull(d)
      PROVE  Alone' /\ OwnStream'
  <2>1. /\ UNCHANGED <<gsock, sid, desc, dial, call, raced>>
        /\ \A s \in Slots : used'[s] => used[s]
        /\ \A e \in Dials : pc'[e] = "looked" => pc[e] = "looked"
    BY <1>6, ThreadStep
  <2>2. Alone'
    BY <2>1 DEF Alone
  <2>3. OwnStream'
    BY <2>1 DEF OwnStream, BySock
  <2> QED BY <2>2, <2>3
<1>7. CASE UNCHANGED vars
  BY <1>7 DEF Alone, OwnStream, BySock, vars
<1> QED BY <1>1, <1>2, <1>3, <1>4, <1>5, <1>6, <1>7 DEF Next, Application

\* Open streams are pumped and dials nobody closed have their thread.
LEMMA PumpOwnsStep ==
  /\ TypeOK /\ Points /\ SidDrawn /\ SidUnique /\ PointsBack /\ DetachedDead
  /\ PumpSettled /\ PumpOwns /\ PumpSettled' /\ [Next]_vars
  => PumpOwns'
<1> SUFFICES ASSUME TypeOK, Points, SidDrawn, SidUnique, PointsBack, DetachedDead,
                    PumpSettled, PumpOwns, PumpSettled', [Next]_vars
             PROVE  PumpOwns'
  OBVIOUS
<1> USE StreamAssumption, NoneAssumption
<1>1. ASSUME NEW f \in Fds, Socket(f) PROVE PumpOwns'
  BY <1>1
     DEF TypeOK, Points, SidDrawn, SidUnique, PointsBack, DetachedDead, PumpSettled,
         PumpOwns, Mine, Socket, slots
<1>16. ASSUME NEW f \in Fds, NEW d \in Dials, Lookup(f, d) PROVE PumpOwns'
  BY <1>16
     DEF TypeOK, Points, SidDrawn, SidUnique, PointsBack, DetachedDead, PumpSettled,
         PumpOwns, Mine, Lookup, slots
<1>17. ASSUME NEW d \in Dials, AllocFull(d) PROVE PumpOwns'
  BY <1>17
     DEF TypeOK, Points, SidDrawn, SidUnique, PointsBack, DetachedDead, PumpSettled,
         PumpOwns, Mine, AllocFull, slots, app
<1>2. ASSUME NEW d \in Dials, Alloc(d) PROVE PumpOwns'
  BY <1>2
     DEF TypeOK, Points, SidDrawn, SidUnique, PointsBack, DetachedDead, PumpSettled,
         PumpOwns, Mine, Alloc
<1>3. ASSUME NEW f \in Fds, Shutdown(f) PROVE PumpOwns'
  BY <1>3
     DEF TypeOK, Points, SidDrawn, SidUnique, PointsBack, DetachedDead, PumpSettled,
         PumpOwns, Mine, Shutdown, Finds, app
<1>4. ASSUME NEW f \in Fds, Close(f) PROVE PumpOwns'
  <2>1. UNCHANGED <<sid, state, fd_live, wr_shut, pc, at, call>>
        /\ desc' = [desc EXCEPT ![f] = "closed"] /\ dial' = [dial EXCEPT ![f] = None]
        /\ raced' = IF Pending(f) = {} THEN raced ELSE raced \union {f}
    BY <1>4, CloseEffect
  <2>2. CASE UNCHANGED <<used, gsock, dead>>
    BY <2>1, <2>2
       DEF TypeOK, Points, SidDrawn, SidUnique, PointsBack, DetachedDead, PumpSettled,
           PumpOwns, Mine
  <2>3. CASE ~UNCHANGED <<used, gsock, dead>>
    <3>1. PICK s \in Slots :
            /\ used[s] /\ gsock[s] = f
            /\ dead' = [dead EXCEPT ![s] = TRUE]
            /\ gsock' = [gsock EXCEPT ![s] = IF state[s] # "connecting" /\ fd_live[s]
                                             THEN None ELSE @]
            /\ used' = [used EXCEPT ![s] = ~(state[s] = "connecting" /\ ~fd_live[s])]
      BY <1>4, <2>3, CloseEffect
    <3> QED BY <2>1, <3>1
       DEF TypeOK, Points, SidDrawn, SidUnique, PointsBack, DetachedDead, PumpSettled,
           PumpOwns, Mine
  <2> QED BY <2>2, <2>3
<1>5. ASSUME NEW d \in Dials, Start(d) PROVE PumpOwns'
  BY <1>5
     DEF TypeOK, Points, SidDrawn, SidUnique, PointsBack, DetachedDead, PumpSettled,
         PumpOwns, Mine, Start, slots, app
<1>6. ASSUME NEW d \in Dials, DialFail(d) PROVE PumpOwns'
  BY <1>6
     DEF TypeOK, Points, SidDrawn, SidUnique, PointsBack, DetachedDead, PumpSettled,
         PumpOwns, Mine, DialFail, FailLocal, flags, app
<1>7. ASSUME NEW d \in Dials, DialDone(d) PROVE PumpOwns'
  BY <1>7
     DEF TypeOK, Points, SidDrawn, SidUnique, PointsBack, DetachedDead, PumpSettled,
         PumpOwns, Mine, DialDone, slots, app
<1>8. ASSUME NEW d \in Dials, OpenSent(d) PROVE PumpOwns'
  BY <1>8
     DEF TypeOK, Points, SidDrawn, SidUnique, PointsBack, DetachedDead, PumpSettled,
         PumpOwns, Mine, OpenSent, app
<1>9. ASSUME NEW d \in Dials, VerdictEOF(d) PROVE PumpOwns'
  BY <1>9
     DEF TypeOK, Points, SidDrawn, SidUnique, PointsBack, DetachedDead, PumpSettled,
         PumpOwns, Mine, VerdictEOF, flags, app
<1>10. ASSUME NEW d \in Dials, NEW ok \in BOOLEAN, Verdict(d, ok) PROVE PumpOwns'
  BY <1>10
     DEF TypeOK, Points, SidDrawn, SidUnique, PointsBack, DetachedDead, PumpSettled,
         PumpOwns, Mine, Verdict, flags, app
<1>11. ASSUME NEW d \in Dials, NEW ok \in BOOLEAN, VerdictDetached(d, ok) PROVE PumpOwns'
  BY <1>11
     DEF TypeOK, Points, SidDrawn, SidUnique, PointsBack, DetachedDead, PumpSettled,
         PumpOwns, Mine, VerdictDetached, flags, app
<1>12. ASSUME NEW d \in Dials, PumpClosed(d) PROVE PumpOwns'
  BY <1>12
     DEF TypeOK, Points, SidDrawn, SidUnique, PointsBack, DetachedDead, PumpSettled,
         PumpOwns, Mine, PumpClosed, slots, app
<1>13. ASSUME NEW d \in Dials, PumpError(d) PROVE PumpOwns'
  BY <1>13
     DEF TypeOK, Points, SidDrawn, SidUnique, PointsBack, DetachedDead, PumpSettled,
         PumpOwns, Mine, PumpError, flags, app
<1>14. ASSUME NEW d \in Dials, Tail(d) PROVE PumpOwns'
  BY <1>14
     DEF TypeOK, Points, SidDrawn, SidUnique, PointsBack, DetachedDead, PumpSettled,
         PumpOwns, Mine, Tail, flags, app
<1>15. CASE UNCHANGED vars
  BY <1>15
     DEF TypeOK, Points, SidDrawn, SidUnique, PointsBack, DetachedDead, PumpSettled,
         PumpOwns, Mine, vars
<1> QED BY <1>1, <1>2, <1>3, <1>4, <1>5, <1>6, <1>7, <1>8, <1>9, <1>10, <1>11, <1>12,
   <1>13, <1>14, <1>15, <1>16, <1>17
        DEF Next, Application, Thread

-----------------------------------------------------------------------------
\* The parts together are preserved by every step.
LEMMA IInvStep == IInv /\ [Next]_vars => IInv'
BY TypeStep, SidDrawnStep, SidUniqueStep, PointsBackStep, DetachedDeadStep, PumpSettledStep,
   BoundStep, PumpOwnsStep
   DEF IInv

\* The inductive invariant holds throughout.
LEMMA Invariance == Spec => []IInv
BY InitIInv, IInvStep, PTL DEF Spec

(* The table, the threads and the descriptors keep their types.            *)
THEOREM TypeCorrect == Spec => []TypeOK
<1>1. IInv => TypeOK
  BY DEF IInv
<1> QED BY <1>1, Invariance, PTL

(* dt_stream_by_sock finds at most one stream for a descriptor, and it is  *)
(* the stream of the descriptor's last connect(), unless a connect() met   *)
(* another one or a close() between its lookup and its dt_stream_alloc.    *)
THEOREM OwnStreams == Spec => []OwnStream
<1>1. IInv => OwnStream
  BY DEF IInv
<1> QED BY <1>1, Invariance, PTL

(* The slot under a pump always holds the pump's stream, and every open or *)
(* pending stream has its thread.                                          *)
THEOREM PumpsOwn == Spec => []PumpOwns
<1>1. IInv => PumpOwns
  BY DEF IInv
<1> QED BY <1>1, Invariance, PTL
=============================================================================
