-------------------------- MODULE PortLedgerProofs --------------------------
(***************************************************************************)
(* Proofs about PortLedger: for any processes, sockets, ports and ledger   *)
(* size, a port has one claim, no live claim is without its socket, and    *)
(* two stream servers of a node never share a port.                        *)
(***************************************************************************)
EXTENDS PortLedger, FiniteSetTheorems, TLAPS

\* Only a running process writes an entry, and only it has sockets that own.
Started == \A x \in ledger : proc[x.proc] # "none"
OwnersUp == \A s \in Socks : owned[s] => proc[ProcOf[s]] = "up"

\* A pid is given to one running process at a time.
PidsDistinct ==
  \A p, q \in Procs : proc[p] = "up" /\ proc[q] = "up" /\ PidOf[p] = PidOf[q] => p = q

\* Where a socket has no port yet or any more, and where it has no claim.
NoPort == \A s \in Socks :
  pc[s] \in {"new", "pick", "picked", "failed", "closing", "closed"} => vport[s] = 0
NoClaim == \A s \in Socks :
  pc[s] \in {"new", "pick", "picked", "given", "failed", "closing", "closed"} => ~owned[s]

\* The kernel has named a port by the time it is claimed.
HasPort == \A s \in Socks : pc[s] = "given" => vport[s] \in Ports

\* A candidate is only tried while there are some left.
TriedOk == \A s \in Socks : pc[s] \in {"picked", "pickbind"} => tried[s] < NPorts

\* The entry of a stream socket that the ledger let bind is there.
Held == \A s \in Socks :
  Proto[s] = "stream" /\ Alone(s) /\ owned[s] =>
    \E x \in ledger : x.proc = ProcOf[s] /\ x.vport = vport[s] /\ x.proto = "stream"

\* The inductive invariant.
IInv == /\ TypeOK /\ OneClaim /\ NoLeakedClaim
        /\ Started /\ OwnersUp /\ PidsDistinct /\ NoPort /\ NoClaim /\ HasPort
        /\ TriedOk /\ Held

-----------------------------------------------------------------------------
\* The ledger is empty and no process runs at the start.
LEMMA InitIInv == Init => IInv
<1> SUFFICES ASSUME Init PROVE IInv
  OBVIOUS
<1>1. TypeOK
  BY FS_EmptySet, BoundAssumption DEF Init, TypeOK, Ports
<1> QED
  BY <1>1 DEF Init, IInv, OneClaim, NoLeakedClaim, Started, OwnersUp, PidsDistinct, NoPort,
              NoClaim, HasPort, TriedOk, Held

\* A candidate port is an ephemeral port.
LEMMA CandidateIsPort ==
  ASSUME TypeOK, NEW s \in Socks
  PROVE  Candidate(s) \in Ports
<1> DEFINE a == PidOf[ProcOf[s]] + tried[s]
<1>1. a \in Nat
  BY ProcAssumption, SockAssumption, BoundAssumption DEF TypeOK
<1>2. a % NPorts \in 0 .. (NPorts - 1)
  <2> HIDE DEF a
  <2> QED BY <1>1, BoundAssumption
<1> QED BY <1>2, BoundAssumption DEF Candidate, Ports

\* A set with room for one more.
LEMMA OneMore ==
  ASSUME NEW S, IsFiniteSet(S), NEW x, NEW n \in Nat, Cardinality(S) < n
  PROVE  IsFiniteSet(S \union {x}) /\ Cardinality(S \union {x}) <= n
<1>1. Cardinality(S) \in Nat
  BY FS_CardinalityType
<1>2. IsFiniteSet(S \union {x})
      /\ Cardinality(S \union {x}) = IF x \in S THEN Cardinality(S) ELSE Cardinality(S) + 1
  BY FS_AddElement
<1> QED BY <1>1, <1>2

\* Adding an entry to a ledger with room keeps it finite and bounded.
LEMMA RoomFits ==
  ASSUME TypeOK, NEW l \in Room, NEW m \in Entry
  PROVE  /\ l \subseteq ledger /\ l \union {m} \subseteq Entry
         /\ IsFiniteSet(l \union {m}) /\ Cardinality(l \union {m}) <= SLP_MAX
         /\ \A x \in ledger : Alive(x) => x \in l
<1>0. Cardinality(ledger) \in Nat
  BY FS_CardinalityType DEF TypeOK
<1>1. CASE Cardinality(ledger) < SLP_MAX
  <2>1. l = ledger
    BY <1>1 DEF Room
  <2>2. IsFiniteSet(l \union {m}) /\ Cardinality(l \union {m}) <= SLP_MAX
    BY <1>1, <2>1, OneMore, BoundAssumption DEF TypeOK
  <2> QED BY <2>1, <2>2 DEF TypeOK
<1>2. CASE ~(Cardinality(ledger) < SLP_MAX)
  <2>1. PICK x \in ledger : ~Alive(x) /\ l = ledger \ {x}
    BY <1>2 DEF Room
  <2>2. IsFiniteSet(l) /\ Cardinality(l) = Cardinality(ledger) - 1
    BY <2>1, FS_RemoveElement DEF TypeOK
  <2>3. Cardinality(l) < SLP_MAX
    BY <1>0, <2>2, BoundAssumption DEF TypeOK
  <2>4. IsFiniteSet(l \union {m}) /\ Cardinality(l \union {m}) <= SLP_MAX
    BY <2>2, <2>3, OneMore, BoundAssumption
  <2> QED BY <2>1, <2>4 DEF TypeOK
<1> QED BY <1>1, <1>2

\* slp_claim: one claim for a port, the claims of the living untouched, and
\* a granted stream claim has its entry.
LEMMA ClaimEffect ==
  ASSUME TypeOK, OneClaim, NEW s \in Socks, NEW v \in Ports, NEW reuse \in BOOLEAN,
         NEW rc \in -2 .. 1, proc[ProcOf[s]] = "up", Claim(s, v, reuse, rc)
  PROVE  /\ ledger' \subseteq Entry /\ IsFiniteSet(ledger') /\ Cardinality(ledger') <= SLP_MAX
         /\ OneClaim'
         /\ \A x \in ledger' : x \in ledger \/ (rc >= 0 /\ x = Mine(s, v, reuse))
         /\ \A x \in ledger : Alive(x) => x \in ledger'
         /\ Proto[s] = "stream" /\ rc >= 0 => Mine(s, v, reuse) \in ledger'
<1> DEFINE m == Mine(s, v, reuse)
           held == {x \in ledger : Matches(x, s, v)}
<1>1. m \in Entry /\ m.proc = ProcOf[s] /\ m.vport = v /\ m.proto = Proto[s]
  BY SockAssumption DEF Mine, Entry
<1>2. CASE rc = 0 /\ \E x \in held : ~Alive(x) /\ ledger' = (ledger \ {x}) \union {m}
  <2>1. PICK x \in held : ~Alive(x) /\ ledger' = (ledger \ {x}) \union {m}
    BY <1>2
  <2>2. IsFiniteSet(ledger \ {x}) /\ Cardinality(ledger \ {x}) = Cardinality(ledger) - 1
    BY <2>1, FS_RemoveElement DEF TypeOK
  <2>3. IsFiniteSet(ledger') /\ Cardinality(ledger') <= SLP_MAX
    <3>1. Cardinality(ledger) \in Nat
      BY FS_CardinalityType DEF TypeOK
    <3>2. Cardinality(ledger \ {x}) < SLP_MAX
      BY <2>2, <3>1, BoundAssumption DEF TypeOK
    <3> HIDE DEF m
    <3> QED BY <2>1, <2>2, <3>2, OneMore, BoundAssumption
  <2>4. OneClaim'
    <3>1. \A y \in ledger \ {x} : ~(NodeOf[y.proc] = NodeOf[m.proc] /\ y.vport = m.vport
                                     /\ y.proto = m.proto)
      BY <1>1, <2>1 DEF OneClaim, Matches
    <3> HIDE DEF m
    <3> QED BY <2>1, <3>1 DEF OneClaim
  <2> QED BY <1>1, <1>2, <2>1, <2>3, <2>4 DEF TypeOK
<1>3. CASE rc = 0 /\ held = {} /\ \E l \in Room : ledger' = l \union {m}
  <2>1. PICK l \in Room : ledger' = l \union {m}
    BY <1>3
  <2>2. /\ l \subseteq ledger /\ ledger' \subseteq Entry
        /\ IsFiniteSet(ledger') /\ Cardinality(ledger') <= SLP_MAX
        /\ \A x \in ledger : Alive(x) => x \in l
    BY <1>1, <2>1, RoomFits
  <2>3. OneClaim'
    <3>1. \A y \in ledger : ~(NodeOf[y.proc] = NodeOf[m.proc] /\ y.vport = m.vport
                               /\ y.proto = m.proto)
      BY <1>1, <1>3 DEF Matches
    <3> HIDE DEF m
    <3> QED BY <2>1, <2>2, <3>1 DEF OneClaim
  <2> QED BY <1>3, <2>1, <2>2, <2>3
<1>4. CASE rc = 1 /\ UNCHANGED ledger /\ \E x \in held : Alive(x) /\ ~Refuses(x, s, reuse)
  <2>1. Proto[s] # "stream"
    BY <1>4 DEF Refuses
  <2> QED BY <1>4, <2>1 DEF TypeOK, OneClaim
<1>5. CASE rc \in {-1, -2} /\ UNCHANGED ledger
  BY <1>5 DEF TypeOK, OneClaim
<1> QED BY <1>2, <1>3, <1>4, <1>5 DEF Claim

\* slp_release: nothing is added, and what it removes has the pid and the port.
LEMMA ReleaseEffect ==
  ASSUME TypeOK, OneClaim, NEW s \in Socks, NEW v, Release(s, v)
  PROVE  /\ ledger' \subseteq ledger /\ ledger' \subseteq Entry /\ IsFiniteSet(ledger')
         /\ Cardinality(ledger') <= SLP_MAX
         /\ OneClaim'
         /\ \A x \in ledger : x \in ledger' <=>
              ~(Matches(x, s, v) /\ PidOf[x.proc] = PidOf[ProcOf[s]])
<1>1. ledger' \subseteq ledger
  BY DEF Release
<1>2. IsFiniteSet(ledger') /\ Cardinality(ledger') <= Cardinality(ledger)
  BY <1>1, FS_Subset DEF TypeOK
<1>3. Cardinality(ledger') \in Nat /\ Cardinality(ledger) \in Nat
  BY <1>2, FS_CardinalityType DEF TypeOK
<1>4. Cardinality(ledger') <= SLP_MAX
  BY <1>2, <1>3, BoundAssumption DEF TypeOK
<1> QED BY <1>1, <1>2, <1>4 DEF Release, TypeOK, OneClaim

-----------------------------------------------------------------------------
\* The parts of the invariant that relate the ledger to the sockets.
Linked == OneClaim /\ NoLeakedClaim /\ Started /\ OwnersUp /\ Held

\* A claim of a running process for its own socket, which had none before.
LEMMA ClaimKeeps ==
  ASSUME IInv, NEW s \in Socks, NEW v \in Ports, NEW reuse \in BOOLEAN, NEW rc \in -2 .. 1,
         proc[ProcOf[s]] = "up", Claim(s, v, reuse, rc), UNCHANGED proc, ~owned[s],
         \A t \in Socks : t # s => vport'[t] = vport[t] /\ owned'[t] = owned[t],
         owned'[s] = (rc >= 0), rc >= 0 => vport'[s] = v,
         vport'[s] = vport[s] \/ vport[s] = 0
  PROVE  Linked'
<1> DEFINE m == Mine(s, v, reuse)
<1>1. /\ OneClaim'
      /\ \A x \in ledger' : x \in ledger \/ (rc >= 0 /\ x = m)
      /\ \A x \in ledger : Alive(x) => x \in ledger'
      /\ Proto[s] = "stream" /\ rc >= 0 => m \in ledger'
  BY ClaimEffect DEF IInv
<1>2. m.proc = ProcOf[s] /\ m.vport = v /\ m.proto = Proto[s]
  BY DEF Mine
<1> HIDE DEF m
<1>3. NoLeakedClaim'
  <2> SUFFICES ASSUME NEW x \in ledger', Alive(x)'
               PROVE  \E t \in Socks : /\ ProcOf[t] = x.proc
                                       /\ vport'[t] = x.vport /\ Proto[t] = x.proto
    BY DEF NoLeakedClaim
  <2>1. CASE rc >= 0 /\ x = m
    BY <2>1, <1>2
  <2>2. CASE x \in ledger
    <3>1. PICK t \in Socks : ProcOf[t] = x.proc /\ vport[t] = x.vport /\ Proto[t] = x.proto
      BY <2>2 DEF IInv, NoLeakedClaim, Alive
    <3>2. x.vport # 0
      BY <2>2, BoundAssumption DEF IInv, TypeOK, Entry, Ports
    <3> QED BY <3>1, <3>2
  <2> QED BY <1>1, <2>1, <2>2
<1>4. Started'
  BY <1>1, <1>2 DEF IInv, Started
<1>5. OwnersUp'
  BY DEF IInv, OwnersUp
<1>6. Held'
  <2> SUFFICES ASSUME NEW t \in Socks, Proto[t] = "stream", Alone(t), owned'[t]
               PROVE  \E x \in ledger' : x.proc = ProcOf[t] /\ x.vport = vport'[t]
                                         /\ x.proto = "stream"
    BY DEF Held, Alone
  <2>1. CASE t = s
    BY <2>1, <1>1, <1>2
  <2>2. CASE t # s
    <3>1. PICK x \in ledger : x.proc = ProcOf[t] /\ x.vport = vport[t] /\ x.proto = "stream"
      BY <2>2 DEF IInv, Held
    <3>2. Alive(x)
      BY <2>2, <3>1 DEF IInv, OwnersUp, Alive
    <3> QED BY <1>1, <2>2, <3>1, <3>2
  <2> QED BY <2>1, <2>2
<1> QED BY <1>1, <1>3, <1>4, <1>5, <1>6 DEF Linked

\* A running process gives back the port of its socket.
LEMMA ReleaseKeeps ==
  ASSUME IInv, NEW s \in Socks, proc[ProcOf[s]] = "up", Release(s, vport[s]),
         UNCHANGED proc, vport' = [vport EXCEPT ![s] = 0], owned' = [owned EXCEPT ![s] = FALSE]
  PROVE  Linked'
<1>1. /\ ledger' \subseteq ledger /\ OneClaim'
      /\ \A x \in ledger : x \in ledger' <=>
           ~(Matches(x, s, vport[s]) /\ PidOf[x.proc] = PidOf[ProcOf[s]])
  BY ReleaseEffect DEF IInv
<1>2. \A t \in Socks : t # s => vport'[t] = vport[t] /\ owned'[t] = owned[t]
  BY DEF IInv, TypeOK
<1>3. ~owned'[s]
  BY DEF IInv, TypeOK
<1>4. NoLeakedClaim'
  <2> SUFFICES ASSUME NEW x \in ledger', Alive(x)'
               PROVE  \E t \in Socks : /\ ProcOf[t] = x.proc
                                       /\ vport'[t] = x.vport /\ Proto[t] = x.proto
    BY DEF NoLeakedClaim
  <2>1. x \in ledger /\ Alive(x)
    BY <1>1 DEF Alive
  <2>2. PICK t \in Socks : ProcOf[t] = x.proc /\ vport[t] = x.vport /\ Proto[t] = x.proto
    BY <2>1 DEF IInv, NoLeakedClaim
  <2>3. t # s
    BY <1>1, <2>1, <2>2 DEF Matches
  <2> QED BY <1>2, <2>2, <2>3
<1>5. Started'
  BY <1>1 DEF IInv, Started
<1>6. OwnersUp'
  BY <1>2, <1>3 DEF IInv, OwnersUp
<1>7. Held'
  <2> SUFFICES ASSUME NEW t \in Socks, Proto[t] = "stream", Alone(t), owned'[t]
               PROVE  \E x \in ledger' : x.proc = ProcOf[t] /\ x.vport = vport'[t]
                                         /\ x.proto = "stream"
    BY DEF Held, Alone
  <2>1. t # s /\ owned[t]
    BY <1>2, <1>3
  <2>2. PICK x \in ledger : x.proc = ProcOf[t] /\ x.vport = vport[t] /\ x.proto = "stream"
    BY <2>1 DEF IInv, Held
  <2>3. ~(Matches(x, s, vport[s]) /\ PidOf[x.proc] = PidOf[ProcOf[s]])
    <3> SUFFICES ASSUME Matches(x, s, vport[s]), PidOf[x.proc] = PidOf[ProcOf[s]] PROVE FALSE
      OBVIOUS
    <3>1. proc[ProcOf[t]] = "up"
      BY <2>1 DEF IInv, OwnersUp
    <3>2. ProcOf[t] = ProcOf[s]
      BY <2>2, <3>1, SockAssumption DEF IInv, PidsDistinct
    <3>3. Proto[s] = "stream"
      BY <2>2 DEF Matches
    <3> QED BY <2>1, <3>2, <3>3 DEF Alone
  <2> QED BY <1>1, <1>2, <2>1, <2>2, <2>3
<1> QED BY <1>1, <1>4, <1>5, <1>6, <1>7 DEF Linked

\* A step that leaves the ledger, the claims and all used ports alone.
LEMMA StillKeeps ==
  ASSUME IInv, UNCHANGED <<ledger, proc, owned>>,
         \A t \in Socks : vport'[t] = vport[t] \/ (vport[t] = 0 /\ ~owned[t])
  PROVE  Linked'
<1>1. OneClaim' /\ Started' /\ OwnersUp'
  BY DEF IInv, OneClaim, Started, OwnersUp
<1>2. NoLeakedClaim'
  <2> SUFFICES ASSUME NEW x \in ledger, Alive(x)
               PROVE  \E t \in Socks : /\ ProcOf[t] = x.proc
                                       /\ vport'[t] = x.vport /\ Proto[t] = x.proto
    BY DEF NoLeakedClaim, Alive
  <2>1. PICK t \in Socks : ProcOf[t] = x.proc /\ vport[t] = x.vport /\ Proto[t] = x.proto
    BY DEF IInv, NoLeakedClaim
  <2>2. x.vport # 0
    BY BoundAssumption DEF IInv, TypeOK, Entry, Ports
  <2> QED BY <2>1, <2>2
<1>3. Held'
  <2> SUFFICES ASSUME NEW t \in Socks, Proto[t] = "stream", Alone(t), owned[t]
               PROVE  \E x \in ledger : x.proc = ProcOf[t] /\ x.vport = vport'[t]
                                        /\ x.proto = "stream"
    BY DEF Held, Alone
  <2> QED BY DEF IInv, Held
<1> QED BY <1>1, <1>2, <1>3 DEF Linked

-----------------------------------------------------------------------------
\* The parts of the invariant about a socket's own progress.
Local == PidsDistinct /\ NoPort /\ NoClaim /\ HasPort /\ TriedOk

\* A step of a socket's bind or close.
LEMMA SocketStep ==
  ASSUME IInv, NEW s \in Socks,
         \/ BindPort(s) \/ BindReal(s) \/ BindFails(s) \/ BindAlias(s)
         \/ BindAny(s) \/ PickSkip(s) \/ PickFree(s) \/ PickClaim(s)
         \/ PickBind(s) \/ PickBusy(s) \/ PickError(s) \/ BindOs(s) \/ BindOsFails(s)
         \/ OsClaim(s) \/ Close(s) \/ RealClose(s)
  PROVE  IInv'
<1> USE DEF Runs, Goto, Leave, NextCandidate, sockets
<1>0. TypeOK /\ OneClaim /\ Local
  BY DEF IInv, Local
<1>a. /\ ledger \subseteq Entry /\ IsFiniteSet(ledger) /\ Cardinality(ledger) <= SLP_MAX
      /\ \A v \in Ports : v \in Nat
  BY <1>0 DEF TypeOK, Ports
<1>1. CASE BindPort(s)
  <2>1. PICK v \in Wants[s] \ {0}, rc \in -2 .. 1 :
          /\ Claim(s, v, Reuse[s], rc)
          /\ pc' = [pc EXCEPT ![s] = IF rc = -1 THEN "failed" ELSE "claimed"]
          /\ vport' = [vport EXCEPT ![s] = IF rc = -1 THEN 0 ELSE v]
          /\ owned' = [owned EXCEPT ![s] = (rc >= 0)]
    BY <1>1 DEF BindPort
  <2>2. v \in Ports /\ Reuse[s] \in BOOLEAN
    BY SockAssumption
  <2>3. proc[ProcOf[s]] = "up" /\ pc[s] = "new" /\ UNCHANGED <<proc, real, tried>>
    BY <1>1 DEF BindPort
  <2>4. vport[s] = 0 /\ ~owned[s]
    BY <1>0, <2>3 DEF Local, NoPort, NoClaim
  <2>5. Linked'
    <3>1. /\ \A t \in Socks : t # s => vport'[t] = vport[t] /\ owned'[t] = owned[t]
          /\ owned'[s] = (rc >= 0) /\ (rc >= 0 => vport'[s] = v)
      BY <1>0, <2>1 DEF TypeOK
    <3> QED BY <2>1, <2>2, <2>3, <2>4, <3>1, ClaimKeeps
  <2>6. TypeOK'
    BY <1>0, <2>1, <2>2, <2>3, ClaimEffect DEF TypeOK
  <2>7. Local'
    BY <1>0, <2>1, <2>3 DEF TypeOK, Local, PidsDistinct, NoPort, NoClaim, HasPort, TriedOk
  <2> QED BY <2>5, <2>6, <2>7 DEF IInv, Linked, Local
<1>2. CASE \/ BindReal(s) \/ BindAlias(s) \/ PickBind(s) \/ BindAny(s) \/ PickFree(s)
           \/ BindOsFails(s) \/ RealClose(s)
  <2>1. UNCHANGED <<ledger, proc, owned, vport, tried>>
    BY <1>2 DEF BindReal, BindAlias, PickBind, BindAny, PickFree, BindOsFails, RealClose
  <2>2. Linked'
    BY <2>1, StillKeeps
  <2>3. TypeOK'
    BY <1>0, <1>2, <2>1
       DEF TypeOK, BindReal, BindAlias, PickBind, BindAny, PickFree, BindOsFails, RealClose
  <2>4. Local'
    BY <1>0, <1>2, <2>1
       DEF TypeOK, Local, PidsDistinct, NoPort, NoClaim, HasPort, TriedOk,
           BindReal, BindAlias, PickBind, BindAny, PickFree, BindOsFails, RealClose
  <2> QED BY <2>2, <2>3, <2>4 DEF IInv, Linked, Local
<1>3. CASE PickSkip(s)
  <2>1. UNCHANGED <<ledger, proc, owned, vport>>
    BY <1>3 DEF PickSkip
  <2>2. Linked'
    BY <2>1, StillKeeps
  <2>3. TypeOK'
    BY <1>0, <1>3, BoundAssumption DEF TypeOK, PickSkip
  <2>4. Local'
    BY <1>0, <1>3 DEF TypeOK, Local, PidsDistinct, NoPort, NoClaim, HasPort, TriedOk, PickSkip
  <2> QED BY <2>2, <2>3, <2>4 DEF IInv, Linked, Local
<1>4. CASE BindFails(s) \/ PickBusy(s) \/ PickError(s) \/ Close(s)
  <2>1. /\ proc[ProcOf[s]] = "up" /\ UNCHANGED <<proc, real>> /\ Release(s, vport[s])
        /\ vport' = [vport EXCEPT ![s] = 0] /\ owned' = [owned EXCEPT ![s] = FALSE]
        /\ \E at \in {"failed", "pick", "closing"} : pc' = [pc EXCEPT ![s] = at]
    BY <1>4 DEF BindFails, PickBusy, PickError, Close
  <2>2. Linked'
    BY <2>1, ReleaseKeeps
  <2>3. tried' \in [Socks -> 0 .. NPorts] /\ \A t \in Socks : t # s => tried'[t] = tried[t]
    BY <1>0, <1>4, BoundAssumption
       DEF TypeOK, Local, TriedOk, BindFails, PickBusy, PickError, Close
  <2>4. TypeOK'
    <3>1. ledger' \subseteq Entry /\ IsFiniteSet(ledger') /\ Cardinality(ledger') <= SLP_MAX
      BY <1>0, <2>1, ReleaseEffect
    <3>2. PICK at \in {"failed", "pick", "closing"} : pc' = [pc EXCEPT ![s] = at]
      BY <2>1
    <3>3. pc' \in [Socks -> {"new", "claimed", "pick", "picked", "pickbind", "given", "bound",
                            "closing", "closed", "failed"}]
      BY <1>0, <3>2 DEF TypeOK
    <3>4. /\ vport' \in [Socks -> Ports \union {0}] /\ owned' \in [Socks -> BOOLEAN]
          /\ UNCHANGED <<proc, real>>
      BY <1>0, <2>1 DEF TypeOK
    <3> QED BY <1>0, <2>3, <3>1, <3>3, <3>4 DEF TypeOK
  <2>5. Local'
    BY <1>0, <2>1, <2>3 DEF TypeOK, Local, PidsDistinct, NoPort, NoClaim, HasPort, TriedOk
  <2> QED BY <2>2, <2>4, <2>5 DEF IInv, Linked, Local
<1>5. CASE PickClaim(s)
  <2>1. PICK rc \in -2 .. 1 :
          /\ Claim(s, Candidate(s), TRUE, rc)
          /\ \/ /\ rc = -1 /\ pc' = [pc EXCEPT ![s] = "pick"]
                /\ tried' = [tried EXCEPT ![s] = @ + 1] /\ UNCHANGED <<vport, owned>>
             \/ /\ rc # -1 /\ pc' = [pc EXCEPT ![s] = "pickbind"]
                /\ vport' = [vport EXCEPT ![s] = Candidate(s)]
                /\ owned' = [owned EXCEPT ![s] = (rc >= 0)]
                /\ UNCHANGED tried
    BY <1>5 DEF PickClaim
  <2>2. Candidate(s) \in Ports
    BY <1>0, CandidateIsPort
  <2>3. proc[ProcOf[s]] = "up" /\ pc[s] = "picked" /\ UNCHANGED <<proc, real>>
    BY <1>5 DEF PickClaim
  <2>4. vport[s] = 0 /\ ~owned[s] /\ tried[s] < NPorts
    BY <1>0, <2>3 DEF Local, NoPort, NoClaim, HasPort, TriedOk
  <2> DEFINE v == Candidate(s)
  <2>5. v \in Ports /\ Claim(s, v, TRUE, rc)
    BY <2>1, <2>2
  <2>6. \/ /\ rc = -1 /\ pc' = [pc EXCEPT ![s] = "pick"]
           /\ tried' = [tried EXCEPT ![s] = @ + 1] /\ UNCHANGED <<vport, owned>>
        \/ /\ rc # -1 /\ pc' = [pc EXCEPT ![s] = "pickbind"]
           /\ vport' = [vport EXCEPT ![s] = v]
           /\ owned' = [owned EXCEPT ![s] = (rc >= 0)]
           /\ UNCHANGED tried
    BY <2>1
  <2> HIDE DEF v
  <2>7. Linked'
    <3>1. /\ \A t \in Socks : t # s => vport'[t] = vport[t] /\ owned'[t] = owned[t]
          /\ owned'[s] = (rc >= 0) /\ (rc >= 0 => vport'[s] = v)
      BY <1>0, <2>4, <2>6 DEF TypeOK
    <3> QED BY <2>3, <2>4, <2>5, <3>1, ClaimKeeps
  <2>8. TypeOK'
    <3>1. ledger' \subseteq Entry /\ IsFiniteSet(ledger') /\ Cardinality(ledger') <= SLP_MAX
      BY <1>0, <2>3, <2>5, ClaimEffect
    <3>2. pc' \in [Socks -> {"new", "claimed", "pick", "picked", "pickbind", "given", "bound",
                            "closing", "closed", "failed"}]
      BY <1>0, <2>6 DEF TypeOK
    <3>3. vport' \in [Socks -> Ports \union {0}] /\ owned' \in [Socks -> BOOLEAN]
      <4>1. vport \in [Socks -> Ports \union {0}] /\ owned \in [Socks -> BOOLEAN]
        BY <1>0 DEF TypeOK
      <4>2. vport' = vport \/ vport' = [vport EXCEPT ![s] = v]
        BY <2>6
      <4>3. \/ owned' = owned
            \/ owned' = [owned EXCEPT ![s] = TRUE] \/ owned' = [owned EXCEPT ![s] = FALSE]
        <5>1. (rc >= 0) = TRUE \/ (rc >= 0) = FALSE
          OBVIOUS
        <5> QED BY <2>6, <5>1
      <4>4. vport' \in [Socks -> Ports \union {0}]
        BY <2>5, <4>1, <4>2
      <4>5. owned' \in [Socks -> BOOLEAN]
        BY <4>1, <4>3
      <4> QED BY <4>4, <4>5
    <3>4. tried' \in [Socks -> 0 .. NPorts]
      BY <1>0, <2>4, <2>6, BoundAssumption DEF TypeOK
    <3> QED BY <1>0, <2>3, <3>1, <3>2, <3>3, <3>4 DEF TypeOK
  <2>9. Local'
    BY <1>0, <2>3, <2>4, <2>6 DEF TypeOK, Local, PidsDistinct, NoPort, NoClaim, HasPort, TriedOk
  <2> QED BY <2>7, <2>8, <2>9 DEF IInv, Linked, Local
<1>6. CASE BindOs(s)
  <2>1. PICK v \in Ports : /\ real' = [real EXCEPT ![s] = v]
                           /\ vport' = [vport EXCEPT ![s] = v]
    BY <1>6 DEF BindOs
  <2>2. /\ pc[s] = "pick" /\ pc' = [pc EXCEPT ![s] = "given"]
        /\ UNCHANGED <<ledger, proc, tried, owned>>
    BY <1>6 DEF BindOs
  <2>3. vport[s] = 0 /\ ~owned[s]
    BY <1>0, <2>2 DEF Local, NoPort, NoClaim
  <2>4. Linked'
    BY <1>0, <2>1, <2>2, <2>3, StillKeeps DEF TypeOK
  <2>5. TypeOK'
    BY <1>0, <2>1, <2>2 DEF TypeOK
  <2>6. Local'
    BY <1>0, <2>1, <2>2 DEF TypeOK, Local, PidsDistinct, NoPort, NoClaim, HasPort, TriedOk
  <2> QED BY <2>4, <2>5, <2>6 DEF IInv, Linked, Local
<1>7. CASE OsClaim(s)
  <2>1. PICK rc \in -2 .. 1 : /\ Claim(s, vport[s], Reuse[s], rc)
                              /\ owned' = [owned EXCEPT ![s] = (rc >= 0)]
    BY <1>7 DEF OsClaim
  <2>2. /\ proc[ProcOf[s]] = "up" /\ pc[s] = "given" /\ pc' = [pc EXCEPT ![s] = "bound"]
        /\ UNCHANGED <<proc, vport, real, tried>>
    BY <1>7 DEF OsClaim
  <2>3. vport[s] \in Ports /\ ~owned[s] /\ Reuse[s] \in BOOLEAN
    BY <1>0, <2>2, SockAssumption DEF TypeOK, Local, HasPort, NoClaim
  <2>4. Linked'
    <3>1. /\ \A t \in Socks : t # s => vport'[t] = vport[t] /\ owned'[t] = owned[t]
          /\ owned'[s] = (rc >= 0)
      BY <1>0, <2>1, <2>2 DEF TypeOK
    <3> QED BY <2>1, <2>2, <2>3, <3>1, ClaimKeeps
  <2>5. TypeOK'
    <3>1. ledger' \subseteq Entry /\ IsFiniteSet(ledger') /\ Cardinality(ledger') <= SLP_MAX
      BY <1>0, <2>1, <2>2, <2>3, ClaimEffect
    <3> QED BY <1>0, <2>1, <2>2, <3>1 DEF TypeOK
  <2>6. Local'
    BY <1>0, <2>1, <2>2 DEF TypeOK, Local, PidsDistinct, NoPort, NoClaim, HasPort, TriedOk
  <2> QED BY <2>4, <2>5, <2>6 DEF IInv, Linked, Local
<1> QED BY <1>1, <1>2, <1>3, <1>4, <1>5, <1>6, <1>7

\* A process starts, under a pid that no running process has.
LEMMA StartStep ==
  ASSUME IInv, NEW p \in Procs, Start(p)
  PROVE  IInv'
<1>1. /\ proc[p] = "none" /\ proc' = [proc EXCEPT ![p] = "up"]
      /\ UNCHANGED <<ledger, pc, vport, real, tried, owned>>
      /\ ~\E q \in Procs : proc[q] = "up" /\ PidOf[q] = PidOf[p]
  BY DEF Start, sockets
<1>2. TypeOK' /\ OneClaim' /\ NoPort' /\ NoClaim' /\ HasPort' /\ TriedOk' /\ Held'
  BY <1>1 DEF IInv, TypeOK, OneClaim, NoPort, NoClaim, HasPort, TriedOk, Held
<1>3. Started' /\ OwnersUp' /\ PidsDistinct'
  BY <1>1, SockAssumption DEF IInv, TypeOK, Started, OwnersUp, PidsDistinct
<1>4. NoLeakedClaim'
  <2>1. \A x \in ledger : Alive(x)' => Alive(x)
    BY <1>1 DEF IInv, TypeOK, Entry, Started, Alive
  <2> QED BY <1>1, <2>1 DEF IInv, NoLeakedClaim
<1> QED BY <1>2, <1>3, <1>4 DEF IInv

\* A process dies: its entries are there, and count for nothing.
LEMMA CrashStep ==
  ASSUME IInv, NEW p \in Procs, Crash(p)
  PROVE  IInv'
<1>1. /\ proc' = [proc EXCEPT ![p] = "dead"] /\ UNCHANGED ledger
      /\ pc' = [s \in Socks |-> IF ProcOf[s] = p THEN "closed" ELSE pc[s]]
      /\ vport' = [s \in Socks |-> IF ProcOf[s] = p THEN 0 ELSE vport[s]]
      /\ real' = [s \in Socks |-> IF ProcOf[s] = p THEN 0 ELSE real[s]]
      /\ tried' = [s \in Socks |-> IF ProcOf[s] = p THEN 0 ELSE tried[s]]
      /\ owned' = [s \in Socks |-> IF ProcOf[s] = p THEN FALSE ELSE owned[s]]
  BY DEF Crash
<1>2. TypeOK'
  <2>1. real' \in [Socks -> Ports \union {0, Hidden}] /\ tried' \in [Socks -> 0 .. NPorts]
        /\ vport' \in [Socks -> Ports \union {0}]
    BY <1>1, BoundAssumption DEF IInv, TypeOK
  <2>2. pc' \in [Socks -> {"new", "claimed", "pick", "picked", "pickbind", "given", "bound",
                           "closing", "closed", "failed"}]
        /\ owned' \in [Socks -> BOOLEAN] /\ proc' \in [Procs -> {"none", "up", "dead"}]
    BY <1>1 DEF IInv, TypeOK
  <2> QED BY <1>1, <2>1, <2>2 DEF IInv, TypeOK
<1>3. OneClaim' /\ Started' /\ PidsDistinct'
  BY <1>1 DEF IInv, TypeOK, Entry, OneClaim, Started, PidsDistinct
<1>4. NoPort' /\ NoClaim' /\ HasPort' /\ TriedOk'
  BY <1>1 DEF IInv, TypeOK, NoPort, NoClaim, HasPort, TriedOk
<1>5. OwnersUp'
  BY <1>1, SockAssumption DEF IInv, TypeOK, OwnersUp
<1>6. NoLeakedClaim'
  <2> SUFFICES ASSUME NEW x \in ledger, Alive(x)'
               PROVE  \E s \in Socks : /\ ProcOf[s] = x.proc
                                       /\ vport'[s] = x.vport /\ Proto[s] = x.proto
    BY <1>1 DEF NoLeakedClaim
  <2>1. x.proc # p /\ Alive(x)
    BY <1>1 DEF IInv, TypeOK, Entry, Alive
  <2>2. PICK s \in Socks : ProcOf[s] = x.proc /\ vport[s] = x.vport /\ Proto[s] = x.proto
    BY <2>1 DEF IInv, NoLeakedClaim
  <2> QED BY <1>1, <2>1, <2>2
<1>7. Held'
  <2> SUFFICES ASSUME NEW s \in Socks, Proto[s] = "stream", Alone(s), owned'[s]
               PROVE  \E x \in ledger : x.proc = ProcOf[s] /\ x.vport = vport'[s]
                                        /\ x.proto = "stream"
    BY <1>1 DEF Held, Alone
  <2> QED BY <1>1 DEF IInv, Held
<1> QED BY <1>2, <1>3, <1>4, <1>5, <1>6, <1>7 DEF IInv

\* Every step keeps the invariant.
LEMMA StepIInv == IInv /\ [Next]_vars => IInv'
<1> SUFFICES ASSUME IInv, [Next]_vars PROVE IInv'
  OBVIOUS
<1>1. CASE Next
  BY <1>1, SocketStep, StartStep, CrashStep DEF Next
<1>2. CASE UNCHANGED vars
  BY <1>2 DEF vars, IInv, TypeOK, OneClaim, NoLeakedClaim, Alive, Started, OwnersUp,
              PidsDistinct, NoPort, NoClaim, HasPort, TriedOk, Held
<1> QED BY <1>1, <1>2

LEMMA Invariant == Spec => []IInv
BY InitIInv, StepIInv, PTL DEF Spec

-----------------------------------------------------------------------------
(* Every reachable state of the ledger, of bind() and of close() has its    *)
(* type; the ledger never outgrows its table.                               *)
THEOREM TypeCorrect == Spec => []TypeOK
<1>1. IInv => TypeOK
  BY DEF IInv
<1> QED BY <1>1, Invariant, PTL

(* Takeovers of dead holders, sweeps of a full table and racing binds never *)
(* give a port of a node two claims.                                        *)
THEOREM ClaimsOne == Spec => []OneClaim
<1>1. IInv => OneClaim
  BY DEF IInv
<1> QED BY <1>1, Invariant, PTL

(* No failed bind, close or death leaves a claim that is honoured and that  *)
(* no socket stands for.                                                    *)
THEOREM NoClaimLeaks == Spec => []NoLeakedClaim
<1>1. IInv => NoLeakedClaim
  BY DEF IInv
<1> QED BY <1>1, Invariant, PTL

(* Two stream servers of one node never present the same port.              *)
THEOREM StreamsExclusive == Spec => []StreamExclusive
<1>1. IInv => StreamExclusive
  <2> SUFFICES ASSUME IInv, NEW s \in Socks, NEW t \in Socks,
                      Proto[s] = "stream", Proto[t] = "stream", Alone(s), Alone(t),
                      NodeOf[ProcOf[s]] = NodeOf[ProcOf[t]],
                      owned[s], owned[t], vport[s] = vport[t]
               PROVE  s = t
    BY DEF StreamExclusive
  <2>1. PICK x \in ledger : x.proc = ProcOf[s] /\ x.vport = vport[s] /\ x.proto = "stream"
    BY DEF IInv, Held
  <2>2. PICK y \in ledger : y.proc = ProcOf[t] /\ y.vport = vport[t] /\ y.proto = "stream"
    BY DEF IInv, Held
  <2>3. x = y
    BY <2>1, <2>2 DEF IInv, OneClaim
  <2> QED BY <2>1, <2>2, <2>3 DEF Alone
<1> QED BY <1>1, Invariant, PTL
=============================================================================
