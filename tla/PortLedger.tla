----------------------------- MODULE PortLedger -----------------------------
(***************************************************************************)
(* The machine-wide port ledger of hk_ledger.c and the bind() and close()  *)
(* doors that use it (hk_linux.c, hk_alias.c, dt_bind_alias).  A node is   *)
(* one emulated machine: its processes share virtual ports, and a second   *)
(* bind of a port must fail as a kernel would fail it, while other nodes   *)
(* on the same operating system are invisible.                             *)
(*                                                                         *)
(* The ledger is shared memory under one lock, so slp_claim, slp_release   *)
(* and slp_taken are one step each; the kernel's bind() is another, and a  *)
(* process may be killed between any two.  Table positions carry no        *)
(* meaning: the ledger is a set of at most SLP_MAX entries.  A process is  *)
(* never reborn, but its pid may be reused.                                *)
(***************************************************************************)
EXTENDS Integers, FiniteSets

CONSTANTS Procs, PidOf, NodeOf,   \* processes, their pids and node ids
          Socks, ProcOf,          \* sockets and their processes
          Proto, Reuse,           \* "stream" or "dgram"; SO_REUSEADDR
          Wants,                  \* ports an application asks for; 0: any
          NPorts,                 \* the ephemeral ports are 1 .. NPorts
          SLP_MAX                 \* entries of the ledger

Ports == 1 .. NPorts

ASSUME ProcAssumption == IsFiniteSet(Procs) /\ PidOf \in [Procs -> Nat]
ASSUME SockAssumption ==
  /\ IsFiniteSet(Socks) /\ ProcOf \in [Socks -> Procs]
  /\ Proto \in [Socks -> {"stream", "dgram"}] /\ Reuse \in [Socks -> BOOLEAN]
  /\ Wants \in [Socks -> SUBSET (Ports \union {0})]
ASSUME BoundAssumption == NPorts \in Nat \ {0} /\ SLP_MAX \in Nat \ {0}

VARIABLES ledger,  \* slp_t.e, the used entries
          proc,    \* process -> "none", "up", "dead"
          pc,      \* socket -> where its bind() or close() is
          vport,   \* socket -> the port being bound, then its alias row
          real,    \* socket -> the port the kernel gave it, 0: none
          tried,   \* socket -> ephemeral ports tried
          owned    \* history: slp_claim let this socket have the port

vars == <<ledger, proc, pc, vport, real, tried, owned>>
sockets == <<vport, real, tried, owned>>

\* The real port of an aliased socket: some port no application asks for.
Hidden == NPorts + 1

Entry == [proc : Procs, vport : Ports, proto : {"stream", "dgram"}, reuse : BOOLEAN]

Init ==
  /\ ledger = {}
  /\ proc = [p \in Procs |-> "none"]
  /\ pc = [s \in Socks |-> "new"]
  /\ vport = [s \in Socks |-> 0]
  /\ real = [s \in Socks |-> 0]
  /\ tried = [s \in Socks |-> 0]
  /\ owned = [s \in Socks |-> FALSE]

-----------------------------------------------------------------------------
\* slp_alive: the pid runs and started when the entry's process did.
Alive(x) == proc[x.proc] = "up"

\* Mutant: only an entry of the claimer's own process counts.
MatchesOwn(x, s, v) == x.proc = ProcOf[s] /\ x.vport = v /\ x.proto = Proto[s]

\* The entry for port v of the process of s, and the entry it would write.
Matches(x, s, v) ==
  NodeOf[x.proc] = NodeOf[ProcOf[s]] /\ x.vport = v /\ x.proto = Proto[s]
Mine(s, v, reuse) ==
  [proc |-> ProcOf[s], vport |-> v, proto |-> Proto[s], reuse |-> reuse]

\* The ledgers a new entry may be put into: a free entry is used first, else
\* one whose process is dead.
Room == IF Cardinality(ledger) < SLP_MAX THEN {ledger}
        ELSE {ledger \ {x} : x \in {y \in ledger : ~Alive(y)}}

\* Mutant: a second claim is only noted.
RefusesNever(x, s, reuse) == FALSE

\* A live holder refuses the claim, unless both are datagram sharers.
Refuses(x, s, reuse) == Alive(x) /\ ~(Proto[s] = "dgram" /\ x.reuse /\ reuse)

(* slp_claim of port v for socket s: rc 0 granted, 1 shared, -1 refused,   *)
(* -2 no room.                                                             *)
Claim(s, v, reuse, rc) ==
  LET held == {x \in ledger : Matches(x, s, v)} IN
  \/ /\ rc = 0
     /\ \E x \in held : ~Alive(x) /\ ledger' = (ledger \ {x}) \union {Mine(s, v, reuse)}
  \/ /\ rc = 1
     /\ \E x \in held : Alive(x) /\ ~Refuses(x, s, reuse)
     /\ UNCHANGED ledger
  \/ /\ rc = -1
     /\ \E x \in held : Refuses(x, s, reuse)
     /\ UNCHANGED ledger
  \/ /\ rc = 0 /\ held = {}
     /\ \E l \in Room : ledger' = l \union {Mine(s, v, reuse)}
  \/ /\ rc = -2 /\ held = {} /\ Room = {}
     /\ UNCHANGED ledger

\* slp_release: entries of this pid only.
Release(s, v) ==
  ledger' = {x \in ledger : ~(Matches(x, s, v) /\ PidOf[x.proc] = PidOf[ProcOf[s]])}

\* slp_taken.
Taken(s, v) == \E x \in ledger : NodeOf[x.proc] = NodeOf[ProcOf[s]] /\ x.vport = v

\* The kernel: port v is in use for socket s.
InUse(s, v) ==
  \E t \in Socks \ {s} : /\ real[t] = v /\ Proto[t] = Proto[s]
                         /\ ~(Proto[s] = "dgram" /\ Reuse[s] /\ Reuse[t])

Goto(s, at) == pc' = [pc EXCEPT ![s] = at]
\* The bind is given up, or the socket closed.
Leave(s, at) ==
  /\ Goto(s, at)
  /\ vport' = [vport EXCEPT ![s] = 0]
  /\ owned' = [owned EXCEPT ![s] = FALSE]
Runs(s, at) == proc[ProcOf[s]] = "up" /\ pc[s] = at

-----------------------------------------------------------------------------
\* bind() of a given port: the ledger first ...
BindPort(s) ==
  /\ Runs(s, "new")
  /\ \E v \in Wants[s] \ {0}, rc \in -2 .. 1 :
       /\ Claim(s, v, Reuse[s], rc)
       /\ Goto(s, IF rc = -1 THEN "failed" ELSE "claimed")
       /\ vport' = [vport EXCEPT ![s] = IF rc = -1 THEN 0 ELSE v]
       /\ owned' = [owned EXCEPT ![s] = (rc >= 0)]
  /\ UNCHANGED <<proc, real, tried>>

\* ... then the kernel.
BindReal(s) ==
  /\ Runs(s, "claimed") /\ ~InUse(s, vport[s])
  /\ Goto(s, "bound")
  /\ real' = [real EXCEPT ![s] = vport[s]]
  /\ UNCHANGED <<ledger, proc, vport, tried, owned>>

\* Mutant: a failed bind keeps its claim.
BindFailsKeeping(s) ==
  /\ Runs(s, "claimed")
  /\ Leave(s, "failed")
  /\ UNCHANGED <<ledger, proc, real, tried>>

\* The kernel refuses it, also under another port number: no bind.
BindFails(s) ==
  /\ Runs(s, "claimed")
  /\ Release(s, vport[s])
  /\ Leave(s, "failed")
  /\ UNCHANGED <<proc, real, tried>>

\* dt_bind_alias: the real port is taken, by another node one hopes.
BindAlias(s) ==
  /\ Runs(s, "claimed") /\ InUse(s, vport[s])
  /\ Goto(s, "bound")
  /\ real' = [real EXCEPT ![s] = Hidden]
  /\ UNCHANGED <<ledger, proc, vport, tried, owned>>

\* bind() of port 0: the ephemeral ports in turn, from one the pid gives.
BindAny(s) ==
  /\ Runs(s, "new") /\ 0 \in Wants[s]
  /\ Goto(s, "pick")
  /\ UNCHANGED <<ledger, proc, sockets>>

Candidate(s) == 1 + ((PidOf[ProcOf[s]] + tried[s]) % NPorts)
NextCandidate(s) == tried' = [tried EXCEPT ![s] = @ + 1]

PickSkip(s) ==
  /\ Runs(s, "pick") /\ tried[s] < NPorts /\ Taken(s, Candidate(s))
  /\ NextCandidate(s)
  /\ UNCHANGED <<ledger, proc, pc, vport, real, owned>>

PickFree(s) ==
  /\ Runs(s, "pick") /\ tried[s] < NPorts /\ ~Taken(s, Candidate(s))
  /\ Goto(s, "picked")
  /\ UNCHANGED <<ledger, proc, sockets>>

PickClaim(s) ==
  /\ Runs(s, "picked")
  /\ \E rc \in -2 .. 1 :
       /\ Claim(s, Candidate(s), TRUE, rc)
       /\ \/ /\ rc = -1 /\ Goto(s, "pick") /\ NextCandidate(s)
             /\ UNCHANGED <<vport, owned>>
          \/ /\ rc # -1 /\ Goto(s, "pickbind")
             /\ vport' = [vport EXCEPT ![s] = Candidate(s)]
             /\ owned' = [owned EXCEPT ![s] = (rc >= 0)]
             /\ UNCHANGED tried
  /\ UNCHANGED <<proc, real>>

PickBind(s) ==
  /\ Runs(s, "pickbind") /\ ~InUse(s, vport[s])
  /\ Goto(s, "bound")
  /\ real' = [real EXCEPT ![s] = vport[s]]
  /\ UNCHANGED <<ledger, proc, vport, tried, owned>>

\* In use: the next one.
PickBusy(s) ==
  /\ Runs(s, "pickbind") /\ InUse(s, vport[s])
  /\ Release(s, vport[s])
  /\ Leave(s, "pick")
  /\ NextCandidate(s)
  /\ UNCHANGED <<proc, real>>

\* Another error ends the loop.
PickError(s) ==
  /\ Runs(s, "pickbind")
  /\ Release(s, vport[s])
  /\ Leave(s, "pick")
  /\ tried' = [tried EXCEPT ![s] = NPorts]
  /\ UNCHANGED <<proc, real>>

(* Out of candidates, or nothing in the ledger and no isolation asked for: *)
(* whatever port the kernel gives.                                         *)
BindOs(s) ==
  /\ Runs(s, "pick")
  /\ tried[s] = NPorts \/ (tried[s] = 0 /\ ledger = {})
  /\ \E v \in Ports :
       /\ ~\E t \in Socks : real[t] = v /\ Proto[t] = Proto[s]
       /\ real' = [real EXCEPT ![s] = v]
       /\ vport' = [vport EXCEPT ![s] = v]
  /\ Goto(s, "given")
  /\ UNCHANGED <<ledger, proc, tried, owned>>

\* No port at all.
BindOsFails(s) ==
  /\ Runs(s, "pick") /\ tried[s] = NPorts
  /\ Goto(s, "failed")
  /\ UNCHANGED <<ledger, proc, sockets>>

\* The claim is made afterwards, and its answer is not looked at.
OsClaim(s) ==
  /\ Runs(s, "given")
  /\ \E rc \in -2 .. 1 : /\ Claim(s, vport[s], Reuse[s], rc)
                         /\ owned' = [owned EXCEPT ![s] = (rc >= 0)]
  /\ Goto(s, "bound")
  /\ UNCHANGED <<proc, vport, real, tried>>

\* close(): dt_on_close gives the port back, and then the kernel closes.
Close(s) ==
  /\ Runs(s, "bound")
  /\ Release(s, vport[s])
  /\ Leave(s, "closing")
  /\ UNCHANGED <<proc, real, tried>>

RealClose(s) ==
  /\ Runs(s, "closing")
  /\ Goto(s, "closed")
  /\ real' = [real EXCEPT ![s] = 0]
  /\ UNCHANGED <<ledger, proc, vport, tried, owned>>

\* A process starts under a free pid, and dies at any point.
Start(p) ==
  /\ proc[p] = "none"
  /\ ~\E q \in Procs : proc[q] = "up" /\ PidOf[q] = PidOf[p]
  /\ proc' = [proc EXCEPT ![p] = "up"]
  /\ UNCHANGED <<ledger, pc, sockets>>

Crash(p) ==
  LET Of(s) == ProcOf[s] = p IN
  /\ proc[p] = "up"
  /\ proc' = [proc EXCEPT ![p] = "dead"]
  /\ pc' = [s \in Socks |-> IF Of(s) THEN "closed" ELSE pc[s]]
  /\ vport' = [s \in Socks |-> IF Of(s) THEN 0 ELSE vport[s]]
  /\ real' = [s \in Socks |-> IF Of(s) THEN 0 ELSE real[s]]
  /\ tried' = [s \in Socks |-> IF Of(s) THEN 0 ELSE tried[s]]
  /\ owned' = [s \in Socks |-> IF Of(s) THEN FALSE ELSE owned[s]]
  /\ UNCHANGED ledger

Next ==
  \/ \E s \in Socks :
       \/ BindPort(s) \/ BindReal(s) \/ BindFails(s) \/ BindAlias(s)
       \/ BindAny(s) \/ PickSkip(s) \/ PickFree(s) \/ PickClaim(s)
       \/ PickBind(s) \/ PickBusy(s) \/ PickError(s) \/ BindOs(s) \/ BindOsFails(s) \/ OsClaim(s)
       \/ Close(s) \/ RealClose(s)
  \/ \E p \in Procs : Start(p) \/ Crash(p)

Spec == Init /\ [][Next]_vars

-----------------------------------------------------------------------------
TypeOK ==
  /\ ledger \subseteq Entry /\ IsFiniteSet(ledger) /\ Cardinality(ledger) <= SLP_MAX
  /\ proc \in [Procs -> {"none", "up", "dead"}]
  /\ pc \in [Socks -> {"new", "claimed", "pick", "picked", "pickbind", "given", "bound",
                       "closing", "closed", "failed"}]
  /\ vport \in [Socks -> Ports \union {0}]
  /\ real \in [Socks -> Ports \union {0, Hidden}]
  /\ tried \in [Socks -> 0 .. NPorts]
  /\ owned \in [Socks -> BOOLEAN]

(* A node has one claim on a port and protocol: takeovers, sweeps and       *)
(* racing binds never leave two, of which slp_claim would see only the      *)
(* first.                                                                   *)
OneClaim ==
  \A x, y \in ledger :
    NodeOf[x.proc] = NodeOf[y.proc] /\ x.vport = y.vport /\ x.proto = y.proto => x = y

\* A process's only socket of its protocol.
Alone(s) == \A t \in Socks \ {s} : ProcOf[t] = ProcOf[s] => Proto[t] # Proto[s]

(* "a sibling process of THIS machine may not take a port another of its    *)
(* processes serves": two stream sockets of one node that the ledger let    *)
(* bind never present the same port, whatever dies, closes or fails.  Only  *)
(* processes with one stream socket are promised this: slp_release does not *)
(* ask which socket of a process made the claim it removes.                 *)
StreamExclusive ==
  \A s, t \in Socks :
    /\ Proto[s] = "stream" /\ Proto[t] = "stream" /\ Alone(s) /\ Alone(t)
    /\ NodeOf[ProcOf[s]] = NodeOf[ProcOf[t]]
    /\ owned[s] /\ owned[t] /\ vport[s] = vport[t]
    => s = t

(* A claim the ledger honours belongs to a socket that is using the port or *)
(* about to: no failed bind, close or death leaves a port that siblings are *)
(* refused for ever, also when a pid is reused.                             *)
NoLeakedClaim ==
  \A x \in ledger : Alive(x) =>
    \E s \in Socks : /\ ProcOf[s] = x.proc
                     /\ vport[s] = x.vport /\ Proto[s] = x.proto
=============================================================================
