--------------------------- MODULE HostedStreams ---------------------------
(***************************************************************************)
(* The serving side of a stream in the hook: a STREQ on the control link   *)
(* gets a row of g_hs and a join thread (hk_stream.c), which claims the    *)
(* stream at the relay, connects a loopback bridge to the game's listener  *)
(* (hk_sess.c) and pumps.  The game's accept() looks the bridge's port up  *)
(* in the same rows, to show the opener's virtual address as the peer.     *)
(*                                                                         *)
(* A step is one section under the hook's lock or one system call.  A      *)
(* request stands for its stream id (the relay never has two streams with  *)
(* one id), for the address of its opener and for the two sockets its      *)
(* thread makes.  Row numbers are 1 .. MaxHost.                            *)
(***************************************************************************)
EXTENDS Integers, FiniteSets

CONSTANTS Reqs,     \* STREQs
          Ports,    \* ephemeral ports of the loopback
          Fds,      \* descriptors accept() returns to the game
          None,
          MaxHost   \* DT_MAXHOST

ASSUME HostAssumption == MaxHost \in Nat \ {0}
ASSUME NoneAssumption == None \notin Reqs \union Ports \union Fds

Rows == 1 .. MaxHost

VARIABLES used, sid, real, fd, live, lport, accsp,   \* g_hs
          pc,             \* the join thread
          relay, bridge,  \* its sockets
          port,           \* the bridge's own port
          backlog,        \* bridges the game has not accepted
          peer, learned, vnode,  \* accepted sockets and g_acc
          swept           \* history: requests whose row the sweep took

rows == <<used, sid, real, fd, live, lport, accsp>>
socks == <<relay, bridge, port, backlog>>
game == <<peer, learned, vnode>>
vars == <<used, sid, real, fd, live, lport, accsp, pc, relay, bridge, port,
          backlog, peer, learned, vnode, swept>>

Init ==
  /\ used = [i \in Rows |-> FALSE]
  /\ sid = [i \in Rows |-> None]
  /\ real = [i \in Rows |-> None]
  /\ fd = [i \in Rows |-> None]
  /\ live = [i \in Rows |-> FALSE]
  /\ lport = [i \in Rows |-> None]
  /\ accsp = [i \in Rows |-> None]
  /\ pc = [r \in Reqs |-> "none"]
  /\ relay = [r \in Reqs |-> "none"]
  /\ bridge = [r \in Reqs |-> "none"]
  /\ port = [r \in Reqs |-> None]
  /\ backlog = {}
  /\ peer = [f \in Fds |-> None]
  /\ learned = [f \in Fds |-> FALSE]
  /\ vnode = [f \in Fds |-> None]
  /\ swept = {}

-----------------------------------------------------------------------------
\* dt_hs_by_sid: the rows of a stream (at most one).
BySid(r) == {i \in Rows : used[i] /\ sid[i] = r}

\* The row a search from the first one finds.
First(i, S) == i \in S /\ \A k \in S : i <= k

\* close(2) of a socket: a second one would hit somebody else's descriptor.
Closed(s) == IF s = "open" THEN "closed" ELSE "twice"

(* dt_hs_close(sid): the row is freed and the sockets it names are closed. *)
(* relays: the relay sockets as the caller left them.  accsp survives.     *)
HsClose(r, relays) ==
  LET S == BySid(r) IN
  /\ used' = [i \in Rows |-> IF i \in S THEN FALSE ELSE used[i]]
  /\ real' = [i \in Rows |-> IF i \in S THEN None ELSE real[i]]
  /\ fd' = [i \in Rows |-> IF i \in S THEN None ELSE fd[i]]
  /\ bridge' = [b \in Reqs |-> IF \E i \in S : real[i] = b THEN Closed(bridge[b]) ELSE bridge[b]]
  /\ relay' = [b \in Reqs |-> IF \E i \in S : fd[i] = b THEN Closed(relays[b]) ELSE relays[b]]
  /\ UNCHANGED <<sid, live, lport, accsp>>

-----------------------------------------------------------------------------
\* dt_on_streq: no listener here, or no row ...
Unserved(r) ==
  /\ pc[r] = "none"
  /\ pc' = [pc EXCEPT ![r] = "over"]
  /\ UNCHANGED <<rows, socks, game, swept>>

TableFull(r) ==
  /\ pc[r] = "none"
  /\ \A i \in Rows : used[i]
  /\ pc' = [pc EXCEPT ![r] = "over"]
  /\ UNCHANGED <<rows, socks, game, swept>>

\* Mutant: the row keeps the live flag of its last stream until a bridge is up.
RequestLive(r) ==
  \E i \in Rows :
    /\ pc[r] = "none"
    /\ First(i, {k \in Rows : ~used[k]})
    /\ used' = [used EXCEPT ![i] = TRUE]
    /\ sid' = [sid EXCEPT ![i] = r]
    /\ real' = [real EXCEPT ![i] = None]
    /\ fd' = [fd EXCEPT ![i] = None]
    /\ pc' = [pc EXCEPT ![r] = "dial"]
    /\ UNCHANGED <<live, lport, accsp, socks, game, swept>>

\* ... or a row and a join thread.
Request(r) ==
  \E i \in Rows :
    /\ pc[r] = "none"
    /\ First(i, {k \in Rows : ~used[k]})
    /\ used' = [used EXCEPT ![i] = TRUE]
    /\ sid' = [sid EXCEPT ![i] = r]
    /\ real' = [real EXCEPT ![i] = None]
    /\ fd' = [fd EXCEPT ![i] = None]
    /\ live' = [live EXCEPT ![i] = FALSE]
    /\ lport' = [lport EXCEPT ![i] = None]
    /\ pc' = [pc EXCEPT ![r] = "dial"]
    /\ UNCHANGED <<accsp, socks, game, swept>>

\* The relay is dialled and STJOIN sent ...
Dial(r) ==
  /\ pc[r] = "dial"
  /\ relay' = [relay EXCEPT ![r] = "open"]
  /\ pc' = [pc EXCEPT ![r] = "verdict"]
  /\ UNCHANGED <<rows, bridge, port, backlog, game, swept>>

\* ... or cannot be.
DialFail(r) ==
  /\ pc[r] = "dial"
  /\ HsClose(r, relay)
  /\ pc' = [pc EXCEPT ![r] = "over"]
  /\ UNCHANGED <<port, backlog, game, swept>>

\* The claim's verdict is STOK ...
Granted(r) ==
  /\ pc[r] = "verdict"
  /\ pc' = [pc EXCEPT ![r] = "bridge"]
  /\ UNCHANGED <<rows, socks, game, swept>>

(* ... or it is not, or the game's port could not be reached four times    *)
(* and STFAIL was sent: the thread closes its connection and stands down.  *)
StandDown(r) ==
  /\ pc[r] \in {"verdict", "bridge"}
  /\ HsClose(r, [relay EXCEPT ![r] = Closed(@)])
  /\ pc' = [pc EXCEPT ![r] = "over"]
  /\ UNCHANGED <<port, backlog, game, swept>>

(* dt_host_bridge: connect() to the game's listener.  The kernel has the   *)
(* port while the bridge or the socket accepted from it is open.           *)
Connect(r, p) ==
  /\ pc[r] = "bridge"
  /\ \A b \in Reqs : port[b] = p =>
       bridge[b] # "open" /\ b \notin backlog /\ \A f \in Fds : peer[f] # b
  /\ bridge' = [bridge EXCEPT ![r] = "open"]
  /\ port' = [port EXCEPT ![r] = p]
  /\ backlog' = backlog \union {r}
  /\ pc' = [pc EXCEPT ![r] = "connected"]
  /\ UNCHANGED <<rows, relay, game, swept>>

\* Mutant: the row gets the relay connection before STJOINED is sent.
RecordEarly(r) ==
  LET S == BySid(r) IN
  /\ pc[r] = "connected"
  /\ real' = [i \in Rows |-> IF i \in S THEN r ELSE real[i]]
  /\ fd' = [i \in Rows |-> IF i \in S THEN r ELSE fd[i]]
  /\ live' = [i \in Rows |-> i \in S \/ live[i]]
  /\ lport' = [i \in Rows |-> IF i \in S THEN port[r] ELSE lport[i]]
  /\ pc' = [pc EXCEPT ![r] = "joined"]
  /\ UNCHANGED <<used, sid, accsp, socks, game, swept>>

\* The bridge's socket and port go into the row, if there is one.
Record(r) ==
  LET S == BySid(r) IN
  /\ pc[r] = "connected"
  /\ real' = [i \in Rows |-> IF i \in S THEN r ELSE real[i]]
  /\ live' = [i \in Rows |-> i \in S \/ live[i]]
  /\ lport' = [i \in Rows |-> IF i \in S THEN port[r] ELSE lport[i]]
  /\ pc' = [pc EXCEPT ![r] = "joined"]
  /\ UNCHANGED <<used, sid, fd, accsp, socks, game, swept>>

\* STJOINED is sent and the row gets the relay connection ...
Joined(r) ==
  /\ pc[r] = "joined" /\ BySid(r) # {}
  /\ fd' = [i \in Rows |-> IF i \in BySid(r) THEN r ELSE fd[i]]
  /\ pc' = [pc EXCEPT ![r] = "pump"]
  /\ UNCHANGED <<used, sid, real, live, lport, accsp, socks, game, swept>>

\* Mutant: the thread gives up its connection and forgets the row.
JoinedFailRow(r) ==
  /\ pc[r] = "joined"
  /\ relay' = [relay EXCEPT ![r] = Closed(@)]
  /\ pc' = [pc EXCEPT ![r] = "over"]
  /\ UNCHANGED <<rows, bridge, port, backlog, game, swept>>

\* ... or cannot be sent, or there is no row to learn the bridge from.
JoinedFail(r) ==
  /\ pc[r] = "joined"
  /\ HsClose(r, [relay EXCEPT ![r] = Closed(@)])
  /\ pc' = [pc EXCEPT ![r] = "over"]
  /\ UNCHANGED <<port, backlog, game, swept>>

\* The pump ends: both directions finished, an error, or the tunnel stops.
PumpEnd(r) ==
  /\ pc[r] = "pump"
  /\ HsClose(r, relay)
  /\ pc' = [pc EXCEPT ![r] = "over"]
  /\ UNCHANGED <<port, backlog, game, swept>>

-----------------------------------------------------------------------------
(* dt_hosted_thread frees the row of a session that has been PENDING for   *)
(* more than 30 s, which the bounded waits of its thread may add up to.    *)
Sweep(i) ==
  /\ used[i] /\ ~live[i]
  /\ used' = [used EXCEPT ![i] = FALSE]
  /\ swept' = swept \union {sid[i]}
  /\ UNCHANGED <<sid, real, fd, live, lport, accsp, pc, socks, game>>

-----------------------------------------------------------------------------
\* The game accepts a bridge: real_accept returns ...
Accept(f, r) ==
  /\ peer[f] = None /\ r \in backlog
  /\ peer' = [peer EXCEPT ![f] = r]
  /\ backlog' = backlog \ {r}
  /\ UNCHANGED <<rows, pc, relay, bridge, port, learned, vnode, swept>>

(* Rows dt_acc_learn_fd takes for a peer with port p.  A row keeps the     *)
(* accsp of its last stream, so one that is live again may match by it.    *)
Matching(p) == {i \in Rows : used[i] /\ live[i] /\ p \in {lport[i], accsp[i]}}

\* ... and dt_acc_learn_fd finds the row of the bridge's port, or none.
Learn(f) ==
  /\ peer[f] # None /\ ~learned[f]
  /\ learned' = [learned EXCEPT ![f] = TRUE]
  /\ LET p == port[peer[f]] IN
       \/ /\ Matching(p) = {}
          /\ UNCHANGED <<accsp, vnode>>
       \/ \E i \in Rows :
            /\ First(i, Matching(p))
            /\ accsp' = [accsp EXCEPT ![i] = p]
            /\ vnode' = [vnode EXCEPT ![f] = sid[i]]
  /\ UNCHANGED <<used, sid, real, fd, live, lport, pc, socks, peer, swept>>

\* close() of an accepted socket: dt_acc_forget, then the kernel's.
Forget(f) ==
  /\ peer[f] # None /\ learned[f]
  /\ peer' = [peer EXCEPT ![f] = None]
  /\ learned' = [learned EXCEPT ![f] = FALSE]
  /\ vnode' = [vnode EXCEPT ![f] = None]
  /\ UNCHANGED <<rows, pc, socks, swept>>

-----------------------------------------------------------------------------
Serve(r) ==
  \/ Unserved(r) \/ TableFull(r) \/ Request(r)
  \/ Dial(r) \/ DialFail(r) \/ Granted(r) \/ StandDown(r)
  \/ (\E p \in Ports : Connect(r, p)) \/ Record(r) \/ Joined(r) \/ JoinedFail(r) \/ PumpEnd(r)

Accepting(f) == (\E r \in Reqs : Accept(f, r)) \/ Learn(f) \/ Forget(f)

\* All requests were served and nothing is left to do.
Done ==
  /\ \A r \in Reqs : pc[r] = "over"
  /\ backlog = {} /\ \A f \in Fds : peer[f] = None
  /\ UNCHANGED vars

Next ==
  \/ \E r \in Reqs : Serve(r)
  \/ \E i \in Rows : Sweep(i)
  \/ \E f \in Fds : Accepting(f)
  \/ Done

Spec == Init /\ [][Next]_vars

(* The join thread runs, its waits are bounded (dial, verdict, connect     *)
(* retries), the pump ends only if a peer does; time passes and the        *)
(* hosted thread sweeps.                                                   *)
Fairness ==
  /\ \A r \in Reqs :
       /\ WF_vars(Dial(r) \/ DialFail(r))
       /\ WF_vars(Granted(r) \/ StandDown(r))
       /\ WF_vars(Record(r))
       /\ WF_vars(Joined(r) \/ JoinedFail(r))
  /\ \A i \in Rows : WF_vars(Sweep(i))

FairSpec == Spec /\ Fairness

-----------------------------------------------------------------------------
SockState == {"none", "open", "closed", "twice"}

TypeOK ==
  /\ used \in [Rows -> BOOLEAN]
  /\ sid \in [Rows -> Reqs \union {None}]
  /\ real \in [Rows -> Reqs \union {None}]
  /\ fd \in [Rows -> Reqs \union {None}]
  /\ live \in [Rows -> BOOLEAN]
  /\ lport \in [Rows -> Ports \union {None}]
  /\ accsp \in [Rows -> Ports \union {None}]
  /\ pc \in [Reqs -> {"none", "dial", "verdict", "bridge", "connected", "joined", "pump", "over"}]
  /\ relay \in [Reqs -> SockState]
  /\ bridge \in [Reqs -> SockState]
  /\ port \in [Reqs -> Ports \union {None}]
  /\ backlog \subseteq Reqs
  /\ peer \in [Fds -> Reqs \union {None}]
  /\ learned \in [Fds -> BOOLEAN]
  /\ vnode \in [Fds -> Reqs \union {None}]
  /\ swept \subseteq Reqs

(* A pumping thread's stream has its row, with the thread's own two        *)
(* sockets in it, both open: neither the sweep nor the end of another      *)
(* stream takes a row or a socket from under a pump.                       *)
PumpHasRow ==
  \A r \in Reqs : pc[r] = "pump" =>
    /\ relay[r] = "open" /\ bridge[r] = "open"
    /\ \E i \in Rows : BySid(r) = {i} /\ real[i] = r /\ fd[i] = r /\ live[i]

(* No path of the join thread closes a socket twice: the relay connection  *)
(* is closed either by the thread or through the row, never by both.       *)
ClosedOnce == \A r \in Reqs : relay[r] # "twice" /\ bridge[r] # "twice"

(* A join thread that has ended has closed its relay connection, and its   *)
(* bridge too unless the sweep took its row before the bridge was in it.   *)
Returned ==
  \A r \in Reqs : pc[r] = "over" =>
    relay[r] # "open" /\ (bridge[r] = "open" => r \in swept)

(* accept() shows the game the opener of the bridge it accepted: what      *)
(* dt_acc_learn_fd writes for a socket is the opener whose bridge is at    *)
(* the other end, or nothing, whatever rows and ports were reused since    *)
(* the bridge was made.  The code breaks this in one way only, which is    *)
(* excepted: a row that was never cleared of the port its previous stream  *)
(* was accepted from (accsp) answers for a new bridge at that port.        *)
StaleAnswer(f, r) ==
  \E i \in Rows : sid[i] = r /\ accsp[i] = port[peer[f]] /\ lport[i] # accsp[i]

AcceptShowsOpener ==
  [][\A f \in Fds :
       vnode'[f] \notin {vnode[f], None} => vnode'[f] = peer[f] \/ StaleAnswer(f, vnode'[f])]_vars

(* A row whose stream does not come up is free again, whatever failed.     *)
RowsReclaimed ==
  \A i \in Rows : used[i] ~> (~used[i] \/ \E r \in Reqs : pc[r] = "pump" /\ i \in BySid(r))
=============================================================================
