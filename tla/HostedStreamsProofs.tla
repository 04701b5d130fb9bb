------------------------ MODULE HostedStreamsProofs ------------------------
(***************************************************************************)
(* Proofs for HostedStreams, for any sets of requests, ports and           *)
(* descriptors and any table size: rows and sockets have one owner.        *)
(*                                                                         *)
(* The inductive invariant says what a row holds at each program point of  *)
(* its thread (RowsOk), that a stream has one row (SidUnique), which       *)
(* sockets a thread has made (SocksOk), that connections of which either   *)
(* end is open have different ports (PortsDistinct), and that a thread     *)
(* without a row lost it to the sweep (HasRow).                            *)
(***************************************************************************)
EXTENDS HostedStreams, TLAPS

Active == {"dial", "verdict", "bridge", "connected", "joined", "pump"}
Recorded == {"joined", "pump"}

RowsOk ==
  \A i \in Rows : used[i] =>
    /\ sid[i] \in Reqs
    /\ pc[sid[i]] \in Active
    /\ pc[sid[i]] \in Recorded => real[i] = sid[i] /\ live[i] /\ lport[i] = port[sid[i]]
    /\ pc[sid[i]] \notin Recorded => real[i] = None /\ ~live[i]
    /\ fd[i] = IF pc[sid[i]] = "pump" THEN sid[i] ELSE None

SidUnique == \A i, k \in Rows : used[i] /\ used[k] /\ sid[i] = sid[k] => i = k

SocksOk ==
  \A r \in Reqs :
    /\ pc[r] \in {"none", "dial"} => relay[r] = "none"
    /\ pc[r] \in Active \ {"dial"} => relay[r] = "open"
    /\ pc[r] \in {"none", "dial", "verdict", "bridge"} => bridge[r] = "none"
    /\ pc[r] \in {"connected", "joined", "pump"} => bridge[r] = "open"
    /\ pc[r] = "over" =>
         /\ relay[r] \in {"none", "closed"}
         /\ bridge[r] \in {"none", "closed", "open"}
         /\ bridge[r] = "open" => r \in swept

\* The kernel keeps the port of r's bridge for r: either end is still open.
KeepsPort(r) == bridge[r] = "open" \/ r \in backlog \/ \E f \in Fds : peer[f] = r

PortsDistinct ==
  \A a, b \in Reqs :
    KeepsPort(a) => port[a] \in Ports /\ (KeepsPort(b) /\ port[a] = port[b] => a = b)

HasRow ==
  \A r \in Reqs :
    /\ pc[r] \in Active => r \in swept \/ \E i \in Rows : used[i] /\ sid[i] = r
    /\ pc[r] = "pump" => \E i \in Rows : used[i] /\ sid[i] = r

IInv == TypeOK /\ RowsOk /\ SidUnique /\ SocksOk /\ PortsDistinct /\ HasRow

USE DEF Rows, Active, Recorded, SockState

-----------------------------------------------------------------------------
\* No row is used and no thread runs at the start.
LEMMA InitIInv == Init => IInv
BY HostAssumption, NoneAssumption
   DEF Init, IInv, TypeOK, RowsOk, SidUnique, SocksOk, PortsDistinct, KeepsPort, HasRow
\* What dt_hs_close leaves behind when the thread of r ends with it: the
\* caller has closed the relay connection itself unless it was pumping.
LEMMA HsCloseIInv ==
  ASSUME IInv, NEW r \in Reqs, pc[r] \in Active \ {"connected"},
         NEW relays \in [Reqs -> SockState],
         \A b \in Reqs : b # r => relays[b] = relay[b],
         pc[r] = "pump" => relays[r] = "open",
         pc[r] # "pump" => relays[r] \in {"none", "closed"},
         HsClose(r, relays),
         pc' = [pc EXCEPT ![r] = "over"],
         UNCHANGED <<port, backlog, game, swept>>
  PROVE  IInv'
<1> USE HostAssumption, NoneAssumption
<1>1. /\ \A i \in Rows : used'[i] <=> used[i] /\ sid[i] # r
      /\ \A i \in Rows : used'[i] => real'[i] = real[i] /\ fd'[i] = fd[i]
      /\ UNCHANGED <<sid, live, lport, accsp>>
  BY DEF HsClose, BySid, IInv, TypeOK
<1>2. \A b \in Reqs : b # r => bridge'[b] = bridge[b] /\ relay'[b] = relay[b]
  <2> SUFFICES ASSUME NEW b \in Reqs, b # r
               PROVE  bridge'[b] = bridge[b] /\ relay'[b] = relay[b]
    OBVIOUS
  <2>1. \A i \in BySid(r) : real[i] # b /\ fd[i] # b
    BY DEF BySid, IInv, RowsOk
  <2> QED BY <2>1 DEF HsClose
<1>3. relay'[r] \in {"none", "closed"}
  <2>1. CASE pc[r] = "pump"
    <3>1. PICK i \in Rows : used[i] /\ sid[i] = r
      BY <2>1 DEF IInv, HasRow
    <3>2. fd[i] = r
      BY <2>1, <3>1 DEF IInv, RowsOk
    <3> QED BY <2>1, <3>1, <3>2 DEF HsClose, BySid, Closed
  <2>2. CASE pc[r] # "pump"
    <3>1. \A i \in BySid(r) : fd[i] # r
      BY <2>2 DEF BySid, IInv, RowsOk
    <3> QED BY <2>2, <3>1 DEF HsClose
  <2> QED BY <2>1, <2>2
<1>4. bridge'[r] \in {"none", "closed", "open"} /\ (bridge'[r] = "open" => r \in swept)
  <2>1. CASE \E i \in BySid(r) : real[i] = r
    <3>1. bridge[r] = "open"
      BY <2>1 DEF BySid, IInv, RowsOk, SocksOk
    <3> QED BY <2>1, <3>1 DEF HsClose, Closed
  <2>2. CASE ~\E i \in BySid(r) : real[i] = r
    <3>1. bridge'[r] = bridge[r]
      BY <2>2 DEF HsClose
    <3>2. bridge[r] \in {"none", "open"}
      BY DEF IInv, SocksOk
    <3>3. CASE bridge[r] = "open"
      <4>1. pc[r] \in {"connected", "joined", "pump"}
        BY <3>3 DEF IInv, SocksOk
      <4>2. r \in swept
        BY <4>1, <2>2 DEF BySid, IInv, RowsOk, HasRow
      <4> QED BY <3>1, <3>2, <4>2
    <3> QED BY <3>1, <3>2, <3>3
  <2> QED BY <2>1, <2>2
<1>5. TypeOK'
  <2>1. /\ relay' \in [Reqs -> SockState]
        /\ bridge' \in [Reqs -> SockState]
    BY <1>2, <1>3, <1>4 DEF HsClose, Closed, IInv, TypeOK
  <2>2. /\ used' \in [Rows -> BOOLEAN]
        /\ real' \in [Rows -> Reqs \union {None}]
        /\ fd' \in [Rows -> Reqs \union {None}]
    BY DEF HsClose, IInv, TypeOK
  <2> QED BY <2>1, <2>2, <1>1 DEF IInv, TypeOK, game
<1>6. RowsOk'
  BY <1>1 DEF IInv, TypeOK, RowsOk
<1>7. SidUnique'
  BY <1>1 DEF IInv, SidUnique
<1>8. SocksOk'
  BY <1>2, <1>3, <1>4 DEF IInv, TypeOK, SocksOk
<1>9. PortsDistinct'
  <2>1. bridge'[r] = "open" => bridge[r] = "open"
    BY DEF HsClose, Closed, IInv, TypeOK
  <2>2. \A b \in Reqs : KeepsPort(b)' => KeepsPort(b)
    BY <1>2, <2>1 DEF KeepsPort, game
  <2> QED BY <2>2 DEF IInv, PortsDistinct
<1>10. HasRow'
  BY <1>1 DEF IInv, TypeOK, HasRow
<1> QED BY <1>5, <1>6, <1>7, <1>8, <1>9, <1>10 DEF IInv
-----------------------------------------------------------------------------
\* A request with a row: the row is new to its stream, accsp aside.
LEMMA RequestIInv ==
  ASSUME IInv, NEW r \in Reqs, Request(r)
  PROVE  IInv'
<1> USE HostAssumption, NoneAssumption
<1>1. PICK i \in Rows :
        /\ pc[r] = "none" /\ ~used[i]
        /\ used' = [used EXCEPT ![i] = TRUE]
        /\ sid' = [sid EXCEPT ![i] = r]
        /\ real' = [real EXCEPT ![i] = None]
        /\ fd' = [fd EXCEPT ![i] = None]
        /\ live' = [live EXCEPT ![i] = FALSE]
        /\ lport' = [lport EXCEPT ![i] = None]
        /\ pc' = [pc EXCEPT ![r] = "dial"]
        /\ UNCHANGED <<accsp, socks, game, swept>>
  BY DEF Request, First
<1>2. TypeOK'
  BY <1>1 DEF IInv, TypeOK, socks, game
<1>3. \A k \in Rows : used[k] => sid[k] # r
  BY <1>1 DEF IInv, RowsOk
<1>4. RowsOk'
  BY <1>1, <1>3 DEF IInv, TypeOK, RowsOk, socks
<1>5. SidUnique'
  BY <1>1, <1>3 DEF IInv, TypeOK, SidUnique
<1>6. SocksOk' /\ PortsDistinct'
  BY <1>1 DEF IInv, TypeOK, SocksOk, PortsDistinct, KeepsPort, socks, game
<1>7. HasRow'
  BY <1>1 DEF IInv, TypeOK, HasRow
<1> QED BY <1>2, <1>4, <1>5, <1>6, <1>7 DEF IInv

\* Steps of the join thread that leave the table alone.
LEMMA ThreadIInv ==
  ASSUME IInv, NEW r \in Reqs,
         Unserved(r) \/ TableFull(r) \/ Dial(r) \/ Granted(r)
  PROVE  IInv'
<1> USE HostAssumption, NoneAssumption
<1>1. CASE Unserved(r) \/ TableFull(r)
  <2>1. /\ pc[r] = "none" /\ pc' = [pc EXCEPT ![r] = "over"]
        /\ UNCHANGED <<rows, socks, game, swept>>
    BY <1>1 DEF Unserved, TableFull
  <2>2. TypeOK'
    BY <2>1 DEF IInv, TypeOK, rows, socks, game
  <2>3. RowsOk' /\ SidUnique' /\ HasRow'
    BY <2>1 DEF IInv, TypeOK, RowsOk, SidUnique, HasRow, rows, socks
  <2>4. SocksOk' /\ PortsDistinct'
    BY <2>1 DEF IInv, TypeOK, SocksOk, PortsDistinct, KeepsPort, socks, game
  <2> QED BY <2>2, <2>3, <2>4 DEF IInv
<1>2. CASE Dial(r)
  BY <1>2 DEF Dial, IInv, TypeOK, RowsOk, SidUnique, SocksOk, PortsDistinct, KeepsPort, HasRow,
              rows, game
<1>3. CASE Granted(r)
  BY <1>3 DEF Granted, IInv, TypeOK, RowsOk, SidUnique, SocksOk, PortsDistinct, KeepsPort, HasRow,
              rows, socks, game
<1> QED BY <1>1, <1>2, <1>3

\* The kernel gives the bridge a port no open bridge has.
LEMMA ConnectIInv ==
  ASSUME IInv, NEW r \in Reqs, NEW p \in Ports, Connect(r, p)
  PROVE  IInv'
<1> USE HostAssumption, NoneAssumption
<1>1. TypeOK'
  BY DEF Connect, IInv, TypeOK, rows, game
<1>2. RowsOk'
  BY DEF Connect, IInv, TypeOK, RowsOk, rows
<1>3. SidUnique' /\ HasRow'
  BY DEF Connect, IInv, TypeOK, SidUnique, HasRow, rows
<1>4. SocksOk'
  BY DEF Connect, IInv, TypeOK, SocksOk
<1>5. PortsDistinct'
  <2>1. /\ port'[r] = p
        /\ \A b \in Reqs : b # r => port'[b] = port[b]
        /\ KeepsPort(r)'
        /\ \A b \in Reqs : b # r => (KeepsPort(b)' <=> KeepsPort(b))
    BY DEF Connect, IInv, TypeOK, KeepsPort, game
  <2>2. \A b \in Reqs : KeepsPort(b) => port[b] # p
    BY DEF Connect, KeepsPort
  <2> QED BY <2>1, <2>2 DEF IInv, PortsDistinct
<1> QED BY <1>1, <1>2, <1>3, <1>4, <1>5 DEF IInv

\* The row of the bridge becomes live.
LEMMA RecordIInv ==
  ASSUME IInv, NEW r \in Reqs, Record(r)
  PROVE  IInv'
<1> USE HostAssumption, NoneAssumption
<1>1. port[r] \in Ports
  BY DEF Record, IInv, SocksOk, PortsDistinct, KeepsPort
<1>2. TypeOK'
  BY <1>1 DEF Record, IInv, TypeOK, socks, game
<1>3. RowsOk'
  BY DEF Record, BySid, IInv, TypeOK, RowsOk, socks
<1>4. SidUnique' /\ HasRow'
  BY DEF Record, IInv, TypeOK, SidUnique, HasRow
<1>5. SocksOk' /\ PortsDistinct'
  BY DEF Record, IInv, TypeOK, SocksOk, PortsDistinct, KeepsPort, socks, game
<1> QED BY <1>2, <1>3, <1>4, <1>5 DEF IInv

\* The row gets the relay connection.
LEMMA JoinedIInv ==
  ASSUME IInv, NEW r \in Reqs, Joined(r)
  PROVE  IInv'
<1> USE HostAssumption, NoneAssumption
<1>1. TypeOK'
  BY DEF Joined, IInv, TypeOK, socks, game
<1>2. RowsOk'
  BY DEF Joined, BySid, IInv, TypeOK, RowsOk, socks
<1>3. SidUnique' /\ HasRow'
  BY DEF Joined, BySid, IInv, TypeOK, SidUnique, HasRow
<1>4. SocksOk' /\ PortsDistinct'
  BY DEF Joined, IInv, TypeOK, SocksOk, PortsDistinct, KeepsPort, socks, game
<1> QED BY <1>1, <1>2, <1>3, <1>4 DEF IInv

\* The ways a join thread ends, through HsCloseIInv.
LEMMA EndIInv ==
  ASSUME IInv, NEW r \in Reqs,
         DialFail(r) \/ StandDown(r) \/ JoinedFail(r) \/ PumpEnd(r)
  PROVE  IInv'
<1>1. CASE DialFail(r)
  <2>1. relay \in [Reqs -> SockState] /\ relay[r] = "none"
    BY <1>1 DEF DialFail, IInv, TypeOK, SocksOk
  <2> QED BY <1>1, <2>1, HsCloseIInv DEF DialFail
<1>2. CASE StandDown(r) \/ JoinedFail(r)
  <2> DEFINE relays == [relay EXCEPT ![r] = Closed(@)]
  <2>1. relay[r] = "open" /\ relay \in [Reqs -> SockState]
    BY <1>2 DEF StandDown, JoinedFail, IInv, TypeOK, SocksOk
  <2>2. /\ relays \in [Reqs -> SockState]
        /\ relays[r] = "closed"
        /\ \A b \in Reqs : b # r => relays[b] = relay[b]
    BY <2>1 DEF Closed
  <2>3. /\ pc[r] \in {"verdict", "bridge", "joined"}
        /\ HsClose(r, relays)
        /\ pc' = [pc EXCEPT ![r] = "over"]
        /\ UNCHANGED <<port, backlog, game, swept>>
    BY <1>2 DEF StandDown, JoinedFail
  <2> HIDE DEF relays
  <2> QED BY <2>2, <2>3, HsCloseIInv
<1>3. CASE PumpEnd(r)
  <2>1. relay \in [Reqs -> SockState] /\ relay[r] = "open"
    BY <1>3 DEF PumpEnd, IInv, TypeOK, SocksOk
  <2> QED BY <1>3, <2>1, HsCloseIInv DEF PumpEnd
<1> QED BY <1>1, <1>2, <1>3

\* The sweep takes only the row of a thread that has recorded no bridge.
LEMMA SweepIInv ==
  ASSUME IInv, NEW i \in Rows, Sweep(i)
  PROVE  IInv'
<1> USE HostAssumption, NoneAssumption
<1>1. sid[i] \in Reqs /\ pc[sid[i]] \notin Recorded
  BY DEF Sweep, IInv, RowsOk
<1>2. TypeOK'
  BY <1>1 DEF Sweep, IInv, TypeOK, socks, game
<1>3. RowsOk' /\ SidUnique'
  BY DEF Sweep, IInv, TypeOK, RowsOk, SidUnique, socks
<1>4. SocksOk' /\ PortsDistinct'
  BY DEF Sweep, IInv, TypeOK, SocksOk, PortsDistinct, KeepsPort, socks, game
<1>5. HasRow'
  BY <1>1 DEF Sweep, IInv, TypeOK, HasRow
<1> QED BY <1>2, <1>3, <1>4, <1>5 DEF IInv

\* The game's side touches no row but for accsp.
LEMMA GameIInv ==
  ASSUME IInv, NEW f \in Fds, Accepting(f)
  PROVE  IInv'
<1> USE HostAssumption, NoneAssumption
<1>1. CASE \E r \in Reqs : Accept(f, r)
  <2>1. \A r \in Reqs : KeepsPort(r)' <=> KeepsPort(r)
    BY <1>1 DEF Accept, KeepsPort, IInv, TypeOK
  <2>2. PortsDistinct'
    BY <1>1, <2>1 DEF Accept, IInv, PortsDistinct
  <2> QED BY <1>1, <2>2 DEF Accept, IInv, TypeOK, RowsOk, SidUnique, SocksOk, HasRow, rows
<1>2. CASE Learn(f)
  <2>1. UNCHANGED <<used, sid, real, fd, live, lport, pc, relay, bridge, port, backlog,
                    peer, swept>>
    BY <1>2 DEF Learn, socks
  <2>2. /\ accsp' \in [Rows -> Ports \union {None}]
        /\ learned' \in [Fds -> BOOLEAN]
        /\ vnode' \in [Fds -> Reqs \union {None}]
    <3> DEFINE p == port[peer[f]]
    <3>1. p \in Ports \union {None}
      BY <1>2 DEF Learn, IInv, TypeOK
    <3>2. learned' \in [Fds -> BOOLEAN]
      BY <1>2 DEF Learn, IInv, TypeOK
    <3>3. CASE UNCHANGED <<accsp, vnode>>
      BY <3>2, <3>3 DEF IInv, TypeOK
    <3>4. CASE \E i \in Rows : /\ accsp' = [accsp EXCEPT ![i] = p]
                              /\ vnode' = [vnode EXCEPT ![f] = sid[i]]
      BY <3>1, <3>2, <3>4 DEF IInv, TypeOK
    <3> QED BY <1>2, <3>3, <3>4 DEF Learn
  <2>3. PortsDistinct'
    BY <2>1 DEF IInv, PortsDistinct, KeepsPort
  <2> QED BY <2>1, <2>2, <2>3 DEF IInv, TypeOK, RowsOk, SidUnique, SocksOk, HasRow
<1>3. CASE Forget(f)
  <2>1. \A r \in Reqs : KeepsPort(r)' => KeepsPort(r)
    BY <1>3 DEF Forget, KeepsPort, IInv, TypeOK, socks, NoneAssumption
  <2>2. PortsDistinct'
    BY <1>3, <2>1 DEF Forget, IInv, PortsDistinct, socks
  <2> QED BY <1>3, <2>2 DEF Forget, IInv, TypeOK, RowsOk, SidUnique, SocksOk, HasRow, rows, socks
<1> QED BY <1>1, <1>2, <1>3 DEF Accepting

\* One case per action.
LEMMA NextIInv == IInv /\ [Next]_vars => IInv'
<1> SUFFICES ASSUME IInv, [Next]_vars PROVE IInv'
  OBVIOUS
<1>1. CASE \E r \in Reqs : Serve(r)
  <2> PICK r \in Reqs : Serve(r)
    BY <1>1
  <2> QED BY RequestIInv, ThreadIInv, ConnectIInv, RecordIInv, JoinedIInv, EndIInv DEF Serve
<1>2. CASE \E i \in Rows : Sweep(i)
  BY <1>2, SweepIInv
<1>3. CASE \E f \in Fds : Accepting(f)
  BY <1>3, GameIInv
<1>4. CASE UNCHANGED vars
  <2>1. PortsDistinct'
    BY <1>4 DEF vars, IInv, PortsDistinct, KeepsPort
  <2> QED BY <1>4, <2>1 DEF vars, IInv, TypeOK, RowsOk, SidUnique, SocksOk, HasRow
<1> QED BY <1>1, <1>2, <1>3, <1>4 DEF Next, Done

-----------------------------------------------------------------------------
\* Every reachable state has its type (rows, threads, sockets of dt_hosted).
THEOREM TypeCorrect == Spec => []TypeOK
<1>1. IInv => TypeOK
  BY DEF IInv
<1> QED BY InitIInv, NextIInv, <1>1, PTL DEF Spec

(* Neither the sweep of dt_hosted_thread nor the end of another stream     *)
(* takes the row or a socket of a pumping join thread.                     *)
THEOREM PumpsHaveRows == Spec => []PumpHasRow
<1>1. IInv => PumpHasRow
  <2> SUFFICES ASSUME IInv, NEW r \in Reqs, pc[r] = "pump"
               PROVE  /\ relay[r] = "open" /\ bridge[r] = "open"
                      /\ \E i \in Rows : BySid(r) = {i} /\ real[i] = r /\ fd[i] = r /\ live[i]
    BY DEF PumpHasRow
  <2>1. PICK i \in Rows : used[i] /\ sid[i] = r
    BY DEF IInv, HasRow
  <2>2. BySid(r) = {i}
    BY <2>1 DEF BySid, IInv, SidUnique
  <2> QED BY <2>1, <2>2 DEF IInv, RowsOk, SocksOk
<1> QED BY InitIInv, NextIInv, <1>1, PTL DEF Spec

\* dt_join_thread and dt_hs_close never close one socket twice.
THEOREM ClosesOnce == Spec => []ClosedOnce
<1>1. IInv => ClosedOnce
  <2> SUFFICES ASSUME IInv, NEW r \in Reqs PROVE relay[r] # "twice" /\ bridge[r] # "twice"
    BY DEF ClosedOnce
  <2> QED BY DEF IInv, TypeOK, SocksOk
<1> QED BY InitIInv, NextIInv, <1>1, PTL DEF Spec

(* A join thread that ended has given its sockets back, but for the bridge *)
(* of a row that was swept.                                                *)
THEOREM SocketsReturned == Spec => []Returned
<1>1. IInv => Returned
  BY DEF IInv, SocksOk, Returned
<1> QED BY InitIInv, NextIInv, <1>1, PTL DEF Spec

(* Which opener dt_acc_learn_fd may name for an accepted bridge: its own,  *)
(* or one whose row answers by the port of the row's previous stream.      *)
LEMMA LearnNames ==
  ASSUME IInv, NEW f \in Fds, Learn(f), vnode'[f] # vnode[f]
  PROVE  vnode'[f] = peer[f] \/ StaleAnswer(f, vnode'[f])
<1> USE NoneAssumption
<1>1. PICK r \in Reqs : peer[f] = r
  BY DEF Learn, IInv, TypeOK
<1>2. PICK i \in Rows :
        /\ used[i] /\ live[i] /\ port[r] \in {lport[i], accsp[i]}
        /\ accsp' = [accsp EXCEPT ![i] = port[r]]
        /\ vnode' = [vnode EXCEPT ![f] = sid[i]]
  BY <1>1 DEF Learn, First, Matching
<1>3. vnode'[f] = sid[i]
  BY <1>2 DEF IInv, TypeOK
<1>4. CASE lport[i] = port[r]
  <2>1. sid[i] \in Reqs /\ port[sid[i]] = port[r] /\ bridge[sid[i]] = "open"
    BY <1>2, <1>4 DEF IInv, RowsOk, SocksOk
  <2>2. KeepsPort(sid[i]) /\ KeepsPort(r)
    BY <1>1, <2>1 DEF KeepsPort
  <2>3. sid[i] = r
    BY <2>1, <2>2 DEF IInv, PortsDistinct
  <2> QED BY <1>1, <1>3, <2>3
<1>5. CASE lport[i] # port[r]
  BY <1>1, <1>2, <1>3, <1>5 DEF StaleAnswer
<1> QED BY <1>4, <1>5

(* accept() shows the opener of the accepted bridge, the row that kept the *)
(* port of its previous stream aside.                                      *)
THEOREM AcceptsShowOpeners == Spec => AcceptShowsOpener
<1>1. IInv /\ [Next]_vars =>
        \A f \in Fds :
          vnode'[f] \notin {vnode[f], None} => vnode'[f] = peer[f] \/ StaleAnswer(f, vnode'[f])
  <2> SUFFICES ASSUME IInv, [Next]_vars, NEW f \in Fds, vnode'[f] \notin {vnode[f], None}
               PROVE  vnode'[f] = peer[f] \/ StaleAnswer(f, vnode'[f])
    OBVIOUS
  <2>1. vnode' # vnode
    OBVIOUS
  <2>2. ~(\E r \in Reqs : Serve(r)) /\ ~(\E i \in Rows : Sweep(i))
    BY <2>1 DEF Serve, Unserved, TableFull, Request, Dial, DialFail, Granted, StandDown, Connect,
                Record, Joined, JoinedFail, PumpEnd, Sweep, game
  <2>3. PICK g \in Fds : Learn(g) \/ Forget(g)
    BY <2>1, <2>2 DEF Next, Accepting, Accept, Done, vars
  <2>4. vnode \in [Fds -> Reqs \union {None}]
    BY DEF IInv, TypeOK
  <2>5. f = g /\ Learn(f)
    BY <2>3, <2>4 DEF Learn, Forget
  <2> QED BY <2>5, LearnNames
<1> QED BY InitIInv, NextIInv, <1>1, PTL DEF Spec, AcceptShowsOpener
=============================================================================
