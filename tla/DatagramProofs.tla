--------------------------- MODULE DatagramProofs ---------------------------
(***************************************************************************)
(* Proofs about the two ends of a datagram's way.  HostedUdp, for any sets *)
(* of peers and threads and tables and descriptor sets of any size: a      *)
(* session has one row, an open socket belongs to one row, and the game is *)
(* shown the sender of a datagram, or the loopback socket if no row has    *)
(* its port.  RelayUdp, for any machines, processes, links and triples:    *)
(* what is addressed to a node reaches its machine only, and an answer     *)
(* goes to somebody who asked.                                             *)
(***************************************************************************)
EXTENDS HostedUdp, RelayUdp, WellFoundedInduction, TLAPS

Row == [used : BOOLEAN, sess : Sessions \cup {Nobody}, fd : Fds \cup {0}, lport : Nat,
        idle : BOOLEAN]
Thread == [pc : {"rest", "send", "record"}, row : Rows \cup {0}, fd : Fds \cup {0},
           peer : Sessions \cup {Nobody}]
Snaps == SUBSET [row : Rows, fd : Fds \cup {0}, sess : Sessions \cup {Nobody}]
Datagram == [sock : Nat, peer : Sessions]
Polls == [pc : {"scan", "close", "select", "recv", "touch"}, at : Rows \cup {0}, snap : Snaps,
          fd : Fds \cup {0}]

\* The types of the variables that the argument reads.
Types ==
  /\ us \in [Rows -> Row]
  /\ open \in [Fds -> Nat]
  /\ madeFor \in Seq(Sessions)
  /\ th \in [Threads -> Thread]
  /\ poll \in Polls
  /\ gameq \in Seq(Datagram)

\* A row in use has a session and a descriptor.
RowsNamed == \A i \in Rows : us[i].used => us[i].sess \in Sessions /\ us[i].fd \in Fds

\* Sockets have the numbers of what was made.
SocksNumbered ==
  /\ \A f \in Fds : open[f] \in 0 .. Len(madeFor)
  /\ \A i \in DOMAIN gameq : gameq[i].sock \in 1 .. Len(madeFor)

\* A thread between its two lock sections has a row and a descriptor, of whoever they are.
ThreadsOk ==
  \A t \in Threads : th[t].pc # "rest" =>
    th[t].row \in Rows /\ th[t].fd \in Fds /\ th[t].peer \in Sessions

\* The socket that the poller is about to close is open.
ClosesOpen == poll.pc = "close" => poll.fd \in Fds /\ open[poll.fd] # 0

\* The inductive invariant of the table and the descriptors.
IInv == Types /\ RowsNamed /\ SocksNumbered /\ ThreadsOk /\ ClosesOpen /\ OneSession /\ SocketsOwned

\* A row names the port of its own socket, unless a thread that was held up wrote.
PortsOk ==
  \A i \in Rows : us[i].used /\ us[i].lport # 0 =>
    \/ us[i].lport = open[us[i].fd]
    \/ us[i].lport \in strayed /\ open[us[i].fd] \in strayed

(* A datagram that waits for the game was sent by the peer of its socket,  *)
(* and the socket's row has the port or a thread that is about to note it. *)
SentOk ==
  \A k \in DOMAIN gameq : gameq[k].sock \notin strayed =>
    /\ gameq[k].peer = madeFor[gameq[k].sock]
    /\ \A i \in Rows : us[i].used /\ open[us[i].fd] = gameq[k].sock =>
         \/ us[i].lport # 0
         \/ \E t \in Threads : th[t].pc = "record" /\ th[t].row = i /\ th[t].fd = us[i].fd

-----------------------------------------------------------------------------
\* No session, no socket, no datagram.
LEMMA InitIInv == Init => IInv
<1> SUFFICES ASSUME Init PROVE IInv
  OBVIOUS
<1>1. Free \in Row /\ Resting \in Thread /\ Scanning \in Polls
  BY DEF Free, Row, Resting, Thread, Scanning, Polls, Snaps
<1>2. Types
  BY <1>1 DEF Init, Types
<1>3. RowsNamed /\ OneSession
  BY DEF Init, RowsNamed, OneSession, RowsOf, Free
<1>4. SocksNumbered
  BY DEF Init, SocksNumbered
<1>5. ThreadsOk /\ ClosesOpen
  BY DEF Init, ThreadsOk, ClosesOpen, Resting, Scanning
<1>6. SocketsOwned
  BY DEF Init, SocketsOwned, Free
<1> QED BY <1>2, <1>3, <1>4, <1>5, <1>6 DEF IInv

-----------------------------------------------------------------------------
\* Steps that touch at most the idle marks and the ports of rows.
LEMMA MarkStep ==
  ASSUME IInv, Types',
         UNCHANGED <<open, madeFor>>,
         \A i \in Rows : /\ us'[i].used = us[i].used /\ us'[i].sess = us[i].sess
                         /\ us'[i].fd = us[i].fd,
         ThreadsOk',
         \A i \in DOMAIN gameq' : gameq'[i].sock \in 1 .. Len(madeFor),
         poll'.pc = "close" <=> poll.pc = "close",
         poll.pc = "close" => poll'.fd = poll.fd
  PROVE  IInv'
<1>1. RowsNamed' /\ OneSession'
  BY DEF IInv, RowsNamed, OneSession, RowsOf
<1>2. SocksNumbered' /\ ClosesOpen'
  BY DEF IInv, SocksNumbered, ClosesOpen
<1>3. SocketsOwned'
  BY DEF IInv, SocketsOwned
<1> QED BY <1>1, <1>2, <1>3 DEF IInv

\* A datagram for a session with a row.
LEMMA FoundStep ==
  ASSUME IInv, NEW t \in Threads, NEW s \in Sessions, IngressFound(t, s)
  PROVE  IInv'
<1>1. PICK i \in Rows :
        /\ us[i].used
        /\ us' = [us EXCEPT ![i].idle = FALSE]
        /\ th' = [th EXCEPT ![t] = [pc |-> "send", row |-> i, fd |-> us[i].fd, peer |-> s]]
  BY DEF IngressFound, Find, RowsOf
<1>2. UNCHANGED <<open, madeFor, poll, gameq>>
  BY DEF IngressFound
<1>3. us[i].fd \in Fds /\ us \in [Rows -> Row] /\ th \in [Threads -> Thread]
  BY <1>1 DEF IInv, RowsNamed, Types
<1>4. us' \in [Rows -> Row]
  <2>1. us[i] \in Row
    BY <1>3
  <2>2. [us[i] EXCEPT !.idle = FALSE] \in Row
    BY <2>1 DEF Row
  <2> QED BY <1>1, <1>3, <2>2
<1>5. [pc |-> "send", row |-> i, fd |-> us[i].fd, peer |-> s] \in Thread
  BY <1>3 DEF Thread
<1>6. th' \in [Threads -> Thread]
  BY <1>1, <1>3, <1>5
<1>7. Types'
  BY <1>2, <1>4, <1>6 DEF IInv, Types
<1>8. \A j \in Rows : /\ us'[j].used = us[j].used /\ us'[j].sess = us[j].sess
                      /\ us'[j].fd = us[j].fd
  BY <1>1, <1>3 DEF Row
<1>9. ThreadsOk'
  BY <1>1, <1>3 DEF IInv, ThreadsOk
<1> QED BY <1>2, <1>7, <1>8, <1>9, MarkStep DEF IInv, SocksNumbered

\* The send into the game, and its failure.
LEMMA SendStep ==
  ASSUME IInv, NEW t \in Threads, IngressSend(t) \/ IngressDropped(t)
  PROVE  IInv'
<1>1. UNCHANGED <<us, open, madeFor, poll>>
  BY DEF IngressSend, IngressDropped
<1>2. \/ th' = [th EXCEPT ![t].pc = "record"]
      \/ th' = [th EXCEPT ![t] = Resting]
  BY DEF IngressSend, IngressDropped
<1>3. th[t].pc = "send" /\ th[t].fd \in Fds /\ th[t].peer \in Sessions
  BY DEF IngressSend, IngressDropped, IInv, ThreadsOk
<1>4. th' \in [Threads -> Thread]
  <2>1. Resting \in Thread /\ th \in [Threads -> Thread]
    BY DEF IInv, Types, Resting, Thread
  <2>2. [th[t] EXCEPT !.pc = "record"] \in Thread
    BY <2>1 DEF Thread
  <2> QED BY <1>2, <2>1, <2>2
<1>5. \A r \in Threads : th'[r].pc # "rest" =>
        /\ th[r].pc # "rest" /\ th'[r].row = th[r].row /\ th'[r].fd = th[r].fd
        /\ th'[r].peer = th[r].peer
  BY SMTT(30), <1>2, <1>3 DEF IInv, Types, Thread, Resting
<1>6. gameq' \in Seq(Datagram) /\ \A i \in DOMAIN gameq' : gameq'[i].sock \in 1 .. Len(madeFor)
  <2>1. gameq \in Seq(Datagram) /\ \A i \in DOMAIN gameq : gameq[i].sock \in 1 .. Len(madeFor)
    BY DEF IInv, Types, SocksNumbered
  <2>2. CASE IngressSend(t)
    <3> DEFINE d == [sock |-> open[th[t].fd], peer |-> th[t].peer]
    <3>1. gameq' = Append(gameq, d) /\ open[th[t].fd] # 0
      BY <2>2 DEF IngressSend
    <3>2. open[th[t].fd] \in 0 .. Len(madeFor) /\ Len(madeFor) \in Nat
      BY <1>3 DEF IInv, SocksNumbered, Types
    <3>3. d.sock \in 1 .. Len(madeFor) /\ d \in Datagram
      BY <1>3, <3>1, <3>2 DEF Datagram
    <3> HIDE DEF d
    <3> QED BY <2>1, <3>1, <3>3
  <2>3. CASE IngressDropped(t)
    BY <2>1, <2>3 DEF IngressDropped
  <2> QED BY <2>2, <2>3
<1>7. Types'
  BY <1>1, <1>4, <1>6 DEF IInv, Types
<1>8. ThreadsOk'
  BY <1>5 DEF IInv, ThreadsOk
<1> QED BY <1>1, <1>6, <1>7, <1>8, MarkStep

\* A port is noted, in whichever row it is by now.
LEMMA RecordStep ==
  ASSUME IInv, NEW t \in Threads, IngressRecord(t)
  PROVE  IInv'
<1> DEFINE r == th[t].row
           n == open[th[t].fd]
<1>1. /\ us' = [us EXCEPT ![r].lport = n] \/ us' = us
      /\ th' = [th EXCEPT ![t] = Resting] /\ UNCHANGED <<open, madeFor, poll, gameq>>
  BY DEF IngressRecord
<1>2. us \in [Rows -> Row] /\ n \in Nat /\ th \in [Threads -> Thread]
  <2>1. th[t].fd \in Fds
    BY DEF IngressRecord, IInv, ThreadsOk
  <2> QED BY <2>1 DEF IInv, Types
<1> HIDE DEF r, n
<1>3. /\ us' \in [Rows -> Row]
      /\ \A i \in Rows : /\ us'[i].used = us[i].used /\ us'[i].sess = us[i].sess
                         /\ us'[i].fd = us[i].fd
  <2>1. CASE us' = [us EXCEPT ![r].lport = n]
    BY <1>2, <2>1 DEF Row
  <2>2. CASE us' = us
    BY <1>2, <2>2
  <2> QED BY <1>1, <2>1, <2>2
<1>4. th' \in [Threads -> Thread] /\ \A x \in Threads : th'[x].pc # "rest" => th'[x] = th[x]
  BY <1>1, <1>2 DEF Resting, Thread
<1>5. Types'
  BY <1>1, <1>3, <1>4 DEF IInv, Types
<1>6. ThreadsOk'
  BY <1>4 DEF IInv, ThreadsOk
<1> QED BY <1>1, <1>3, <1>5, <1>6, MarkStep DEF IInv, SocksNumbered

-----------------------------------------------------------------------------
(* Rows are freed, their sockets closed, and one row may be filled with a  *)
(* new socket: what dt_usess_find does to the table.                       *)
LEMMA TakeOver ==
  ASSUME IInv, NEW r \in Rows \cup {0},
         NEW us1 \in [Rows -> Row], NEW open1 \in [Fds -> Nat],
         \A i \in Rows \ {r} : us1[i] = (IF i \in Passed(r) THEN Free ELSE us[i]),
         NEW f \in Fds \cup {0}, f # 0 => f \in FreeFds(r),
         \A g \in Fds \ {f} : open1[g] = (IF g \in ClosedBy(r) THEN 0 ELSE open[g])
  PROVE  /\ \A i \in Rows \ {r} : us1[i].used =>
              us1[i] = us[i] /\ us[i].fd \in Fds \ {f} /\ open1[us[i].fd] = open[us[i].fd]
         /\ \A g \in Fds \ {f} : open1[g] # 0 =>
              /\ open1[g] = open[g]
              /\ \/ poll.pc = "close" /\ poll.fd = g
                 \/ \E i \in Rows \ {r} : us1[i] = us[i] /\ us[i].used /\ us[i].fd = g
         /\ poll.pc = "close" => poll.fd # f /\ open1[poll.fd] = open[poll.fd]
<1>1. 0 \notin Rows /\ 0 \notin Fds /\ Free.used = FALSE
  BY TableAssumption DEF Free
<1>2. \A i \in Rows : us[i].used =>
        /\ us[i].fd \in Fds /\ open[us[i].fd] # 0
        /\ ~(poll.pc = "close" /\ poll.fd = us[i].fd)
        /\ \A j \in Rows : us[j].used /\ us[j].fd = us[i].fd => i = j
  BY DEF IInv, RowsNamed, SocketsOwned
<1>3. \A g : g \in ClosedBy(r) <=> \E j \in Rows : us[j].used /\ us[j].fd = g /\ (j \in Passed(r) \/ j = r)
  BY <1>1 DEF ClosedBy, Passed, Candidates
<1>4. \A i \in Rows : us[i].used /\ i # r /\ i \notin Passed(r) => us[i].fd \notin ClosedBy(r)
  BY <1>2, <1>3
<1>5. f # 0 => open[f] = 0 \/ f \in ClosedBy(r)
  BY DEF FreeFds
<1>6. \A i \in Rows \ {r} : us1[i].used => us1[i] = us[i] /\ us[i].used /\ i \notin Passed(r)
  BY <1>1
<1>7. \A i \in Rows \ {r} : us1[i].used =>
        us1[i] = us[i] /\ us[i].fd \in Fds \ {f} /\ open1[us[i].fd] = open[us[i].fd]
  <2> SUFFICES ASSUME NEW i \in Rows \ {r}, us1[i].used
               PROVE  us1[i] = us[i] /\ us[i].fd \in Fds \ {f} /\ open1[us[i].fd] = open[us[i].fd]
    OBVIOUS
  <2>1. us1[i] = us[i] /\ us[i].used /\ us[i].fd \notin ClosedBy(r)
    BY <1>4, <1>6
  <2>2. us[i].fd \in Fds /\ us[i].fd # f
    BY <1>1, <1>2, <1>5, <2>1
  <2> QED BY <2>1, <2>2
<1>8. \A g \in Fds \ {f} : open1[g] # 0 =>
        /\ open1[g] = open[g]
        /\ \/ poll.pc = "close" /\ poll.fd = g
           \/ \E i \in Rows \ {r} : us1[i] = us[i] /\ us[i].used /\ us[i].fd = g
  <2> SUFFICES ASSUME NEW g \in Fds \ {f}, open1[g] # 0, ~(poll.pc = "close" /\ poll.fd = g)
               PROVE  open1[g] = open[g] /\ \E i \in Rows \ {r} : us1[i] = us[i] /\ us[i].used /\ us[i].fd = g
    OBVIOUS
  <2>1. g \notin ClosedBy(r) /\ open1[g] = open[g] /\ open[g] # 0
    OBVIOUS
  <2>2. PICK i \in Rows : us[i].used /\ us[i].fd = g
    BY <2>1 DEF IInv, SocketsOwned
  <2>3. i # r /\ i \notin Passed(r)
    BY <1>3, <2>1, <2>2
  <2> QED BY <2>1, <2>2, <2>3
<1>9. poll.pc = "close" => poll.fd # f /\ open1[poll.fd] = open[poll.fd]
  <2> SUFFICES ASSUME poll.pc = "close" PROVE poll.fd # f /\ open1[poll.fd] = open[poll.fd]
    OBVIOUS
  <2>1. poll.fd \in Fds /\ open[poll.fd] # 0
    BY DEF IInv, ClosesOpen
  <2>2. poll.fd \notin ClosedBy(r)
    BY <1>2, <1>3
  <2>3. poll.fd # f
    BY <1>1, <1>5, <2>1, <2>2
  <2> QED BY <2>1, <2>2, <2>3
<1> QED BY <1>7, <1>8, <1>9

\* No session for the datagram, and no row or no socket.
LEMMA NoneStep ==
  ASSUME IInv, NEW t \in Threads, NEW s \in Sessions, IngressNone(t, s)
  PROVE  IInv'
<1>1. /\ us' = [i \in Rows |-> IF i \in Candidates THEN Free ELSE us[i]]
      /\ open' = [f \in Fds |-> IF f \in ClosedBy(0) THEN 0 ELSE open[f]]
      /\ UNCHANGED <<madeFor, th, poll, gameq>>
  BY DEF IngressNone
<1>2. Free \in Row /\ 0 \notin Rows /\ 0 \notin Fds /\ ~Free.used
  BY TableAssumption DEF Free, Row
<1>3. us' \in [Rows -> Row] /\ open' \in [Fds -> Nat]
  BY <1>1, <1>2 DEF IInv, Types
<1>4. Types'
  BY <1>1, <1>3 DEF IInv, Types
<1>5. Passed(0) = Candidates
  BY DEF Passed, Candidates
<1>6. /\ \A i \in Rows \ {0} : us'[i] = (IF i \in Passed(0) THEN Free ELSE us[i])
      /\ \A g \in Fds \ {0} : open'[g] = (IF g \in ClosedBy(0) THEN 0 ELSE open[g])
  BY <1>1, <1>5
<1>7. /\ \A i \in Rows \ {0} : us'[i].used =>
           us'[i] = us[i] /\ us[i].fd \in Fds \ {0} /\ open'[us[i].fd] = open[us[i].fd]
      /\ \A g \in Fds \ {0} : open'[g] # 0 =>
           /\ open'[g] = open[g]
           /\ \/ poll.pc = "close" /\ poll.fd = g
              \/ \E i \in Rows \ {0} : us'[i] = us[i] /\ us[i].used /\ us[i].fd = g
      /\ poll.pc = "close" => poll.fd # 0 /\ open'[poll.fd] = open[poll.fd]
  BY <1>3, <1>6, TakeOver
<1>8. Rows \ {0} = Rows /\ Fds \ {0} = Fds
  BY <1>2
<1>9. RowsNamed' /\ OneSession'
  BY <1>1, <1>7, <1>8 DEF IInv, RowsNamed, OneSession, RowsOf
<1>10. SocksNumbered'
  <2>1. \A f \in Fds : open'[f] \in 0 .. Len(madeFor)
    BY <1>1 DEF IInv, SocksNumbered, Types
  <2> QED BY <1>1, <2>1 DEF IInv, SocksNumbered
<1>11. ThreadsOk'
  BY <1>1 DEF IInv, ThreadsOk
<1>12. ClosesOpen'
  BY <1>1, <1>7 DEF IInv, ClosesOpen
<1>13. SocketsOwned'
  <2>1. \A i \in Rows : us'[i].used => us'[i] = us[i] /\ open'[us[i].fd] = open[us[i].fd]
    BY <1>7, <1>8
  <2>2. \A f \in Fds : open'[f] # 0 =>
          \/ poll.pc = "close" /\ poll.fd = f
          \/ \E i \in Rows : us'[i].used /\ us'[i].fd = f
    BY <1>7, <1>8
  <2> QED BY <1>1, <2>1, <2>2 DEF IInv, SocketsOwned
<1> QED BY <1>4, <1>9, <1>10, <1>11, <1>12, <1>13 DEF IInv

\* dt_usess_find makes a session.
LEMMA NewStep ==
  ASSUME IInv, NEW t \in Threads, NEW s \in Sessions, IngressNew(t, s)
  PROVE  IInv'
<1> DEFINE n == Len(madeFor) + 1
<1>1. PICK r \in Candidates, f \in Fds :
        /\ f \in FreeFds(r)
        /\ Make(s, r, f)
        /\ open' = [g \in Fds |-> IF g = f THEN n ELSE IF g \in ClosedBy(r) THEN 0 ELSE open[g]]
        /\ th' = [th EXCEPT ![t] = [pc |-> "send", row |-> r, fd |-> f, peer |-> s]]
  BY DEF IngressNew
<1> DEFINE made == [used |-> TRUE, sess |-> s, fd |-> f, lport |-> 0, idle |-> FALSE]
<1>2. madeFor' = Append(madeFor, s) /\ RowsOf(s) = {} /\ UNCHANGED <<poll, gameq>>
  BY DEF IngressNew, Find
<1>3. r \in Rows /\ 0 \notin Rows /\ 0 \notin Fds /\ ~Free.used /\ Free \in Row
  BY TableAssumption DEF Candidates, Free, Row
<1>4. made \in Row
  BY DEF Row
<1>5. us' = [i \in Rows |-> IF i = r THEN made ELSE IF i \in Passed(r) THEN Free ELSE us[i]]
  BY <1>1 DEF Make
<1>6. madeFor \in Seq(Sessions) /\ Len(madeFor) \in Nat
  BY DEF IInv, Types
<1>7. /\ madeFor' \in Seq(Sessions) /\ Len(madeFor') = n /\ madeFor'[n] = s /\ n \in Nat
      /\ \A k \in 1 .. Len(madeFor) : madeFor'[k] = madeFor[k]
  BY <1>2, <1>6
<1>8. us' \in [Rows -> Row]
  BY <1>3, <1>4, <1>5 DEF IInv, Types
<1>9. open' \in [Fds -> Nat]
  BY <1>1, <1>7 DEF IInv, Types
<1>10. th' \in [Threads -> Thread]
  BY <1>1, <1>3 DEF IInv, Types, Thread
<1>11. Types'
  BY <1>2, <1>7, <1>8, <1>9, <1>10 DEF IInv, Types
<1>12. us'[r] = made /\ open'[f] = n
  BY <1>1, <1>3, <1>5
<1> HIDE DEF n, made
<1>13. /\ \A i \in Rows \ {r} : us'[i] = (IF i \in Passed(r) THEN Free ELSE us[i])
       /\ \A g \in Fds \ {f} : open'[g] = (IF g \in ClosedBy(r) THEN 0 ELSE open[g])
  BY <1>1, <1>5
<1>14. /\ \A i \in Rows \ {r} : us'[i].used =>
            us'[i] = us[i] /\ us[i].fd \in Fds \ {f} /\ open'[us[i].fd] = open[us[i].fd]
       /\ \A g \in Fds \ {f} : open'[g] # 0 =>
            /\ open'[g] = open[g]
            /\ \/ poll.pc = "close" /\ poll.fd = g
               \/ \E i \in Rows \ {r} : us'[i] = us[i] /\ us[i].used /\ us[i].fd = g
       /\ poll.pc = "close" => poll.fd # f /\ open'[poll.fd] = open[poll.fd]
  BY <1>1, <1>3, <1>8, <1>9, <1>13, TakeOver
<1>15. made.used /\ made.sess = s /\ made.fd = f /\ made.lport = 0 /\ ~made.idle
  BY DEF made
<1>16. RowsNamed'
  <2> SUFFICES ASSUME NEW i \in Rows, us'[i].used
               PROVE  us'[i].sess \in Sessions /\ us'[i].fd \in Fds
    BY DEF RowsNamed
  <2>1. CASE i = r
    BY <1>12, <1>15, <2>1
  <2>2. CASE i # r
    BY <1>14, <2>2 DEF IInv, RowsNamed
  <2> QED BY <2>1, <2>2
<1>17. SocksNumbered'
  <2>1. \A k \in 0 .. Len(madeFor) : k \in 0 .. Len(madeFor')
    BY <1>6, <1>7 DEF n
  <2>2. \A k \in 1 .. Len(madeFor) : k \in 1 .. Len(madeFor')
    BY <1>6, <1>7 DEF n
  <2>3. n \in 0 .. Len(madeFor') /\ 0 \in 0 .. Len(madeFor')
    BY <1>6, <1>7 DEF n
  <2>4. \A g \in Fds : open'[g] \in 0 .. Len(madeFor')
    BY <1>12, <1>13, <2>1, <2>3 DEF IInv, SocksNumbered
  <2> QED BY <1>2, <2>2, <2>4 DEF IInv, SocksNumbered
<1>18. ThreadsOk'
  <2> SUFFICES ASSUME NEW x \in Threads, th'[x].pc # "rest"
               PROVE  th'[x].row \in Rows /\ th'[x].fd \in Fds /\ th'[x].peer \in Sessions
    BY DEF ThreadsOk
  <2>1. CASE x = t
    <3>1. th'[x] = [pc |-> "send", row |-> r, fd |-> f, peer |-> s]
      BY <1>1, <2>1 DEF IInv, Types
    <3> QED BY <1>3, <3>1
  <2>2. CASE x # t
    <3>1. th'[x] = th[x]
      BY <1>1, <2>2 DEF IInv, Types
    <3> QED BY <3>1 DEF IInv, ThreadsOk
  <2> QED BY <2>1, <2>2
<1>19. ClosesOpen'
  BY <1>2, <1>14 DEF IInv, ClosesOpen
<1>20. OneSession'
  <2> SUFFICES ASSUME NEW i \in Rows, NEW j \in Rows, us'[i].used, us'[j].used, us'[i].sess = us'[j].sess
               PROVE  i = j
    BY DEF OneSession, RowsOf
  <2>1. \A k \in Rows \ {r} : us'[k].used => us'[k] = us[k] /\ us[k].sess # s /\ us[k].sess \in Sessions
    BY <1>2, <1>14 DEF RowsOf, IInv, RowsNamed
  <2>2. us'[r].sess = s
    BY <1>12, <1>15
  <2>3. CASE i = r \/ j = r
    BY <2>1, <2>2, <2>3
  <2>4. CASE i # r /\ j # r
    <3>1. us[i].used /\ us[j].used /\ us[i].sess = us[j].sess /\ us[i].sess \in Sessions
      BY <2>1, <2>4
    <3> QED BY <3>1 DEF IInv, OneSession, RowsOf
  <2> QED BY <2>3, <2>4
<1>21. SocketsOwned'
  <2>1. \A g \in Fds : open'[g] # 0 =>
          \/ poll'.pc = "close" /\ poll'.fd = g
          \/ \E i \in Rows : us'[i].used /\ us'[i].fd = g
    <3> SUFFICES ASSUME NEW g \in Fds, open'[g] # 0, ~(poll.pc = "close" /\ poll.fd = g)
                 PROVE  \E i \in Rows : us'[i].used /\ us'[i].fd = g
      BY <1>2
    <3>1. CASE g = f
      BY <1>3, <1>12, <1>15, <3>1
    <3>2. CASE g # f
      BY <1>14, <3>2
    <3> QED BY <3>1, <3>2
  <2>2. ASSUME NEW i \in Rows, us'[i].used
        PROVE  /\ open'[us'[i].fd] # 0 /\ madeFor'[open'[us'[i].fd]] = us'[i].sess
               /\ ~(poll.pc = "close" /\ poll.fd = us'[i].fd)
               /\ \A j \in Rows : us'[j].used /\ us'[j].fd = us'[i].fd => i = j
    <3>1. CASE i = r
      <4>1. us'[i].fd = f /\ us'[i].sess = s
        BY <1>12, <1>15, <3>1
      <4>2. open'[us'[i].fd] = n /\ n # 0
        BY <1>6, <1>12, <4>1 DEF n
      <4>3. \A j \in Rows : us'[j].used /\ us'[j].fd = f => i = j
        BY <1>14, <3>1
      <4> QED BY <1>7, <1>14, <4>1, <4>2, <4>3
    <3>2. CASE i # r
      <4>1. us'[i] = us[i] /\ us[i].fd \in Fds \ {f} /\ open'[us[i].fd] = open[us[i].fd]
        BY <2>2, <1>14, <3>2
      <4>2. /\ open[us[i].fd] # 0 /\ madeFor[open[us[i].fd]] = us[i].sess
            /\ ~(poll.pc = "close" /\ poll.fd = us[i].fd)
            /\ \A j \in Rows : us[j].used /\ us[j].fd = us[i].fd => i = j
        BY <2>2, <4>1 DEF IInv, SocketsOwned
      <4>3. open[us[i].fd] \in 1 .. Len(madeFor)
        <5>1. open[us[i].fd] \in 0 .. Len(madeFor)
          BY <4>1 DEF IInv, SocksNumbered
        <5> QED BY <4>2, <5>1, <1>6
      <4>4. \A j \in Rows : us'[j].used /\ us'[j].fd = us'[i].fd => i = j
        <5> SUFFICES ASSUME NEW j \in Rows, us'[j].used, us'[j].fd = us[i].fd PROVE i = j
          BY <4>1
        <5>1. j # r
          BY <1>12, <1>15, <4>1
        <5>2. us'[j] = us[j]
          BY <1>14, <5>1
        <5> QED BY <4>2, <5>2
      <4> QED BY <1>7, <4>1, <4>2, <4>3, <4>4
    <3> QED BY <3>1, <3>2
  <2> QED BY <1>2, <2>1, <2>2 DEF SocketsOwned
<1> QED BY <1>11, <1>16, <1>17, <1>18, <1>19, <1>20, <1>21 DEF IInv

-----------------------------------------------------------------------------
\* Nothing is heard of a session for a while.
LEMMA IdleStep ==
  ASSUME IInv, NEW i \in Rows, Idle(i)
  PROVE  IInv'
<1>1. us' = [us EXCEPT ![i].idle = TRUE] /\ UNCHANGED <<open, madeFor, th, poll, gameq>>
  BY DEF Idle
<1>2. us' \in [Rows -> Row]
  BY <1>1 DEF IInv, Types, Row
<1>3. Types' /\ ThreadsOk'
  BY <1>1, <1>2 DEF IInv, Types, ThreadsOk
<1>4. \A j \in Rows : us'[j].used = us[j].used /\ us'[j].sess = us[j].sess /\ us'[j].fd = us[j].fd
  BY <1>1 DEF IInv, Types, Row
<1> QED BY <1>1, <1>3, <1>4, MarkStep DEF IInv, SocksNumbered

\* The poller's snapshot of rows.
LEMMA SnapType ==
  ASSUME IInv, NEW S, S \subseteq Rows
  PROVE  Snap(S) \in Snaps
BY DEF IInv, Types, Row, Snap, Snaps

\* The poller looks the rows over, and frees an expired one.
LEMMA ScanStep ==
  ASSUME IInv, PollScan
  PROVE  IInv'
<1>1. poll.pc = "scan" /\ UNCHANGED <<open, madeFor, th, gameq>>
  BY DEF PollScan
<1>2. poll.snap \in Snaps /\ poll \in Polls
  BY DEF IInv, Types, Polls
<1>3. CASE poll' = [poll EXCEPT !.pc = "select", !.at = 0, !.snap = @ \cup Snap(Ahead)] /\ UNCHANGED us
  <2>1. Snap(Ahead) \in Snaps
    BY SnapType DEF Ahead
  <2>2. poll.snap \cup Snap(Ahead) \in Snaps
    BY <1>2, <2>1 DEF Snaps
  <2>3. poll' \in Polls /\ poll'.pc = "select" /\ poll'.fd = poll.fd
    BY <1>2, <1>3, <2>2 DEF Polls
  <2>4. Types'
    BY <1>1, <1>3, <2>3 DEF IInv, Types
  <2>5. ThreadsOk'
    BY <1>1 DEF IInv, ThreadsOk
  <2> QED BY <1>1, <1>3, <2>3, <2>4, <2>5, MarkStep DEF IInv, SocksNumbered
<1>4. CASE \E i \in Expired : Expire(i) /\ poll' = [pc |-> "close", at |-> i, fd |-> us[i].fd,
                                                   snap |-> poll.snap \cup Snap({j \in Ahead : j < i})]
  <2>1. PICK i \in Rows : /\ us[i].used /\ us[i].idle /\ us' = [us EXCEPT ![i] = Free]
                          /\ poll' = [pc |-> "close", at |-> i, fd |-> us[i].fd,
                                      snap |-> poll.snap \cup Snap({j \in Ahead : j < i})]
    BY <1>4 DEF Expired, Ahead, Expire
  <2>2. Free \in Row /\ ~Free.used
    BY DEF Free, Row
  <2>3. us' \in [Rows -> Row] /\ ~us'[i].used /\ \A j \in Rows : j # i => us'[j] = us[j]
    BY <2>1, <2>2 DEF IInv, Types
  <2>4. us[i].fd \in Fds
    BY <2>1 DEF IInv, RowsNamed
  <2>5. poll.snap \cup Snap({j \in Ahead : j < i}) \in Snaps
    <3>1. Snap({j \in Ahead : j < i}) \in Snaps
      BY SnapType DEF Ahead
    <3> QED BY <1>2, <3>1 DEF Snaps
  <2>6. poll' \in Polls /\ poll'.pc = "close" /\ poll'.fd = us[i].fd
    BY <2>1, <2>4, <2>5 DEF Polls
  <2>7. Types'
    BY <1>1, <2>3, <2>6 DEF IInv, Types
  <2>8. \A j \in Rows : us'[j].used => us'[j] = us[j] /\ j # i
    BY <2>3
  <2>9. RowsNamed' /\ SocksNumbered' /\ OneSession'
    BY <1>1, <2>8 DEF IInv, RowsNamed, SocksNumbered, OneSession, RowsOf
  <2>10. ThreadsOk'
    BY <1>1 DEF IInv, ThreadsOk
  <2>11. /\ open[us[i].fd] # 0
         /\ \A j \in Rows : us[j].used /\ us[j].fd = us[i].fd => i = j
    BY <2>1 DEF IInv, SocketsOwned
  <2>12. ClosesOpen'
    BY <1>1, <2>4, <2>6, <2>11 DEF ClosesOpen
  <2>13. SocketsOwned'
    <3>1. \A f \in Fds : open[f] # 0 => f = us[i].fd \/ \E j \in Rows : us'[j].used /\ us'[j].fd = f
      <4> SUFFICES ASSUME NEW f \in Fds, open[f] # 0, f # us[i].fd
                   PROVE  \E j \in Rows : us'[j].used /\ us'[j].fd = f
        OBVIOUS
      <4>1. PICK j \in Rows : us[j].used /\ us[j].fd = f
        BY <1>1 DEF IInv, SocketsOwned
      <4>2. us'[j] = us[j]
        BY <2>3, <4>1
      <4> QED BY <4>1, <4>2
    <3>2. \A j \in Rows : us'[j].used =>
            /\ open[us'[j].fd] # 0 /\ madeFor[open[us'[j].fd]] = us'[j].sess
            /\ us'[j].fd # us[i].fd
            /\ \A k \in Rows : us'[k].used /\ us'[k].fd = us'[j].fd => j = k
      BY <2>8, <2>11 DEF IInv, SocketsOwned
    <3> QED BY <1>1, <2>6, <3>1, <3>2 DEF SocketsOwned
  <2> QED BY <2>7, <2>9, <2>10, <2>12, <2>13 DEF IInv
<1> QED BY <1>3, <1>4 DEF PollScan

\* The poller closes what it has freed.
LEMMA CloseStep ==
  ASSUME IInv, PollClose
  PROVE  IInv'
<1>1. /\ poll.pc = "close" /\ open' = [open EXCEPT ![poll.fd] = 0]
      /\ poll' = [poll EXCEPT !.pc = "scan", !.fd = 0] /\ UNCHANGED <<us, madeFor, th, gameq>>
  BY DEF PollClose
<1>2. poll' \in Polls /\ poll'.pc = "scan"
  BY <1>1 DEF IInv, Types, Polls
<1>3. open' \in [Fds -> Nat] /\ \A f \in Fds : open'[f] = (IF f = poll.fd THEN 0 ELSE open[f])
  BY <1>1 DEF IInv, Types
<1>4. Types'
  BY <1>1, <1>2, <1>3 DEF IInv, Types
<1>5. RowsNamed' /\ OneSession' /\ ThreadsOk'
  BY <1>1 DEF IInv, RowsNamed, OneSession, RowsOf, ThreadsOk
<1>6. SocksNumbered'
  BY <1>1, <1>3 DEF IInv, SocksNumbered, Types
<1>7. ClosesOpen'
  BY <1>2 DEF ClosesOpen
<1>8. SocketsOwned'
  <2>1. \A i \in Rows : us[i].used => us[i].fd \in Fds /\ us[i].fd # poll.fd
    BY <1>1 DEF IInv, SocketsOwned, RowsNamed
  <2>2. \A f \in Fds : open'[f] # 0 => \E i \in Rows : us[i].used /\ us[i].fd = f
    BY <1>3 DEF IInv, SocketsOwned
  <2> QED BY <1>1, <1>2, <1>3, <2>1, <2>2 DEF IInv, SocketsOwned
<1> QED BY <1>4, <1>5, <1>6, <1>7, <1>8 DEF IInv

\* The rest of the poller, and the game.
LEMMA QuietStep ==
  ASSUME IInv, PollAgain \/ PollReady \/ PollRecv \/ PollTouch \/ PollDone \/ GameReads
  PROVE  IInv'
<1>1. UNCHANGED <<open, madeFor, th>>
  BY DEF PollAgain, PollReady, PollRecv, PollTouch, PollDone, GameReads
<1>2. poll \in Polls
  BY DEF IInv, Types
<1>3. (poll' \in Polls /\ poll'.pc # "close" /\ poll.pc # "close") \/ poll' = poll
  <2>1. CASE PollAgain \/ PollDone
    BY <1>2, <2>1 DEF PollAgain, PollDone, Scanning, Polls, Snaps
  <2>2. CASE PollReady
    BY <1>2, <2>2 DEF PollReady, Ready, Polls, Snaps
  <2>3. CASE PollRecv
    <3>1. PICK e \in poll.snap :
            poll' = IF open[e.fd] = 0 THEN [poll EXCEPT !.snap = @ \ {e}]
                    ELSE [poll EXCEPT !.pc = "touch", !.at = e.row, !.snap = @ \ {e}]
      BY <2>3 DEF PollRecv
    <3>2. e.row \in Rows /\ poll.snap \ {e} \in Snaps
      BY <1>2 DEF Polls, Snaps
    <3>3. poll.pc = "recv"
      BY <2>3 DEF PollRecv
    <3> QED BY <1>2, <3>1, <3>2, <3>3 DEF Polls
  <2>4. CASE PollTouch
    BY <1>2, <2>4 DEF PollTouch, Polls
  <2>5. CASE GameReads
    BY <2>5 DEF GameReads
  <2> QED BY <2>1, <2>2, <2>3, <2>4, <2>5
<1>4. /\ us' \in [Rows -> Row]
      /\ \A i \in Rows : /\ us'[i].used = us[i].used /\ us'[i].sess = us[i].sess
                         /\ us'[i].fd = us[i].fd /\ us'[i].lport = us[i].lport
                         /\ ~us[i].idle => ~us'[i].idle
  <2>1. us \in [Rows -> Row]
    BY DEF IInv, Types
  <2>2. CASE us' = [us EXCEPT ![poll.at].idle = FALSE]
    <3>1. \A i \in Rows : [us[i] EXCEPT !.idle = FALSE] \in Row
      BY <2>1 DEF Row
    <3>2. us' \in [Rows -> Row]
      BY <2>1, <2>2, <3>1
    <3>3. \A i \in Rows : us'[i] = us[i] \/ us'[i] = [us[i] EXCEPT !.idle = FALSE]
      BY <2>1, <2>2
    <3>4. \A i \in Rows : [us[i] EXCEPT !.idle = FALSE].used = us[i].used
                         /\ [us[i] EXCEPT !.idle = FALSE].sess = us[i].sess
                         /\ [us[i] EXCEPT !.idle = FALSE].fd = us[i].fd
                         /\ [us[i] EXCEPT !.idle = FALSE].lport = us[i].lport
                         /\ ~[us[i] EXCEPT !.idle = FALSE].idle
      BY <2>1 DEF Row
    <3> QED BY <3>2, <3>3, <3>4
  <2>3. CASE us' = us
    BY <2>1, <2>3
  <2> QED BY <2>2, <2>3 DEF PollAgain, PollReady, PollRecv, PollTouch, PollDone, GameReads
<1>5. gameq' \in Seq(Datagram) /\ \A i \in DOMAIN gameq' : gameq'[i].sock \in 1 .. Len(madeFor)
  <2>1. gameq \in Seq(Datagram) /\ \A i \in DOMAIN gameq : gameq[i].sock \in 1 .. Len(madeFor)
    BY DEF IInv, Types, SocksNumbered
  <2>2. CASE GameReads
    BY <2>1, <2>2 DEF GameReads
  <2>3. CASE gameq' = gameq
    BY <2>1, <2>3
  <2> QED BY <2>2, <2>3 DEF PollAgain, PollReady, PollRecv, PollTouch, PollDone
<1>6. Types'
  BY <1>1, <1>3, <1>4, <1>5 DEF IInv, Types
<1>7. ThreadsOk'
  BY <1>1 DEF IInv, ThreadsOk
<1>8. (poll'.pc = "close" <=> poll.pc = "close") /\ (poll.pc = "close" => poll'.fd = poll.fd)
  BY <1>3
<1> QED BY <1>1, <1>4, <1>5, <1>6, <1>7, <1>8, MarkStep

-----------------------------------------------------------------------------
\* Every step keeps the invariant.
LEMMA StepIInv == IInv /\ [Next]_vars => IInv'
<1> SUFFICES ASSUME IInv, [Next]_vars PROVE IInv'
  OBVIOUS
<1>1. ASSUME NEW t \in Threads, Ingress(t) PROVE IInv'
  BY <1>1, FoundStep, NewStep, NoneStep, SendStep, RecordStep DEF Ingress
<1>2. ASSUME NEW i \in Rows, Idle(i) PROVE IInv'
  BY <1>2, IdleStep
<1>3. CASE Poller \/ GameReads
  BY <1>3, ScanStep, CloseStep, QuietStep DEF Poller
<1>4. CASE UNCHANGED vars
  BY <1>4 DEF vars, IInv, Types, RowsNamed, SocksNumbered, ThreadsOk, ClosesOpen, OneSession, RowsOf,
              SocketsOwned
<1> QED BY <1>1, <1>2, <1>3, <1>4 DEF Next

\* The invariant holds throughout.
LEMMA Invariance == Spec => []IInv
  BY InitIInv, StepIInv, PTL DEF Spec

\* Steps that only drop datagrams, free rows, fill a row with a new socket and
\* leave the threads that are about to note a port alone.
LEMMA PortsKept ==
  ASSUME IInv, IInv', PortsOk, SentOk,
         UNCHANGED strayed,
         \A k \in 1 .. Len(madeFor) : madeFor'[k] = madeFor[k],
         \A i \in Rows : us'[i].used =>
           \/ /\ us[i].used /\ us'[i].fd = us[i].fd /\ us'[i].lport = us[i].lport
              /\ open'[us[i].fd] = open[us[i].fd]
           \/ us'[i].lport = 0 /\ open'[us'[i].fd] \notin 1 .. Len(madeFor),
         \A k \in DOMAIN gameq' : \E m \in DOMAIN gameq : gameq'[k] = gameq[m],
         \A t \in Threads : th[t].pc = "record" => th'[t] = th[t]
  PROVE  PortsOk' /\ SentOk'
<1>1. PortsOk'
  <2> SUFFICES ASSUME NEW i \in Rows, us'[i].used, us'[i].lport # 0
               PROVE  \/ us'[i].lport = open'[us'[i].fd]
                      \/ us'[i].lport \in strayed' /\ open'[us'[i].fd] \in strayed'
    BY DEF PortsOk
  <2> QED BY DEF PortsOk
<1>2. SentOk'
  <2> SUFFICES ASSUME NEW k \in DOMAIN gameq', gameq'[k].sock \notin strayed'
               PROVE  /\ gameq'[k].peer = madeFor'[gameq'[k].sock]
                      /\ \A i \in Rows : us'[i].used /\ open'[us'[i].fd] = gameq'[k].sock =>
                           \/ us'[i].lport # 0
                           \/ \E t \in Threads : /\ th'[t].pc = "record" /\ th'[t].row = i
                                                 /\ th'[t].fd = us'[i].fd
    BY DEF SentOk
  <2>1. PICK m \in DOMAIN gameq : gameq'[k] = gameq[m]
    OBVIOUS
  <2>2. gameq[m].sock \in 1 .. Len(madeFor) /\ gameq[m].sock \notin strayed
    BY <2>1 DEF IInv, SocksNumbered
  <2>3. gameq'[k].peer = madeFor'[gameq'[k].sock]
    BY <2>1, <2>2 DEF SentOk
  <2>4. ASSUME NEW i \in Rows, us'[i].used, open'[us'[i].fd] = gameq'[k].sock, us'[i].lport = 0
        PROVE  \E t \in Threads : th'[t].pc = "record" /\ th'[t].row = i /\ th'[t].fd = us'[i].fd
    <3>1. /\ us[i].used /\ us'[i].fd = us[i].fd /\ us[i].lport = 0
          /\ open[us[i].fd] = gameq[m].sock
      BY <2>1, <2>2, <2>4
    <3>2. PICK t \in Threads : th[t].pc = "record" /\ th[t].row = i /\ th[t].fd = us[i].fd
      BY <2>2, <3>1 DEF SentOk
    <3> QED BY <3>1, <3>2
  <2> QED BY <2>3, <2>4
<1> QED BY <1>1, <1>2

\* A send by a thread that still holds its row is its peer's.
LEMMA SendPorts ==
  ASSUME IInv, IInv', PortsOk, SentOk, NEW t \in Threads, IngressSend(t)
  PROVE  PortsOk' /\ SentOk'
<1> DEFINE n == open[th[t].fd]
           d == [sock |-> n, peer |-> th[t].peer]
<1>1. /\ th[t].pc = "send" /\ gameq' = Append(gameq, d)
      /\ th' = [th EXCEPT ![t].pc = "record"]
      /\ strayed \subseteq strayed' /\ (~Holds(t) => n \in strayed')
      /\ UNCHANGED <<us, open, madeFor>>
  BY DEF IngressSend
<1>2. d.sock = n /\ d.peer = th[t].peer
  OBVIOUS
<1>3. gameq \in Seq(Datagram) /\ n \in Nat /\ n # 0 /\ d \in Datagram
  <2>1. th[t].fd \in Fds /\ th[t].peer \in Sessions
    BY <1>1 DEF IInv, ThreadsOk
  <2> QED BY <2>1 DEF IngressSend, IInv, Types, Datagram
<1>4. /\ th'[t].pc = "record" /\ th'[t].row = th[t].row /\ th'[t].fd = th[t].fd
      /\ \A x \in Threads : th[x].pc = "record" => th'[x] = th[x]
  BY <1>1 DEF IInv, Types, Thread
<1>5. PortsOk'
  BY <1>1 DEF PortsOk
<1>6. n \notin strayed' =>
        /\ th[t].peer = madeFor[n]
        /\ \A i \in Rows : us[i].used /\ open[us[i].fd] = n =>
             th[t].row = i /\ th[t].fd = us[i].fd
  <2> SUFFICES ASSUME n \notin strayed'
               PROVE  /\ th[t].peer = madeFor[n]
                      /\ \A i \in Rows : us[i].used /\ open[us[i].fd] = n =>
                           th[t].row = i /\ th[t].fd = us[i].fd
    OBVIOUS
  <2>1. /\ th[t].row \in Rows /\ us[th[t].row].used
        /\ us[th[t].row].sess = th[t].peer /\ us[th[t].row].fd = th[t].fd
    BY <1>1 DEF Holds, IInv, ThreadsOk
  <2>2. madeFor[n] = us[th[t].row].sess
    BY <2>1 DEF IInv, SocketsOwned
  <2>3. \A i \in Rows : us[i].used /\ open[us[i].fd] = n => us[i].sess = us[th[t].row].sess
    BY <2>2 DEF IInv, SocketsOwned
  <2>4. \A i \in Rows : us[i].used /\ open[us[i].fd] = n => i = th[t].row
    BY <2>1, <2>3 DEF IInv, OneSession, RowsOf, RowsNamed
  <2> QED BY <2>1, <2>2, <2>4
<1> HIDE DEF n, d
<1>7. SentOk'
  <2> SUFFICES ASSUME NEW k \in DOMAIN gameq', gameq'[k].sock \notin strayed'
               PROVE  /\ gameq'[k].peer = madeFor[gameq'[k].sock]
                      /\ \A i \in Rows : us[i].used /\ open[us[i].fd] = gameq'[k].sock =>
                           \/ us[i].lport # 0
                           \/ \E x \in Threads : /\ th'[x].pc = "record" /\ th'[x].row = i
                                                 /\ th'[x].fd = us[i].fd
    BY <1>1 DEF SentOk
  <2>1. CASE k \in DOMAIN gameq /\ gameq'[k] = gameq[k]
    <3>1. gameq[k].sock \notin strayed
      BY <1>1, <2>1
    <3>2. \A i \in Rows : us[i].used /\ open[us[i].fd] = gameq[k].sock /\ us[i].lport = 0 =>
            \E x \in Threads : th'[x].pc = "record" /\ th'[x].row = i /\ th'[x].fd = us[i].fd
      <4> SUFFICES ASSUME NEW i \in Rows, us[i].used, open[us[i].fd] = gameq[k].sock, us[i].lport = 0
                   PROVE  \E x \in Threads : th'[x].pc = "record" /\ th'[x].row = i /\ th'[x].fd = us[i].fd
        OBVIOUS
      <4>1. PICK x \in Threads : th[x].pc = "record" /\ th[x].row = i /\ th[x].fd = us[i].fd
        BY <2>1, <3>1 DEF SentOk
      <4> QED BY <1>4, <4>1
    <3> QED BY <2>1, <3>1, <3>2 DEF SentOk
  <2>2. CASE gameq'[k] = d
    BY <1>2, <1>4, <1>6, <2>2
  <2>3. (k \in DOMAIN gameq /\ gameq'[k] = gameq[k]) \/ gameq'[k] = d
    BY <1>1, <1>3
  <2> QED BY <2>1, <2>2, <2>3
<1> QED BY <1>5, <1>7

\* What is noted is right, or counted as strayed.
LEMMA RecordPorts ==
  ASSUME IInv, IInv', PortsOk, SentOk, NEW t \in Threads, IngressRecord(t)
  PROVE  PortsOk' /\ SentOk'
<1> DEFINE r == th[t].row
           n == open[th[t].fd]
<1>1. /\ th[t].pc = "record" /\ r \in Rows /\ us \in [Rows -> Row]
      /\ th' = [th EXCEPT ![t] = Resting]
      /\ UNCHANGED <<open, madeFor, gameq>>
  BY DEF IngressRecord, IInv, ThreadsOk, Types
<1>2. \A x \in Threads : x # t => th'[x] = th[x]
  BY <1>1 DEF IInv, Types
<1>3. \/ /\ us[r].used /\ n # 0
         /\ us' = [us EXCEPT ![r].lport = n]
         /\ strayed' = IF Holds(t) THEN strayed ELSE strayed \cup {n, open[us[r].fd]}
      \/ /\ ~us[r].used \/ us[r].lport # 0 \/ n = 0
         /\ UNCHANGED <<us, strayed>>
  BY DEF IngressRecord
<1>4. strayed \subseteq strayed'
  BY <1>3
<1>5. /\ \A i \in Rows : us'[i].used = us[i].used /\ us'[i].fd = us[i].fd
      /\ \A i \in Rows : i # r => us'[i].lport = us[i].lport
      /\ us'[r].lport = us[r].lport \/ (us'[r].lport = n /\ n # 0)
  <2>1. CASE us' = us
    BY <2>1
  <2>2. CASE us' = [us EXCEPT ![r].lport = n] /\ n # 0
    BY <1>1, <2>2 DEF Row
  <2> QED BY <1>3, <2>1, <2>2
<1>6. us[r].used /\ us'[r].lport # us[r].lport =>
        us'[r].lport = n /\ (n = open[us[r].fd] \/ (n \in strayed' /\ open[us[r].fd] \in strayed'))
  <2>1. Holds(t) => us[r].fd = th[t].fd
    BY DEF Holds
  <2> QED BY <1>3, <1>5, <2>1
<1>7. us[r].used /\ us[r].fd = th[t].fd /\ open[us[r].fd] # 0 => us'[r].lport # 0
  <2>1. us' = us \/ us' = [us EXCEPT ![r].lport = n]
    BY <1>3
  <2>2. CASE us' = [us EXCEPT ![r].lport = n]
    BY <1>1, <2>2 DEF Row
  <2>3. CASE us' = us /\ us' # [us EXCEPT ![r].lport = n]
    BY <1>3, <2>3
  <2> QED BY <2>1, <2>2, <2>3
<1> HIDE DEF n, r
<1>8. PortsOk'
  <2> SUFFICES ASSUME NEW i \in Rows, us[i].used, us'[i].lport # 0
               PROVE  \/ us'[i].lport = open[us[i].fd]
                      \/ us'[i].lport \in strayed' /\ open[us[i].fd] \in strayed'
    BY <1>1, <1>5 DEF PortsOk
  <2>1. CASE us'[i].lport = us[i].lport
    BY <1>4, <2>1 DEF PortsOk
  <2>2. CASE us'[i].lport # us[i].lport
    BY <1>5, <1>6, <2>2
  <2> QED BY <2>1, <2>2
<1>9. SentOk'
  <2> SUFFICES ASSUME NEW k \in DOMAIN gameq, gameq[k].sock \notin strayed'
               PROVE  /\ gameq[k].peer = madeFor[gameq[k].sock]
                      /\ \A i \in Rows : us[i].used /\ open[us[i].fd] = gameq[k].sock =>
                           \/ us'[i].lport # 0
                           \/ \E x \in Threads : /\ th'[x].pc = "record" /\ th'[x].row = i
                                                 /\ th'[x].fd = us[i].fd
    BY <1>1, <1>5 DEF SentOk
  <2>1. gameq[k].sock \notin strayed /\ gameq[k].peer = madeFor[gameq[k].sock]
    BY <1>4 DEF SentOk
  <2>2. ASSUME NEW i \in Rows, us[i].used, open[us[i].fd] = gameq[k].sock, us'[i].lport = 0
        PROVE  \E x \in Threads : th'[x].pc = "record" /\ th'[x].row = i /\ th'[x].fd = us[i].fd
    <3>1. us[i].lport = 0 /\ open[us[i].fd] # 0
      <4>1. gameq[k].sock # 0
        BY DEF IInv, SocksNumbered
      <4> QED BY <1>5, <2>2, <4>1
    <3>2. PICK x \in Threads : th[x].pc = "record" /\ th[x].row = i /\ th[x].fd = us[i].fd
      BY <2>1, <2>2, <3>1 DEF SentOk
    <3>3. x # t
      BY <1>7, <2>2, <3>1, <3>2 DEF r
    <3> QED BY <1>2, <3>2, <3>3
  <2> QED BY <2>1, <2>2
<1> QED BY <1>8, <1>9

\* Every step keeps the ports right.
LEMMA StepPorts ==
  ASSUME IInv, IInv', PortsOk, SentOk, [Next]_vars
  PROVE  PortsOk' /\ SentOk'
<1>0. us \in [Rows -> Row] /\ madeFor \in Seq(Sessions) /\ Len(madeFor) \in Nat
      /\ th \in [Threads -> Thread]
  BY DEF IInv, Types
<1>1. ASSUME NEW t \in Threads, NEW s \in Sessions, IngressFound(t, s)
      PROVE  PortsOk' /\ SentOk'
  <2>1. PICK i \in Rows : us[i].used /\ us' = [us EXCEPT ![i].idle = FALSE]
    BY <1>1 DEF IngressFound, Find, RowsOf
  <2>2. \A j \in Rows : us'[j].used = us[j].used /\ us'[j].fd = us[j].fd /\ us'[j].lport = us[j].lport
    BY <1>0, <2>1 DEF Row
  <2>3. \A x \in Threads : th[x].pc = "record" => th'[x] = th[x]
    BY <1>0, <1>1 DEF IngressFound, Resting
  <2> QED BY <1>1, <2>2, <2>3, PortsKept DEF IngressFound
<1>2. ASSUME NEW t \in Threads, NEW s \in Sessions, IngressNone(t, s)
      PROVE  PortsOk' /\ SentOk'
  <2>1. \A i \in Rows : us'[i].used => us'[i] = us[i] /\ i \notin Candidates /\ us[i].used
    BY <1>2 DEF IngressNone, Free
  <2>2. \A i \in Rows : us'[i].used => us[i].fd \notin ClosedBy(0)
    BY <2>1, TableAssumption DEF IInv, SocketsOwned, ClosedBy, Passed, Candidates
  <2>3. \A i \in Rows : us'[i].used => open'[us[i].fd] = open[us[i].fd]
    BY <1>2, <2>1, <2>2 DEF IngressNone, IInv, RowsNamed
  <2> QED BY <1>2, <2>1, <2>3, PortsKept DEF IngressNone
<1>3. ASSUME NEW t \in Threads, NEW s \in Sessions, IngressNew(t, s)
      PROVE  PortsOk' /\ SentOk'
  <2> DEFINE n == Len(madeFor) + 1
  <2>1. PICK r \in Candidates, f \in Fds :
          /\ f \in FreeFds(r)
          /\ Make(s, r, f)
          /\ open' = [g \in Fds |-> IF g = f THEN n ELSE IF g \in ClosedBy(r) THEN 0 ELSE open[g]]
          /\ th' = [th EXCEPT ![t] = [pc |-> "send", row |-> r, fd |-> f, peer |-> s]]
    BY <1>3 DEF IngressNew
  <2>2. r \in Rows /\ ~Free.used
    BY DEF Candidates, Free
  <2>3. us'[r].lport = 0 /\ us'[r].fd = f /\ open'[f] = n
    BY <2>1, <2>2 DEF Make
  <2>4. n \notin 1 .. Len(madeFor)
    BY <1>0
  <2> HIDE DEF n
  <2>5. \A i \in Rows \ {r} : us'[i].used => us'[i] = us[i] /\ open'[us[i].fd] = open[us[i].fd]
    <3>1. /\ us' \in [Rows -> Row] /\ open' \in [Fds -> Nat]
          /\ \A i \in Rows \ {r} : us'[i] = (IF i \in Passed(r) THEN Free ELSE us[i])
          /\ \A g \in Fds \ {f} : open'[g] = (IF g \in ClosedBy(r) THEN 0 ELSE open[g])
      BY <2>1 DEF Make, IInv, Types
    <3> QED BY <2>1, <2>2, <3>1, TakeOver
  <2>6. \A i \in Rows : us'[i].used =>
          \/ /\ us[i].used /\ us'[i].fd = us[i].fd /\ us'[i].lport = us[i].lport
             /\ open'[us[i].fd] = open[us[i].fd]
          \/ us'[i].lport = 0 /\ open'[us'[i].fd] \notin 1 .. Len(madeFor)
    BY <2>3, <2>4, <2>5
  <2>7. \A k \in 1 .. Len(madeFor) : madeFor'[k] = madeFor[k]
    BY <1>0, <1>3 DEF IngressNew
  <2>8. \A x \in Threads : th[x].pc = "record" => th'[x] = th[x]
    BY <1>0, <1>3, <2>1 DEF IngressNew, Resting
  <2> QED BY <1>3, <2>6, <2>7, <2>8, PortsKept DEF IngressNew
<1>4. ASSUME NEW t \in Threads, IngressDropped(t)
      PROVE  PortsOk' /\ SentOk'
  <2>1. \A x \in Threads : th[x].pc = "record" => th'[x] = th[x]
    BY <1>0, <1>4 DEF IngressDropped
  <2> QED BY <1>4, <2>1, PortsKept DEF IngressDropped
<1>5. ASSUME NEW i \in Rows, Idle(i) PROVE PortsOk' /\ SentOk'
  <2>1. \A j \in Rows : us'[j].used = us[j].used /\ us'[j].fd = us[j].fd /\ us'[j].lport = us[j].lport
    BY <1>0, <1>5 DEF Idle, Row
  <2> QED BY <1>5, <2>1, PortsKept DEF Idle
<1>6. CASE PollScan
  <2>1. \A i \in Rows : us'[i].used => us'[i] = us[i]
    BY <1>0, <1>6 DEF PollScan, Expire, Expired, Ahead, Free
  <2> QED BY <1>6, <2>1, PortsKept DEF PollScan
<1>7. CASE PollClose
  <2>1. \A i \in Rows : us[i].used => us[i].fd \in Fds /\ us[i].fd # poll.fd
    BY <1>7 DEF PollClose, IInv, SocketsOwned, RowsNamed
  <2>2. \A i \in Rows : us[i].used => open'[us[i].fd] = open[us[i].fd]
    BY <1>7, <2>1 DEF PollClose, IInv, Types
  <2> QED BY <1>7, <2>2, PortsKept DEF PollClose
<1>8. CASE PollAgain \/ PollReady \/ PollRecv \/ PollDone \/ UNCHANGED vars
  <2>1. us' = us /\ open' = open /\ madeFor' = madeFor /\ th' = th /\ gameq' = gameq
        /\ strayed' = strayed
    <3>1. CASE PollAgain
      BY <3>1 DEF PollAgain
    <3>2. CASE PollReady
      BY <3>2 DEF PollReady
    <3>3. CASE PollRecv
      BY <3>3 DEF PollRecv
    <3>4. CASE PollDone
      BY <3>4 DEF PollDone
    <3>5. CASE UNCHANGED vars
      BY <3>5 DEF vars
    <3> QED BY <1>8, <3>1, <3>2, <3>3, <3>4, <3>5
  <2> QED BY <2>1, PortsKept
<1>9. CASE PollTouch
  <2>1. \A j \in Rows : us'[j].used = us[j].used /\ us'[j].fd = us[j].fd /\ us'[j].lport = us[j].lport
    <3>1. poll.at \in Rows \/ us' = us
      BY <1>9, TableAssumption DEF PollTouch, IInv, Types
    <3> QED BY <1>0, <1>9, <3>1 DEF PollTouch, Row
  <2> QED BY <1>9, <2>1, PortsKept DEF PollTouch
<1>10. CASE GameReads
  <2>1. \A k \in DOMAIN gameq' : \E m \in DOMAIN gameq : gameq'[k] = gameq[m]
    <3>1. gameq \in Seq(Datagram) /\ gameq # <<>> /\ gameq' = Tail(gameq)
      BY <1>10 DEF GameReads, IInv, Types
    <3>2. \A k \in DOMAIN gameq' : k + 1 \in DOMAIN gameq /\ gameq'[k] = gameq[k + 1]
      BY <3>1
    <3> QED BY <3>2
  <2> QED BY <1>10, <2>1, PortsKept DEF GameReads
<1>11. ASSUME NEW t \in Threads, Ingress(t) PROVE PortsOk' /\ SentOk'
  BY <1>1, <1>2, <1>3, <1>4, <1>11, SendPorts, RecordPorts DEF Ingress
<1>12. CASE Poller
  BY <1>6, <1>7, <1>8, <1>9, <1>12 DEF Poller
<1> QED BY <1>5, <1>8, <1>10, <1>11, <1>12 DEF Next

LEMMA PortsInvariance == Spec => [](IInv /\ PortsOk /\ SentOk)
<1>1. Init => IInv /\ PortsOk /\ SentOk
  BY InitIInv DEF Init, PortsOk, SentOk, Free
<1>2. IInv /\ PortsOk /\ SentOk /\ [Next]_vars => (IInv /\ PortsOk /\ SentOk)'
  BY StepIInv, StepPorts
<1> QED BY <1>1, <1>2, PTL DEF Spec

\* The rows that name the port of a socket are those of its session.
LEMMA SourceOf ==
  ASSUME IInv, PortsOk, NEW n \in Nat \ {0}, n \notin strayed
  PROVE  \/ Source(n) = madeFor[n]
         \/ Source(n) = Nobody /\ \A i \in Rows : us[i].used => us[i].lport # n
<1> DEFINE S == {i \in Rows : us[i].used /\ us[i].lport = n}
<1>1. \A i \in S : open[us[i].fd] = n
  BY DEF PortsOk
<1>2. \A i \in S : us[i].sess = madeFor[n] /\ us[i].sess \in Sessions
  BY <1>1 DEF IInv, SocketsOwned, RowsNamed
<1>3. \A i, j \in S : i = j
  BY <1>2 DEF IInv, OneSession, RowsOf
<1>4. CASE S = {}
  BY <1>4 DEF Source
<1>5. CASE S # {}
  <2>1. PICK i \in S : TRUE
    BY <1>5
  <2>2. i \in Nat /\ \A j \in S : i <= j
    <3>1. i \in Nat
      BY <2>1, TableAssumption
    <3>2. \A j \in S : j = i
      BY <1>3, <2>1
    <3> HIDE DEF S
    <3> QED BY <3>1, <3>2
  <2>3. Min(S) \in S
    BY <2>1, <2>2 DEF Min
  <2>4. Source(n) = us[Min(S)].sess
    BY <1>5 DEF Source
  <2> QED BY <1>2, <2>3, <2>4
<1> QED BY <1>4, <1>5

\* A row that names the socket a datagram came from is its sender's.
LEMMA SourceRight == IInv /\ PortsOk /\ SentOk => ShownAsPeer
<1> SUFFICES ASSUME IInv, PortsOk, SentOk, NEW n \in DOMAIN madeFor \ strayed,
                    NEW k \in DOMAIN gameq, gameq[k].sock = n
             PROVE  \/ Source(n) = gameq[k].peer
                    \/ Source(n) = Nobody /\ (Unnoted(n) \/ Rowless(n))
  BY DEF ShownAsPeer
<1>1. n \in Nat \ {0} /\ gameq[k].peer = madeFor[n]
  BY DEF IInv, Types, SocksNumbered, SentOk
<1>2. CASE Source(n) = madeFor[n]
  BY <1>1, <1>2
<1>3. CASE Source(n) = Nobody /\ \A i \in Rows : us[i].used => us[i].lport # n
  <2>1. ASSUME NEW i \in Rows, us[i].used, open[us[i].fd] = n PROVE Unnoted(n)
    <3>1. us[i].lport = 0
      BY <1>3, <2>1 DEF PortsOk
    <3> QED BY <2>1, <3>1 DEF SentOk, Unnoted
  <2> QED BY <1>3, <2>1 DEF Rowless
<1> QED BY <1>1, <1>2, <1>3, SourceOf

(* Two threads in dt_udp_ingress never give one session two rows, whatever *)
(* expires or is taken over.                                               *)
THEOREM SessionsSingle == Spec => []OneSession
<1>1. IInv => OneSession
  BY DEF IInv
<1> QED BY Invariance, <1>1, PTL

(* Expiry and takeover neither leak a socket of g_us nor close one that    *)
(* another row has.                                                        *)
THEOREM SocketsKept == Spec => []SocketsOwned
<1>1. IInv => SocketsOwned
  BY DEF IInv
<1> QED BY Invariance, <1>1, PTL

(* dt_hosted_unsource shows the game the sender of a datagram, or the      *)
(* loopback socket while no row has its port, whatever is expired, taken   *)
(* over or held up; a thread that was held up misleads the game only about *)
(* the sockets it touched.                                                 *)
THEOREM SourceIsPeer == Spec => []ShownAsPeer
  BY PortsInvariance, SourceRight, PTL

-----------------------------------------------------------------------------
(***************************************************************************)
(* RelayUdp.  Which endpoint is attached to which link changes with every  *)
(* U_NODE and every datagram; what stays is the machine it belongs to.     *)
(***************************************************************************)
Ages == 0 .. Old
LinkRow == [on : BOOLEAN, port : BOOLEAN, addr : Addrs \cup {None}, age : Ages, mode : BOOLEAN]
Entry == [to : Endpoints \cup {None}, age : Ages]

\* A link that is not registered has nothing; one that is has only addresses of
\* its own machine, and is in UDP-over-TCP mode only when its process is.
LinkOk(l, r) ==
  /\ r \in LinkRow
  /\ r.mode => r.on /\ ProcOf[l] \in Tunnels
  /\ r.addr # None => r.on /\ NodeOf[ProcOf[l]] \in Machines(r.addr)
LinksOk == links \in [Links -> LinkRow] /\ \A l \in Links : LinkOk(l, links[l])

TablesOk ==
  /\ known \in [Endpoints -> Ages]
  /\ flows \in [Dests \X Trips -> Entry]
  /\ learned \in [Endpoints \X Ports -> Entry]
  /\ got \subseteq Procs \X Trips

\* A flow has an asker, who addressed the flow's machine.
FlowsAsked ==
  \A t \in Trips :
    /\ \A d \in Endpoints : flows[<<d, t>>].to # None =>
         \A n \in Machines(d) : <<n, t, flows[<<d, t>>].to>> \in asked
    /\ \A n \in Nodes : flows[<<n, t>>].to # None => <<n, t, flows[<<n, t>>].to>> \in asked

UdpInv == LinksOk /\ TablesOk /\ FlowsAsked

-----------------------------------------------------------------------------
\* The sets that the tables are indexed by.
LEMMA UdpSets ==
  /\ Old \in Nat /\ Old > 0 /\ 0 \in Ages /\ Old \in Ages
  /\ Addrs \subseteq Endpoints /\ Endpoints \subseteq Dests /\ Nodes \subseteq Dests
  /\ \A l \in Links : <<l>> \in Endpoints /\ <<l>> \notin Addrs /\ ProcOf[l] \in Procs
  /\ \A p \in Procs : Ext[p] \in Addrs /\ Decl[p] \in Addrs /\ NodeOf[p] \in Nodes
  /\ \A p \in Procs : NodeOf[p] \in Machines(Ext[p]) /\ NodeOf[p] \in Machines(Decl[p])
  /\ \A l \in Links : NodeOf[ProcOf[l]] \in Machines(<<l>>)
  /\ None \notin Dests /\ None \notin Endpoints /\ None \notin Addrs
  /\ Endpoints \cap Nodes = {}
  /\ \A t \in Trips : PortOf[t] \in Ports
  /\ NoEntry \in Entry /\ NoEntry.to = None /\ NoEntry.age = Old
<1>1. Old \in Nat /\ Old > 0 /\ 0 \in Ages /\ Old \in Ages
  BY AgeAssumption DEF Ages
<1>2. Addrs \subseteq Endpoints /\ Endpoints \subseteq Dests /\ Nodes \subseteq Dests
  BY DEF Endpoints, Dests
<1>3. \A l \in Links : <<l>> \in Endpoints /\ <<l>> \notin Addrs /\ ProcOf[l] \in Procs
  BY TopologyAssumption, KindAssumption DEF Endpoints
<1>4. \A p \in Procs : Ext[p] \in Addrs /\ Decl[p] \in Addrs /\ NodeOf[p] \in Nodes
  BY DEF Addrs, Nodes
<1>5. \A p \in Procs : NodeOf[p] \in Machines(Ext[p]) /\ NodeOf[p] \in Machines(Decl[p])
  BY DEF Machines
<1>6. \A l \in Links : NodeOf[ProcOf[l]] \in Machines(<<l>>)
  BY <1>3 DEF Machines
<1>7. None \notin Dests /\ None \notin Endpoints /\ None \notin Addrs
  BY <1>2, TopologyAssumption
<1>8. Endpoints \cap Nodes = {}
  BY KindAssumption DEF Endpoints
<1>9. \A t \in Trips : PortOf[t] \in Ports
  BY DEF Ports
<1>10. NoEntry \in Entry /\ NoEntry.to = None /\ NoEntry.age = Old
  BY <1>1 DEF NoEntry, Entry
<1> QED BY <1>1, <1>2, <1>3, <1>4, <1>5, <1>6, <1>7, <1>8, <1>9, <1>10

\* A set of numbers has a least one.
LEMMA Least == ASSUME NEW T, T \subseteq Nat, T # {} PROVE \E x \in T : \A y \in T : x <= y
<1> DEFINE R == OpToRel(<, Nat)
<1>1. IsWellFoundedOn(R, Nat)
  BY NatLessThanWellFounded
<1>2. \A x, y \in Nat : y < x => <<y, x>> \in R
  BY DEF OpToRel
<1> HIDE DEF R
<1>3. PICK x \in T : \A y \in T : ~(<<y, x>> \in R)
  BY <1>1, WFMin
<1>4. ASSUME NEW y \in T PROVE x <= y
  <2>1. x \in Nat /\ y \in Nat /\ ~(y < x)
    BY <1>2, <1>3
  <2> QED BY <2>1
<1> QED BY <1>4

\* An endpoint that a link bears has an owner.
LEMMA BearersOwn ==
  ASSUME LinksOk, NEW a, NEW m \in Links, links[m].on, links[m].addr = a
  PROVE  Owners(a) # {}
<1> DEFINE S == {l \in Links : links[l].on /\ links[l].addr = a}
           T == {links[l].age : l \in S}
<1>1. m \in S /\ T # {}
  OBVIOUS
<1>2. T \subseteq Nat
  BY AgeAssumption DEF LinksOk, LinkRow, Ages
<1>3. PICK x \in T : \A y \in T : x <= y
  <2> HIDE DEF T
  <2> QED BY <1>1, <1>2, Least
<1>4. PICK l \in S : \A k \in S : links[l].age <= links[k].age
  BY <1>3
<1>5. l \in Freshest(S) /\ S # {}
  BY <1>4 DEF Freshest
<1> QED BY <1>5 DEF Owners

\* An endpoint that an owner has is an address of that owner's machine.
LEMMA OwnersHave ==
  ASSUME LinksOk, NEW a \in Endpoints, NEW n \in Owners(a)
  PROVE  n \in Machines(a) /\ a \in Addrs /\ n \in Nodes
<1>1. PICK l \in Links : /\ n = NodeOf[ProcOf[l]] /\ links[l].on
                         /\ links[l].addr = a \/ (links[l].port /\ Declared(l) = a)
  BY DEF Owners, Freshest
<1>2. ProcOf[l] \in Procs /\ n \in Nodes
  BY <1>1, UdpSets
<1>3. CASE Declared(l) = a
  BY <1>1, <1>2, <1>3, UdpSets DEF Declared
<1>4. CASE links[l].addr = a
  <2>1. links[l] \in LinkRow /\ (a # None => n \in Machines(a))
    BY <1>1, <1>4 DEF LinksOk, LinkOk
  <2>2. a \in Addrs
    BY <2>1, <1>4, UdpSets DEF LinkRow
  <2> QED BY <1>1, <1>2, <2>1, <2>2, UdpSets
<1> QED BY <1>1, <1>3, <1>4

\* One link's row is replaced by a good one.
LEMMA LinkPut ==
  ASSUME LinksOk, NEW l \in Links, NEW r, LinkOk(l, r), links' = [links EXCEPT ![l] = r]
  PROVE  LinksOk'
<1>1. links' \in [Links -> LinkRow]
  BY DEF LinksOk, LinkOk
<1>2. ASSUME NEW m \in Links PROVE LinkOk(m, links'[m])
  <2>1. CASE m = l
    BY <2>1 DEF LinksOk
  <2>2. CASE m # l
    BY <2>2 DEF LinksOk
  <2> QED BY <2>1, <2>2
<1> QED BY <1>1, <1>2 DEF LinksOk, LinkOk

\* An endpoint is attached to a link of its own machine.
LEMMA Attach ==
  ASSUME LinksOk, NEW l \in Links, links[l].on, NEW a \in Addrs,
         NodeOf[ProcOf[l]] \in Machines(a),
         links' = [links EXCEPT ![l].addr = a, ![l].age = 0]
  PROVE  LinksOk'
<1> DEFINE r == [links[l] EXCEPT !.addr = a, !.age = 0]
<1>1. links[l] \in LinkRow /\ LinkOk(l, links[l])
  BY DEF LinksOk
<1>2. r \in LinkRow /\ r.on = links[l].on /\ r.mode = links[l].mode /\ r.addr = a
  BY <1>1, UdpSets DEF LinkRow
<1>3. LinkOk(l, r)
  BY <1>1, <1>2 DEF LinkOk
<1>4. links' = [links EXCEPT ![l] = r]
  BY DEF LinksOk
<1> HIDE DEF r
<1> QED BY <1>3, <1>4, LinkPut

\* record_udp_proof attaches an endpoint to its owner.
LEMMA ProofStep ==
  ASSUME LinksOk, NEW a \in Endpoints, Proof(a)
  PROVE  LinksOk'
<1>1. CASE UNCHANGED links
  BY <1>1 DEF LinksOk
<1>2. CASE ~UNCHANGED links
  <2>1. PICK n \in Owners(a) :
          \E l \in LinksOf(n) : links' = [links EXCEPT ![l].addr = a, ![l].age = 0]
    <3>1. PICK n \in Owners(a) \cup {None} :
            /\ (n = None) = (Owners(a) = {})
            /\ IF n = None \/ (\E l \in LinksOf(n) : links[l].addr = a) THEN UNCHANGED links
               ELSE LET bare == {l \in LinksOf(n) : links[l].addr = None} IN
                    \E l \in IF bare # {} THEN bare ELSE Oldest(LinksOf(n)) :
                      links' = [links EXCEPT ![l].addr = a, ![l].age = 0]
      BY DEF Proof
    <3>2. n # None
      BY <1>2, <3>1
    <3> QED BY <1>2, <3>1, <3>2 DEF Oldest
  <2>2. PICK l \in LinksOf(n) : links' = [links EXCEPT ![l].addr = a, ![l].age = 0]
    BY <2>1
  <2>3. n \in Machines(a) /\ a \in Addrs
    BY OwnersHave
  <2>4. l \in Links /\ links[l].on /\ NodeOf[ProcOf[l]] = n
    BY <2>2 DEF LinksOf
  <2> QED BY <2>2, <2>3, <2>4, Attach
<1> QED BY <1>1, <1>2

\* Steps that only move links and renew endpoints.
LEMMA TablesKept ==
  ASSUME UdpInv, LinksOk', UNCHANGED <<flows, learned, got, asked>>,
         known' = known \/ (\E e \in Endpoints : known' = [known EXCEPT ![e] = 0])
  PROVE  UdpInv'
<1>1. known' \in [Endpoints -> Ages] /\ \A e \in Endpoints : known'[e] = known[e] \/ known'[e] = 0
  BY UdpSets DEF UdpInv, TablesOk
<1>2. TablesOk'
  BY <1>1 DEF UdpInv, TablesOk
<1>3. FlowsAsked'
  BY DEF UdpInv, FlowsAsked
<1> QED BY <1>2, <1>3 DEF UdpInv

LEMMA NodeStep ==
  ASSUME UdpInv, NEW l \in Links, NEW b \in BOOLEAN, Node(l, b) PROVE UdpInv'
<1> DEFINE r == IF links[l].on THEN links[l] ELSE [Gone EXCEPT !.on = TRUE]
           new == b /\ (~r.port \/ r.addr = None)
           s == IF new THEN [r EXCEPT !.port = TRUE, !.addr = Declared(l), !.age = 0] ELSE r
<1>1. links' = [links EXCEPT ![l] = s]
  BY DEF Node
<1>2. known' = IF new THEN [known EXCEPT ![Declared(l)] = 0] ELSE known
  BY DEF Node
<1>3. Declared(l) \in Addrs /\ Declared(l) \in Endpoints /\ NodeOf[ProcOf[l]] \in Machines(Declared(l))
  BY UdpSets DEF Declared
<1>4. LinkOk(l, r) /\ r \in LinkRow /\ r.on
  <2>1. CASE links[l].on
    BY <2>1 DEF UdpInv, LinksOk
  <2>2. CASE ~links[l].on
    <3>1. r = [on |-> TRUE, port |-> FALSE, addr |-> None, age |-> Old, mode |-> FALSE]
      BY <2>2 DEF Gone
    <3> HIDE DEF r
    <3> QED BY <3>1, UdpSets DEF LinkOk, LinkRow
  <2> QED BY <2>1, <2>2
<1>5. LinkOk(l, s)
  <2>1. CASE new
    <3>1. s = [r EXCEPT !.port = TRUE, !.addr = Declared(l), !.age = 0]
      BY <2>1
    <3>2. s \in LinkRow /\ s.on = r.on /\ s.mode = r.mode /\ s.addr = Declared(l)
      <4> HIDE DEF s, r
      <4> QED BY <3>1, <1>3, <1>4, UdpSets DEF LinkRow
    <3> HIDE DEF s, r
    <3> QED BY <3>2, <1>3, <1>4 DEF LinkOk
  <2>2. CASE ~new
    <3>1. s = r
      BY <2>2
    <3> HIDE DEF s, r
    <3> QED BY <3>1, <1>4
  <2> QED BY <2>1, <2>2
<1>6. LinksOk'
  <2> HIDE DEF s
  <2> QED BY <1>1, <1>5, LinkPut DEF UdpInv
<1>7. UNCHANGED <<flows, learned, got, asked>>
  BY DEF Node
<1>8. known' = known \/ (\E e \in Endpoints : known' = [known EXCEPT ![e] = 0])
  BY <1>2, <1>3
<1> QED BY <1>6, <1>7, <1>8, TablesKept

LEMMA ModeStep == ASSUME UdpInv, NEW l \in Links, Mode(l) PROVE UdpInv'
<1> DEFINE r == [links[l] EXCEPT !.mode = TRUE]
<1>1. links' = [links EXCEPT ![l] = r]
  BY DEF Mode, UdpInv, LinksOk
<1>2. LinkOk(l, links[l]) /\ links[l] \in LinkRow /\ links[l].on /\ ProcOf[l] \in Tunnels
  BY DEF Mode, UdpInv, LinksOk
<1>3. r \in LinkRow /\ r.on = links[l].on /\ r.addr = links[l].addr
  BY <1>2 DEF LinkRow
<1>4. LinkOk(l, r)
  BY <1>2, <1>3 DEF LinkOk
<1>5. LinksOk'
  <2> HIDE DEF r
  <2> QED BY <1>1, <1>4, LinkPut DEF UdpInv
<1> QED BY <1>5, TablesKept DEF Mode

LEMMA LostStep == ASSUME UdpInv, NEW l \in Links, Lost(l) PROVE UdpInv'
<1>1. LinkOk(l, Gone)
  BY UdpSets DEF LinkOk, LinkRow, Gone
<1>2. LinksOk'
  BY <1>1, LinkPut DEF UdpInv, Lost
<1> QED BY <1>2, TablesKept DEF Lost

LEMMA UNodeStep == ASSUME UdpInv, NEW p \in Procs, UNode(p) PROVE UdpInv'
<1>1. PICK l \in Attachable(NodeOf[p], Ext[p]) :
        links' = [links EXCEPT ![l].addr = Ext[p], ![l].age = 0]
  BY DEF UNode
<1>2. l \in Links /\ links[l].on /\ NodeOf[ProcOf[l]] = NodeOf[p]
  BY DEF Attachable, Oldest, LinksOf
<1>3. Ext[p] \in Addrs /\ Ext[p] \in Endpoints /\ NodeOf[p] \in Machines(Ext[p])
  BY UdpSets
<1>4. LinksOk'
  BY <1>1, <1>2, <1>3, Attach DEF UdpInv
<1> QED BY <1>3, <1>4, TablesKept DEF UNode

LEMMA TickStep == ASSUME UdpInv, Tick PROVE UdpInv'
<1>1. \A x \in Ages : Older(x) \in Ages /\ Older(x) # 0
  BY AgeAssumption DEF Ages, Older
<1>2. ASSUME NEW l \in Links
      PROVE /\ links'[l] \in LinkRow /\ links'[l].on = links[l].on /\ links'[l].mode = links[l].mode
            /\ links'[l].addr = links[l].addr
  <2>1. links'[l] = [links[l] EXCEPT !.age = Older(links[l].age)]
    BY DEF Tick
  <2>2. links[l] \in LinkRow
    BY DEF UdpInv, LinksOk
  <2> QED BY <1>1, <2>1, <2>2 DEF LinkRow
<1>3. LinksOk'
  <2>1. links' \in [Links -> LinkRow]
    BY <1>2 DEF Tick
  <2>2. \A l \in Links : LinkOk(l, links'[l])
    BY <1>2 DEF UdpInv, LinksOk, LinkOk
  <2> QED BY <2>1, <2>2 DEF LinksOk, LinkOk
<1>4. ASSUME NEW k \in Dests \X Trips
      PROVE flows'[k] \in Entry /\ flows'[k].to = flows[k].to
  <2>1. flows'[k] = [flows[k] EXCEPT !.age = Older(flows[k].age)] /\ flows[k] \in Entry
    BY DEF Tick, UdpInv, TablesOk
  <2> QED BY <1>1, <2>1 DEF Entry
<1>5. ASSUME NEW k \in Endpoints \X Ports
      PROVE learned'[k] \in Entry
  <2>1. learned'[k] = [learned[k] EXCEPT !.age = Older(learned[k].age)] /\ learned[k] \in Entry
    BY DEF Tick, UdpInv, TablesOk
  <2> QED BY <1>1, <2>1 DEF Entry
<1>6. known' \in [Endpoints -> Ages]
  BY <1>1 DEF Tick, UdpInv, TablesOk
<1>7. TablesOk'
  <2>1. DOMAIN flows = Dests \X Trips /\ DOMAIN learned = Endpoints \X Ports
    BY DEF UdpInv, TablesOk
  <2>2. flows' \in [Dests \X Trips -> Entry] /\ learned' \in [Endpoints \X Ports -> Entry]
    BY <1>4, <1>5, <2>1 DEF Tick
  <2> QED BY <1>6, <2>2 DEF Tick, UdpInv, TablesOk
<1>8. FlowsAsked'
  <2>1. \A d \in Dests, t \in Trips : flows'[<<d, t>>].to = flows[<<d, t>>].to
    BY <1>4
  <2>2. UNCHANGED asked
    BY DEF Tick
  <2> QED BY <2>1, <2>2, UdpSets DEF UdpInv, FlowsAsked
<1> QED BY <1>3, <1>7, <1>8 DEF UdpInv

-----------------------------------------------------------------------------
\* A process sends from an endpoint, and from a link only when it is its own.
LEMMA SourceFacts ==
  ASSUME LinksOk, NEW p \in Procs, NEW a \in Sources(p)
  PROVE  a \in Endpoints /\ \A l \in Links : a = <<l>> => ProcOf[l] = p
<1>1. CASE a = Ext[p]
  BY <1>1, UdpSets
<1>2. CASE a # Ext[p]
  <2>1. PICK m \in Links : ProcOf[m] = p /\ a = IF links[m].addr = None THEN <<m>> ELSE links[m].addr
    BY <1>2 DEF Sources
  <2>2. links[m].addr = None \/ links[m].addr \in Addrs
    BY DEF LinksOk, LinkRow
  <2>3. CASE links[m].addr = None
    <3>1. a = <<m>> /\ \A l \in Links : <<l>> = <<m>> => l = m
      BY <2>1, <2>3
    <3> QED BY <2>1, <3>1, UdpSets
  <2>4. CASE links[m].addr \in Addrs /\ links[m].addr # None
    BY <2>1, <2>4, UdpSets
  <2> QED BY <2>2, <2>3, <2>4
<1> QED BY <1>1, <1>2

\* What a datagram goes to are endpoints.
LEMMA TargetFacts ==
  ASSUME TablesOk, LinksOk, NEW a \in Endpoints, NEW g \in Ports, NEW e \in Targets(a, g)
  PROVE  e \in Endpoints /\ e # a
<1>1. learned[<<a, g>>] \in Entry
  BY DEF TablesOk
<1>2. CASE Sticky(a, g)
  BY <1>1, <1>2 DEF Targets, Sticky, Entry
<1>3. CASE ~Sticky(a, g)
  <2>1. e \in FanOut(a)
    BY <1>3 DEF Targets
  <2> QED BY <2>1 DEF FanOut, Tunnelled, Endpoints
<1> QED BY <1>2, <1>3

LEMMA C2SStep == ASSUME UdpInv, NEW p \in Procs, NEW t \in Trips, C2S(p, t) PROVE UdpInv'
<1>1. PICK a \in Sources(p) :
        /\ t \in TripsOf[p] /\ Proof(a)
        /\ known' = [known EXCEPT ![a] = 0]
        /\ LET to == Targets(a, PortOf[t]) IN
           /\ flows' = [k \in DOMAIN flows |-> IF \E d \in to : k = Flow(d, t)
                                               THEN [to |-> a, age |-> 0] ELSE flows[k]]
           /\ learned' = IF Sticky(a, PortOf[t]) THEN learned
                         ELSE [learned EXCEPT ![<<a, PortOf[t]>>] = NoEntry]
           /\ Arrived(t, to)
           /\ Asked(UNION {Machines(e) : e \in to}, t, a)
  BY DEF C2S
<1> DEFINE to == Targets(a, PortOf[t])
<1>2. a \in Endpoints /\ \A l \in Links : a = <<l>> => ProcOf[l] = p
  BY SourceFacts DEF UdpInv
<1>3. PortOf[t] \in Ports /\ \A e \in to : e \in Endpoints
  BY <1>2, UdpSets, TargetFacts DEF UdpInv
<1>4. LinksOk'
  BY <1>1, <1>2, ProofStep DEF UdpInv
<1>5. known' \in [Endpoints -> Ages] /\ \A e \in Endpoints : known'[e] = known[e] \/ known'[e] = 0
  BY <1>1, <1>2, UdpSets DEF UdpInv, TablesOk
<1>6. /\ flows' \in [Dests \X Trips -> Entry]
      /\ \A d \in Dests, u \in Trips :
           flows'[<<d, u>>] = IF d \in to /\ u = t THEN [to |-> a, age |-> 0] ELSE flows[<<d, u>>]
  <2>1. [to |-> a, age |-> 0] \in Entry
    BY <1>2, UdpSets DEF Entry
  <2>2. flows \in [Dests \X Trips -> Entry] /\ DOMAIN flows = Dests \X Trips
    BY DEF UdpInv, TablesOk
  <2>3. flows' = [k \in Dests \X Trips |-> IF \E d \in to : k = <<d, t>>
                                           THEN [to |-> a, age |-> 0] ELSE flows[k]]
    BY <1>1, <2>2 DEF Flow
  <2>4. flows' \in [Dests \X Trips -> Entry]
    BY <2>1, <2>2, <2>3
  <2>5. ASSUME NEW d \in Dests, NEW u \in Trips
        PROVE flows'[<<d, u>>] = IF d \in to /\ u = t THEN [to |-> a, age |-> 0] ELSE flows[<<d, u>>]
    <3>1. (\E e \in to : <<d, u>> = <<e, t>>) <=> (d \in to /\ u = t)
      OBVIOUS
    <3>2. <<d, u>> \in Dests \X Trips
      OBVIOUS
    <3> HIDE DEF to
    <3> QED BY <2>3, <3>1, <3>2
  <2> QED BY <2>4, <2>5
<1>7. learned' \in [Endpoints \X Ports -> Entry]
  <2>1. learned' = learned \/ learned' = [learned EXCEPT ![<<a, PortOf[t]>>] = NoEntry]
    BY <1>1
  <2>2. learned \in [Endpoints \X Ports -> Entry] /\ NoEntry \in Entry
    BY UdpSets DEF UdpInv, TablesOk
  <2> QED BY <2>1, <2>2
<1>8. got \subseteq got' /\ got' \subseteq Procs \X Trips
  BY <1>1 DEF Arrived, UdpInv, TablesOk
<1>9. asked \subseteq asked' /\ \A e \in to : \A n \in Machines(e) : <<n, t, a>> \in asked'
  BY <1>1 DEF Asked
<1>10. FlowsAsked'
  <2>1. ASSUME NEW d \in Endpoints, NEW u \in Trips, flows'[<<d, u>>].to # None,
               NEW n \in Machines(d)
        PROVE <<n, u, flows'[<<d, u>>].to>> \in asked'
    <3>1. d \in Dests
      BY UdpSets
    <3>2. CASE d \in to /\ u = t
      <4>1. flows'[<<d, u>>].to = a
        BY <1>6, <3>1, <3>2
      <4> QED BY <1>9, <3>2, <4>1
    <3>3. CASE ~(d \in to /\ u = t)
      <4>1. flows'[<<d, u>>] = flows[<<d, u>>]
        BY <1>6, <3>1, <3>3
      <4> QED BY <1>9, <2>1, <4>1 DEF UdpInv, FlowsAsked
    <3> QED BY <3>2, <3>3
  <2>2. ASSUME NEW n \in Nodes, NEW u \in Trips, flows'[<<n, u>>].to # None
        PROVE <<n, u, flows'[<<n, u>>].to>> \in asked'
    <3>1. n \in Dests /\ n \notin to
      BY <1>3, UdpSets
    <3>2. flows'[<<n, u>>] = flows[<<n, u>>]
      BY <1>6, <3>1
    <3> QED BY <1>9, <2>2, <3>2 DEF UdpInv, FlowsAsked
  <2> QED BY <2>1, <2>2 DEF FlowsAsked
<1>11. TablesOk'
  BY <1>5, <1>6, <1>7, <1>8 DEF TablesOk
<1> QED BY <1>4, <1>10, <1>11 DEF UdpInv

LEMMA P2PStep ==
  ASSUME UdpInv, NEW p \in Procs, NEW n \in Nodes, NEW t \in Trips, P2P(p, n, t) PROVE UdpInv'
<1>1. PICK a \in Sources(p) :
        /\ t \in TripsOf[p]
        /\ LET to == NodeEndpoints(n) \ {a} IN
           /\ flows' = [flows EXCEPT ![Flow(n, t)] = [to |-> a, age |-> 0]]
           /\ Arrived(t, to)
           /\ Asked({n}, t, a)
        /\ known' = [known EXCEPT ![a] = 0]
        /\ UNCHANGED <<links, learned>>
  BY DEF P2P
<1>2. a \in Endpoints /\ \A l \in Links : a = <<l>> => ProcOf[l] = p
  BY SourceFacts DEF UdpInv
<1>3. LinksOk'
  BY <1>1 DEF UdpInv, LinksOk
<1>4. known' \in [Endpoints -> Ages] /\ \A e \in Endpoints : known'[e] = known[e] \/ known'[e] = 0
  BY <1>1, <1>2, UdpSets DEF UdpInv, TablesOk
<1>5. /\ flows' \in [Dests \X Trips -> Entry]
      /\ \A d \in Dests, u \in Trips :
           flows'[<<d, u>>] = IF d = n /\ u = t THEN [to |-> a, age |-> 0] ELSE flows[<<d, u>>]
  <2>1. [to |-> a, age |-> 0] \in Entry
    BY <1>2, UdpSets DEF Entry
  <2>2. flows \in [Dests \X Trips -> Entry]
    BY DEF UdpInv, TablesOk
  <2> QED BY <1>1, <2>1, <2>2 DEF Flow
<1>6. got \subseteq got' /\ got' \subseteq Procs \X Trips
  BY <1>1 DEF Arrived, UdpInv, TablesOk
<1>7. asked \subseteq asked' /\ <<n, t, a>> \in asked'
  BY <1>1 DEF Asked
<1>8. FlowsAsked'
  <2>1. ASSUME NEW d \in Endpoints, NEW u \in Trips PROVE flows'[<<d, u>>] = flows[<<d, u>>]
    BY <1>5, UdpSets
  <2>2. ASSUME NEW m \in Nodes, NEW u \in Trips, flows'[<<m, u>>].to # None
        PROVE <<m, u, flows'[<<m, u>>].to>> \in asked'
    <3>1. m \in Dests
      BY UdpSets
    <3>2. CASE m = n /\ u = t
      <4>1. flows'[<<m, u>>].to = a
        BY <1>5, <3>1, <3>2
      <4> QED BY <1>7, <3>2, <4>1
    <3>3. CASE ~(m = n /\ u = t)
      <4>1. flows'[<<m, u>>] = flows[<<m, u>>]
        BY <1>5, <3>1, <3>3
      <4> QED BY <1>7, <2>2, <4>1 DEF UdpInv, FlowsAsked
    <3> QED BY <3>2, <3>3
  <2> QED BY <1>7, <2>1, <2>2 DEF UdpInv, FlowsAsked
<1>9. TablesOk'
  BY <1>1, <1>4, <1>5, <1>6 DEF UdpInv, TablesOk
<1> QED BY <1>3, <1>8, <1>9 DEF UdpInv

\* The endpoints that a process answers from.
LEMMA AnswerFacts ==
  ASSUME LinksOk, NEW p \in Procs, NEW a \in Answers(p) PROVE a \in Endpoints
BY SourceFacts, UdpSets DEF Answers

\* record_udp_proof alone: nothing is routed.
LEMMA DroppedStep ==
  ASSUME UdpInv, NEW a \in Endpoints, Proof(a), ProofKnown(a),
         UNCHANGED <<flows, learned, got, asked>>
  PROVE  UdpInv'
<1>1. LinksOk'
  BY ProofStep DEF UdpInv
<1> QED BY <1>1, TablesKept DEF ProofKnown

LEMMA S2CStep == ASSUME UdpInv, NEW p \in Procs, NEW t \in Trips, S2C(p, t) PROVE UdpInv'
<1>1. PICK a \in Answers(p) :
        /\ <<p, t>> \in got /\ Proof(a) /\ ProofKnown(a)
        /\ \E r \in Routes(a, t) :
             LET f == flows[r[1]] IN
             /\ f.age < Old /\ f.to # a
             /\ flows' = [flows EXCEPT ![r[1]].age = 0]
             /\ learned' = [learned EXCEPT ![<<f.to, PortOf[t]>>] = [to |-> a, age |-> 0]]
        /\ UNCHANGED <<got, asked>>
  BY DEF S2C
<1>2. PICK r \in Routes(a, t) :
        /\ flows[r[1]].age < Old /\ flows[r[1]].to # a
        /\ flows' = [flows EXCEPT ![r[1]].age = 0]
        /\ learned' = [learned EXCEPT ![<<flows[r[1]].to, PortOf[t]>>] = [to |-> a, age |-> 0]]
  BY <1>1
<1>3. a \in Endpoints
  BY AnswerFacts DEF UdpInv
<1>4. PICK d \in Dests : r[1] = <<d, t>>
  <2>1. \A n \in Owners(a) : n \in Nodes
    BY <1>3, OwnersHave DEF UdpInv
  <2> QED BY <1>3, <2>1, UdpSets DEF Routes, Flow
<1>5. flows[<<d, t>>] \in Entry /\ flows \in [Dests \X Trips -> Entry]
  BY DEF UdpInv, TablesOk
<1> DEFINE x == flows[<<d, t>>].to
<1>6. LinksOk'
  BY <1>1, <1>3, ProofStep DEF UdpInv
<1>7. known' \in [Endpoints -> Ages] /\ \A e \in Endpoints : known'[e] = known[e] \/ known'[e] = 0
  BY <1>1, <1>3, UdpSets DEF ProofKnown, UdpInv, TablesOk
<1>8. /\ flows' \in [Dests \X Trips -> Entry]
      /\ \A e \in Dests, u \in Trips : flows'[<<e, u>>].to = flows[<<e, u>>].to
  <2>1. [flows[<<d, t>>] EXCEPT !.age = 0] \in Entry
        /\ [flows[<<d, t>>] EXCEPT !.age = 0].to = flows[<<d, t>>].to
    BY <1>5, UdpSets DEF Entry
  <2>2. flows' = [flows EXCEPT ![<<d, t>>] = [flows[<<d, t>>] EXCEPT !.age = 0]]
    BY <1>2, <1>4, <1>5
  <2>3. flows' \in [Dests \X Trips -> Entry]
    BY <1>5, <2>1, <2>2
  <2>4. ASSUME NEW e \in Dests, NEW u \in Trips PROVE flows'[<<e, u>>].to = flows[<<e, u>>].to
    <3>1. CASE <<e, u>> = <<d, t>>
      BY <1>5, <2>1, <2>2, <3>1
    <3>2. CASE <<e, u>> # <<d, t>>
      BY <1>5, <2>2, <3>2
    <3> QED BY <3>1, <3>2
  <2> QED BY <2>3, <2>4
<1>9. /\ learned' \in [Endpoints \X Ports -> Entry]
      /\ \A y \in Endpoints, g \in Ports :
           learned'[<<y, g>>] = IF y = x /\ g = PortOf[t] THEN [to |-> a, age |-> 0]
                                ELSE learned[<<y, g>>]
  <2>1. learned' = [learned EXCEPT ![<<x, PortOf[t]>>] = [to |-> a, age |-> 0]]
    BY <1>2, <1>4
  <2>2. [to |-> a, age |-> 0] \in Entry /\ learned \in [Endpoints \X Ports -> Entry]
    BY <1>3, UdpSets DEF Entry, UdpInv, TablesOk
  <2> HIDE DEF x
  <2> QED BY <2>1, <2>2
<1>10. TablesOk'
  BY <1>1, <1>7, <1>8, <1>9 DEF UdpInv, TablesOk
<1>11. FlowsAsked'
  <2>1. UNCHANGED asked
    BY <1>1
  <2> QED BY <1>8, <2>1, UdpSets DEF UdpInv, FlowsAsked
<1> QED BY <1>6, <1>10, <1>11 DEF UdpInv

LEMMA UdpInitial == ASSUME UdpInit PROVE UdpInv
<1>1. LinksOk
  <2>1. \A l \in Links : LinkOk(l, Gone)
    BY UdpSets DEF LinkOk, LinkRow, Gone
  <2>2. Gone \in LinkRow
    BY UdpSets DEF LinkRow, Gone
  <2> QED BY <2>1, <2>2 DEF UdpInit, LinksOk
<1>2. /\ flows = [k \in Dests \X Trips |-> NoEntry]
      /\ learned = [k \in Endpoints \X Ports |-> NoEntry]
  BY DEF UdpInit
<1>3. TablesOk
  BY <1>2, UdpSets DEF UdpInit, TablesOk
<1>4. \A d \in Dests, t \in Trips : flows[<<d, t>>].to = None
  BY <1>2, UdpSets
<1>5. FlowsAsked
  BY <1>4, UdpSets DEF FlowsAsked
<1> QED BY <1>1, <1>3, <1>5 DEF UdpInv

LEMMA UdpInductive == ASSUME UdpInv, [UdpNext]_udpVars PROVE UdpInv'
<1>1. CASE UNCHANGED udpVars
  <2>1. UNCHANGED <<links, known, flows, learned, got, asked>>
    BY <1>1 DEF udpVars
  <2>2. LinksOk'
    BY <2>1 DEF UdpInv, LinksOk
  <2> QED BY <2>1, <2>2, TablesKept
<1>2. ASSUME NEW l \in Links, NEW b \in BOOLEAN, Node(l, b) PROVE UdpInv'
  BY <1>2, NodeStep
<1>3. ASSUME NEW l \in Links, Mode(l) \/ Lost(l) PROVE UdpInv'
  BY <1>3, ModeStep, LostStep
<1>4. ASSUME NEW p \in Procs, UNode(p) PROVE UdpInv'
  BY <1>4, UNodeStep
<1>5. ASSUME NEW p \in Procs, NEW t \in Trips, C2S(p, t) \/ S2C(p, t) PROVE UdpInv'
  BY <1>5, C2SStep, S2CStep
<1>6. ASSUME NEW p \in Procs, NEW t \in Trips, S2CDropped(p, t) PROVE UdpInv'
  BY <1>6, AnswerFacts, DroppedStep DEF S2CDropped, UdpInv
<1>7. ASSUME NEW p \in Procs, NEW n \in Nodes, P2PDropped(p, n) PROVE UdpInv'
  BY <1>7, SourceFacts, DroppedStep DEF P2PDropped, UdpInv
<1>8. ASSUME NEW p \in Procs, NEW n \in Nodes, NEW t \in Trips, P2P(p, n, t) PROVE UdpInv'
  BY <1>8, P2PStep
<1>9. CASE Tick
  BY <1>9, TickStep
<1> QED BY <1>1, <1>2, <1>3, <1>4, <1>5, <1>6, <1>7, <1>8, <1>9 DEF UdpNext

\* Who is reached at an endpoint is of a machine that it belongs to.
LEMMA ReachedAtHome ==
  ASSUME LinksOk, NEW e \in Endpoints, NEW p \in Reached(e)
  PROVE  NodeOf[p] \in Machines(e)
<1>1. CASE p \in Procs /\ Ext[p] = e
  BY <1>1, UdpSets
<1>2. ASSUME NEW l \in Links, p = ProcOf[l], e = <<l>> \/ links[l].addr = e
      PROVE NodeOf[p] \in Machines(e)
  <2>1. links[l].addr # None => NodeOf[ProcOf[l]] \in Machines(links[l].addr)
    BY DEF LinksOk, LinkOk
  <2>2. e # None
    BY UdpSets
  <2> QED BY <1>2, <2>1, <2>2, UdpSets
<1> QED BY <1>1, <1>2 DEF Reached

\* What a node is sent its datagrams at belongs to it.
LEMMA EndpointsOwn ==
  ASSUME LinksOk, NEW n \in Nodes, NEW e \in NodeEndpoints(n)
  PROVE  e \in Endpoints /\ n \in Machines(e)
<1>1. PICK l \in LinksOf(n) :
        /\ e # None
        /\ e = IF links[l].mode THEN <<l>>
               ELSE IF links[l].addr # None /\ links[l].age < Old THEN links[l].addr
               ELSE IF links[l].port THEN Declared(l) ELSE None
  BY DEF NodeEndpoints
<1>2. l \in Links /\ NodeOf[ProcOf[l]] = n
  BY DEF LinksOf
<1>3. links[l] \in LinkRow /\ (links[l].addr # None => n \in Machines(links[l].addr))
  BY <1>2 DEF LinksOk, LinkOk
<1>4. Declared(l) \in Addrs /\ n \in Machines(Declared(l))
  BY <1>2, UdpSets DEF Declared
<1>5. e = <<l>> \/ (e = links[l].addr /\ e # None) \/ e = Declared(l)
  BY <1>1
<1> QED BY <1>2, <1>3, <1>4, <1>5, UdpSets DEF LinkRow

LEMMA UdpAddressed == UdpInv => OnlyAddressed
  BY ReachedAtHome, EndpointsOwn DEF UdpInv, OnlyAddressed

LEMMA UdpReplies == UdpInv => ReplyToAsker
<1> SUFFICES ASSUME UdpInv, NEW a \in Endpoints, NEW t \in Trips, NEW r \in Routes(a, t),
                    r[2] # "scan"
             PROVE  \E n \in Machines(a) : <<n, t, flows[r[1]].to>> \in asked
  BY DEF ReplyToAsker
<1>1. \/ r[1] = <<a, t>> /\ flows[<<a, t>>].to # None
      \/ \E n \in Owners(a) : r[1] = <<n, t>> /\ flows[<<n, t>>].to # None
  <2> DEFINE at == IF flows[Flow(a, t)].to # None THEN {Flow(a, t)} ELSE {}
             by == {Flow(n, t) : n \in {m \in Owners(a) : flows[Flow(m, t)].to # None}}
  <2>1. r \in at \X {"addr"} \/ r \in by \X {"node"}
    BY DEF Routes
  <2>2. r[1] \in at \/ r[1] \in by
    <3> HIDE DEF at, by
    <3> QED BY <2>1
  <2> QED BY <2>2 DEF Flow
<1>2. CASE r[1] = <<a, t>> /\ flows[<<a, t>>].to # None
  <2>1. PICK n : n \in Machines(a)
    <3>1. a \in Addrs \/ \E l \in Links : a = <<l>>
      BY DEF Endpoints
    <3>2. ASSUME a \in Addrs PROVE \E p \in Procs : a = Ext[p] \/ a = Decl[p]
      BY <3>2 DEF Addrs
    <3> QED BY <3>1, <3>2, UdpSets
  <2> QED BY <1>2, <2>1 DEF UdpInv, FlowsAsked
<1>3. ASSUME NEW n \in Owners(a), r[1] = <<n, t>>, flows[<<n, t>>].to # None
      PROVE \E m \in Machines(a) : <<m, t, flows[r[1]].to>> \in asked
  <2>1. n \in Machines(a) /\ n \in Nodes
    BY OwnersHave DEF UdpInv
  <2> QED BY <1>3, <2>1 DEF UdpInv, FlowsAsked
<1> QED BY <1>1, <1>2, <1>3

\* The tables are well typed, and an endpoint is attached only to links of the
\* machine it belongs to (U_NODE, record_udp_proof).
THEOREM EndpointsAtHome == UdpSpec => [](LinksOk /\ TablesOk)
<1>1. UdpSpec => []UdpInv
  BY UdpInitial, UdpInductive, PTL DEF UdpSpec
<1>2. UdpInv => LinksOk /\ TablesOk
  BY DEF UdpInv
<1> QED BY <1>1, <1>2, PTL

\* A datagram addressed to a node reaches no other machine, but for one that
\* shares the address it is sent to (node_udp_addrs, udp_sendto).
THEOREM AddressedOnly == UdpSpec => []OnlyAddressed
<1>1. UdpSpec => []UdpInv
  BY UdpInitial, UdpInductive, PTL DEF UdpSpec
<1> QED BY <1>1, UdpAddressed, PTL

\* A reply finds a player who asked.
THEOREM RepliesFindAskers == UdpSpec => []ReplyToAsker
<1>1. UdpSpec => []UdpInv
  BY UdpInitial, UdpInductive, PTL DEF UdpSpec
<1> QED BY <1>1, UdpReplies, PTL
=============================================================================
