----------------------------- MODULE HostedUdp -----------------------------
(***************************************************************************)
(* The hosted UDP sessions of a hook (g_us): a datagram of a peer enters   *)
(* the local game through a loopback socket of its own (dt_usess_find,     *)
(* dt_hosted_udp_in), what the game sends back to that socket leaves       *)
(* through the poller (dt_hosted_thread), and the game is shown the peer   *)
(* in place of the loopback source (dt_hosted_unsource).                   *)
(*                                                                         *)
(* A step is one lock section or one socket call.  Descriptors are numbers *)
(* that the kernel uses again, the lowest free one first; a socket made    *)
(* in a run has a number of its own, which stands for its ephemeral port   *)
(* (the kernel does not hand out one again for a long time).               *)
(* Time is the flag idle of a session: nothing for 45 seconds.  What a row *)
(* held is erased when it is freed: the code never reads a row not in use. *)
(* An ingress thread may be held up for those 45 seconds between its two   *)
(* lock sections (a suspended machine, a debugger), and then goes on with  *)
(* a row and a descriptor that may be another session's by now.            *)
(* Where the answers go from here is the relay's business (RelayUdp).      *)
(***************************************************************************)
EXTENDS Naturals, FiniteSets, Sequences, FiniteSetsExt

CONSTANTS Rows,       \* 1 .. DT_MAXUSESS
          Fds,        \* descriptors the process may have open
          MaxSocks,   \* sockets made in a run
          MaxHeld,    \* threads that are held up while 45 seconds pass
          MaxRead,    \* datagrams waiting in the game's socket
          Sessions,   \* game port and peer address, as on the wire
          Threads,    \* the threads that call dt_udp_ingress
          Nobody      \* no session; to the game, the loopback address

ASSUME TableAssumption == Rows \subseteq Nat \ {0} /\ Fds \subseteq Nat \ {0}
ASSUME NobodyAssumption == Nobody \notin Sessions
ASSUME BoundAssumption == MaxSocks \in Nat /\ MaxRead \in Nat /\ MaxHeld \in Nat

VARIABLES us,       \* g_us
          open,     \* descriptor -> number of its socket, 0 when closed
          madeFor,  \* history: the sessions of the sockets made so far
          th,       \* what each ingress thread is about to do, and for whom
          hwake,    \* a byte is in the wake pipe of the poller
          poll,     \* the poller: place, row it is at, snapshot, descriptor to close
          replies,  \* sockets with an answer of the game to be read
          gameq,    \* datagrams waiting for the game: socket and true sender
          strayed   \* history: sockets a thread that was held up has touched

vars == <<us, open, madeFor, th, hwake, poll, replies, gameq, strayed>>

Free == [used |-> FALSE, sess |-> Nobody, fd |-> 0, lport |-> 0, idle |-> FALSE]
Resting == [pc |-> "rest", row |-> 0, fd |-> 0, peer |-> Nobody]
Scanning == [pc |-> "scan", at |-> 0, snap |-> {}, fd |-> 0]

Init ==
  /\ us = [i \in Rows |-> Free]
  /\ open = [f \in Fds |-> 0]
  /\ madeFor = <<>>
  /\ th = [t \in Threads |-> Resting]
  /\ hwake = FALSE
  /\ poll = Scanning
  /\ replies = {}
  /\ gameq = <<>>
  /\ strayed = {}

-----------------------------------------------------------------------------
RowsOf(s) == {i \in Rows : us[i].used /\ us[i].sess = s}
Candidates == {i \in Rows : ~us[i].used \/ us[i].idle}

(* A session takes row r; earlier candidates are rows for which socket()   *)
(* failed.  Sockets of the rows passed are closed, and r's old one too.    *)
Passed(r) == {i \in Candidates : r = 0 \/ i < r}
ClosedBy(r) == {us[i].fd : i \in {j \in Passed(r) \cup ({r} \ {0}) : us[j].used}}
FreeFds(r) == {f \in Fds : open[f] = 0 \/ f \in ClosedBy(r)}

\* Mutant: a row that is taken over keeps the port of its old socket.
MakeKeepsPort(s, r, f) ==
  us' = [i \in Rows |->
           IF i = r THEN [used |-> TRUE, sess |-> s, fd |-> f, lport |-> us[i].lport,
                          idle |-> FALSE]
           ELSE IF i \in Passed(r) THEN Free ELSE us[i]]

\* dt_usess_find fills in the row (f is the new descriptor).
Make(s, r, f) ==
  us' = [i \in Rows |->
           IF i = r THEN [used |-> TRUE, sess |-> s, fd |-> f, lport |-> 0, idle |-> FALSE]
           ELSE IF i \in Passed(r) THEN Free ELSE us[i]]

\* Mutant: two threads may both find no session.
UnlockedFind(s) == {i \in RowsOf(s) : \A t \in Threads : th[t].row # i}

\* The row of a session, if it has one.
Find(s) == RowsOf(s)

(* A datagram of a peer: dt_hosted_udp_in up to the end of its first lock  *)
(* section.                                                                *)
IngressFound(t, s) ==
  /\ th[t] = Resting
  /\ \E i \in Find(s) :
       /\ us' = [us EXCEPT ![i].idle = FALSE]
       /\ th' = [th EXCEPT ![t] = [pc |-> "send", row |-> i, fd |-> us[i].fd, peer |-> s]]
  /\ UNCHANGED <<open, madeFor, hwake, poll, replies, gameq, strayed>>

IngressNew(t, s) ==
  /\ th[t] = Resting /\ Find(s) = {} /\ Len(madeFor) < MaxSocks
  /\ \E r \in Candidates, f \in Fds :
       /\ f \in FreeFds(r) /\ \A g \in FreeFds(r) : f <= g
       /\ Make(s, r, f)
       /\ open' = [g \in Fds |-> IF g = f THEN Len(madeFor) + 1
                                 ELSE IF g \in ClosedBy(r) THEN 0 ELSE open[g]]
       /\ replies' = replies \ {open[g] : g \in ClosedBy(r)}
       /\ th' = [th EXCEPT ![t] = [pc |-> "send", row |-> r, fd |-> f, peer |-> s]]
  /\ madeFor' = Append(madeFor, s)
  /\ hwake' = TRUE
  /\ UNCHANGED <<poll, gameq, strayed>>

\* No row, or no socket: the datagram goes to dt_direct_udp_in.
IngressNone(t, s) ==
  /\ th[t] = Resting /\ Find(s) = {}
  /\ us' = [i \in Rows |-> IF i \in Candidates THEN Free ELSE us[i]]
  /\ open' = [f \in Fds |-> IF f \in ClosedBy(0) THEN 0 ELSE open[f]]
  /\ replies' = replies \ {open[f] : f \in ClosedBy(0)}
  /\ UNCHANGED <<madeFor, th, hwake, poll, gameq, strayed>>

\* The row that the thread took is still its session's, with its socket.
Holds(t) ==
  LET u == us[th[t].row] IN u.used /\ u.sess = th[t].peer /\ u.fd = th[t].fd

\* The send into the game: it arrives, is dropped by a full socket, or fails.
IngressSend(t) ==
  /\ th[t].pc = "send" /\ open[th[t].fd] # 0 /\ Len(gameq) < MaxRead
  /\ gameq' = Append(gameq, [sock |-> open[th[t].fd], peer |-> th[t].peer])
  /\ th' = [th EXCEPT ![t].pc = "record"]
  /\ strayed' = IF Holds(t) THEN strayed ELSE strayed \cup {open[th[t].fd]}
  /\ UNCHANGED <<us, open, madeFor, hwake, poll, replies>>

IngressDropped(t) ==
  /\ th[t].pc = "send"
  /\ \/ th' = [th EXCEPT ![t].pc = "record"]
     \/ th' = [th EXCEPT ![t] = Resting]
  /\ UNCHANGED <<us, open, madeFor, hwake, poll, replies, gameq, strayed>>

(* The source port of the descriptor is noted in the row, if it has none,  *)
(* for dt_hosted_unsource: of whatever the two are by now.                 *)
IngressRecord(t) ==
  LET i == th[t].row
      n == open[th[t].fd]
  IN
  /\ th[t].pc = "record"
  /\ \/ /\ us[i].used /\ us[i].lport = 0 /\ n # 0
        /\ us' = [us EXCEPT ![i].lport = n]
        /\ strayed' = IF Holds(t) THEN strayed ELSE strayed \cup {n, open[us[i].fd]}
     \/ /\ ~us[i].used \/ us[i].lport # 0 \/ n = 0
        /\ UNCHANGED <<us, strayed>>
  /\ th' = [th EXCEPT ![t] = Resting]
  /\ UNCHANGED <<open, madeFor, hwake, poll, replies, gameq>>

\* 45 seconds pass without a datagram of the session, and for the threads held up.
Idle(i) ==
  /\ us[i].used /\ ~us[i].idle
  /\ Cardinality({t \in Threads : th[t] # Resting}) <= MaxHeld
  /\ us' = [us EXCEPT ![i].idle = TRUE]
  /\ UNCHANGED <<open, madeFor, th, hwake, poll, replies, gameq, strayed>>

-----------------------------------------------------------------------------
(* dt_hosted_thread.  The scan keeps the lock but for the close of an      *)
(* expired session, whose row is free by then.                             *)
Snap(S) == {[row |-> i, fd |-> us[i].fd, sess |-> us[i].sess] : i \in S}
Ahead == {i \in Rows : i > poll.at /\ us[i].used}
Expired == {i \in Ahead : us[i].idle}

\* Mutant: the row is freed when its socket is closed already.
ExpireKeepsRow(i) == UNCHANGED us

Expire(i) == us' = [us EXCEPT ![i] = Free]

PollScan ==
  /\ poll.pc = "scan"
  /\ \/ \E i \in Expired :
           /\ \A j \in Expired : i <= j
           /\ Expire(i)
           /\ poll' = [pc |-> "close", at |-> i, fd |-> us[i].fd,
                       snap |-> poll.snap \cup Snap({j \in Ahead : j < i})]
     \/ /\ Expired = {}
        /\ poll' = [poll EXCEPT !.pc = "select", !.at = 0, !.snap = @ \cup Snap(Ahead)]
        /\ UNCHANGED us
  /\ UNCHANGED <<open, madeFor, th, hwake, replies, gameq, strayed>>

PollClose ==
  /\ poll.pc = "close"
  /\ open' = [open EXCEPT ![poll.fd] = 0]
  /\ replies' = replies \ {open[poll.fd]}
  /\ poll' = [poll EXCEPT !.pc = "scan", !.fd = 0]
  /\ UNCHANGED <<us, madeFor, th, hwake, gameq, strayed>>

\* The wait ends with its slice, or with a byte in the pipe: scan again.
PollAgain ==
  /\ poll.pc = "select"
  /\ hwake' = FALSE
  /\ poll' = Scanning
  /\ UNCHANGED <<us, open, madeFor, th, replies, gameq, strayed>>

Ready == {e \in poll.snap : open[e.fd] \in replies}

\* select returns with sockets to read and without the pipe.
PollReady ==
  /\ poll.pc = "select" /\ ~hwake /\ Ready # {}
  /\ poll' = [poll EXCEPT !.pc = "recv", !.snap = Ready]
  /\ UNCHANGED <<us, open, madeFor, th, hwake, replies, gameq, strayed>>

(* The first of them is read, and the answer leaves under the session of   *)
(* the snapshot.  A descriptor closed by now is skipped; one that is       *)
(* another socket's by now blocks until that has something to read.        *)
PollRecv ==
  /\ poll.pc = "recv"
  /\ \E e \in poll.snap :
       /\ \A x \in poll.snap : e.row <= x.row
       /\ open[e.fd] = 0 \/ open[e.fd] \in replies
       /\ replies' = replies \ {open[e.fd]}
       /\ poll' = IF open[e.fd] = 0 THEN [poll EXCEPT !.snap = @ \ {e}]
                   ELSE [poll EXCEPT !.pc = "touch", !.at = e.row, !.snap = @ \ {e}]
  /\ UNCHANGED <<us, open, madeFor, th, hwake, gameq, strayed>>

\* Its row is renewed, whichever session has it now.
PollTouch ==
  /\ poll.pc = "touch"
  /\ us' = IF us[poll.at].used THEN [us EXCEPT ![poll.at].idle = FALSE] ELSE us
  /\ poll' = [poll EXCEPT !.pc = "recv", !.at = 0]
  /\ UNCHANGED <<open, madeFor, th, hwake, replies, gameq, strayed>>

PollDone ==
  /\ poll.pc = "recv" /\ poll.snap = {}
  /\ poll' = Scanning
  /\ UNCHANGED <<us, open, madeFor, th, hwake, replies, gameq, strayed>>

-----------------------------------------------------------------------------
\* dt_hosted_unsource: the session whose socket has this source port.
Source(n) == IF \E i \in Rows : us[i].used /\ us[i].lport = n
             THEN us[Min({i \in Rows : us[i].used /\ us[i].lport = n})].sess
             ELSE Nobody

\* The game reads, and answers a source that it was shown as loopback.
GameReads ==
  /\ gameq # <<>>
  /\ gameq' = Tail(gameq)
  /\ LET n == Head(gameq).sock IN
       replies' = IF Source(n) = Nobody /\ (\E f \in Fds : open[f] = n)
                  THEN replies \cup {n} ELSE replies
  /\ UNCHANGED <<us, open, madeFor, th, hwake, poll, strayed>>

Poller == PollScan \/ PollClose \/ PollAgain \/ PollReady \/ PollRecv \/ PollTouch \/ PollDone
Ingress(t) ==
  \/ \E s \in Sessions : IngressFound(t, s) \/ IngressNew(t, s) \/ IngressNone(t, s)
  \/ IngressSend(t) \/ IngressDropped(t) \/ IngressRecord(t)

Next == (\E t \in Threads : Ingress(t)) \/ (\E i \in Rows : Idle(i)) \/ Poller \/ GameReads
Spec == Init /\ [][Next]_vars

-----------------------------------------------------------------------------
(* The datagrams of one peer for one port reach the game from one source:  *)
(* the two threads that call dt_udp_ingress never give a session two rows  *)
(* and two sockets, also when its row has just expired or was taken over.  *)
OneSession == \A s \in Sessions : \A i, j \in RowsOf(s) : i = j

(* A row in use has an open socket that was made for its session, and an   *)
(* open socket belongs to one row or is about to be closed by the poller:  *)
(* expiry and the takeover of an idle row neither leak a descriptor nor    *)
(* close one that was handed out again.                                    *)
SocketsOwned ==
  /\ \A i \in Rows : us[i].used =>
       /\ open[us[i].fd] # 0 /\ madeFor[open[us[i].fd]] = us[i].sess
       /\ ~(poll.pc = "close" /\ poll.fd = us[i].fd)
       /\ \A j \in Rows : us[j].used /\ us[j].fd = us[i].fd => i = j
  /\ \A f \in Fds : open[f] # 0 =>
       \/ poll.pc = "close" /\ poll.fd = f
       \/ \E i \in Rows : us[i].used /\ us[i].fd = f

(* What dt_hosted_unsource shows the game as the source of a datagram is   *)
(* the peer that sent it.  The comment above it says that the game must    *)
(* never see the loopback socket; the code shows it in two cases: the      *)
(* thread that sent the datagram has not noted the port yet, or the        *)
(* session was expired or taken over while the datagram waited.  Another   *)
(* peer is shown only for a socket that a thread touched after it had been *)
(* held up until its row was no longer its session's: what such a thread   *)
(* writes misleads the game about no socket but these.                     *)
Unnoted(n) == \E t \in Threads : th[t].pc = "record" /\ open[th[t].fd] = n
Rowless(n) == \A i \in Rows : us[i].used => open[us[i].fd] # n

ShownAsPeer ==
  \A n \in DOMAIN madeFor \ strayed : \A k \in DOMAIN gameq : gameq[k].sock = n =>
    \/ Source(n) = gameq[k].peer
    \/ Source(n) = Nobody /\ (Unnoted(n) \/ Rowless(n))
=============================================================================
