---------------------------- MODULE ControlLink ----------------------------
(***************************************************************************)
(* The hook's control link (dt_tcp_thread, dt_tcp_queue, dt_ctl_dispatch), *)
(* the messages that register a node and stamp its host claim on it        *)
(* (dt_send_node, dt_claim, dt_udp_thread), and the lease barrier that     *)
(* holds the game until the relay's ASSIGN has come (dt_start, dt_fatal,   *)
(* dt_init_watchdog), with the relay's end of the link as far as they      *)
(* depend on it.                                                           *)
(*                                                                         *)
(* A step is what a thread does between two lock or socket operations.  A  *)
(* frame is two halves, so that a send may be short and a link may die in  *)
(* the middle of a frame; its size in the queue is 1.                      *)
(***************************************************************************)
EXTENDS Naturals, Sequences

CONSTANTS AppFrames,   \* frames and refreshes the program queues in a run
          Breaks,      \* times the link is lost
          CTLQ_DROP,   \* DT_CTLQ_DROP, in frames
          UDP_TCP,     \* UDP-over-TCP mode is configured
          NoWait,      \* LAN_HOOK_LEASE_WAIT=0
          UdpOpen      \* the relay's UDP port can be reached

ASSUME BoundAssumption == AppFrames \in Nat /\ Breaks \in Nat /\ CTLQ_DROP \in Nat
ASSUME FlagAssumption == UDP_TCP \in BOOLEAN /\ NoWait \in BOOLEAN /\ UdpOpen \in BOOLEAN

VARIABLES q, bytes,     \* the send queue and g_sq_bytes
          cur, off,     \* the frame being sent and the halves out
          up,           \* g_tcp_up
          out, inp,     \* halves in flight to the relay and to the hook
          rpart,        \* rbuf holds the first half of a frame
          relay,        \* the relay's link record, and the half it holds
          claimed, claiming,   \* g_claimed; dt_claim still has to send
          have_assign, main,   \* the lease, and the thread in dt_start
          next, left, breaks,  \* frame numbers; what is left to happen
          seen, torn    \* history: last frame at the relay; a bad parse

vars == <<q, bytes, cur, off, up, out, inp, rpart, relay, claimed, claiming,
          have_assign, main, next, left, breaks, seen, torn>>
queue == <<q, bytes, next>>
sender == <<cur, off, out>>
inbound == <<inp, rpart, have_assign>>
atRelay == <<relay, seen>>
starting == <<claimed, claiming, main>>

None == [id |-> 0, op |-> "none", host |-> FALSE]
Unknown == [reg |-> FALSE, host |-> FALSE, part |-> 0]

Init ==
  /\ q = <<[id |-> 1, op |-> "node", host |-> FALSE]>> /\ bytes = 1
  /\ cur = None /\ off = 0
  /\ up = FALSE
  /\ out = <<>> /\ inp = <<>> /\ rpart = FALSE
  /\ relay = Unknown
  /\ claimed = FALSE /\ claiming = FALSE
  /\ have_assign = FALSE /\ main = "wait"
  /\ next = 2 /\ left = AppFrames /\ breaks = Breaks
  /\ seen = 0 /\ torn = FALSE

Alive == main # "dead"

-----------------------------------------------------------------------------
\* dt_tcp_queue of the frames with these operations; NODE carries g_claimed.
Queue(ops) ==
  /\ q' = q \o [i \in DOMAIN ops |->
                  [id |-> next + i - 1, op |-> ops[i], host |-> ops[i] = "node" /\ claimed]]
  /\ bytes' = bytes + Len(ops)
  /\ next' = next + Len(ops)

\* A datagram or beacon is dropped when the queue is long; STSHUT is not.
AppQueue(op) ==
  /\ Alive /\ left > 0 /\ left' = left - 1
  /\ op = "tun" => bytes + 1 <= CTLQ_DROP
  /\ Queue(<<op>>)
  /\ UNCHANGED <<sender, up, inbound, atRelay, starting, breaks, torn>>

\* The 12 s refresh of dt_udp_thread, its datagram apart (UdpNode).
Refresh ==
  /\ Alive /\ left > 0 /\ left' = left - 1
  /\ Queue(<<"node">>)
  /\ UNCHANGED <<sender, up, inbound, atRelay, starting, breaks, torn>>

\* dt_claim, from the application's listen(): the flag, and then the NODE.
Claim ==
  /\ Alive /\ main = "started" /\ ~claimed
  /\ claimed' = TRUE /\ claiming' = TRUE
  /\ UNCHANGED <<queue, sender, up, inbound, atRelay, main, left, breaks, torn>>

ClaimSend ==
  /\ Alive /\ claiming
  /\ Queue(<<"node">>)
  /\ claiming' = FALSE
  /\ UNCHANGED <<sender, up, inbound, atRelay, claimed, main, left, breaks, torn>>

-----------------------------------------------------------------------------
(* dt_tcp_thread.  A new link: the registration goes to the end of the     *)
(* queue, behind what was queued while the link was down.                  *)
Dial ==
  /\ Alive /\ ~up
  /\ up' = TRUE
  /\ Queue(IF UDP_TCP THEN <<"node", "mode">> ELSE <<"node">>)
  /\ UNCHANGED <<sender, inbound, atRelay, starting, left, breaks, torn>>

Take ==
  /\ Alive /\ up /\ cur = None /\ q # <<>>
  /\ cur' = Head(q) /\ q' = Tail(q) /\ off' = 0
  /\ UNCHANGED <<bytes, next, up, out, inbound, atRelay, starting, left, breaks, torn>>

\* The socket takes the first half, or all there is.
SendHalf ==
  /\ Alive /\ up /\ cur # None /\ off = 0
  /\ off' = 1 /\ out' = Append(out, <<cur, 1>>)
  /\ UNCHANGED <<queue, cur, up, inbound, atRelay, starting, left, breaks, torn>>

SendRest ==
  /\ Alive /\ up /\ cur # None
  /\ out' = out \o (IF off = 0 THEN <<<<cur, 1>>, <<cur, 2>>>> ELSE <<<<cur, 2>>>>)
  /\ bytes' = bytes - 1
  /\ cur' = None /\ off' = 0
  /\ UNCHANGED <<q, next, up, inbound, atRelay, starting, left, breaks, torn>>

\* dt_ctl_dispatch: the relay's frames of this model are ASSIGNs, which are the
\* lease; the other kinds (beacons, STREQ, datagrams) leave the link as it is.
Dispatch == have_assign' = TRUE

\* Inbound: the second half of a frame completes it, and it is dispatched.
Receive ==
  /\ Alive /\ up /\ inp # <<>>
  /\ inp' = Tail(inp)
  /\ rpart' = (Head(inp) = 1)
  /\ IF Head(inp) = 2 THEN Dispatch ELSE UNCHANGED have_assign
  /\ torn' = (torn \/ rpart = (Head(inp) = 1))
  /\ UNCHANGED <<queue, sender, up, atRelay, starting, left, breaks>>

\* Mutant: the frame that is not begun goes to the end of the queue.
RedialAppends ==
  /\ q' = IF cur # None /\ off = 0 THEN Append(q, cur) ELSE q
  /\ bytes' = IF cur # None /\ off = 1 THEN bytes - 1 ELSE bytes
  /\ cur' = None /\ off' = 0

\* Mutant: a half-sent frame is completed on the next link.
RedialResumes == UNCHANGED <<q, bytes, cur, off>>

\* Mutant: the bytes of a half-sent frame stay counted.
RedialMiscounts ==
  /\ q' = IF cur # None /\ off = 0 THEN <<cur>> \o q ELSE q
  /\ cur' = None /\ off' = 0
  /\ UNCHANGED bytes

(* The link is lost and the thread redials: a frame that is not begun goes *)
(* first on the next link, a half-sent one dies, and rbuf is emptied.      *)
RedialQueue ==
  /\ q' = IF cur # None /\ off = 0 THEN <<cur>> \o q ELSE q
  /\ bytes' = IF cur # None /\ off = 1 THEN bytes - 1 ELSE bytes
  /\ cur' = None /\ off' = 0
RedialInput == rpart' = FALSE

Redial ==
  /\ Alive /\ up /\ breaks > 0 /\ breaks' = breaks - 1
  /\ up' = FALSE
  /\ RedialQueue /\ RedialInput
  /\ out' = <<>> /\ inp' = <<>>
  /\ relay' = Unknown
  /\ UNCHANGED <<next, have_assign, seen, starting, left, torn>>

-----------------------------------------------------------------------------
\* register_node of the relay: the claim counts on a new link record.
Registered(f) == IF relay.reg THEN relay ELSE [relay EXCEPT !.reg = TRUE, !.host = f.host]

\* The relay reads on; every NODE is answered by an ASSIGN.
RelayReads ==
  /\ Alive /\ up /\ out # <<>>
  /\ LET f == Head(out)[1]
         whole == Head(out)[2] = 2
     IN
     /\ torn' = (torn \/ relay.part # (IF whole THEN f.id ELSE 0))
     /\ seen' = IF whole THEN f.id ELSE seen
     /\ relay' = [(IF whole /\ f.op = "node" THEN Registered(f) ELSE relay)
                    EXCEPT !.part = IF whole THEN 0 ELSE f.id]
     /\ inp' = IF whole /\ f.op = "node" THEN inp \o <<1, 2>> ELSE inp
  /\ out' = Tail(out)
  /\ UNCHANGED <<queue, cur, off, up, rpart, have_assign, starting, left, breaks>>

\* Mutant: only the datagram that dt_claim sends carries the flag.
UdpNodeOnce ==
  /\ Alive /\ UdpOpen /\ relay.reg /\ ~relay.host /\ claiming
  /\ relay' = [relay EXCEPT !.host = TRUE]
  /\ UNCHANGED <<queue, sender, up, inbound, seen, starting, left, breaks, torn>>

\* A U_NODE datagram of dt_send_udp_node arrives; on its own it registers nothing.
UdpNode ==
  /\ Alive /\ UdpOpen /\ relay.reg /\ ~relay.host /\ claimed
  /\ relay' = [relay EXCEPT !.host = TRUE]
  /\ UNCHANGED <<queue, sender, up, inbound, seen, starting, left, breaks, torn>>

-----------------------------------------------------------------------------
(* dt_start waits for the lease, and the game runs once it returns.        *)
Begin ==
  /\ main = "wait" /\ (have_assign \/ NoWait)
  /\ main' = "started"
  /\ UNCHANGED <<queue, sender, up, inbound, atRelay, claimed, claiming, left, breaks,
                 torn>>

\* Mutant: a spent budget lets the game start.
BudgetForgiven ==
  /\ main = "wait" /\ ~have_assign /\ ~NoWait
  /\ main' = "started"
  /\ UNCHANGED <<queue, sender, up, inbound, atRelay, claimed, claiming, left, breaks,
                 torn>>

\* The budget is spent: the decision to give up, ...
BudgetSpent ==
  /\ main = "wait" /\ ~have_assign /\ ~NoWait
  /\ main' = "failing"
  /\ UNCHANGED <<queue, sender, up, inbound, atRelay, claimed, claiming, left, breaks,
                 torn>>

\* ... and dt_fatal, also called by the link's thread (dt_init_watchdog).
Fatal ==
  /\ main = "failing" \/ (main = "wait" /\ ~have_assign /\ ~NoWait)
  /\ main' = "dead"
  /\ UNCHANGED <<queue, sender, up, inbound, atRelay, claimed, claiming, left, breaks,
                 torn>>

Link == Dial \/ Take \/ SendHalf \/ SendRest \/ Receive
Next ==
  \/ AppQueue("tun") \/ AppQueue("shut") \/ Refresh \/ Claim \/ ClaimSend
  \/ Link \/ Redial \/ RelayReads \/ UdpNode
  \/ Begin \/ BudgetSpent \/ Fatal

Spec == /\ Init /\ [][Next]_vars
        /\ WF_vars(Dial) /\ WF_vars(Take) /\ WF_vars(SendRest) /\ WF_vars(Receive)
        /\ WF_vars(RelayReads) /\ WF_vars(ClaimSend) /\ WF_vars(UdpNode)
        /\ WF_vars(Begin) /\ WF_vars(BudgetSpent) /\ WF_vars(Fatal)

-----------------------------------------------------------------------------
\* A half's place in the order in which the program queued the frames.
Num(f, half) == 2 * f.id + half

(* The relay reads control messages in the order in which the program      *)
(* queued them, none of them twice, across redials: dt_tcp_thread puts a   *)
(* frame that it had taken and not begun back in front.  What was read     *)
(* comes before what is in the socket, then the frame in hand, then the    *)
(* queue.                                                                  *)
CtlOrdered ==
  /\ \A i \in DOMAIN out :
       /\ 2 * seen + 2 < Num(out[i][1], out[i][2])
       /\ \A j \in DOMAIN out : i < j => Num(out[i][1], out[i][2]) < Num(out[j][1], out[j][2])
       /\ cur # None => Num(out[i][1], out[i][2]) < Num(cur, 2)
       /\ \A j \in DOMAIN q : out[i][1].id < q[j].id
  /\ cur # None => seen < cur.id
  /\ \A i \in DOMAIN q :
       /\ seen < q[i].id /\ cur.id < q[i].id
       /\ \A j \in DOMAIN q : i < j => q[i].id < q[j].id

(* g_sq_bytes, which dt_tcp_queue compares with DT_CTLQ_DROP, counts the   *)
(* frames that are queued and the one being sent, whatever links were lost *)
(* in the middle of a frame.                                               *)
BytesCounted == bytes = Len(q) + (IF cur = None THEN 0 ELSE 1)

(* Neither end ever parses a frame from halves of two: a frame cut by the  *)
(* loss of a link is not continued on the next one, by the sender's offset *)
(* or by the receiver's rbuf.                                              *)
NoTornFrame == ~torn

(* dt_start does not let the game run before the relay has read the        *)
(* registration and its ASSIGN has come back, unless the wait is disabled. *)
LeaseFirst == main = "started" => NoWait \/ (have_assign /\ seen > 0)

(* A host claim reaches the relay in the end, also when the link is lost   *)
(* after dt_claim has sent it, as long as the process lives.               *)
ClaimStamped == claimed ~> (relay.host \/ ~Alive)
=============================================================================
