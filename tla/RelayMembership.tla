-------------------------- MODULE RelayMembership --------------------------
(***************************************************************************)
(* Membership of the virtual LAN at the relay (server.py): control links   *)
(* register a node id and get its virtual address, the address stays       *)
(* reserved while the node is dark, and every change of the visible        *)
(* membership is sent to every link as an ASSIGN.                          *)
(*                                                                         *)
(* A step is what one asyncio task does between two suspensions.  Sending  *)
(* an ASSIGN suspends only when the receiver's control queue is full       *)
(* (r_send): the payload was computed before, the queue is polled until it *)
(* has room, and the poll raises KeyError when the queue has been retired. *)
(* A queue is abstracted to the last ASSIGN put into it and to whether it  *)
(* is full.  A client that dials again is another member of Writers.       *)
(***************************************************************************)
EXTENDS RelayNodes, Integers, Sequences, FiniteSets, SequencesExt

CONSTANTS Writers,    \* control connections
          NodeOf,     \* the node id a connection registers
          Pool,       \* addresses of the subnet are 1 .. Pool
          Stallable   \* connections whose reader may stop reading

ASSUME WriterAssumption == IsFiniteSet(Writers) /\ NodeOf \in [Writers -> Nodes]
ASSUME NodeAssumption == IsFiniteSet(Nodes) /\ None \notin Nodes \union Writers
ASSUME PoolAssumption == Pool \in Nat
ASSUME StallAssumption == Stallable \subseteq Writers

VARIABLES conn,         \* the connection and its handler
          full,         \* its control queue is full
          view,         \* last ASSIGN put into its queue
          writer_node,
          virt, links,  \* the node table; virt 0: no entry
          order,        \* nodes with an entry, by seen_tcp, stalest first
          expired,      \* nodes not seen for NODE_TTL
          task, todo, held, \* a handler's sends: what, to whom, blocked on
          late          \* history: links whose last ASSIGN a wait made old or lost

table == <<writer_node, virt, links, order, expired>>
sending == <<full, view, task, todo, held, late>>
vars == <<conn, full, view, writer_node, virt, links, order, expired, task, todo, held,
          late>>

NoAssign == [virt |-> 0, members |-> {}]

Init ==
  /\ conn = [w \in Writers |-> "new"]
  /\ full = [w \in Writers |-> FALSE]
  /\ view = [w \in Writers |-> NoAssign]
  /\ writer_node = [w \in Writers |-> None]
  /\ virt = [n \in Nodes |-> 0]
  /\ links = [n \in Nodes |-> {}]
  /\ order = <<>>
  /\ expired = {}
  /\ task = [w \in Writers |-> "idle"]
  /\ todo = [w \in Writers |-> <<>>]
  /\ held = [w \in Writers |-> NoAssign]
  /\ late = {}

-----------------------------------------------------------------------------
\* is_closing() of a connection's writer
Closing(w) == conn[w] \in {"closing", "gone"}

\* all_links() and members(), for a node table being written
AllLinks(lk) == {w \in UNION {lk[n] : n \in Nodes} : ~Closing(w)}

Members(vt, lk) ==
  {<<n, vt[n]>> : n \in {m \in Nodes : vt[m] # 0 /\ \E w \in lk[m] : ~Closing(w)}}

\* The ASSIGN of writer w.
Assign(w, wn, vt, lk) ==
  [virt |-> IF wn[w] = None THEN 0 ELSE vt[wn[w]], members |-> Members(vt, lk)]

Touch(n) == Append(SelectSeq(order, LAMBDA m : m # n), n)

(* A run of send_assign calls by the handler of t, to the writers of the   *)
(* sequence s that are live and registered when they are reached: it goes  *)
(* on until a queue is full, holding the payload it computed for that one. *)
(* base, old: the views and the late links the step starts from.           *)
SendRun(t, kind, s, base, old, wn, vt, lk) ==
  LET due == {i \in DOMAIN s : ~Closing(s[i]) /\ wn[s[i]] # None}
      stop == {i \in due : full[s[i]]}
      sent == {s[i] : i \in {k \in due : \A j \in stop : k < j}}
  IN
  /\ view' = [w \in Writers |-> IF w \in sent THEN Assign(w, wn, vt, lk) ELSE base[w]]
  /\ late' = old \ sent
  /\ \/ /\ stop = {}
        /\ task' = [task EXCEPT ![t] = "idle"]
        /\ todo' = [todo EXCEPT ![t] = <<>>]
        /\ held' = [held EXCEPT ![t] = NoAssign]
     \/ \E i \in stop :
          /\ \A j \in stop : i <= j
          /\ task' = [task EXCEPT ![t] = kind]
          /\ todo' = [todo EXCEPT ![t] = SubSeq(s, i, Len(s))]
          /\ held' = [held EXCEPT ![t] = Assign(s[i], wn, vt, lk)]

-----------------------------------------------------------------------------
(* prune_nodes: closing links are detached from every node, and a node     *)
(* left without links and unseen for NODE_TTL is forgotten.                *)
PrunedLinks == [n \in Nodes |-> {w \in links[n] : ~Closing(w)}]

\* Mutant: a pruned link keeps its attribution.
PrunedWritersKept == writer_node

PrunedWriters == [w \in Writers |-> IF Closing(w) /\ \E n \in Nodes : w \in links[n]
                                    THEN None ELSE writer_node[w]]
PrunedVirt == [n \in Nodes |-> IF PrunedLinks[n] = {} /\ n \in expired THEN 0 ELSE virt[n]]

\* Mutant: dark nodes reserve nothing.
FreeVirtsLive == (1 .. Pool) \ {PrunedVirt[n] : n \in {m \in Nodes : PrunedLinks[m] # {}}}

\* The address of a new node: the lowest free one.
FreeVirts == (1 .. Pool) \ {PrunedVirt[n] : n \in Nodes}
Lowest(v) == v \in FreeVirts /\ \A u \in FreeVirts : v <= u

\* Mutant: any node may lose its address, linked or not.
EvictableAny == {n \in Nodes : PrunedVirt[n] # 0}

\* Nodes without a link; the stalest loses its address when none is free.
Evictable == {n \in Nodes : PrunedVirt[n] # 0 /\ PrunedLinks[n] = {}}
LastSeen(n) == CHOOSE i \in DOMAIN order : order[i] = n
Stalest(n) == n \in Evictable /\ \A m \in Evictable : LastSeen(n) <= LastSeen(m)

\* What register_node does once the node has an entry.
Registered(w, vt, lk, wn) ==
  LET n == NodeOf[w]
      lk2 == [lk EXCEPT ![n] = @ \union {w}]
      wn2 == [wn EXCEPT ![w] = n]
  IN
  /\ conn' = [conn EXCEPT ![w] = "up"]
  /\ virt' = vt
  /\ links' = lk2
  /\ writer_node' = wn2
  /\ order' = SelectSeq(Touch(n), LAMBDA m : vt[m] # 0)
  /\ expired' = {m \in expired : m # n /\ vt[m] # 0}
  /\ SendRun(w, "reg", <<w>> \o SetToSeq(AllLinks(lk2) \ {w}), view, late, wn2, vt, lk2)
  /\ UNCHANGED full

\* The handler of w reads a T_NODE: a known node ...
RegisterKnown(w) ==
  /\ conn[w] \in {"new", "up"} /\ task[w] = "idle"
  /\ virt[NodeOf[w]] # 0
  /\ Registered(w, virt, links, writer_node)

\* ... a new node while addresses are free ...
RegisterNew(w) ==
  /\ conn[w] \in {"new", "up"} /\ task[w] = "idle"
  /\ virt[NodeOf[w]] = 0
  /\ \E v \in 1 .. Pool :
       /\ Lowest(v)
       /\ Registered(w, [PrunedVirt EXCEPT ![NodeOf[w]] = v], PrunedLinks, PrunedWriters)

\* ... or in place of the stalest dark node.
RegisterEvict(w) ==
  /\ conn[w] \in {"new", "up"} /\ task[w] = "idle"
  /\ virt[NodeOf[w]] = 0
  /\ FreeVirts = {}
  /\ \E n \in Nodes :
       /\ Stalest(n)
       /\ Registered(w, [PrunedVirt EXCEPT ![NodeOf[w]] = PrunedVirt[n], ![n] = 0],
                     PrunedLinks, PrunedWriters)

\* "subnet full": the handler returns and its finally finds no node.
RegisterRejected(w) ==
  /\ conn[w] \in {"new", "up"} /\ task[w] = "idle"
  /\ virt[NodeOf[w]] = 0
  /\ FreeVirts = {} /\ Evictable = {}
  /\ conn' = [conn EXCEPT ![w] = "gone"]
  /\ virt' = PrunedVirt
  /\ links' = PrunedLinks
  /\ writer_node' = [PrunedWriters EXCEPT ![w] = None]
  /\ order' = SelectSeq(order, LAMBDA m : PrunedVirt[m] # 0)
  /\ expired' = {m \in expired : PrunedVirt[m] # 0}
  /\ full' = [full EXCEPT ![w] = FALSE]
  /\ UNCHANGED <<view, task, todo, held, late>>

-----------------------------------------------------------------------------
\* The peer is gone, or its network: the transport is closing.
Lose(w) ==
  /\ conn[w] \in {"new", "up"}
  /\ conn' = [conn EXCEPT ![w] = "closing"]
  /\ full' = [full EXCEPT ![w] = FALSE]
  /\ UNCHANGED <<table, view, task, todo, held, late>>

(* The finally block of handle_peer.  The node is looked up by writer, so  *)
(* a link that a registration pruned meanwhile is not seen here.           *)
Finally(w) ==
  LET n == writer_node[w]
      lk == [m \in Nodes |-> IF m = n THEN links[m] \ {w} ELSE links[m]]
      dark == n # None /\ \A x \in lk[n] : Closing(x)
  IN
  /\ conn' = [conn EXCEPT ![w] = "gone"]
  /\ full' = [full EXCEPT ![w] = FALSE]
  /\ writer_node' = [writer_node EXCEPT ![w] = None]
  /\ links' = lk
  /\ order' = IF n = None THEN order ELSE Touch(n)
  /\ expired' = expired \ {n}
  /\ task' = [task EXCEPT ![w] = IF dark THEN "news" ELSE "idle"]
  /\ todo' = [todo EXCEPT ![w] = <<>>]
  /\ held' = [held EXCEPT ![w] = NoAssign]
  /\ late' = (late \union Range(todo[w])) \ {w}
  /\ view' = [view EXCEPT ![w] = NoAssign]
  /\ UNCHANGED virt

\* The handler's read fails on the closed connection.
Finish(w) ==
  /\ conn[w] = "closing" /\ task[w] = "idle"
  /\ Finally(w)

\* Mutant: only the links of the departed node hear the news.
BroadcastOwn(w) ==
  /\ task[w] = "news"
  /\ SendRun(w, "bcast", SetToSeq({x \in AllLinks(links) : NodeOf[x] = NodeOf[w]}), view, late,
             writer_node, virt, links)
  /\ UNCHANGED <<conn, table, full>>

\* broadcast_assign, the task the last link of a node leaves behind.
Broadcast(w) ==
  /\ task[w] = "news"
  /\ SendRun(w, "bcast", SetToSeq(AllLinks(links)), view, late, writer_node, virt, links)
  /\ UNCHANGED <<conn, table, full>>

\* The queue has room again: the payload computed back then goes in.
Resume(t) ==
  /\ task[t] \in {"reg", "bcast"}
  /\ LET h == Head(todo[t])
     IN
       /\ ~Closing(h) /\ ~full[h]
       /\ SendRun(t, task[t], Tail(todo[t]), [view EXCEPT ![h] = held[t]], late \union {h},
                  writer_node, virt, links)
  /\ UNCHANGED <<conn, table, full>>

\* The receiver ended and its queue was retired: KeyError in r_send.  It
\* ends the broadcast, or the handler that was registering.
ResumeKeyError(t) ==
  /\ task[t] \in {"reg", "bcast"}
  /\ Closing(Head(todo[t]))
  /\ \/ /\ task[t] = "reg"
        /\ Finally(t)
     \/ /\ task[t] = "bcast"
        /\ task' = [task EXCEPT ![t] = "idle"]
        /\ todo' = [todo EXCEPT ![t] = <<>>]
        /\ held' = [held EXCEPT ![t] = NoAssign]
        /\ late' = late \union Range(todo[t])
        /\ UNCHANGED <<conn, table, full, view>>

\* NODE_TTL passes without a T_NODE; live links repeat theirs in time.
Age(n) ==
  /\ virt[n] # 0 /\ n \notin expired
  /\ \A w \in links[n] : Closing(w)
  /\ expired' = expired \union {n}
  /\ UNCHANGED <<conn, sending, writer_node, virt, links, order>>

\* A reader stops reading until its control queue is full, or drains it.
Stall(w) ==
  /\ w \in Stallable /\ conn[w] = "up" /\ ~full[w]
  /\ full' = [full EXCEPT ![w] = TRUE]
  /\ UNCHANGED <<conn, table, view, task, todo, held, late>>

Unstall(w) ==
  /\ full[w]
  /\ full' = [full EXCEPT ![w] = FALSE]
  /\ UNCHANGED <<conn, table, view, task, todo, held, late>>

Register(w) == RegisterKnown(w) \/ RegisterNew(w) \/ RegisterEvict(w) \/ RegisterRejected(w)

Next ==
  \/ \E w \in Writers :
       \/ Register(w) \/ Lose(w) \/ Finish(w) \/ Broadcast(w) \/ Resume(w)
       \/ ResumeKeyError(w) \/ Stall(w) \/ Unstall(w)
  \/ \E n \in Nodes : Age(n)

Spec == Init /\ [][Next]_vars

-----------------------------------------------------------------------------
(* Two nodes never hold the same virtual address, dark ones included: a    *)
(* prune, an eviction or a re-registration never hands out a reserved one. *)
UniqueVirt ==
  \A m, n \in Nodes : virt[m] # 0 /\ virt[m] = virt[n] => m = n

(* A link that is up is attributed to its node, and only to it: what the   *)
(* relay receives on it is never credited to a forgotten or another node.  *)
Attributed ==
  \A w \in Writers, n \in Nodes :
    /\ w \in links[n] => NodeOf[w] = n /\ virt[n] # 0
    /\ writer_node[w] = n => w \in links[n]
    /\ conn[w] = "up" => writer_node[w] = NodeOf[w]

(* A node with a link that is up keeps its address: registrations of other *)
(* nodes never prune or evict it.                                          *)
VirtStable ==
  [][\A n \in Nodes : (\E w \in links[n] : conn[w] = "up") => virt'[n] = virt[n]]_vars

\* No handler, broadcast or unnoticed disconnect is pending.
Quiet == \A w \in Writers : task[w] = "idle" /\ conn[w] # "closing"

(* "Peers stop seeing it the moment its last link closes": when nothing is *)
(* pending, the last ASSIGN of every link is the current membership.  The  *)
(* only exceptions are a link that was sent a payload computed before a    *)
(* wait for its full queue, and the links a broadcast never reached        *)
(* because a queue it waited for was retired (r_send raises), both until   *)
(* their next ASSIGN.                                                      *)
ViewExact ==
  Quiet => \A w \in Writers \ late :
             conn[w] = "up" => view[w] = Assign(w, writer_node, virt, links)
=============================================================================
