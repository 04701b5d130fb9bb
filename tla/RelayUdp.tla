------------------------------ MODULE RelayUdp ------------------------------
(***************************************************************************)
(* Datagram routing in the relay: the endpoints of the links (NODE, U_NODE *)
(* and record_udp_proof), and handle_udp_payload for what a player sends   *)
(* to the LAN (C2S) or to one node (P2P) and for what a host answers (S2C).*)
(*                                                                         *)
(* The handlers never wait (r_send drops a datagram where it would), so    *)
(* each is one step.  An endpoint is a UDP address, or <<l>> for link l in *)
(* UDP-over-TCP mode.  Times are ages: an age of one has passed LEARN_TTL, *)
(* an age of Old KNOWN_TTL and FLOW_TTL too.  All links of a node have the *)
(* address of its machine, so U_NODE picks among all of them.  A process   *)
(* may have several links (it redials before the relay reaped the old one),*)
(* and a link that registers again after it was lost is a redial to which  *)
(* Python gave the id of the old writer.  The port filter of the relay and *)
(* the clearing of tables of more than 2048 entries are left out.          *)
(***************************************************************************)
EXTENDS Naturals, FiniteSets

CONSTANTS Links,     \* control connections
          Procs,     \* processes of the players
          ProcOf,    \* the process of a link
          NodeOf,    \* the node of a process
          Ext,       \* the address a process's datagrams come from
          Decl,      \* the address it declares: another one behind some NATs
          Tunnels,   \* processes in UDP-over-TCP mode
          Trips,     \* (game port, client address, client port) on the wire
          PortOf,    \* the game port of a triple
          TripsOf,   \* the triples a process sends as a client
          MaxSent,   \* game datagrams in a run
          MaxEvents, \* links lost and minutes passed in a run
          Old,       \* the age at which known endpoints and flows are past use
          None       \* no address, no flow, no link

Addrs == {Ext[p] : p \in Procs} \cup {Decl[p] : p \in Procs}
Nodes == {NodeOf[p] : p \in Procs}
Endpoints == Addrs \cup {<<l>> : l \in Links}
Dests == Endpoints \cup Nodes
Ports == {PortOf[t] : t \in Trips}

ASSUME TopologyAssumption ==
  /\ ProcOf \in [Links -> Procs] /\ DOMAIN NodeOf = Procs
  /\ DOMAIN Ext = Procs /\ DOMAIN Decl = Procs
  /\ Tunnels \subseteq Procs
  /\ None \notin Dests \cup Links
\* A UDP address, a link's endpoint and a node id are told apart by their tags,
\* and the datagrams of two processes come from two addresses.
ASSUME KindAssumption ==
  /\ \A l \in Links : <<l>> \notin Addrs \cup Nodes
  /\ Addrs \cap Nodes = {}
  /\ \A p, q \in Procs : Ext[p] = Ext[q] => p = q
ASSUME AgeAssumption == Old \in Nat \ {0}
ASSUME TripAssumption == DOMAIN PortOf = Trips /\ TripsOf \in [Procs -> SUBSET Trips]

VARIABLES links,     \* ent["links"]: registered, port declared, udp_addr, its age, mode
          known,     \* known_udp, as ages
          flows,     \* udp_flows: the player a reply goes to
          learned,   \* the host that answered a player on a port
          got,       \* processes, and a triple that each was sent
          asked,     \* history: the nodes addressed with a triple, and by whom
          left       \* game datagrams and events yet to come

udpVars == <<links, known, flows, learned, got, asked, left>>

Gone == [on |-> FALSE, port |-> FALSE, addr |-> None, age |-> Old, mode |-> FALSE]
NoEntry == [to |-> None, age |-> Old]

UdpInit ==
  /\ links = [l \in Links |-> Gone]
  /\ known = [e \in Endpoints |-> Old]
  /\ flows = [k \in Dests \X Trips |-> NoEntry]
  /\ learned = [k \in Endpoints \X Ports |-> NoEntry]
  /\ got = {}
  /\ asked = {}
  /\ left = [sent |-> MaxSent, events |-> MaxEvents]

-----------------------------------------------------------------------------
LinksOf(n) == {l \in Links : links[l].on /\ NodeOf[ProcOf[l]] = n}
Declared(l) == Decl[ProcOf[l]]
Oldest(S) == {l \in S : \A m \in S : links[m].age <= links[l].age}
Freshest(S) == {l \in S : \A m \in S : links[l].age <= links[m].age}

\* node_by_udp_addr: a link that has the address, or else one that declared it.
Owners(a) ==
  LET having == {l \in Links : links[l].on /\ links[l].addr = a}
      declaring == {l \in Links : links[l].on /\ links[l].port /\ Declared(l) = a}
  IN {NodeOf[ProcOf[l]] : l \in IF having # {} THEN Freshest(having) ELSE declaring}

\* node_udp_addrs: each endpoint of a node once.
NodeEndpoints(n) ==
  {IF links[l].mode THEN <<l>>
   ELSE IF links[l].addr # None /\ links[l].age < Old THEN links[l].addr
   ELSE IF links[l].port THEN Declared(l) ELSE None : l \in LinksOf(n)} \ {None}

-----------------------------------------------------------------------------
\* register_node, as far as it touches the endpoint of the link.
Node(l, withPort) ==
  LET r == IF links[l].on THEN links[l] ELSE [Gone EXCEPT !.on = TRUE]
      new == withPort /\ (~r.port \/ r.addr = None)
  IN
  /\ links' = [links EXCEPT ![l] =
                 IF new THEN [r EXCEPT !.port = TRUE, !.addr = Declared(l), !.age = 0] ELSE r]
  /\ known' = IF new THEN [known EXCEPT ![Declared(l)] = 0] ELSE known
  /\ UNCHANGED <<flows, learned, got, asked, left>>

\* UDP_MODE, which a hook queues behind its NODE.
Mode(l) ==
  /\ links[l].on /\ ProcOf[l] \in Tunnels
  /\ links' = [links EXCEPT ![l].mode = TRUE]
  /\ UNCHANGED <<known, flows, learned, got, asked, left>>

\* The control connection ends; what was learned of its endpoint stays.
Lost(l) ==
  /\ links[l].on
  /\ links' = [links EXCEPT ![l] = Gone]
  /\ left.events > 0 /\ left' = [left EXCEPT !.events = @ - 1]
  /\ UNCHANGED <<known, flows, learned, got, asked>>

\* Mutant: any link without an endpoint will do.
AttachableAnywhere(n, a) ==
  LET same == {l \in LinksOf(n) : links[l].port /\ Declared(l) = a}
      bare == {l \in Links : links[l].on /\ links[l].addr = None}
  IN IF same # {} THEN same ELSE IF bare # {} THEN bare ELSE Oldest(LinksOf(n))

\* The links that an endpoint of node n may be attached to by U_NODE.
Attachable(n, a) ==
  LET same == {l \in LinksOf(n) : links[l].port /\ Declared(l) = a}
      bare == {l \in LinksOf(n) : links[l].addr = None}
  IN IF same # {} THEN same ELSE IF bare # {} THEN bare ELSE Oldest(LinksOf(n))

UNode(p) ==
  /\ \E l \in Attachable(NodeOf[p], Ext[p]) :
       links' = [links EXCEPT ![l].addr = Ext[p], ![l].age = 0]
  /\ known' = [known EXCEPT ![Ext[p]] = 0]
  /\ UNCHANGED <<flows, learned, got, asked, left>>

\* A minute passes.
Older(age) == IF age = Old THEN Old ELSE age + 1
Tick ==
  /\ links' = [l \in Links |-> [links[l] EXCEPT !.age = Older(@)]]
  /\ known' = [e \in Endpoints |-> Older(known[e])]
  /\ flows' = [k \in DOMAIN flows |-> [flows[k] EXCEPT !.age = Older(@)]]
  /\ learned' = [k \in DOMAIN learned |-> [learned[k] EXCEPT !.age = Older(@)]]
  /\ left.events > 0 /\ left' = [left EXCEPT !.events = @ - 1]
  /\ UNCHANGED <<got, asked>>

-----------------------------------------------------------------------------
(* Where a datagram of process p comes from: the tunnel socket, or a link  *)
(* in UDP-over-TCP mode, which stands for its endpoint if it has one.      *)
Sources(p) ==
  IF p \in Tunnels
  THEN {IF links[l].addr = None THEN <<l>> ELSE links[l].addr :
          l \in {m \in Links : ProcOf[m] = p /\ links[m].mode}}
  ELSE {Ext[p]}

\* record_udp_proof: a live endpoint that a link has declared is attached.
Proof(a) ==
  \E n \in Owners(a) \cup {None} :
    /\ (n = None) = (Owners(a) = {})
    /\ IF n = None \/ (\E l \in LinksOf(n) : links[l].addr = a) THEN UNCHANGED links
       ELSE LET bare == {l \in LinksOf(n) : links[l].addr = None} IN
            \E l \in IF bare # {} THEN bare ELSE Oldest(LinksOf(n)) :
              links' = [links EXCEPT ![l].addr = a, ![l].age = 0]

ProofKnown(a) == known' = IF Owners(a) # {} THEN [known EXCEPT ![a] = 0] ELSE known

(* udp_sendto: the processes that a datagram to this endpoint may arrive   *)
(* at, by one of the links that bear the address or by UDP.                *)
Reached(e) ==
  LET bearers == {l \in Links : links[l].on /\ links[l].addr = e}
      byLink == {l \in Links : links[l].on /\ links[l].mode /\ (e = <<l>> \/ l \in bearers)}
      byUdp == bearers = {} \/ \E l \in bearers : ~links[l].mode
  IN {ProcOf[l] : l \in byLink} \cup {p \in Procs : byUdp /\ Ext[p] = e}

\* The nodes an endpoint belongs to: more than one when the address that one
\* process declares is the address of another.
Machines(e) == {NodeOf[p] : p \in {q \in Procs : \/ e \in {Ext[q], Decl[q]}
                                               \/ \E l \in Links : ProcOf[l] = q /\ e = <<l>>}}

OneSent == left.sent > 0 /\ left' = [left EXCEPT !.sent = @ - 1]
Arrived(t, to) ==
  got' = got \cup {<<q, t>> : q \in {x \in Procs : \E e \in to : x \in Reached(e) \/ Decl[x] = e}}
Asked(ns, t, a) == asked' = asked \cup {<<n, t, a>> : n \in ns}

\* Mutant: a flow is the triple alone.
FlowOfTriple(d, t) == <<CHOOSE x \in Nodes : TRUE, t>>

\* The key of a flow: its destination, an endpoint or a node, and the triple.
Flow(d, t) == <<d, t>>

Tunnelled == {<<l>> : l \in {m \in Links : links[m].on /\ links[m].mode}}

FanOut(a) == ({e \in Endpoints : known[e] < Old} \ {a}) \cup (Tunnelled \ {a})

\* udp_targets: the host that answered lately, or everyone else.
Sticky(a, port) == LET e == learned[<<a, port>>] IN e.age = 0 /\ e.to \notin {a, None}
Targets(a, port) == IF Sticky(a, port) THEN {learned[<<a, port>>].to} ELSE FanOut(a)

C2S(p, t) ==
  \E a \in Sources(p) :
    /\ OneSent
    /\ t \in TripsOf[p]
    /\ Proof(a)
    /\ known' = [known EXCEPT ![a] = 0]
    /\ LET to == Targets(a, PortOf[t]) IN
       /\ flows' = [k \in DOMAIN flows |-> IF \E d \in to : k = Flow(d, t)
                                           THEN [to |-> a, age |-> 0] ELSE flows[k]]
       /\ learned' = IF Sticky(a, PortOf[t]) THEN learned
                     ELSE [learned EXCEPT ![<<a, PortOf[t]>>] = NoEntry]
       /\ Arrived(t, to)
       /\ Asked(UNION {Machines(e) : e \in to}, t, a)

P2P(p, n, t) ==
  \E a \in Sources(p) :
    /\ OneSent
    /\ t \in TripsOf[p] /\ n # NodeOf[p]
    /\ LET to == NodeEndpoints(n) \ {a} IN
       /\ to # {}
       /\ flows' = [flows EXCEPT ![Flow(n, t)] = [to |-> a, age |-> 0]]
       /\ Arrived(t, to)
       /\ Asked({n}, t, a)
    /\ known' = [known EXCEPT ![a] = 0]
    /\ UNCHANGED <<links, learned>>

\* The node has no endpoint: the sender's is attached, and the datagram dropped.
P2PDropped(p, n) ==
  \E a \in Sources(p) :
    /\ n # NodeOf[p] /\ NodeEndpoints(n) \ {a} = {}
    /\ Proof(a) /\ ProofKnown(a)
    /\ UNCHANGED <<flows, learned, got, asked, left>>

(* The flow a reply is routed by: of this endpoint, of its node, or the    *)
(* freshest of the same triple.                                            *)
Routes(a, t) ==
  LET at == IF flows[Flow(a, t)].to # None THEN {Flow(a, t)} ELSE {}
      by == {Flow(n, t) : n \in {m \in Owners(a) : flows[Flow(m, t)].to # None}}
      live == {d \in Dests : flows[<<d, t>>].age < Old}
  IN IF at # {} THEN at \X {"addr"} ELSE IF by # {} THEN by \X {"node"}
     ELSE {<<d, t>> : d \in {x \in live : \A y \in live : flows[<<x, t>>].age <= flows[<<y, t>>].age}}
            \X {"scan"}

(* A process answers a triple that it was sent; the poller of its hook     *)
(* answers from the tunnel socket in every mode.                           *)
Answers(p) == Sources(p) \cup {Ext[p]}

S2C(p, t) ==
  \E a \in Answers(p) :
    /\ OneSent
    /\ <<p, t>> \in got
    /\ Proof(a) /\ ProofKnown(a)
    /\ \E r \in Routes(a, t) :
         LET f == flows[r[1]] IN
         /\ f.age < Old /\ f.to # a
         /\ flows' = [flows EXCEPT ![r[1]].age = 0]
         /\ learned' = [learned EXCEPT ![<<f.to, PortOf[t]>>] = [to |-> a, age |-> 0]]
    /\ UNCHANGED <<got, asked>>

\* The route is a flow past its time, or leads back: the answer is dropped.
S2CDropped(p, t) ==
  \E a \in Answers(p) :
    /\ <<p, t>> \in got
    /\ Proof(a) /\ ProofKnown(a)
    /\ \A r \in Routes(a, t) : flows[r[1]].age = Old \/ flows[r[1]].to = a
    /\ UNCHANGED <<flows, learned, got, asked, left>>

UdpNext ==
  \/ \E l \in Links : (\E b \in BOOLEAN : Node(l, b)) \/ Mode(l) \/ Lost(l)
  \/ \E p \in Procs : UNode(p) \/ (\E t \in Trips : C2S(p, t) \/ S2C(p, t) \/ S2CDropped(p, t))
  \/ \E p \in Procs, n \in Nodes : P2PDropped(p, n) \/ (\E t \in Trips : P2P(p, n, t))
  \/ Tick

UdpSpec == UdpInit /\ [][UdpNext]_udpVars

-----------------------------------------------------------------------------
(* A datagram that is addressed to a node goes to processes of that node   *)
(* only, whichever of its links were lost, redialled or put into           *)
(* UDP-over-TCP mode and whatever U_NODE and record_udp_proof attached to  *)
(* them: a bare link of one machine never gets another's endpoint.  Two    *)
(* machines behind one NAT are the exception, when one declares (in NODE)  *)
(* the address that the other's datagrams come from.                       *)
OnlyAddressed ==
  \A n \in Nodes : \A e \in NodeEndpoints(n) : \A p \in Reached(e) :
    {n, NodeOf[p]} \subseteq Machines(e)

(* An answer that is routed by the flow of its endpoint or of its node     *)
(* goes to a player who addressed this triple to a node that has the       *)
(* endpoint, also when another player uses the same triple towards another *)
(* host, and wherever the endpoint has been attached since.  (The last     *)
(* resort of the handler, the freshest flow of the triple whatever its     *)
(* destination, can promise no such thing.)                                *)
ReplyToAsker ==
  \A a \in Endpoints, t \in Trips : \A r \in Routes(a, t) :
    r[2] # "scan" => \E n \in Machines(a) : <<n, t, flows[r[1]].to>> \in asked
=============================================================================
