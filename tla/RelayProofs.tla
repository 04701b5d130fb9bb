---------------------------- MODULE RelayProofs ----------------------------
(***************************************************************************)
(* Proofs about the tables of the relay, for any sets of connections and   *)
(* nodes.  Membership: an address belongs to one node, a link is credited  *)
(* to its own node only, a node keeps its address as long as one of its    *)
(* links is up, and every link is told the membership.  Streams: one       *)
(* joiner is granted a stream, bytes are piped between the two ends that   *)
(* agreed only, every open connection has somebody to close it, and the    *)
(* handshake implements connect().                                         *)
(***************************************************************************)
EXTENDS RelayMembership, RelayStream, FiniteSetTheorems, TLAPS

\* The types of the variables that the argument reads.
Types ==
  /\ conn \in [Writers -> {"new", "up", "closing", "gone"}]
  /\ writer_node \in [Writers -> Nodes \union {None}]
  /\ virt \in [Nodes -> 0 .. Pool]
  /\ links \in [Nodes -> SUBSET Writers]

\* The inductive invariant.
IInv == Types /\ UniqueVirt /\ Attributed

\* Nothing is registered at first.
LEMMA InitIInv == Init => IInv
<1> SUFFICES ASSUME Init PROVE IInv
  OBVIOUS
<1>1. Types
  BY PoolAssumption DEF Init, Types
<1>2. UniqueVirt
  BY DEF Init, UniqueVirt
<1>3. Attributed
  BY NodeAssumption DEF Init, Attributed
<1> QED BY <1>1, <1>2, <1>3 DEF IInv

-----------------------------------------------------------------------------
\* What prune_nodes leaves.
LEMMA PruneFacts ==
  ASSUME IInv
  PROVE  /\ PrunedLinks \in [Nodes -> SUBSET Writers]
         /\ PrunedWriters \in [Writers -> Nodes \union {None}]
         /\ PrunedVirt \in [Nodes -> 0 .. Pool]
         /\ \A n \in Nodes : PrunedVirt[n] \in {0, virt[n]}
         /\ \A n \in Nodes : PrunedLinks[n] # {} => PrunedVirt[n] = virt[n] /\ virt[n] # 0
         /\ \A n \in Nodes, w \in Writers : w \in PrunedLinks[n] => w \in links[n]
         /\ \A n \in Nodes, w \in Writers : PrunedWriters[w] = n => w \in PrunedLinks[n]
         /\ \A w \in Writers : conn[w] \in {"new", "up"} => PrunedWriters[w] = writer_node[w]
<1>1. /\ links \in [Nodes -> SUBSET Writers] /\ writer_node \in [Writers -> Nodes \union {None}]
      /\ virt \in [Nodes -> 0 .. Pool] /\ conn \in [Writers -> {"new", "up", "closing", "gone"}]
  BY DEF IInv, Types
<1>2. PrunedLinks \in [Nodes -> SUBSET Writers] /\ \A n \in Nodes : PrunedLinks[n] \subseteq links[n]
  BY <1>1 DEF PrunedLinks
<1>3. PrunedWriters \in [Writers -> Nodes \union {None}]
  BY <1>1 DEF PrunedWriters
<1>4. /\ PrunedVirt \in [Nodes -> 0 .. Pool]
      /\ \A n \in Nodes : PrunedVirt[n] \in {0, virt[n]}
      /\ \A n \in Nodes : PrunedLinks[n] # {} => PrunedVirt[n] = virt[n]
  BY <1>1, PoolAssumption DEF PrunedVirt
<1>5. \A n \in Nodes : PrunedLinks[n] # {} => virt[n] # 0
  BY <1>1, <1>2 DEF IInv, Attributed
<1>6. \A n \in Nodes, w \in Writers : PrunedWriters[w] = n => w \in PrunedLinks[n]
  <2> SUFFICES ASSUME NEW n \in Nodes, NEW w \in Writers, PrunedWriters[w] = n
               PROVE  w \in PrunedLinks[n]
    OBVIOUS
  <2>1. writer_node[w] = n /\ ~(Closing(w) /\ \E m \in Nodes : w \in links[m])
    BY NodeAssumption, <1>1 DEF PrunedWriters
  <2>2. w \in links[n]
    BY <2>1 DEF IInv, Attributed
  <2> QED BY <2>1, <2>2 DEF PrunedLinks
<1>7. \A w \in Writers : conn[w] \in {"new", "up"} => PrunedWriters[w] = writer_node[w]
  BY <1>1 DEF PrunedWriters, Closing
<1> QED BY <1>2, <1>3, <1>4, <1>5, <1>6, <1>7

\* A registration on a node table that is right.
LEMMA RegisteredFacts ==
  ASSUME IInv, NEW w \in Writers, conn[w] \in {"new", "up"},
         NEW vt \in [Nodes -> 0 .. Pool], NEW lk \in [Nodes -> SUBSET Writers],
         NEW wn \in [Writers -> Nodes \union {None}],
         \A m, n \in Nodes : vt[m] # 0 /\ vt[m] = vt[n] => m = n,
         vt[NodeOf[w]] # 0,
         \A n \in Nodes, x \in Writers : x \in lk[n] => x \in links[n] /\ vt[n] # 0,
         \A n \in Nodes, x \in Writers : wn[x] = n => x \in lk[n],
         \A x \in Writers : conn[x] = "up" => wn[x] = writer_node[x],
         Registered(w, vt, lk, wn)
  PROVE  IInv'
<1> DEFINE n == NodeOf[w]
           lk2 == [lk EXCEPT ![n] = @ \union {w}]
           wn2 == [wn EXCEPT ![w] = n]
<1>1. n \in Nodes /\ n # None
  BY WriterAssumption, NodeAssumption
<1>2. conn' = [conn EXCEPT ![w] = "up"] /\ virt' = vt /\ links' = lk2 /\ writer_node' = wn2
  BY DEF Registered
<1>3. Types'
  BY <1>1, <1>2 DEF IInv, Types
<1>4. UniqueVirt'
  BY <1>2 DEF UniqueVirt
<1>5. /\ \A m \in Nodes : links'[m] = (IF m = n THEN lk[n] \union {w} ELSE lk[m])
      /\ \A x \in Writers : writer_node'[x] = (IF x = w THEN n ELSE wn[x])
      /\ \A x \in Writers : conn'[x] = (IF x = w THEN "up" ELSE conn[x])
  BY <1>1, <1>2 DEF IInv, Types
<1>6. Attributed'
  <2> SUFFICES ASSUME NEW x \in Writers, NEW m \in Nodes
               PROVE  /\ x \in links'[m] => NodeOf[x] = m /\ virt'[m] # 0
                      /\ writer_node'[x] = m => x \in links'[m]
                      /\ conn'[x] = "up" => writer_node'[x] = NodeOf[x]
    BY DEF Attributed
  <2>1. CASE x = w
    <3>1. x \in lk[m] => NodeOf[x] = m /\ vt[m] # 0
      BY DEF IInv, Attributed
    <3> QED BY <1>1, <1>2, <1>5, <2>1, <3>1
  <2>2. CASE x # w
    <3>1. x \in lk[m] => NodeOf[x] = m /\ vt[m] # 0
      BY DEF IInv, Attributed
    <3>2. wn[x] = m => x \in lk[m]
      OBVIOUS
    <3>3. conn[x] = "up" => wn[x] = NodeOf[x]
      BY DEF IInv, Attributed
    <3> QED BY <1>1, <1>2, <1>5, <2>2, <3>1, <3>2, <3>3
  <2> QED BY <2>1, <2>2
<1> QED BY <1>3, <1>4, <1>6 DEF IInv

\* register_node of a node with an entry, of a new node, and in place of a dark one.
LEMMA RegisterStep ==
  ASSUME IInv, NEW w \in Writers, Register(w)
  PROVE  IInv'
<1> DEFINE n == NodeOf[w]
<1>1. n \in Nodes /\ n # None
  BY WriterAssumption, NodeAssumption
<1>2. Types /\ UniqueVirt /\ Attributed
  BY DEF IInv
<1>3. conn[w] \in {"new", "up"}
  BY DEF Register, RegisterKnown, RegisterNew, RegisterEvict, RegisterRejected
<1>4. CASE RegisterKnown(w)
  <2>1. Registered(w, virt, links, writer_node) /\ virt[n] # 0
    BY <1>4 DEF RegisterKnown
  <2>2. /\ virt \in [Nodes -> 0 .. Pool] /\ links \in [Nodes -> SUBSET Writers]
        /\ writer_node \in [Writers -> Nodes \union {None}]
    BY <1>2 DEF Types
  <2>3. /\ \A m, k \in Nodes : virt[m] # 0 /\ virt[m] = virt[k] => m = k
        /\ \A m \in Nodes, x \in Writers : x \in links[m] => x \in links[m] /\ virt[m] # 0
        /\ \A m \in Nodes, x \in Writers : writer_node[x] = m => x \in links[m]
    BY <1>2 DEF UniqueVirt, Attributed
  <2> QED BY <1>3, <2>1, <2>2, <2>3, RegisteredFacts
<1>5. ASSUME NEW vt \in [Nodes -> 0 .. Pool], vt[n] # 0,
             \A m, k \in Nodes : vt[m] # 0 /\ vt[m] = vt[k] => m = k,
             \A m \in Nodes : PrunedLinks[m] # {} => vt[m] = PrunedVirt[m],
             Registered(w, vt, PrunedLinks, PrunedWriters)
      PROVE  IInv'
  <2>1. \A m \in Nodes, x \in Writers : x \in PrunedLinks[m] => x \in links[m] /\ vt[m] # 0
    BY <1>5, PruneFacts
  <2>2. \A x \in Writers : conn[x] = "up" => PrunedWriters[x] = writer_node[x]
    BY PruneFacts
  <2>3. \A m \in Nodes, x \in Writers : PrunedWriters[x] = m => x \in PrunedLinks[m]
    BY PruneFacts
  <2>4. PrunedLinks \in [Nodes -> SUBSET Writers] /\ PrunedWriters \in [Writers -> Nodes \union {None}]
    BY PruneFacts
  <2> QED BY <1>3, <1>5, <2>1, <2>2, <2>3, <2>4, RegisteredFacts
<1>6. /\ PrunedVirt \in [Nodes -> 0 .. Pool]
      /\ \A m, k \in Nodes : PrunedVirt[m] # 0 /\ PrunedVirt[m] = PrunedVirt[k] => m = k
  <2>1. \A m \in Nodes : PrunedVirt[m] \in {0, virt[m]}
    BY PruneFacts
  <2> QED BY <1>2, <2>1, PruneFacts DEF UniqueVirt
<1>7. CASE RegisterNew(w)
  <2>1. PICK v \in 1 .. Pool :
          Lowest(v) /\ Registered(w, [PrunedVirt EXCEPT ![n] = v], PrunedLinks, PrunedWriters)
    BY <1>7 DEF RegisterNew
  <2> DEFINE vt == [PrunedVirt EXCEPT ![n] = v]
  <2>2. v # 0 /\ \A m \in Nodes : PrunedVirt[m] # v
    BY <2>1, PoolAssumption DEF Lowest, FreeVirts
  <2>3. \A m \in Nodes : vt[m] = (IF m = n THEN v ELSE PrunedVirt[m])
    BY <1>6
  <2>4. vt \in [Nodes -> 0 .. Pool]
    <3>1. v \in 0 .. Pool
      BY PoolAssumption
    <3> QED BY <1>6, <3>1
  <2>5. \A m, k \in Nodes : vt[m] # 0 /\ vt[m] = vt[k] => m = k
    BY <1>6, <2>2, <2>3
  <2>6. \A m \in Nodes : PrunedLinks[m] # {} => vt[m] = PrunedVirt[m]
    <3>1. virt[n] = 0
      BY <1>7 DEF RegisterNew
    <3>2. PrunedLinks[n] = {}
      BY <1>1, <3>1, PruneFacts
    <3> QED BY <2>3, <3>2
  <2> HIDE DEF vt
  <2> QED BY <1>1, <1>5, <2>1, <2>2, <2>3, <2>4, <2>5, <2>6 DEF vt
<1>8. CASE RegisterEvict(w)
  <2>1. PICK s \in Nodes :
          /\ Stalest(s)
          /\ Registered(w, [PrunedVirt EXCEPT ![n] = PrunedVirt[s], ![s] = 0], PrunedLinks, PrunedWriters)
    BY <1>8 DEF RegisterEvict
  <2> DEFINE vt == [PrunedVirt EXCEPT ![n] = PrunedVirt[s], ![s] = 0]
  <2>2. PrunedVirt[s] # 0 /\ PrunedLinks[s] = {}
    BY <2>1 DEF Stalest, Evictable
  <2>3. virt[n] = 0
    BY <1>8 DEF RegisterEvict
  <2>4. PrunedVirt[n] = 0 /\ PrunedLinks[n] = {} /\ n # s
    BY <1>1, <2>2, <2>3, PruneFacts
  <2>5. \A m \in Nodes : vt[m] = (IF m = s THEN 0 ELSE IF m = n THEN PrunedVirt[s] ELSE PrunedVirt[m])
    BY <1>1, <1>6, <2>4
  <2>6. vt \in [Nodes -> 0 .. Pool]
    BY <1>1, <1>6, PoolAssumption
  <2>7. \A m, k \in Nodes : vt[m] # 0 /\ vt[m] = vt[k] => m = k
    BY <1>6, <2>4, <2>5
  <2>8. \A m \in Nodes : PrunedLinks[m] # {} => vt[m] = PrunedVirt[m]
    BY <2>2, <2>4, <2>5
  <2> HIDE DEF vt
  <2> QED BY <1>1, <1>5, <2>1, <2>2, <2>4, <2>5, <2>6, <2>7, <2>8 DEF vt
<1>9. CASE RegisterRejected(w)
  <2>1. /\ virt[n] = 0 /\ conn' = [conn EXCEPT ![w] = "gone"] /\ virt' = PrunedVirt
        /\ links' = PrunedLinks /\ writer_node' = [PrunedWriters EXCEPT ![w] = None]
    BY <1>9 DEF RegisterRejected
  <2>2. Types'
    BY <1>2, <1>6, <2>1, PruneFacts DEF Types
  <2>3. UniqueVirt'
    BY <1>6, <2>1 DEF UniqueVirt
  <2>4. /\ PrunedWriters \in [Writers -> Nodes \union {None}]
        /\ conn \in [Writers -> {"new", "up", "closing", "gone"}]
    BY <1>2, PruneFacts DEF Types
  <2>5. \A x \in Writers : /\ writer_node'[x] = (IF x = w THEN None ELSE PrunedWriters[x])
                           /\ conn'[x] = (IF x = w THEN "gone" ELSE conn[x])
    BY <2>1, <2>4
  <2>6. Attributed'
    <3> SUFFICES ASSUME NEW x \in Writers, NEW m \in Nodes
                 PROVE  /\ x \in links'[m] => NodeOf[x] = m /\ virt'[m] # 0
                        /\ writer_node'[x] = m => x \in links'[m]
                        /\ conn'[x] = "up" => writer_node'[x] = NodeOf[x]
      BY DEF Attributed
    <3>1. x \in PrunedLinks[m] => NodeOf[x] = m /\ PrunedVirt[m] # 0
      BY <1>2, PruneFacts DEF Attributed
    <3>2. PrunedWriters[x] = m => x \in PrunedLinks[m]
      BY PruneFacts
    <3>3. conn[x] = "up" => PrunedWriters[x] = NodeOf[x]
      BY <1>2, PruneFacts DEF Attributed
    <3> QED BY <2>1, <2>5, <3>1, <3>2, <3>3, NodeAssumption
  <2> QED BY <2>2, <2>3, <2>6 DEF IInv
<1> QED BY <1>4, <1>7, <1>8, <1>9 DEF Register

\* The finally block of handle_peer.
LEMMA FinallyStep ==
  ASSUME IInv, NEW w \in Writers, Finally(w)
  PROVE  IInv'
<1> DEFINE n == writer_node[w]
<1>1. /\ conn' = [conn EXCEPT ![w] = "gone"] /\ writer_node' = [writer_node EXCEPT ![w] = None]
      /\ links' = [m \in Nodes |-> IF m = n THEN links[m] \ {w} ELSE links[m]]
      /\ virt' = virt
  BY DEF Finally
<1>2. Types /\ UniqueVirt /\ Attributed
  BY DEF IInv
<1>3. Types'
  BY <1>1, <1>2 DEF Types
<1>4. UniqueVirt'
  BY <1>1, <1>2 DEF UniqueVirt
<1>5. /\ \A x \in Writers : writer_node'[x] = (IF x = w THEN None ELSE writer_node[x])
      /\ \A x \in Writers : conn'[x] = (IF x = w THEN "gone" ELSE conn[x])
      /\ \A m \in Nodes : links'[m] \subseteq links[m] /\ links[m] \subseteq links'[m] \union {w}
  BY <1>1, <1>2 DEF Types
<1>6. Attributed'
  <2> SUFFICES ASSUME NEW x \in Writers, NEW m \in Nodes
               PROVE  /\ x \in links'[m] => NodeOf[x] = m /\ virt'[m] # 0
                      /\ writer_node'[x] = m => x \in links'[m]
                      /\ conn'[x] = "up" => writer_node'[x] = NodeOf[x]
    BY DEF Attributed
  <2>1. x \in links'[m] => NodeOf[x] = m /\ virt'[m] # 0
    BY <1>1, <1>2, <1>5 DEF Attributed
  <2>2. writer_node'[x] = m => x \in links'[m]
    <3> SUFFICES ASSUME writer_node'[x] = m PROVE x \in links'[m]
      OBVIOUS
    <3>1. x # w /\ writer_node[x] = m
      BY <1>5, NodeAssumption
    <3>2. x \in links[m]
      BY <1>2, <3>1 DEF Attributed
    <3> QED BY <1>5, <3>1, <3>2
  <2>3. conn'[x] = "up" => writer_node'[x] = NodeOf[x]
    BY <1>2, <1>5 DEF Attributed
  <2> QED BY <2>1, <2>2, <2>3
<1> QED BY <1>3, <1>4, <1>6 DEF IInv

-----------------------------------------------------------------------------
\* Every step keeps the invariant.
LEMMA StepIInv == IInv /\ [Next]_vars => IInv'
<1> SUFFICES ASSUME IInv, [Next]_vars PROVE IInv'
  OBVIOUS
<1>1. ASSUME UNCHANGED <<conn, virt, links, writer_node>> PROVE IInv'
  BY <1>1 DEF IInv, Types, UniqueVirt, Attributed
<1>2. ASSUME NEW w \in Writers, Register(w) PROVE IInv'
  BY <1>2, RegisterStep
<1>3. ASSUME NEW w \in Writers, Lose(w) PROVE IInv'
  <2>1. conn' = [conn EXCEPT ![w] = "closing"] /\ UNCHANGED <<virt, links, writer_node>>
    BY <1>3 DEF Lose, table
  <2>2. Types'
    BY <2>1 DEF IInv, Types
  <2>3. \A x \in Writers : conn'[x] = "up" => conn[x] = "up"
    BY <2>1 DEF IInv, Types
  <2> QED BY <2>1, <2>2, <2>3 DEF IInv, UniqueVirt, Attributed
<1>4. ASSUME NEW w \in Writers, Finish(w) PROVE IInv'
  BY <1>4, FinallyStep DEF Finish
<1>5. ASSUME NEW w \in Writers, Broadcast(w) \/ Resume(w) \/ Stall(w) \/ Unstall(w) PROVE IInv'
  BY <1>1, <1>5 DEF Broadcast, Resume, Stall, Unstall, table
<1>6. ASSUME NEW w \in Writers, ResumeKeyError(w) PROVE IInv'
  BY <1>1, <1>6, FinallyStep DEF ResumeKeyError, table
<1>7. ASSUME NEW n \in Nodes, Age(n) PROVE IInv'
  BY <1>1, <1>7 DEF Age
<1>8. CASE UNCHANGED vars
  BY <1>1, <1>8 DEF vars
<1> QED BY <1>2, <1>3, <1>4, <1>5, <1>6, <1>7, <1>8 DEF Next

\* No step takes the address of a node with a link that is up.
LEMMA StepVirt ==
  ASSUME IInv, [Next]_vars
  PROVE  \A n \in Nodes : (\E w \in links[n] : conn[w] = "up") => virt'[n] = virt[n]
<1> SUFFICES ASSUME NEW n \in Nodes, NEW w \in links[n], conn[w] = "up" PROVE virt'[n] = virt[n]
  OBVIOUS
<1>1. w \in Writers /\ virt[n] # 0 /\ w \in PrunedLinks[n]
  BY DEF IInv, Types, Attributed, PrunedLinks, Closing
<1>2. PrunedLinks[n] # {} /\ PrunedVirt[n] = virt[n] /\ PrunedVirt \in [Nodes -> 0 .. Pool]
  BY <1>1, PruneFacts
<1>3. ASSUME NEW x \in Writers, RegisterKnown(x) \/ RegisterRejected(x) PROVE virt'[n] = virt[n]
  BY <1>2, <1>3 DEF RegisterKnown, RegisterRejected, Registered
<1>4. ASSUME NEW x \in Writers, RegisterNew(x) PROVE virt'[n] = virt[n]
  <2>1. NodeOf[x] # n
    BY <1>1, <1>4 DEF RegisterNew
  <2>2. PICK v \in 1 .. Pool : virt' = [PrunedVirt EXCEPT ![NodeOf[x]] = v]
    BY <1>4 DEF RegisterNew, Registered
  <2> QED BY <1>2, <2>1, <2>2
<1>5. ASSUME NEW x \in Writers, RegisterEvict(x) PROVE virt'[n] = virt[n]
  <2>1. NodeOf[x] # n
    BY <1>1, <1>5 DEF RegisterEvict
  <2>2. PICK s \in Nodes :
          /\ Stalest(s)
          /\ virt' = [PrunedVirt EXCEPT ![NodeOf[x]] = PrunedVirt[s], ![s] = 0]
    BY <1>5 DEF RegisterEvict, Registered
  <2>3. s # n
    BY <1>2, <2>2 DEF Stalest, Evictable
  <2> QED BY <1>2, <2>1, <2>2, <2>3
<1>6. ASSUME NEW x \in Writers, Register(x) PROVE virt'[n] = virt[n]
  BY <1>3, <1>4, <1>5, <1>6 DEF Register
<1>7. ASSUME NEW x \in Writers,
             \/ Lose(x) \/ Finish(x) \/ Broadcast(x) \/ Resume(x)
             \/ ResumeKeyError(x) \/ Stall(x) \/ Unstall(x)
      PROVE  virt'[n] = virt[n]
  BY <1>7 DEF Lose, Finish, Finally, Broadcast, Resume, ResumeKeyError, Stall, Unstall, table
<1>8. ASSUME NEW m \in Nodes, Age(m) PROVE virt'[n] = virt[n]
  BY <1>8 DEF Age
<1>9. CASE UNCHANGED vars
  BY <1>9 DEF vars
<1> QED BY <1>6, <1>7, <1>8, <1>9 DEF Next

\* The invariant holds throughout.
LEMMA Invariance == Spec => []IInv
  BY InitIInv, StepIInv, PTL DEF Spec

(* register_node never gives one virtual address to two nodes, dark ones   *)
(* included, whatever it prunes and evicts.                                *)
THEOREM AddressesDistinct == Spec => []UniqueVirt
<1>1. IInv => UniqueVirt
  BY DEF IInv
<1> QED BY Invariance, <1>1, PTL

(* writer_node and the links of the node table agree, also after a prune   *)
(* has detached links whose handlers have not ended.                       *)
THEOREM LinksAttributed == Spec => []Attributed
<1>1. IInv => Attributed
  BY DEF IInv
<1> QED BY Invariance, <1>1, PTL

(* register_node never prunes or evicts a node with a link that is up.     *)
THEOREM AddressKept == Spec => VirtStable
<1>1. IInv /\ [Next]_vars =>
        [\A n \in Nodes : (\E w \in links[n] : conn[w] = "up") => virt'[n] = virt[n]]_vars
  BY StepVirt
<1> QED BY Invariance, <1>1, PTL DEF Spec, VirtStable

-----------------------------------------------------------------------------
(* The ASSIGN publication.                                                 *)

\* SetToSeq lists a finite set.
LEMMA SetToSeqRange ==
  ASSUME NEW S, IsFiniteSet(S)
  PROVE  SetToSeq(S) \in Seq(S) /\ Range(SetToSeq(S)) = S
<1> DEFINE k == Cardinality(S)
           D == 1 .. k
<1>1. k \in Nat
  BY FS_CardinalityType
<1>2. PICK f \in Bijection(D, S) : TRUE
  BY FS_CardinalityType DEF ExistsBijection
<1>3. f \in [D -> S] /\ IsInjective(f)
  BY DEF Bijection, Injection, IsInjective
<1>4. SetToSeq(S) \in [D -> S] /\ IsInjective(SetToSeq(S))
  BY <1>3 DEF SetToSeq
<1>5. SetToSeq(S) \in Injection(D, S)
  BY <1>4 DEF Injection, IsInjective
<1>6. IsFiniteSet(D) /\ Cardinality(D) = k
  BY <1>1, FS_Interval
<1>7. SetToSeq(S) \in Surjection(D, S)
  BY <1>5, <1>6, FS_Injection
<1>8. SetToSeq(S) \in Seq(S)
  BY <1>1, <1>4
<1> QED BY <1>4, <1>7, <1>8 DEF Surjection, Range

\* The types of the sends under way.
SendTypes ==
  /\ task \in [Writers -> {"idle", "news", "reg", "bcast"}]
  /\ todo \in [Writers -> Seq(Writers)]
  /\ \A t \in Writers : task[t] \in {"reg", "bcast"} => todo[t] # <<>>
  /\ DOMAIN view = Writers

(* A link in the node table is attributed to the node; a connection that    *)
(* never registered, or whose handler has ended, to none.                  *)
LinksBack ==
  \A w \in Writers :
    /\ \A n \in Nodes : w \in links[n] => writer_node[w] = n
    /\ conn[w] \in {"new", "gone"} => writer_node[w] = None

\* The last ASSIGN of w is what it would be sent now.
Current(w) == view[w] = Assign(w, writer_node, virt, links)

\* A send_assign run under way has not reached w yet.
Owed(w) == \E t \in Writers : task[t] \in {"reg", "bcast"} /\ w \in Range(todo[t])

\* A broadcast_assign task is scheduled.
NewsPending == \E t \in Writers : task[t] = "news"

(* A handler has yet to notice that its link, of a node that is now dark,   *)
(* is lost.                                                                *)
DarkPending ==
  \E x \in Writers : /\ conn[x] = "closing" /\ writer_node[x] # None
                     /\ \A y \in links[writer_node[x]] : Closing(y)

(* What is never lost: a link whose last ASSIGN is out of date is known to  *)
(* be late, or somebody still has to tell it.                              *)
Accounted ==
  \A w \in Writers :
    conn[w] = "up" => Current(w) \/ w \in late \/ Owed(w) \/ NewsPending \/ DarkPending

\* The inductive invariant of the ASSIGN publication.
ViewIInv == IInv /\ SendTypes /\ LinksBack /\ Accounted

\* Nobody is to be told anything at first.
LEMMA InitViewIInv == Init => ViewIInv
<1> SUFFICES ASSUME Init PROVE ViewIInv
  OBVIOUS
<1>1. SendTypes
  BY DEF Init, SendTypes
<1>2. LinksBack
  BY DEF Init, LinksBack
<1>3. Accounted
  BY DEF Init, Accounted
<1> QED BY <1>1, <1>2, <1>3, InitIInv DEF ViewIInv

\* A run of sends reaches every live link of its list, or keeps it in todo.
LEMMA SendRunFacts ==
  ASSUME SendTypes, NEW t \in Writers, NEW kind \in {"reg", "bcast"}, NEW s \in Seq(Writers),
         NEW base, NEW old, NEW wn, NEW vt, NEW lk,
         SendRun(t, kind, s, base, old, wn, vt, lk)
  PROVE  /\ SendTypes'
         /\ \A x \in Writers :
              \/ view'[x] = Assign(x, wn, vt, lk)
              \/ view'[x] = base[x] /\ (x \in old => x \in late')
         /\ \A x \in Range(s) :
              ~Closing(x) /\ wn[x] # None =>
                \/ view'[x] = Assign(x, wn, vt, lk)
                \/ task'[t] = kind /\ x \in Range(todo'[t])
         /\ \A u \in Writers \ {t} : task'[u] = task[u] /\ todo'[u] = todo[u]
<1> DEFINE due == {i \in DOMAIN s : ~Closing(s[i]) /\ wn[s[i]] # None}
           stop == {i \in due : full[s[i]]}
           sent == {s[i] : i \in {k \in due : \A j \in stop : k < j}}
<1>1. /\ view' = [w \in Writers |-> IF w \in sent THEN Assign(w, wn, vt, lk) ELSE base[w]]
      /\ late' = old \ sent
  BY DEF SendRun
<1>2. \A x \in Writers : \/ view'[x] = Assign(x, wn, vt, lk)
                         \/ view'[x] = base[x] /\ (x \in old => x \in late')
  BY <1>1
<1>3. CASE /\ stop = {} /\ task' = [task EXCEPT ![t] = "idle"]
           /\ todo' = [todo EXCEPT ![t] = <<>>]
  <2>1. SendTypes'
    <3>1. task' \in [Writers -> {"idle", "news", "reg", "bcast"}] /\ todo' \in [Writers -> Seq(Writers)]
      BY <1>3 DEF SendTypes
    <3>2. \A u \in Writers : task'[u] \in {"reg", "bcast"} => todo'[u] # <<>>
      BY <1>3 DEF SendTypes
    <3> QED BY <1>1, <3>1, <3>2 DEF SendTypes
  <2>2. \A x \in Range(s) : ~Closing(x) /\ wn[x] # None => view'[x] = Assign(x, wn, vt, lk)
    <3> SUFFICES ASSUME NEW x \in Range(s), ~Closing(x) /\ wn[x] # None
                 PROVE  x \in sent /\ x \in Writers
      BY <1>1
    <3>1. PICK i \in DOMAIN s : s[i] = x
      BY DEF Range
    <3>2. i \in due
      BY <3>1
    <3> QED BY <1>3, <3>1, <3>2
  <2>3. \A u \in Writers \ {t} : task'[u] = task[u] /\ todo'[u] = todo[u]
    BY <1>3 DEF SendTypes
  <2> QED BY <1>2, <2>1, <2>2, <2>3
<1>4. ASSUME NEW i \in stop, \A j \in stop : i <= j,
             task' = [task EXCEPT ![t] = kind],
             todo' = [todo EXCEPT ![t] = SubSeq(s, i, Len(s))]
      PROVE  /\ SendTypes'
             /\ \A x \in Range(s) :
                  ~Closing(x) /\ wn[x] # None =>
                    \/ view'[x] = Assign(x, wn, vt, lk)
                    \/ task'[t] = kind /\ x \in Range(todo'[t])
             /\ \A u \in Writers \ {t} : task'[u] = task[u] /\ todo'[u] = todo[u]
  <2> DEFINE q == SubSeq(s, i, Len(s))
  <2>1. i \in 1 .. Len(s) /\ Len(s) \in Nat
    OBVIOUS
  <2>2. q \in Seq(Writers) /\ Len(q) = Len(s) - i + 1 /\ q # <<>>
    <3>1. \A k \in i .. Len(s) : s[k] \in Writers
      BY <2>1
    <3>2. q \in Seq(Writers)
      BY <2>1, <3>1
    <3>3. Len(q) = Len(s) - i + 1
      BY <2>1
    <3>4. Len(q) # 0
      BY <2>1, <3>3
    <3> HIDE DEF q
    <3> QED BY <3>2, <3>3, <3>4
  <2>3. \A k \in i .. Len(s) : s[k] \in Range(q)
    <3> SUFFICES ASSUME NEW k \in i .. Len(s) PROVE s[k] \in Range(q)
      OBVIOUS
    <3>1. k - i + 1 \in 1 .. Len(q) /\ q[k - i + 1] = s[k]
      BY <2>1, <2>2
    <3>2. k - i + 1 \in DOMAIN q
      BY <2>2, <3>1
    <3> HIDE DEF q
    <3> QED BY <3>1, <3>2 DEF Range
  <2> HIDE DEF q
  <2>4. task'[t] = kind /\ todo'[t] = q
    BY <1>4 DEF SendTypes, q
  <2>5. SendTypes'
    <3>1. task' \in [Writers -> {"idle", "news", "reg", "bcast"}] /\ todo' \in [Writers -> Seq(Writers)]
      BY <1>4, <2>2 DEF SendTypes, q
    <3>2. \A u \in Writers : task'[u] \in {"reg", "bcast"} => todo'[u] # <<>>
      BY <1>4, <2>2, <2>4 DEF SendTypes
    <3> QED BY <1>1, <3>1, <3>2 DEF SendTypes
  <2>6. \A x \in Range(s) :
          ~Closing(x) /\ wn[x] # None =>
            view'[x] = Assign(x, wn, vt, lk) \/ x \in Range(todo'[t])
    <3> SUFFICES ASSUME NEW x \in Range(s), ~Closing(x) /\ wn[x] # None
                 PROVE  view'[x] = Assign(x, wn, vt, lk) \/ x \in Range(q)
      BY <2>4
    <3>1. PICK k \in 1 .. Len(s) : s[k] = x
      BY DEF Range
    <3>2. CASE k >= i
      BY <2>1, <2>3, <3>1, <3>2
    <3>3. CASE k < i
      <4>1. \A j \in stop : j \in Int
        OBVIOUS
      <4>2. \A j \in stop : k < j
        BY <1>4, <2>1, <3>3, <4>1
      <4>3. k \in due
        BY <3>1
      <4>4. x \in sent
        BY <3>1, <4>2, <4>3
      <4>5. x \in Writers
        BY <3>1
      <4> QED BY <1>1, <4>4, <4>5
    <3> QED BY <2>1, <3>2, <3>3
  <2>7. \A u \in Writers \ {t} : task'[u] = task[u] /\ todo'[u] = todo[u]
    BY <1>4 DEF SendTypes
  <2> QED BY <2>4, <2>5, <2>6, <2>7
<1> QED BY <1>2, <1>3, <1>4 DEF SendRun

\* members() depends on which nodes have a live link, and their addresses.
LEMMA MembersKept ==
  ASSUME \A m \in Nodes :
           /\ (\E y \in links'[m] : conn'[y] \notin {"closing", "gone"})
                <=> (\E y \in links[m] : conn[y] \notin {"closing", "gone"})
           /\ (\E y \in links[m] : conn[y] \notin {"closing", "gone"}) => virt'[m] = virt[m]
  PROVE  Members(virt, links)' = Members(virt, links)
<1> DEFINE S == {m \in Nodes : virt[m] # 0 /\ \E y \in links[m] : ~Closing(y)}
           T == {m \in Nodes : virt'[m] # 0 /\ \E y \in links'[m] : ~(Closing(y)')}
<1>1. S = T /\ \A m \in S : virt'[m] = virt[m]
  BY DEF Closing
<1>2. {<<n, virt[n]>> : n \in S} = {<<n, virt'[n]>> : n \in T}
  BY <1>1
<1> QED BY <1>2 DEF Members

\* An ASSIGN that was current stays so while its contents do not change.
LEMMA CurrentKept ==
  ASSUME Members(virt, links)' = Members(virt, links), NEW w \in Writers,
         writer_node'[w] = writer_node[w], virt'[writer_node[w]] = virt[writer_node[w]],
         view'[w] = view[w], Current(w)
  PROVE  Current(w)'
BY DEF Current, Assign

\* A link that is up is listed by its node.
LEMMA UpFacts ==
  ASSUME ViewIInv, NEW w \in Writers, conn[w] = "up"
  PROVE  /\ writer_node[w] = NodeOf[w] /\ NodeOf[w] \in Nodes /\ writer_node[w] # None
         /\ w \in links[NodeOf[w]] /\ ~Closing(w) /\ w \in AllLinks(links)
<1>1. writer_node[w] = NodeOf[w] /\ NodeOf[w] \in Nodes /\ writer_node[w] # None
  BY WriterAssumption, NodeAssumption DEF ViewIInv, IInv, Attributed
<1>2. w \in links[NodeOf[w]]
  BY <1>1 DEF ViewIInv, IInv, Attributed
<1>3. ~Closing(w)
  BY DEF Closing
<1> QED BY <1>1, <1>2, <1>3 DEF AllLinks

\* all_links() returns finitely many links.
LEMMA AllLinksFinite ==
  ASSUME NEW lk \in [Nodes -> SUBSET Writers]
  PROVE  IsFiniteSet(AllLinks(lk)) /\ AllLinks(lk) \subseteq Writers
<1>1. AllLinks(lk) \subseteq Writers
  BY DEF AllLinks
<1> QED BY <1>1, FS_Subset, WriterAssumption

\* A sequence over S is one over every superset of S.
LEMMA SeqOfSuperset ==
  ASSUME NEW S, NEW T, S \subseteq T, NEW s \in Seq(S)
  PROVE  s \in Seq(T)
<1>1. Len(s) \in Nat /\ \A i \in 1 .. Len(s) : s[i] \in T
  OBVIOUS
<1>2. s = [i \in 1 .. Len(s) |-> s[i]]
  OBVIOUS
<1> QED BY <1>1, <1>2

\* A registration tells every live link.
LEMMA RegisteredView ==
  ASSUME ViewIInv, IInv', NEW w \in Writers, conn[w] \in {"new", "up"}, task[w] = "idle",
         NEW vt \in [Nodes -> 0 .. Pool], NEW lk \in [Nodes -> SUBSET Writers],
         NEW wn \in [Writers -> Nodes \union {None}],
         \A n \in Nodes, x \in Writers : x \in lk[n] => wn[x] = n,
         \A x \in Writers : wn[x] \in {writer_node[x], None},
         Registered(w, vt, lk, wn)
  PROVE  ViewIInv'
<1> DEFINE n == NodeOf[w]
           lk2 == [lk EXCEPT ![n] = @ \union {w}]
           wn2 == [wn EXCEPT ![w] = n]
           rest == SetToSeq(AllLinks(lk2) \ {w})
           s == <<w>> \o rest
<1>1. n \in Nodes /\ n # None
  BY WriterAssumption, NodeAssumption
<1>2. /\ conn' = [conn EXCEPT ![w] = "up"] /\ virt' = vt /\ links' = lk2 /\ writer_node' = wn2
      /\ SendRun(w, "reg", s, view, late, wn2, vt, lk2)
  BY DEF Registered
<1>3. /\ \A m \in Nodes : links'[m] = (IF m = n THEN lk[n] \union {w} ELSE lk[m])
      /\ \A x \in Writers : writer_node'[x] = (IF x = w THEN n ELSE wn[x])
      /\ \A x \in Writers : conn'[x] = (IF x = w THEN "up" ELSE conn[x])
  BY <1>1, <1>2 DEF ViewIInv, IInv, Types
<1>4. \A x \in Writers : Closing(x)' <=> Closing(x)
  BY <1>3 DEF Closing
<1>5. lk2 \in [Nodes -> SUBSET Writers]
  BY <1>1
<1>6. IsFiniteSet(AllLinks(lk2) \ {w}) /\ AllLinks(lk2) \subseteq Writers
  BY <1>5, AllLinksFinite, FS_Subset
<1>7. rest \in Seq(AllLinks(lk2) \ {w}) /\ Range(rest) = AllLinks(lk2) \ {w}
  BY <1>6, SetToSeqRange
<1>8. s \in Seq(Writers) /\ Range(s) = AllLinks(lk2) \union {w}
  <2> HIDE DEF rest
  <2>1. rest \in Seq(Writers)
    BY <1>6, <1>7, SeqOfSuperset
  <2>2. Len(s) = Len(rest) + 1 /\ s[1] = w /\ \A i \in 1 .. Len(rest) : s[i + 1] = rest[i]
    BY <2>1
  <2>3. \A i \in 1 .. Len(s) : i = 1 \/ (i - 1 \in 1 .. Len(rest) /\ s[i] = rest[i - 1])
    BY <2>1, <2>2
  <2>4. s \in Seq(Writers)
    BY <2>1
  <2> HIDE DEF s
  <2>5. Range(s) \subseteq {w} \union Range(rest)
    <3> SUFFICES ASSUME NEW i \in 1 .. Len(s) PROVE s[i] \in {w} \union Range(rest)
      BY <2>4 DEF Range
    <3>1. \A k \in 1 .. Len(rest) : rest[k] \in Range(rest)
      BY <2>1 DEF Range
    <3> QED BY <2>2, <2>3, <3>1
  <2>6. w \in Range(s)
    BY <2>1, <2>2, <2>4 DEF Range
  <2>7. Range(rest) \subseteq Range(s)
    <3> SUFFICES ASSUME NEW i \in 1 .. Len(rest) PROVE rest[i] \in Range(s)
      BY <2>1 DEF Range
    <3>1. i + 1 \in 1 .. Len(s) /\ s[i + 1] = rest[i]
      BY <2>1, <2>2
    <3> QED BY <2>4, <3>1 DEF Range
  <2>8. w \in Range(s) /\ Range(s) = {w} \union Range(rest)
    BY <2>5, <2>6, <2>7
  <2> QED BY <1>7, <2>4, <2>8
<1> HIDE DEF s, rest
<1>9. SendTypes
  BY DEF ViewIInv
<1>10. /\ SendTypes'
       /\ \A x \in Range(s) :
            ~Closing(x) /\ wn2[x] # None =>
              view'[x] = Assign(x, wn2, vt, lk2) \/ (task'[w] = "reg" /\ x \in Range(todo'[w]))
  <2> HIDE DEF wn2, lk2
  <2>1. SendRun(w, "reg", s, view, late, wn2, vt, lk2)
    BY <1>2
  <2> QED BY <1>8, <1>9, <2>1, SendRunFacts
<1>11. LinksBack'
  <2>1. \A x \in Writers, m \in Nodes : x \in links'[m] => writer_node'[x] = m
    <3> SUFFICES ASSUME NEW x \in Writers, NEW m \in Nodes, x \in links'[m]
                 PROVE  writer_node'[x] = m
      OBVIOUS
    <3>1. NodeOf[x] = m
      BY DEF IInv, Attributed
    <3> QED BY <1>3, <3>1
  <2>2. \A x \in Writers : conn'[x] \in {"new", "gone"} => writer_node'[x] = None
    BY <1>3 DEF ViewIInv, LinksBack
  <2> QED BY <2>1, <2>2 DEF LinksBack
<1>12. Accounted'
  <2> SUFFICES ASSUME NEW x \in Writers, conn'[x] = "up" PROVE Current(x)' \/ Owed(x)'
    BY DEF Accounted
  <2>1. writer_node'[x] = NodeOf[x] /\ NodeOf[x] \in Nodes /\ NodeOf[x] # None
    BY WriterAssumption, NodeAssumption DEF IInv, Attributed
  <2>2. x \in links'[NodeOf[x]]
    BY <2>1 DEF IInv, Attributed
  <2>3. ~Closing(x)
    BY <1>4 DEF Closing
  <2>4. x \in Range(s)
    BY <1>2, <1>8, <2>1, <2>2, <2>3 DEF AllLinks
  <2>5. \/ view'[x] = Assign(x, wn2, vt, lk2)
        \/ task'[w] = "reg" /\ x \in Range(todo'[w])
    BY <1>2, <1>10, <2>1, <2>3, <2>4
  <2>6. Assign(x, wn2, vt, lk2) = Assign(x, writer_node, virt, links)'
    <3> DEFINE S == {m \in Nodes : vt[m] # 0 /\ \E y \in lk2[m] : ~Closing(y)}
               T == {m \in Nodes : vt[m] # 0 /\ \E y \in lk2[m] : ~(Closing(y)')}
    <3>1. S = T
      BY <1>4, <1>5
    <3>2. Members(vt, lk2) = Members(virt, links)'
      BY <1>2, <3>1 DEF Members
    <3> QED BY <1>2, <3>2 DEF Assign
  <2> QED BY <2>5, <2>6 DEF Current, Owed
<1> QED BY <1>10, <1>11, <1>12 DEF ViewIInv

\* A refused one changes nothing visible: no dark node could be pruned.
LEMMA RejectedView ==
  ASSUME ViewIInv, IInv', NEW w \in Writers, RegisterRejected(w)
  PROVE  ViewIInv'
<1>1. /\ conn[w] \in {"new", "up"} /\ virt[NodeOf[w]] = 0 /\ FreeVirts = {} /\ Evictable = {}
      /\ conn' = [conn EXCEPT ![w] = "gone"] /\ virt' = PrunedVirt /\ links' = PrunedLinks
      /\ writer_node' = [PrunedWriters EXCEPT ![w] = None]
      /\ UNCHANGED <<view, task, todo, held, late>>
  BY DEF RegisterRejected
<1>2. Types /\ UniqueVirt /\ Attributed /\ SendTypes /\ LinksBack /\ Accounted
  BY DEF ViewIInv, IInv
<1>3. conn[w] = "new" /\ writer_node[w] = None /\ \A n \in Nodes : w \notin links[n]
  <2>1. NodeOf[w] \in Nodes
    BY WriterAssumption
  <2>2. conn[w] = "new"
    BY <1>1, <1>2, <2>1 DEF Attributed
  <2>3. writer_node[w] = None
    BY <1>2, <2>2 DEF LinksBack
  <2> QED BY <1>2, <2>2, <2>3, NodeAssumption DEF LinksBack
<1>4. /\ \A x \in Writers : conn'[x] = (IF x = w THEN "gone" ELSE conn[x])
      /\ \A x \in Writers :
           writer_node'[x] = (IF x = w \/ (Closing(x) /\ \E n \in Nodes : x \in links[n])
                              THEN None ELSE writer_node[x])
      /\ \A n \in Nodes : links'[n] = {x \in links[n] : ~Closing(x)}
      /\ \A n \in Nodes : virt'[n] = (IF PrunedLinks[n] = {} /\ n \in expired THEN 0 ELSE virt[n])
  BY <1>1, <1>2 DEF PrunedWriters, PrunedLinks, PrunedVirt, Types
<1>5. SendTypes'
  BY <1>1, <1>2 DEF SendTypes
<1>6. LinksBack'
  <2>1. \A x \in Writers, n \in Nodes : x \in links'[n] => writer_node'[x] = n
    BY <1>2, <1>3, <1>4 DEF LinksBack
  <2>2. \A x \in Writers : conn'[x] \in {"new", "gone"} => writer_node'[x] = None
    BY <1>2, <1>4 DEF LinksBack
  <2> QED BY <2>1, <2>2 DEF LinksBack
<1>7. ~DarkPending
  <2> SUFFICES ASSUME NEW x \in Writers, conn[x] = "closing", writer_node[x] # None,
                      \A y \in links[writer_node[x]] : Closing(y)
               PROVE  FALSE
    BY DEF DarkPending
  <2> DEFINE n == writer_node[x]
  <2>1. n \in Nodes /\ x \in links[n] /\ virt[n] # 0 /\ virt[n] \in 1 .. Pool
    BY <1>2, PoolAssumption DEF Types, Attributed
  <2>2. PrunedLinks[n] = {}
    BY <2>1 DEF PrunedLinks
  <2>3. PrunedVirt[n] = 0
    BY <1>1, <2>1, <2>2 DEF Evictable
  <2>4. \A m \in Nodes : PrunedVirt[m] # virt[n]
    BY <1>2, <2>1, <2>3 DEF PrunedVirt, UniqueVirt
  <2>5. virt[n] \in FreeVirts
    BY <2>1, <2>4 DEF FreeVirts
  <2> QED BY <1>1, <2>5
<1>8. Members(virt, links)' = Members(virt, links)
  <2>1. \A m \in Nodes : \A y \in links[m] : conn[y] \notin {"closing", "gone"} =>
          y \in links'[m] /\ conn'[y] \notin {"closing", "gone"} /\ virt'[m] = virt[m]
    BY <1>2, <1>3, <1>4 DEF Closing, PrunedLinks, Types
  <2>2. \A m \in Nodes : \A y \in links'[m] : y \in links[m] /\ conn[y] \notin {"closing", "gone"}
    BY <1>4 DEF Closing
  <2> QED BY <2>1, <2>2, MembersKept
<1>9. Accounted'
  <2> SUFFICES ASSUME NEW x \in Writers, conn'[x] = "up"
               PROVE  Current(x)' \/ (x \in late)' \/ Owed(x)' \/ NewsPending'
    BY DEF Accounted
  <2>1. conn[x] = "up" /\ x # w
    BY <1>4
  <2>2. /\ writer_node[x] = NodeOf[x] /\ NodeOf[x] \in Nodes /\ x \in links[NodeOf[x]]
        /\ ~Closing(x)
    BY <2>1, UpFacts
  <2>3. writer_node'[x] = writer_node[x] /\ virt'[writer_node[x]] = virt[writer_node[x]]
    BY <1>4, <2>1, <2>2 DEF PrunedLinks
  <2>4. Current(x) => Current(x)'
    BY <1>1, <1>8, <2>3, CurrentKept
  <2>5. (x \in late => x \in late') /\ (Owed(x) => Owed(x)') /\ (NewsPending => NewsPending')
    BY <1>1 DEF Owed, NewsPending
  <2> QED BY <1>2, <1>7, <2>1, <2>4, <2>5 DEF Accounted
<1> QED BY <1>5, <1>6, <1>9 DEF ViewIInv

\* register_node, in all its branches.
LEMMA RegisterView ==
  ASSUME ViewIInv, IInv', NEW w \in Writers, Register(w)
  PROVE  ViewIInv'
<1>1. Types /\ UniqueVirt /\ Attributed /\ LinksBack /\ IInv
  BY DEF ViewIInv, IInv
<1>2. /\ PrunedLinks \in [Nodes -> SUBSET Writers]
      /\ PrunedWriters \in [Writers -> Nodes \union {None}]
      /\ PrunedVirt \in [Nodes -> 0 .. Pool]
  BY <1>1, PruneFacts
<1>3. \A n \in Nodes, x \in Writers : x \in PrunedLinks[n] => PrunedWriters[x] = n
  BY <1>1 DEF PrunedLinks, PrunedWriters, LinksBack
<1>4. \A x \in Writers : PrunedWriters[x] \in {writer_node[x], None}
  BY DEF PrunedWriters
<1>5. NodeOf[w] \in Nodes
  BY WriterAssumption
<1>6. CASE RegisterKnown(w)
  <2>1. /\ conn[w] \in {"new", "up"} /\ task[w] = "idle"
        /\ Registered(w, virt, links, writer_node)
    BY <1>6 DEF RegisterKnown
  <2>2. /\ virt \in [Nodes -> 0 .. Pool] /\ links \in [Nodes -> SUBSET Writers]
        /\ writer_node \in [Writers -> Nodes \union {None}]
    BY <1>1 DEF Types
  <2>3. \A n \in Nodes, x \in Writers : x \in links[n] => writer_node[x] = n
    BY <1>1 DEF LinksBack
  <2>4. \A x \in Writers : writer_node[x] \in {writer_node[x], None}
    OBVIOUS
  <2> QED BY <2>1, <2>2, <2>3, <2>4, RegisteredView
<1>7. CASE RegisterNew(w)
  <2>1. PICK v \in 1 .. Pool :
          Registered(w, [PrunedVirt EXCEPT ![NodeOf[w]] = v], PrunedLinks, PrunedWriters)
    BY <1>7 DEF RegisterNew
  <2>2. conn[w] \in {"new", "up"} /\ task[w] = "idle"
    BY <1>7 DEF RegisterNew
  <2>3. PICK vt \in [Nodes -> 0 .. Pool] : vt = [PrunedVirt EXCEPT ![NodeOf[w]] = v]
    <3>1. v \in 0 .. Pool
      BY PoolAssumption
    <3>2. [PrunedVirt EXCEPT ![NodeOf[w]] = v] \in [Nodes -> 0 .. Pool]
      BY <1>2, <1>5, <3>1
    <3> QED BY <3>2
  <2>4. Registered(w, vt, PrunedLinks, PrunedWriters)
    BY <2>1, <2>3
  <2> QED BY <1>2, <1>3, <1>4, <2>2, <2>4, RegisteredView
<1>8. CASE RegisterEvict(w)
  <2>1. PICK n \in Nodes :
          Registered(w, [PrunedVirt EXCEPT ![NodeOf[w]] = PrunedVirt[n], ![n] = 0],
                     PrunedLinks, PrunedWriters)
    BY <1>8 DEF RegisterEvict
  <2>2. conn[w] \in {"new", "up"} /\ task[w] = "idle"
    BY <1>8 DEF RegisterEvict
  <2>3. PICK vt \in [Nodes -> 0 .. Pool] :
          vt = [PrunedVirt EXCEPT ![NodeOf[w]] = PrunedVirt[n], ![n] = 0]
    <3>1. [PrunedVirt EXCEPT ![NodeOf[w]] = PrunedVirt[n], ![n] = 0] \in [Nodes -> 0 .. Pool]
      BY <1>2, PoolAssumption
    <3> QED BY <3>1
  <2>4. Registered(w, vt, PrunedLinks, PrunedWriters)
    BY <2>1, <2>3
  <2> QED BY <1>2, <1>3, <1>4, <2>2, <2>4, RegisteredView
<1>9. CASE RegisterRejected(w)
  BY <1>9, RejectedView
<1> QED BY <1>6, <1>7, <1>8, <1>9 DEF Register

\* A lost connection leaves members() as it is, or its handler to notice.
LEMMA LoseView ==
  ASSUME ViewIInv, IInv', NEW w \in Writers, Lose(w)
  PROVE  ViewIInv'
<1>1. /\ conn[w] \in {"new", "up"} /\ conn' = [conn EXCEPT ![w] = "closing"]
      /\ UNCHANGED <<writer_node, virt, links, view, task, todo, late>>
  BY DEF Lose, table
<1>2. Types /\ UniqueVirt /\ Attributed /\ SendTypes /\ LinksBack /\ Accounted
  BY DEF ViewIInv, IInv
<1>3. \A x \in Writers : conn'[x] = (IF x = w THEN "closing" ELSE conn[x])
  BY <1>1, <1>2 DEF Types
<1>4. SendTypes' /\ LinksBack'
  BY <1>1, <1>2, <1>3 DEF SendTypes, LinksBack
<1>5. DarkPending => DarkPending'
  <2> SUFFICES ASSUME NEW x \in Writers, conn[x] = "closing", writer_node[x] # None,
                      \A y \in links[writer_node[x]] : Closing(y)
               PROVE  DarkPending'
    BY DEF DarkPending
  <2>1. writer_node[x] \in Nodes /\ links[writer_node[x]] \subseteq Writers
    BY <1>2 DEF Types
  <2>2. \A y \in links'[writer_node'[x]] : Closing(y)'
    BY <1>1, <1>3, <2>1 DEF Closing
  <2> QED BY <1>1, <1>3, <2>2 DEF DarkPending
<1>6. CASE \E n \in Nodes : w \in links[n] /\ \A y \in links[n] : Closing(y)'
  <2>1. PICK n \in Nodes : w \in links[n] /\ \A y \in links[n] : Closing(y)'
    BY <1>6
  <2>2. writer_node[w] = n /\ n # None
    BY <1>2, <2>1, NodeAssumption DEF LinksBack
  <2>3. DarkPending'
    BY <1>1, <1>3, <2>1, <2>2 DEF DarkPending
  <2> QED BY <1>4, <2>3 DEF ViewIInv, Accounted
<1>7. CASE \A n \in Nodes : w \in links[n] => \E y \in links[n] : ~(Closing(y)')
  <2>1. Members(virt, links)' = Members(virt, links)
    <3>1. \A m \in Nodes : links[m] \subseteq Writers
      BY <1>2 DEF Types
    <3>2. \A m \in Nodes :
            (\E y \in links'[m] : conn'[y] \notin {"closing", "gone"})
              <=> (\E y \in links[m] : conn[y] \notin {"closing", "gone"})
      BY <1>1, <1>3, <1>7, <3>1 DEF Closing
    <3> QED BY <1>1, <3>2, MembersKept
  <2>2. Accounted'
    <3> SUFFICES ASSUME NEW x \in Writers, conn'[x] = "up"
                 PROVE  Current(x)' \/ (x \in late)' \/ Owed(x)' \/ NewsPending' \/ DarkPending'
      BY DEF Accounted
    <3>1. conn[x] = "up"
      BY <1>3
    <3>2. Current(x) => Current(x)'
      BY <1>1, <2>1, CurrentKept
    <3>3. (x \in late => x \in late') /\ (Owed(x) => Owed(x)') /\ (NewsPending => NewsPending')
      BY <1>1 DEF Owed, NewsPending
    <3> QED BY <1>2, <1>5, <3>1, <3>2, <3>3 DEF Accounted
  <2> QED BY <1>4, <2>2 DEF ViewIInv
<1> QED BY <1>6, <1>7

\* The finally block schedules a broadcast when the node went dark.
LEMMA FinallyView ==
  ASSUME ViewIInv, IInv', NEW w \in Writers, Finally(w), task[w] # "news"
  PROVE  ViewIInv'
<1> DEFINE n == writer_node[w]
           lk == [m \in Nodes |-> IF m = n THEN links[m] \ {w} ELSE links[m]]
           dark == n # None /\ \A x \in lk[n] : Closing(x)
<1>1. /\ conn' = [conn EXCEPT ![w] = "gone"] /\ writer_node' = [writer_node EXCEPT ![w] = None]
      /\ links' = lk /\ task' = [task EXCEPT ![w] = IF dark THEN "news" ELSE "idle"]
      /\ todo' = [todo EXCEPT ![w] = <<>>] /\ late' = (late \union Range(todo[w])) \ {w}
      /\ view' = [view EXCEPT ![w] = NoAssign] /\ virt' = virt
  BY DEF Finally
<1>2. Types /\ UniqueVirt /\ Attributed /\ SendTypes /\ LinksBack /\ Accounted
  BY DEF ViewIInv, IInv
<1>3. /\ \A x \in Writers : conn'[x] = (IF x = w THEN "gone" ELSE conn[x])
      /\ \A x \in Writers : writer_node'[x] = (IF x = w THEN None ELSE writer_node[x])
      /\ \A m \in Nodes : links'[m] = (IF m = n THEN links[m] \ {w} ELSE links[m])
      /\ \A x \in Writers \ {w} : view'[x] = view[x] /\ todo'[x] = todo[x] /\ task'[x] = task[x]
  BY <1>1, <1>2 DEF Types, SendTypes
<1>4. task'[w] = (IF dark THEN "news" ELSE "idle") /\ todo'[w] = <<>>
  BY <1>1, <1>2 DEF SendTypes
<1>5. SendTypes'
  <2>1. task' \in [Writers -> {"idle", "news", "reg", "bcast"}]
    BY <1>1, <1>2 DEF SendTypes
  <2>2. todo' \in [Writers -> Seq(Writers)] /\ DOMAIN view' = Writers
    BY <1>1, <1>2 DEF SendTypes
  <2>3. \A t \in Writers : task'[t] \in {"reg", "bcast"} => todo'[t] # <<>>
    BY <1>2, <1>3, <1>4 DEF SendTypes
  <2> QED BY <2>1, <2>2, <2>3 DEF SendTypes
<1>6. \A m \in Nodes : w \in links[m] => m = n
  BY <1>2 DEF LinksBack
<1>7. LinksBack'
  <2>1. \A x \in Writers, m \in Nodes : x \in links'[m] => writer_node'[x] = m
    <3> SUFFICES ASSUME NEW x \in Writers, NEW m \in Nodes, x \in links'[m]
                 PROVE  writer_node'[x] = m
      OBVIOUS
    <3>1. x \in links[m] /\ x # w
      BY <1>3, <1>6
    <3> QED BY <1>2, <1>3, <3>1 DEF LinksBack
  <2>2. \A x \in Writers : conn'[x] \in {"new", "gone"} => writer_node'[x] = None
    BY <1>2, <1>3 DEF LinksBack
  <2> QED BY <2>1, <2>2 DEF LinksBack
<1>8. CASE dark
  <2>1. NewsPending'
    BY <1>4, <1>8 DEF NewsPending
  <2> QED BY <1>5, <1>7, <2>1 DEF ViewIInv, Accounted
<1>9. CASE ~dark
  <2>1. Members(virt, links)' = Members(virt, links)
    <3>1. \A m \in Nodes : links[m] \subseteq Writers
      BY <1>2 DEF Types
    <3>2. \A m \in Nodes \ {n} : links'[m] = links[m] /\ w \notin links[m]
      BY <1>3, <1>6
    <3>3. n \in Nodes =>
            \E y \in links'[n] : conn[y] \notin {"closing", "gone"} /\ y # w /\ y \in links[n]
      BY <1>1, <1>9, NodeAssumption DEF Closing
    <3>4. \A m \in Nodes :
            (\E y \in links'[m] : conn'[y] \notin {"closing", "gone"})
              <=> (\E y \in links[m] : conn[y] \notin {"closing", "gone"})
      <4> SUFFICES ASSUME NEW m \in Nodes
                   PROVE  (\E y \in links'[m] : conn'[y] \notin {"closing", "gone"})
                            <=> (\E y \in links[m] : conn[y] \notin {"closing", "gone"})
        OBVIOUS
      <4>1. CASE m = n
        BY <1>3, <3>1, <3>3, <4>1
      <4>2. CASE m # n
        BY <1>3, <3>1, <3>2, <4>2
      <4> QED BY <4>1, <4>2
    <3> QED BY <1>1, <3>4, MembersKept
  <2>2. DarkPending => DarkPending'
    <3> SUFFICES ASSUME NEW x \in Writers, conn[x] = "closing", writer_node[x] # None,
                        \A y \in links[writer_node[x]] : Closing(y)
                 PROVE  DarkPending'
      BY DEF DarkPending
    <3>1. writer_node[x] \in Nodes /\ links[writer_node[x]] \subseteq Writers
      BY <1>2 DEF Types
    <3>2. x # w
      BY <1>1, <1>9, <3>1
    <3>3. writer_node'[x] = writer_node[x]
      BY <1>3, <3>2
    <3>4. links'[writer_node[x]] \subseteq links[writer_node[x]]
      BY <1>3, <3>1
    <3>5. \A y \in Writers : Closing(y) => Closing(y)'
      BY <1>3 DEF Closing
    <3>6. \A y \in links'[writer_node'[x]] : Closing(y)'
      BY <3>1, <3>3, <3>4, <3>5
    <3> QED BY <1>3, <3>2, <3>3, <3>6 DEF DarkPending
  <2>3. Accounted'
    <3> SUFFICES ASSUME NEW x \in Writers, conn'[x] = "up"
                 PROVE  Current(x)' \/ (x \in late)' \/ Owed(x)' \/ NewsPending' \/ DarkPending'
      BY DEF Accounted
    <3>1. conn[x] = "up" /\ x # w
      BY <1>3
    <3>2. Current(x) => Current(x)'
      <4>1. /\ writer_node'[x] = writer_node[x] /\ view'[x] = view[x]
            /\ virt'[writer_node[x]] = virt[writer_node[x]]
        BY <1>1, <1>3, <3>1
      <4> QED BY <2>1, <4>1, CurrentKept
    <3>3. x \in late => x \in late'
      BY <1>1, <3>1
    <3>4. Owed(x) => Owed(x)' \/ x \in late'
      <4> SUFFICES ASSUME NEW t \in Writers, task[t] \in {"reg", "bcast"}, x \in Range(todo[t])
                   PROVE  Owed(x)' \/ x \in late'
        BY DEF Owed
      <4>1. CASE t = w
        BY <1>1, <3>1, <4>1
      <4>2. CASE t # w
        BY <1>3, <4>2 DEF Owed
      <4> QED BY <4>1, <4>2
    <3>5. NewsPending => NewsPending'
      BY <1>3 DEF NewsPending
    <3> QED BY <1>2, <2>2, <3>1, <3>2, <3>3, <3>4, <3>5 DEF Accounted
  <2> QED BY <1>5, <1>7, <2>3 DEF ViewIInv
<1> QED BY <1>8, <1>9

\* The broadcast reaches every live link or keeps it in todo.
LEMMA BroadcastView ==
  ASSUME ViewIInv, IInv', NEW w \in Writers, Broadcast(w)
  PROVE  ViewIInv'
<1>1. /\ task[w] = "news"
      /\ SendRun(w, "bcast", SetToSeq(AllLinks(links)), view, late, writer_node, virt, links)
      /\ UNCHANGED <<conn, writer_node, virt, links>>
  BY DEF Broadcast, table
<1>2. SendTypes /\ LinksBack /\ links \in [Nodes -> SUBSET Writers]
  BY DEF ViewIInv, IInv, Types
<1>3. IsFiniteSet(AllLinks(links)) /\ AllLinks(links) \subseteq Writers
  BY <1>2, AllLinksFinite
<1>4. PICK s \in Seq(Writers) : s = SetToSeq(AllLinks(links)) /\ Range(s) = AllLinks(links)
  BY <1>3, SetToSeqRange, SeqOfSuperset
<1>5. SendRun(w, "bcast", s, view, late, writer_node, virt, links)
  BY <1>1, <1>4
<1>6. /\ SendTypes'
      /\ \A x \in Range(s) :
           ~Closing(x) /\ writer_node[x] # None =>
             \/ view'[x] = Assign(x, writer_node, virt, links)
             \/ task'[w] = "bcast" /\ x \in Range(todo'[w])
  BY <1>2, <1>5, SendRunFacts
<1>7. LinksBack'
  BY <1>1, <1>2 DEF LinksBack
<1>8. Accounted'
  <2> SUFFICES ASSUME NEW x \in Writers, conn'[x] = "up" PROVE Current(x)' \/ Owed(x)'
    BY DEF Accounted
  <2>1. x \in Range(s) /\ ~Closing(x) /\ writer_node[x] # None
    BY <1>1, <1>4, UpFacts
  <2>2. Assign(x, writer_node, virt, links)' = Assign(x, writer_node, virt, links)
    BY <1>1 DEF Assign, Members, Closing
  <2> QED BY <1>6, <2>1, <2>2 DEF Current, Owed
<1> QED BY <1>6, <1>7, <1>8 DEF ViewIInv

\* A run that goes on: the link it waited for is late.
LEMMA ResumeView ==
  ASSUME ViewIInv, IInv', NEW t \in Writers, Resume(t)
  PROVE  ViewIInv'
<1> DEFINE h == Head(todo[t])
           base == [view EXCEPT ![h] = held[t]]
           s == Tail(todo[t])
<1>1. /\ task[t] \in {"reg", "bcast"}
      /\ SendRun(t, task[t], s, base, late \union {h}, writer_node, virt, links)
      /\ UNCHANGED <<conn, writer_node, virt, links>>
  BY DEF Resume, table
<1>2. SendTypes /\ LinksBack /\ Accounted
  BY DEF ViewIInv
<1>3. todo[t] \in Seq(Writers) /\ todo[t] # <<>>
  BY <1>1, <1>2 DEF SendTypes
<1>4. h \in Writers /\ s \in Seq(Writers)
  BY <1>3
<1>5. Range(todo[t]) = {h} \union Range(s)
  <2>1. \A i \in 1 .. Len(s) : i + 1 \in 1 .. Len(todo[t]) /\ s[i] = todo[t][i + 1]
    BY <1>3
  <2>2. \A i \in 1 .. Len(todo[t]) : i = 1 \/ (i - 1 \in 1 .. Len(s) /\ todo[t][i] = s[i - 1])
    BY <1>3
  <2>3. h = todo[t][1] /\ 1 \in 1 .. Len(todo[t])
    BY <1>3
  <2> HIDE DEF s, h
  <2>4. Range(todo[t]) \subseteq {h} \union Range(s)
    BY <1>3, <1>4, <2>2, <2>3 DEF Range
  <2>5. {h} \union Range(s) \subseteq Range(todo[t])
    BY <1>3, <1>4, <2>1, <2>3 DEF Range
  <2> QED BY <2>4, <2>5
<1> HIDE DEF s, base
<1>6. /\ SendTypes'
      /\ \A x \in Writers :
           \/ view'[x] = Assign(x, writer_node, virt, links)
           \/ view'[x] = base[x] /\ (x \in late \union {h} => x \in late')
      /\ \A x \in Range(s) :
           ~Closing(x) /\ writer_node[x] # None =>
             \/ view'[x] = Assign(x, writer_node, virt, links)
             \/ task'[t] = task[t] /\ x \in Range(todo'[t])
      /\ \A u \in Writers \ {t} : task'[u] = task[u] /\ todo'[u] = todo[u]
  <2>1. PICK kind \in {"reg", "bcast"} : kind = task[t]
    BY <1>1
  <2>2. PICK old : old = late \union {h}
    OBVIOUS
  <2>3. SendRun(t, kind, s, base, old, writer_node, virt, links)
    BY <1>1, <2>1, <2>2
  <2> QED BY <1>2, <1>4, <2>1, <2>2, <2>3, SendRunFacts
<1>7. LinksBack'
  BY <1>1, <1>2 DEF LinksBack
<1>8. DarkPending => DarkPending'
  BY <1>1 DEF DarkPending, Closing
<1>9. NewsPending => NewsPending'
  BY <1>1, <1>6 DEF NewsPending
<1>10. Accounted'
  <2> SUFFICES ASSUME NEW x \in Writers, conn'[x] = "up"
               PROVE  Current(x)' \/ (x \in late)' \/ Owed(x)' \/ NewsPending' \/ DarkPending'
    BY DEF Accounted
  <2>1. conn[x] = "up" /\ ~Closing(x) /\ writer_node[x] # None
    BY <1>1, UpFacts
  <2>2. Assign(x, writer_node, virt, links)' = Assign(x, writer_node, virt, links)
    BY <1>1 DEF Assign, Members, Closing
  <2>3. x = h => Current(x)' \/ x \in late'
    BY <1>6, <2>2 DEF Current
  <2>4. CASE x # h
    <3>1. base[x] = view[x]
      BY <1>2, <2>4 DEF SendTypes, base
    <3>2. Current(x) => Current(x)'
      BY <1>6, <2>2, <3>1 DEF Current
    <3>3. x \in late => Current(x)' \/ x \in late'
      BY <1>6, <2>2 DEF Current
    <3>4. Owed(x) => Current(x)' \/ Owed(x)'
      <4> SUFFICES ASSUME NEW u \in Writers, task[u] \in {"reg", "bcast"}, x \in Range(todo[u])
                   PROVE  Current(x)' \/ Owed(x)'
        BY DEF Owed
      <4>1. CASE u = t
        <5>1. x \in Range(s)
          BY <1>5, <2>4, <4>1
        <5> QED BY <1>1, <1>6, <2>1, <2>2, <5>1 DEF Current, Owed
      <4>2. CASE u # t
        BY <1>6, <4>2 DEF Owed
      <4> QED BY <4>1, <4>2
    <3> QED BY <1>2, <1>8, <1>9, <2>1, <3>2, <3>3, <3>4 DEF Accounted
  <2> QED BY <2>3, <2>4
<1> QED BY <1>6, <1>7, <1>10 DEF ViewIInv

\* Steps that change nothing the ASSIGNs tell.
LEMMA StillView ==
  ASSUME ViewIInv, IInv', UNCHANGED <<conn, writer_node, virt, links, view, task, todo, late>>
  PROVE  ViewIInv'
<1>1. SendTypes /\ LinksBack /\ Accounted
  BY DEF ViewIInv
<1>2. SendTypes' /\ LinksBack'
  BY <1>1 DEF SendTypes, LinksBack
<1>3. Members(virt, links)' = Members(virt, links)
  BY MembersKept
<1>4. \A w \in Writers : Current(w) => Current(w)'
  BY <1>3, CurrentKept
<1>5. (NewsPending => NewsPending') /\ (DarkPending => DarkPending')
  BY DEF NewsPending, DarkPending, Closing
<1>6. \A w \in Writers : Owed(w) => Owed(w)'
  BY DEF Owed
<1>7. Accounted'
  BY <1>1, <1>4, <1>5, <1>6 DEF Accounted
<1> QED BY <1>2, <1>7 DEF ViewIInv

\* A run that breaks off: those it did not reach are late.
LEMMA KeyErrorView ==
  ASSUME ViewIInv, IInv', NEW t \in Writers, ResumeKeyError(t)
  PROVE  ViewIInv'
<1>1. SendTypes /\ LinksBack /\ Accounted
  BY DEF ViewIInv
<1>2. CASE task[t] = "reg" /\ Finally(t)
  BY <1>2, FinallyView
<1>3. ASSUME task[t] = "bcast", task' = [task EXCEPT ![t] = "idle"],
             todo' = [todo EXCEPT ![t] = <<>>], late' = late \union Range(todo[t]),
             UNCHANGED <<conn, writer_node, virt, links, view>>
      PROVE  ViewIInv'
  <2>1. SendTypes'
    <3>1. task' \in [Writers -> {"idle", "news", "reg", "bcast"}] /\ todo' \in [Writers -> Seq(Writers)]
      BY <1>1, <1>3 DEF SendTypes
    <3>2. \A u \in Writers : task'[u] \in {"reg", "bcast"} => todo'[u] # <<>>
      BY <1>1, <1>3 DEF SendTypes
    <3> QED BY <1>1, <1>3, <3>1, <3>2 DEF SendTypes
  <2>2. LinksBack'
    BY <1>1, <1>3 DEF LinksBack
  <2>3. Members(virt, links)' = Members(virt, links)
    BY <1>3, MembersKept
  <2>4. \A w \in Writers : Current(w) => Current(w)'
    BY <1>3, <2>3, CurrentKept
  <2>5. DarkPending => DarkPending'
    BY <1>3 DEF DarkPending, Closing
  <2>6. NewsPending => NewsPending'
    BY <1>1, <1>3 DEF NewsPending, SendTypes
  <2>7. \A w \in Writers : Owed(w) => Owed(w)' \/ w \in late'
    <3> SUFFICES ASSUME NEW w \in Writers, NEW u \in Writers, task[u] \in {"reg", "bcast"},
                        w \in Range(todo[u])
                 PROVE  Owed(w)' \/ w \in late'
      BY DEF Owed
    <3>1. CASE u = t
      BY <1>3, <3>1
    <3>2. CASE u # t
      BY <1>1, <1>3, <3>2 DEF Owed, SendTypes
    <3> QED BY <3>1, <3>2
  <2>8. Accounted'
    BY <1>1, <1>3, <2>4, <2>5, <2>6, <2>7 DEF Accounted
  <2> QED BY <2>1, <2>2, <2>8 DEF ViewIInv
<1> QED BY <1>2, <1>3 DEF ResumeKeyError, table

\* Every step keeps the invariant.
LEMMA StepViewIInv == ViewIInv /\ [Next]_vars => ViewIInv'
<1> SUFFICES ASSUME ViewIInv, [Next]_vars PROVE ViewIInv'
  OBVIOUS
<1>1. IInv'
  BY StepIInv DEF ViewIInv
<1>2. ASSUME NEW w \in Writers, Register(w) PROVE ViewIInv'
  BY <1>1, <1>2, RegisterView
<1>3. ASSUME NEW w \in Writers, Lose(w) PROVE ViewIInv'
  BY <1>1, <1>3, LoseView
<1>4. ASSUME NEW w \in Writers, Finish(w) PROVE ViewIInv'
  BY <1>1, <1>4, FinallyView DEF Finish
<1>5. ASSUME NEW w \in Writers, Broadcast(w) PROVE ViewIInv'
  BY <1>1, <1>5, BroadcastView
<1>6. ASSUME NEW w \in Writers, Resume(w) PROVE ViewIInv'
  BY <1>1, <1>6, ResumeView
<1>7. ASSUME NEW w \in Writers, ResumeKeyError(w) PROVE ViewIInv'
  BY <1>1, <1>7, KeyErrorView
<1>8. ASSUME NEW w \in Writers, Stall(w) \/ Unstall(w) PROVE ViewIInv'
  BY <1>1, <1>8, StillView DEF Stall, Unstall, table
<1>9. ASSUME NEW n \in Nodes, Age(n) PROVE ViewIInv'
  BY <1>1, <1>9, StillView DEF Age, sending
<1>10. CASE UNCHANGED vars
  BY <1>1, <1>10, StillView DEF vars
<1> QED BY <1>2, <1>3, <1>4, <1>5, <1>6, <1>7, <1>8, <1>9, <1>10 DEF Next

\* The invariant holds throughout.
LEMMA ViewInvariance == Spec => []ViewIInv
  BY InitViewIInv, StepViewIInv, PTL DEF Spec

(* When nothing is pending, the last ASSIGN of every live link is the      *)
(* membership, however registrations, losses, broadcasts and stalled       *)
(* queues interleave; only the links recorded as late are excepted.        *)
THEOREM ViewsExact == Spec => []ViewExact
<1>1. ViewIInv => ViewExact
  <2> SUFFICES ASSUME ViewIInv, Quiet, NEW w \in Writers \ late, conn[w] = "up"
               PROVE  view[w] = Assign(w, writer_node, virt, links)
    BY DEF ViewExact
  <2>1. ~NewsPending /\ ~Owed(w) /\ ~DarkPending
    BY DEF Quiet, NewsPending, Owed, DarkPending
  <2> QED BY <2>1 DEF ViewIInv, Accounted, Current
<1> QED BY ViewInvariance, <1>1, PTL

-----------------------------------------------------------------------------
(* The stream table.                                                       *)

\* The table holds the record of opener o.
Held(o) == streams[SidOf[o]] = o
\* Joiner j waits for its verdict with a grant of opener o.
InHand(o, j) == winner[o] = j \/ j \in ToSet(claims[o])

\* The types of the variables that the argument reads; the flags apart.
StreamTypes ==
  /\ streams \in [Sids -> Openers \union {None}]
  /\ node_streams \in [Nodes -> SUBSET Sids]
  /\ state \in [Openers -> {"new", "open", "joined", "ready"}]
  /\ dest \in [Openers -> Nodes \union {None}]
  /\ joiner \in [Openers -> Joiners \union {None}]
  /\ claims \in [Openers -> Seq(Joiners)]
  /\ grant \in [Openers -> {"none", "sleep", "over"}]
  /\ winner \in [Openers -> Joiners \union {None}]
  /\ wait \in [Openers -> {"none", "yield", "claim", "confirm", "verdict", "over",
                          "raised"}]
  /\ ow \in [Openers -> {"none", "up", "lost", "closed"}]
  /\ oframes \in [Openers -> {<<>>, <<"STOK">>, <<"STFAIL">>}]
  /\ jw \in [Joiners -> {"none", "up", "lost", "closed"}]
  /\ server \in [Joiners -> Openers \union {None}]
  /\ said \in [Joiners -> {"nothing", "STJOINED", "STFAIL"}]

StreamFlags == timer \in [Openers -> BOOLEAN] /\ piping \in [Openers -> BOOLEAN]

(* The table and the opener connections agree: what the relay has not      *)
(* closed is in the table, under its own id.                               *)
TableOK ==
  /\ \A s \in Sids : streams[s] # None => SidOf[streams[s]] = s
  /\ \A o \in Openers : ow[o] \in {"up", "lost"} <=> Held(o)

(* Where the task of a record may be suspended, by the state of the        *)
(* record; the two only move together.                                     *)
PhaseOK ==
  \A o \in Openers :
    /\ ow[o] = "none" => state[o] = "new"
    /\ state[o] = "new" => wait[o] = "none" /\ ~Held(o) /\ claims[o] = <<>>
    /\ state[o] = "open" => wait[o] \in {"none", "yield"}
    /\ state[o] = "joined" => wait[o] \in {"claim", "over"}
    /\ state[o] = "ready" => wait[o] \in {"confirm", "verdict", "over", "raised"}

(* Only a port-only dial collects claims, and it has no destination until  *)
(* one of them is granted: this is why a picked claim is never refused.    *)
ClaimsOK ==
  \A o \in Openers :
    /\ winner[o] # None <=> wait[o] = "yield"
    /\ winner[o] # None \/ claims[o] # <<>> => Implicit(o)
    /\ Implicit(o) /\ state[o] \in {"new", "open"} => dest[o] = None

(* A claimant is in the hands of one opener at a time and has no server    *)
(* entry yet.                                                              *)
PendingOK ==
  \A j \in Joiners :
    /\ jw[j] = "none" => server[j] = None /\ \A o \in Openers : ~InHand(o, j)
    /\ \A o \in Openers : InHand(o, j) => server[j] = None
    /\ \A o, p \in Openers : InHand(o, j) /\ InHand(p, j) => o = p
    /\ \A o \in Openers : winner[o] = j => j \notin ToSet(claims[o])

\* A granted claim and the record it was granted to name each other.
ServerOK ==
  /\ \A j \in Joiners :
       server[j] # None => state[server[j]] = "ready" /\ joiner[server[j]] = j
  /\ \A o \in Openers :
       state[o] = "ready" => joiner[o] # None /\ server[joiner[o]] = o

(* One verdict per opener: STOK only of a ready record, STFAIL only on a   *)
(* connection that is closed.                                              *)
FramesOK ==
  \A o \in Openers :
    /\ oframes[o] = <<"STFAIL">> => ow[o] = "closed"
    /\ oframes[o] = <<"STOK">> => state[o] = "ready"
    /\ ow[o] = "none" => oframes[o] = <<>>
    /\ wait[o] \in {"verdict", "raised"} => oframes[o] = <<"STOK">>

(* Who will retire a record: its timer before the grant, its task during   *)
(* the bridging, its pipe after.                                           *)
TeardownOK ==
  \A o \in Openers :
    /\ timer[o] => Held(o)
    /\ Held(o) /\ state[o] # "ready" => timer[o] /\ wait[o] # "over"
    /\ Held(o) /\ wait[o] = "over" => piping[o]
    /\ piping[o] => /\ Held(o) /\ state[o] = "ready" /\ wait[o] = "over"
                    /\ oframes[o] = <<"STOK">> /\ said[joiner[o]] = "STJOINED"

\* The inductive invariant of the stream table.
StreamIInv ==
  /\ StreamTypes /\ StreamFlags
  /\ TableOK /\ PhaseOK /\ ClaimsOK /\ PendingOK /\ ServerOK /\ FramesOK /\ TeardownOK

\* What a claim appended to the list adds to its elements.
LEMMA AppendElements ==
  ASSUME NEW S, NEW s \in Seq(S), NEW x \in S
  PROVE  ToSet(Append(s, x)) = ToSet(s) \union {x}
<1>1. /\ Append(s, x) \in Seq(S) /\ Len(Append(s, x)) = Len(s) + 1
      /\ DOMAIN s = 1 .. Len(s) /\ Len(s) \in Nat
      /\ DOMAIN Append(s, x) = 1 .. Len(s) + 1
      /\ \A k \in 1 .. Len(s) : Append(s, x)[k] = s[k]
      /\ Append(s, x)[Len(s) + 1] = x
  OBVIOUS
<1>2. ASSUME NEW k \in DOMAIN Append(s, x)
      PROVE  Append(s, x)[k] \in ToSet(s) \union {x}
  BY <1>1, <1>2 DEF ToSet
<1>3. ASSUME NEW k \in DOMAIN s PROVE s[k] \in ToSet(Append(s, x))
  <2>1. k \in DOMAIN Append(s, x) /\ Append(s, x)[k] = s[k]
    BY <1>1, <1>3
  <2> QED BY <2>1 DEF ToSet
<1>4. x \in ToSet(Append(s, x))
  <2>1. Len(s) + 1 \in DOMAIN Append(s, x)
    BY <1>1
  <2> QED BY <1>1, <2>1 DEF ToSet
<1> QED BY <1>2, <1>3, <1>4 DEF ToSet

USE NoneAssumption, OpenerAssumption, JoinerAssumption

\* No stream exists at first.
LEMMA StreamInitIInv == StreamInit => StreamIInv
<1> SUFFICES ASSUME StreamInit PROVE StreamIInv
  OBVIOUS
<1>1. StreamTypes
  BY DEF StreamInit, StreamTypes
<1>2. StreamFlags
  BY DEF StreamInit, StreamFlags
<1>3. TableOK /\ PhaseOK /\ ClaimsOK
  BY DEF StreamInit, TableOK, PhaseOK, ClaimsOK, Held
<1>4. PendingOK
  BY DEF StreamInit, PendingOK, InHand, ToSet
<1>5. ServerOK /\ FramesOK /\ TeardownOK
  BY DEF StreamInit, ServerOK, FramesOK, TeardownOK, Held
<1> QED BY <1>1, <1>2, <1>3, <1>4, <1>5 DEF StreamIInv

(* The effect of every teardown: the records of G leave the table and      *)
(* their connections are closed; at most one of them, the only one, gets a *)
(* framed refusal.                                                         *)
Retired(G) ==
  /\ streams' \in [Sids -> Openers \union {None}]
  /\ \A s \in Sids : streams'[s] = IF streams[s] \in G THEN None ELSE streams[s]
  /\ node_streams' \in [Nodes -> SUBSET Sids]
  /\ ow' \in [Openers -> {"none", "up", "lost", "closed"}]
  /\ timer' \in [Openers -> BOOLEAN]
  /\ piping' \in [Openers -> BOOLEAN]
  /\ \A o \in Openers :
       IF o \in G THEN ow'[o] = "closed" /\ ~timer'[o] /\ ~piping'[o]
                  ELSE ow'[o] = ow[o] /\ timer'[o] = timer[o] /\ piping'[o] = piping[o]
  /\ oframes' \in [Openers -> {<<>>, <<"STOK">>, <<"STFAIL">>}]
  /\ \A o \in Openers :
       oframes'[o] # oframes[o] => /\ G = {o} /\ state[o] # "ready"
                                   /\ oframes[o] = <<>> /\ oframes'[o] = <<"STFAIL">>
  /\ jw' \in [Joiners -> {"none", "up", "lost", "closed"}]
  /\ \A j \in Joiners : jw'[j] # jw[j] => jw'[j] = "closed"

(* What a caller of _grant_claim guarantees: the record is still open, the *)
(* claimant has no server entry and is handed over by whoever held it.     *)
Handed(o, j) ==
  /\ state[o] = "open" /\ (dest[o] = None \/ JNode[j] = dest[o]) /\ server[j] = None
  /\ UNCHANGED said
  /\ grant' \in [Openers -> {"none", "sleep", "over"}]
  /\ claims' \in [Openers -> Seq(Joiners)]
  /\ winner' \in [Openers -> Joiners \union {None}]
  /\ winner'[o] = None
  /\ \A p \in Openers : p # o => winner'[p] = winner[p]
  /\ \A p \in Openers : claims'[p] = claims[p] \/ claims'[p] = <<>>
  /\ \A p \in Openers : ~InHand(p, j)'

\* The kinds of step: a grant, a teardown, one that no caller can see.
Grants ==
  \E o \in Openers, j \in Joiners :
    /\ Handed(o, j)
    /\ \E cs \in {"up", "lost", "closed"}, losers \in SUBSET Joiners :
         GrantClaim(o, j, cs, losers)

Retires ==
  \E G \in SUBSET Openers : Retired(G) /\ UNCHANGED server /\ \A o \in G : Held(o)

Unseen ==
  /\ UNCHANGED <<oframes, server>>
  /\ \A o \in Openers : ow'[o] # ow[o] => ow[o] = "up" /\ ow'[o] = "lost"

StepKind ==
  \/ \E o \in Openers : OpenRefused(o) \/ OpenAccepted(o)
  \/ Grants \/ Retires \/ Unseen

\* _stream_pop retires the record the table holds under the id, if any.
LEMMA PopRetires ==
  ASSUME StreamIInv, NEW sid \in Sids, NEW J \in SUBSET Joiners, StreamPop(sid, J),
         oframes' \in [Openers -> {<<>>, <<"STOK">>, <<"STFAIL">>}],
         \A o \in Openers :
           oframes'[o] # oframes[o] => /\ o = streams[sid] /\ state[o] # "ready"
                                       /\ oframes[o] = <<>> /\ oframes'[o] = <<"STFAIL">>
  PROVE  Retired({streams[sid]} \ {None}) /\ \A j \in J : jw'[j] = "closed"
<1>0. StreamTypes /\ StreamFlags /\ TableOK
  BY DEF StreamIInv
<1>1. CASE streams[sid] = None
  BY <1>0, <1>1 DEF StreamPop, Retired, StreamTypes, StreamFlags
<1>2. CASE streams[sid] # None
  <2> DEFINE p == streams[sid]
  <2>1. p \in Openers /\ SidOf[p] = sid
    BY <1>0, <1>2 DEF TableOK, StreamTypes
  <2>2. /\ streams' \in [Sids -> Openers \union {None}]
        /\ \A s \in Sids : streams'[s] = IF streams[s] \in {p} THEN None ELSE streams[s]
    BY <1>0, <1>2, <2>1 DEF StreamPop, StreamTypes, TableOK
  <2>3. node_streams' \in [Nodes -> SUBSET Sids]
    <3>1. node_streams' = [n \in Nodes |-> IF n \in {OpenerNode[p], dest[p]}
                                           THEN node_streams[n] \ {sid}
                                           ELSE node_streams[n]]
      BY <1>2 DEF StreamPop
    <3>2. \A n \in Nodes : node_streams[n] \ {sid} \in SUBSET Sids
      BY <1>0 DEF StreamTypes
    <3>3. \A n \in Nodes : node_streams[n] \in SUBSET Sids
      BY <1>0 DEF StreamTypes
    <3> QED BY <3>1, <3>2, <3>3
  <2>4. /\ ow' \in [Openers -> {"none", "up", "lost", "closed"}]
        /\ timer' \in [Openers -> BOOLEAN]
        /\ piping' \in [Openers -> BOOLEAN]
    <3>1. ow' \in [Openers -> {"none", "up", "lost", "closed"}]
      BY <1>0, <1>2, <2>1 DEF StreamPop, StreamTypes
    <3>2. timer' \in [Openers -> BOOLEAN] /\ piping' \in [Openers -> BOOLEAN]
      BY <1>0, <1>2, <2>1 DEF StreamPop, StreamFlags
    <3> QED BY <3>1, <3>2
  <2>5. \A o \in Openers :
          IF o \in {p} THEN ow'[o] = "closed" /\ ~timer'[o] /\ ~piping'[o]
                       ELSE ow'[o] = ow[o] /\ timer'[o] = timer[o] /\ piping'[o] = piping[o]
    BY <1>0, <1>2, <2>1 DEF StreamPop, StreamTypes, StreamFlags
  <2>6. /\ jw' \in [Joiners -> {"none", "up", "lost", "closed"}]
        /\ \A j \in Joiners : jw'[j] # jw[j] => jw'[j] = "closed"
        /\ \A j \in J : jw'[j] = "closed"
    BY <1>0, <1>2, <2>1 DEF StreamPop, StreamTypes
  <2> QED
    BY <1>2, <2>1, <2>2, <2>3, <2>4, <2>5, <2>6 DEF Retired
<1> QED BY <1>1, <1>2

\* So does _stream_fail, with a refusal only for an unconfirmed opener.
LEMMA FailRetires ==
  ASSUME StreamIInv, NEW o \in Openers, NEW J \in SUBSET Joiners, StreamFail(o, J)
  PROVE  Retired({streams[SidOf[o]]} \ {None}) /\ \A j \in J : jw'[j] = "closed"
<1>1. SidOf[o] \in Sids /\ StreamPop(SidOf[o], J)
  BY DEF StreamFail
<1>2. /\ oframes' \in [Openers -> {<<>>, <<"STOK">>, <<"STFAIL">>}]
      /\ \A q \in Openers :
           oframes'[q] # oframes[q] => /\ q = streams[SidOf[o]] /\ state[q] # "ready"
                                       /\ oframes[q] = <<>> /\ oframes'[q] = <<"STFAIL">>
  <2>0. Append(<<>>, "STFAIL") = <<"STFAIL">>
    OBVIOUS
  <2>1. CASE ow[o] = "up" /\ state[o] \in {"open", "joined"}
    <3>1. oframes[o] = <<>> /\ Held(o)
      <4>1. Held(o)
        BY <2>1 DEF StreamIInv, TableOK
      <4>2. oframes[o] # <<"STFAIL">> /\ oframes[o] # <<"STOK">>
        BY <2>1 DEF StreamIInv, FramesOK
      <4>3. oframes[o] \in {<<>>, <<"STOK">>, <<"STFAIL">>}
        BY DEF StreamIInv, StreamTypes
      <4> QED BY <4>1, <4>2, <4>3
    <3> QED BY <2>0, <2>1, <3>1 DEF StreamFail, Held, StreamIInv, StreamTypes
  <2>2. CASE ~(ow[o] = "up" /\ state[o] \in {"open", "joined"})
    BY <2>2 DEF StreamFail, StreamIInv, StreamTypes
  <2> QED BY <2>1, <2>2
<1> QED BY <1>1, <1>2, PopRetires

\* A teardown keeps the invariant, whoever's task runs it.
LEMMA RetireInv ==
  ASSUME StreamIInv, NEW G \in SUBSET Openers, Retired(G), \A o \in G : Held(o),
         UNCHANGED <<state, dest, joiner, claims, winner, server, said>>,
         grant' \in [Openers -> {"none", "sleep", "over"}],
         wait' \in [Openers -> {"none", "yield", "claim", "confirm", "verdict", "over",
                          "raised"}],
         \A o \in Openers :
           wait'[o] # wait[o] => /\ wait[o] \in {"claim", "confirm", "verdict"}
                                 /\ wait'[o] = "over"
                                 /\ ~Held(o) \/ o \in G
  PROVE  StreamIInv' /\ StepKind
<1>0. StreamTypes /\ StreamFlags /\ TableOK
  BY DEF StreamIInv
<1>1. StreamTypes' /\ StreamFlags'
  BY DEF Retired, StreamIInv, StreamTypes, StreamFlags
<1>2. \A o \in Openers : Held(o)' <=> Held(o) /\ o \notin G
  BY <1>0 DEF Held, Retired, StreamTypes
<1>3. TableOK'
  <2>1. \A s \in Sids : streams'[s] # None => SidOf[streams'[s]] = s
    BY <1>0 DEF TableOK, Retired
  <2>2. \A o \in Openers : ow'[o] \in {"up", "lost"} <=> ow[o] \in {"up", "lost"} /\ o \notin G
    BY DEF Retired
  <2> QED BY <1>0, <1>2, <2>1, <2>2 DEF TableOK
<1>4. PhaseOK'
  BY <1>2 DEF PhaseOK, Retired, StreamIInv, StreamTypes
<1>5. ClaimsOK'
  <2>1. ClaimsOK
    BY DEF StreamIInv
  <2>2. \A o \in Openers : wait'[o] = "yield" <=> wait[o] = "yield"
    OBVIOUS
  <2> QED BY <2>1, <2>2 DEF ClaimsOK, Implicit
<1>6. PendingOK'
  BY DEF PendingOK, Retired, StreamIInv, StreamTypes, InHand
<1>7. ServerOK'
  BY DEF ServerOK, Retired, StreamIInv, StreamTypes
<1>8. FramesOK'
  <2>1. FramesOK /\ PhaseOK
    BY DEF StreamIInv
  <2>2. \A o \in Openers : ow'[o] = "none" <=> ow[o] = "none"
    <3>1. \A o \in G : ow[o] # "none"
      BY DEF StreamIInv, TableOK
    <3> QED BY <3>1 DEF Retired
  <2>3. SUFFICES ASSUME NEW o \in Openers
                 PROVE  /\ oframes'[o] = <<"STFAIL">> => ow'[o] = "closed"
                        /\ oframes'[o] = <<"STOK">> => state'[o] = "ready"
                        /\ ow'[o] = "none" => oframes'[o] = <<>>
                        /\ wait'[o] \in {"verdict", "raised"} => oframes'[o] = <<"STOK">>
    BY DEF FramesOK
  <2>4. CASE oframes'[o] = oframes[o]
    <3>1. ow[o] = "closed" => ow'[o] = "closed"
      BY DEF Retired
    <3>2. wait'[o] \in {"verdict", "raised"} => wait[o] \in {"verdict", "raised"}
      OBVIOUS
    <3> QED BY <2>1, <2>2, <2>4, <3>1, <3>2 DEF FramesOK
  <2>5. CASE oframes'[o] # oframes[o]
    <3>1. /\ o \in G /\ state[o] # "ready" /\ oframes'[o] = <<"STFAIL">>
          /\ ow'[o] = "closed"
      BY <2>5 DEF Retired
    <3>2. wait'[o] \notin {"verdict", "raised"}
      <4>1. state[o] \in {"new", "open", "joined"}
        BY <3>1 DEF StreamIInv, StreamTypes
      <4>2. wait[o] \notin {"verdict", "raised"}
        BY <2>1, <4>1 DEF PhaseOK
      <4> QED BY <4>2
    <3> QED BY <3>1, <3>2
  <2> QED BY <2>4, <2>5
<1>9. TeardownOK'
  <2> SUFFICES ASSUME NEW o \in Openers
               PROVE  /\ timer'[o] => Held(o)'
                      /\ Held(o)' /\ state'[o] # "ready" => timer'[o] /\ wait'[o] # "over"
                      /\ Held(o)' /\ wait'[o] = "over" => piping'[o]
                      /\ piping'[o] =>
                           /\ Held(o)' /\ state'[o] = "ready" /\ wait'[o] = "over"
                           /\ oframes'[o] = <<"STOK">> /\ said'[joiner'[o]] = "STJOINED"
    BY DEF TeardownOK
  <2>1. TeardownOK /\ (Held(o)' <=> Held(o) /\ o \notin G)
    BY <1>2 DEF StreamIInv
  <2>2. CASE o \in G
    BY <2>1, <2>2 DEF Retired
  <2>3. CASE o \notin G
    <3>1. /\ timer'[o] = timer[o] /\ piping'[o] = piping[o] /\ oframes'[o] = oframes[o]
          /\ Held(o)' <=> Held(o)
      BY <2>1, <2>3 DEF Retired
    <3>2. Held(o) => wait'[o] = wait[o]
      BY <2>3
    <3> QED BY <2>1, <3>1, <3>2 DEF TeardownOK
  <2> QED BY <2>2, <2>3
<1>10. StepKind
  BY DEF StepKind, Retires
<1> QED BY <1>1, <1>3, <1>4, <1>5, <1>6, <1>7, <1>8, <1>9, <1>10 DEF StreamIInv

\* So does a grant, of a record in the table or of a stale one.
LEMMA GrantInv ==
  ASSUME StreamIInv, NEW o \in Openers, NEW j \in Joiners,
         NEW cs \in {"up", "lost", "closed"}, NEW losers \in SUBSET Joiners,
         GrantClaim(o, j, cs, losers), Handed(o, j)
  PROVE  StreamIInv' /\ StepKind
<1>0. StreamTypes /\ StreamFlags /\ TableOK /\ PhaseOK /\ ClaimsOK /\ PendingOK /\ ServerOK
      /\ FramesOK /\ TeardownOK
  BY DEF StreamIInv
<1>h. /\ state[o] = "open" /\ (dest[o] = None \/ JNode[j] = dest[o]) /\ server[j] = None
      /\ UNCHANGED said
      /\ grant' \in [Openers -> {"none", "sleep", "over"}]
      /\ claims' \in [Openers -> Seq(Joiners)]
      /\ winner' \in [Openers -> Joiners \union {None}]
      /\ winner'[o] = None
      /\ \A p \in Openers : p # o => winner'[p] = winner[p]
      /\ \A p \in Openers : claims'[p] = claims[p] \/ claims'[p] = <<>>
      /\ \A p \in Openers : ~InHand(p, j)'
  BY DEF Handed
<1> USE <1>h
<1>1. /\ UNCHANGED <<streams, timer, piping, ow>>
      /\ joiner' = [joiner EXCEPT ![o] = j]
      /\ dest' = [dest EXCEPT ![o] = JNode[j]]
      /\ node_streams' = IF dest[o] = None
                         THEN [node_streams EXCEPT ![JNode[j]] = @ \union {SidOf[o]}]
                         ELSE node_streams
      /\ jw' = [k \in Joiners |-> IF k = j THEN cs
                                   ELSE IF k \in losers THEN "closed" ELSE jw[k]]
  BY DEF GrantClaim
<1>2. \/ /\ state' = [state EXCEPT ![o] = "joined"]
         /\ wait' = [wait EXCEPT ![o] = "claim"]
         /\ UNCHANGED <<server, oframes>>
      \/ /\ state' = [state EXCEPT ![o] = "ready"]
         /\ server' = [server EXCEPT ![j] = o]
         /\ \/ /\ ow[o] = "up"
               /\ oframes' = [oframes EXCEPT ![o] = Append(@, "STOK")]
               /\ wait' = [wait EXCEPT ![o] = "verdict"]
            \/ /\ ow[o] # "up"
               /\ wait' = [wait EXCEPT ![o] = "confirm"]
               /\ UNCHANGED oframes
  BY DEF GrantClaim
<1>4. \/ /\ state' = [state EXCEPT ![o] = "joined"]
         /\ wait' = [wait EXCEPT ![o] = "claim"]
         /\ server' = server /\ oframes' = oframes
      \/ /\ state' = [state EXCEPT ![o] = "ready"]
         /\ server' = [server EXCEPT ![j] = o]
         /\ \/ /\ ow[o] = "up"
               /\ oframes' = [oframes EXCEPT ![o] = <<"STOK">>]
               /\ wait' = [wait EXCEPT ![o] = "verdict"]
            \/ /\ ow[o] # "up"
               /\ wait' = [wait EXCEPT ![o] = "confirm"]
               /\ oframes' = oframes
  <2>1. CASE ow[o] = "up"
    <3>1. oframes[o] = <<>>
      <4>1. oframes[o] # <<"STFAIL">> /\ oframes[o] # <<"STOK">>
        BY <1>0, <2>1 DEF FramesOK
      <4> QED BY <1>0, <4>1 DEF StreamTypes
    <3>2. Append(<<>>, "STOK") = <<"STOK">>
      OBVIOUS
    <3>3. [oframes EXCEPT ![o] = Append(@, "STOK")] = [oframes EXCEPT ![o] = <<"STOK">>]
      BY <3>1, <3>2
    <3> QED BY <1>2, <3>3
  <2>2. CASE ow[o] # "up"
    BY <1>2, <2>2
  <2> QED BY <2>1, <2>2
<1>5. \A p \in Openers : Held(p)' <=> Held(p)
  BY <1>1 DEF Held
<1>6. StreamTypes' /\ StreamFlags'
  <2>1. /\ state' \in [Openers -> {"new", "open", "joined", "ready"}]
        /\ wait' \in [Openers -> {"none", "yield", "claim", "confirm", "verdict", "over",
                          "raised"}]
        /\ oframes' \in [Openers -> {<<>>, <<"STOK">>, <<"STFAIL">>}]
        /\ server' \in [Joiners -> Openers \union {None}]
    <3>1. state' \in [Openers -> {"new", "open", "joined", "ready"}]
      <4>1. state' = [state EXCEPT ![o] = "joined"] \/ state' = [state EXCEPT ![o] = "ready"]
        BY <1>4
      <4>2. state \in [Openers -> {"new", "open", "joined", "ready"}]
        BY <1>0 DEF StreamTypes
      <4> QED BY <4>1, <4>2
    <3>2. wait' \in [Openers -> {"none", "yield", "claim", "confirm", "verdict", "over",
                          "raised"}]
      <4>1. \E v \in {"claim", "verdict", "confirm"} : wait' = [wait EXCEPT ![o] = v]
        BY <1>4
      <4> QED BY <1>0, <4>1 DEF StreamTypes
    <3>3. oframes' \in [Openers -> {<<>>, <<"STOK">>, <<"STFAIL">>}]
      <4>1. oframes' = oframes \/ oframes' = [oframes EXCEPT ![o] = <<"STOK">>]
        BY <1>4
      <4>2. oframes \in [Openers -> {<<>>, <<"STOK">>, <<"STFAIL">>}]
        BY <1>0 DEF StreamTypes
      <4> QED BY <4>1, <4>2
    <3>4. server' \in [Joiners -> Openers \union {None}]
      <4>1. server' = server \/ server' = [server EXCEPT ![j] = o]
        BY <1>4
      <4>2. server \in [Joiners -> Openers \union {None}]
        BY <1>0 DEF StreamTypes
      <4>3. [server EXCEPT ![j] = o] \in [Joiners -> Openers \union {None}]
        BY <4>2
      <4> QED BY <4>1, <4>2, <4>3
    <3> QED BY <3>1, <3>2, <3>3, <3>4
  <2>2. /\ joiner' \in [Openers -> Joiners \union {None}]
        /\ dest' \in [Openers -> Nodes \union {None}]
        /\ node_streams' \in [Nodes -> SUBSET Sids]
        /\ jw' \in [Joiners -> {"none", "up", "lost", "closed"}]
    BY <1>0, <1>1 DEF StreamTypes
  <2> QED BY <1>0, <1>1, <2>1, <2>2 DEF StreamTypes, StreamFlags
<1>7. TableOK'
  BY <1>0, <1>1, <1>5 DEF TableOK
<1>8. PhaseOK'
  <2> SUFFICES ASSUME NEW p \in Openers
               PROVE  /\ ow'[p] = "none" => state'[p] = "new"
                      /\ state'[p] = "new" => wait'[p] = "none" /\ ~Held(p)' /\ claims'[p] = <<>>
                      /\ state'[p] = "open" => wait'[p] \in {"none", "yield"}
                      /\ state'[p] = "joined" => wait'[p] \in {"claim", "over"}
                      /\ state'[p] = "ready" => wait'[p] \in {"confirm", "verdict", "over", "raised"}
    BY DEF PhaseOK
  <2>1. CASE p = o
    <3>1. \/ state'[o] = "joined" /\ wait'[o] = "claim"
          \/ state'[o] = "ready" /\ wait'[o] \in {"verdict", "confirm"}
      <4>1. \/ /\ state' = [state EXCEPT ![o] = "joined"]
               /\ wait' = [wait EXCEPT ![o] = "claim"]
            \/ /\ state' = [state EXCEPT ![o] = "ready"]
               /\ \E v \in {"verdict", "confirm"} : wait' = [wait EXCEPT ![o] = v]
        BY <1>4
      <4>2. \A v : [state EXCEPT ![o] = v][o] = v /\ [wait EXCEPT ![o] = v][o] = v
        BY <1>0 DEF StreamTypes
      <4> QED BY <4>1, <4>2
    <3>2. ow'[o] # "none"
      BY <1>0, <1>1 DEF PhaseOK
    <3> QED BY <2>1, <3>1, <3>2
  <2>2. CASE p # o
    <3>1. /\ state'[p] = state[p] /\ wait'[p] = wait[p] /\ ow'[p] = ow[p]
      BY <1>0, <1>1, <1>4, <2>2 DEF StreamTypes
    <3>2. claims[p] = <<>> => claims'[p] = <<>>
      OBVIOUS
    <3> QED BY <1>0, <1>5, <3>1, <3>2 DEF PhaseOK
  <2> QED BY <2>1, <2>2
<1>9. ClaimsOK'
  BY <1>0, <1>1, <1>4 DEF ClaimsOK, StreamTypes, Implicit
<1>10. PendingOK'
  <2>1. \A p \in Openers, i \in Joiners : InHand(p, i)' => InHand(p, i)
    <3> SUFFICES ASSUME NEW p \in Openers, NEW i \in Joiners, InHand(p, i)' PROVE InHand(p, i)
      OBVIOUS
    <3>1. CASE winner'[p] = i
      <4>1. p # o
        BY <3>1
      <4> QED BY <3>1, <4>1 DEF InHand
    <3>2. CASE i \in ToSet(claims'[p])
      <4>1. claims'[p] # <<>>
        BY <3>2 DEF ToSet
      <4> QED BY <3>2, <4>1 DEF InHand
    <3> QED BY <3>1, <3>2 DEF InHand
  <2>2. \A i \in Joiners : i # j => server'[i] = server[i]
    BY <1>0, <1>4 DEF StreamTypes
  <2>3. \A i \in Joiners : jw'[i] = "none" => jw[i] = "none" /\ i # j
    BY <1>1
  <2>4. \A i \in Joiners, p \in Openers :
          winner'[p] = i => i \notin ToSet(claims'[p])
    <3> SUFFICES ASSUME NEW i \in Joiners, NEW p \in Openers, winner'[p] = i
                 PROVE  i \notin ToSet(claims'[p])
      OBVIOUS
    <3>1. winner[p] = i
      OBVIOUS
    <3>2. ToSet(<<>>) = {}
      BY DEF ToSet
    <3> QED BY <1>0, <3>1, <3>2 DEF PendingOK
  <2> SUFFICES ASSUME NEW i \in Joiners
               PROVE  /\ jw'[i] = "none" =>
                           server'[i] = None /\ \A p \in Openers : ~InHand(p, i)'
                      /\ \A p \in Openers : InHand(p, i)' => server'[i] = None
                      /\ \A p, q \in Openers : InHand(p, i)' /\ InHand(q, i)' => p = q
                      /\ \A p \in Openers : winner'[p] = i => i \notin ToSet(claims'[p])
    BY DEF PendingOK
  <2>5. CASE i = j
    BY <2>3, <2>4, <2>5
  <2>6. CASE i # j
    BY <1>0, <2>1, <2>2, <2>3, <2>4, <2>6 DEF PendingOK
  <2> QED BY <2>5, <2>6
<1>11. ServerOK'
  BY <1>0, <1>1, <1>4 DEF ServerOK, StreamTypes
<1>12. FramesOK'
  <2> SUFFICES ASSUME NEW p \in Openers
               PROVE  /\ oframes'[p] = <<"STFAIL">> => ow'[p] = "closed"
                      /\ oframes'[p] = <<"STOK">> => state'[p] = "ready"
                      /\ ow'[p] = "none" => oframes'[p] = <<>>
                      /\ wait'[p] \in {"verdict", "raised"} => oframes'[p] = <<"STOK">>
    BY DEF FramesOK
  <2>1. CASE p = o
    <3>1. ow'[o] # "none" /\ oframes[o] # <<"STOK">>
      BY <1>0, <1>1 DEF PhaseOK, FramesOK
    <3>2. CASE state'[o] = "ready" /\ oframes'[o] = <<"STOK">>
      BY <2>1, <3>1, <3>2
    <3>3. CASE oframes'[o] = oframes[o] /\ wait'[o] \notin {"verdict", "raised"}
      BY <1>0, <1>1, <2>1, <3>1, <3>3 DEF FramesOK
    <3> QED BY <1>0, <1>4, <3>2, <3>3 DEF StreamTypes
  <2>2. CASE p # o
    <3>1. /\ state'[p] = state[p] /\ wait'[p] = wait[p] /\ ow'[p] = ow[p]
          /\ oframes'[p] = oframes[p]
      BY <1>0, <1>1, <1>4, <2>2 DEF StreamTypes
    <3> QED BY <1>0, <3>1 DEF FramesOK
  <2> QED BY <2>1, <2>2
<1>13. TeardownOK'
  BY <1>0, <1>1, <1>4, <1>5 DEF TeardownOK, StreamTypes
<1>14. StepKind
  BY DEF StepKind, Grants
<1> QED BY <1>6, <1>7, <1>8, <1>9, <1>10, <1>11, <1>12, <1>13, <1>14 DEF StreamIInv

-----------------------------------------------------------------------------
\* handle_stream_open keeps the invariant.
LEMMA OpenStep ==
  ASSUME StreamIInv, NEW o \in Openers, OpenRefused(o) \/ OpenAccepted(o)
  PROVE  StreamIInv' /\ StepKind
<1>0. StreamTypes /\ StreamFlags /\ TableOK /\ PhaseOK /\ ClaimsOK /\ PendingOK /\ ServerOK
      /\ FramesOK /\ TeardownOK
  BY DEF StreamIInv
<1>a. /\ state[o] = "new" /\ ~Held(o) /\ wait[o] = "none" /\ oframes[o] = <<>>
      /\ claims[o] = <<>> /\ winner[o] = None
  BY <1>0 DEF OpenRefused, OpenAccepted, PhaseOK, FramesOK, ClaimsOK
<1>1. CASE OpenRefused(o)
  <2>1. /\ UNCHANGED <<streams, node_streams, state, dest, joiner, timer, piping, claims, grant,
                      winner, wait, jw, server, said>>
        /\ oframes' = [oframes EXCEPT ![o] = <<"STFAIL">>]
        /\ ow' = [ow EXCEPT ![o] = "closed"]
    BY <1>1 DEF OpenRefused, streamTable, record
  <2>2. \A p \in Openers : Held(p)' <=> Held(p)
    BY <2>1 DEF Held
  <2>3. StreamTypes' /\ StreamFlags'
    BY <1>0, <2>1 DEF StreamTypes, StreamFlags
  <2>4. TableOK' /\ PhaseOK' /\ ClaimsOK'
    BY <1>0, <1>a, <2>1, <2>2 DEF TableOK, PhaseOK, ClaimsOK, StreamTypes, Implicit
  <2>5. PendingOK' /\ ServerOK'
    BY <1>0, <2>1 DEF PendingOK, ServerOK, InHand
  <2>6. FramesOK'
    <3>1. /\ oframes'[o] = <<"STFAIL">> /\ ow'[o] = "closed" /\ wait'[o] \notin {"verdict", "raised"}
          /\ oframes'[o] # <<"STOK">>
      BY <1>0, <1>a, <2>1 DEF StreamTypes
    <3>2. \A p \in Openers : p # o => oframes'[p] = oframes[p] /\ ow'[p] = ow[p]
      BY <1>0, <2>1 DEF StreamTypes
    <3> QED BY <1>0, <2>1, <3>1, <3>2 DEF FramesOK
  <2>7. TeardownOK'
    <3>1. \A p \in Openers : p # o => oframes'[p] = oframes[p]
      BY <1>0, <2>1 DEF StreamTypes
    <3>2. ~timer[o] /\ ~piping[o]
      BY <1>0, <1>a DEF TeardownOK
    <3> QED BY <1>0, <1>a, <2>1, <2>2, <3>1, <3>2 DEF TeardownOK
  <2>8. StepKind
    BY <1>1 DEF StepKind
  <2> QED BY <2>3, <2>4, <2>5, <2>6, <2>7, <2>8 DEF StreamIInv
<1>2. CASE OpenAccepted(o)
  <2>1. /\ UNCHANGED <<joiner, piping, claims, grant, winner, wait, oframes, jw, server, said>>
        /\ streams[SidOf[o]] = None
        /\ ow' = [ow EXCEPT ![o] = "up"]
        /\ state' = [state EXCEPT ![o] = "open"]
        /\ dest' = [dest EXCEPT ![o] = DestOf[o]]
        /\ timer' = [timer EXCEPT ![o] = TRUE]
        /\ streams' = [streams EXCEPT ![SidOf[o]] = o]
        /\ node_streams' = [n \in Nodes |-> IF n \in {OpenerNode[o], DestOf[o]}
                                            THEN node_streams[n] \union {SidOf[o]}
                                            ELSE node_streams[n]]
    BY <1>2 DEF OpenAccepted
  <2>2. \A p \in Openers : Held(p)' <=> Held(p) \/ p = o
    BY <1>0, <2>1 DEF Held, StreamTypes
  <2>3. StreamTypes' /\ StreamFlags'
    BY <1>0, <2>1 DEF StreamTypes, StreamFlags
  <2>4. TableOK'
    BY <1>0, <1>a, <2>1, <2>2 DEF TableOK, StreamTypes
  <2>5. PhaseOK' /\ ClaimsOK'
    BY <1>0, <1>a, <2>1, <2>2 DEF PhaseOK, ClaimsOK, StreamTypes, Implicit
  <2>6. PendingOK'
    BY <1>0, <2>1 DEF PendingOK, InHand
  <2>7. ServerOK'
    BY <1>0, <1>a, <2>1 DEF ServerOK, StreamTypes
  <2>8. FramesOK'
    <3>1. oframes'[o] # <<"STFAIL">> /\ oframes'[o] # <<"STOK">> /\ wait'[o] \notin {"verdict", "raised"}
      <4>1. oframes'[o] = <<>> /\ wait'[o] = "none"
        BY <1>a, <2>1
      <4>2. <<>> # <<"STFAIL">> /\ <<>> # <<"STOK">>
        OBVIOUS
      <4> QED BY <4>1, <4>2
    <3>2. ow'[o] # "none"
      BY <1>0, <2>1 DEF StreamTypes
    <3>3. \A p \in Openers : p # o => state'[p] = state[p] /\ ow'[p] = ow[p]
      BY <1>0, <2>1 DEF StreamTypes
    <3> QED BY <1>0, <2>1, <3>1, <3>2, <3>3 DEF FramesOK
  <2>9. TeardownOK'
    BY <1>0, <1>a, <2>1, <2>2 DEF TeardownOK, StreamTypes, StreamFlags
  <2>10. StepKind
    BY <1>2 DEF StepKind
  <2> QED BY <2>3, <2>4, <2>5, <2>6, <2>7, <2>8, <2>9, <2>10 DEF StreamIInv
<1> QED BY <1>1, <1>2

\* handle_stream_join keeps it.
LEMMA JoinStep ==
  ASSUME StreamIInv, NEW j \in Joiners, Join(j)
  PROVE  StreamIInv' /\ StepKind
<1>0. StreamTypes /\ StreamFlags /\ TableOK /\ PhaseOK /\ ClaimsOK /\ PendingOK /\ ServerOK
      /\ FramesOK /\ TeardownOK
  BY DEF StreamIInv
<1>a. /\ jw[j] = "none" /\ JSid[j] \in Sids
      /\ server[j] = None /\ \A o \in Openers : ~InHand(o, j)
  BY <1>0 DEF Join, JoinUnknown, JoinBusy, JoinClaim, JoinGrant, PendingOK
<1>1. CASE JoinUnknown(j) \/ JoinBusy(j)
  <2>1. /\ UNCHANGED <<streams, node_streams, state, dest, joiner, timer, piping, claims, grant,
                      winner, wait, ow, oframes, server, said>>
        /\ jw' = [jw EXCEPT ![j] = "closed"]
    BY <1>1 DEF JoinUnknown, JoinBusy, streamTable, record
  <2>2. StreamTypes' /\ StreamFlags'
    BY <1>0, <2>1 DEF StreamTypes, StreamFlags
  <2>3. TableOK' /\ PhaseOK' /\ ClaimsOK'
    BY <1>0, <2>1 DEF TableOK, PhaseOK, ClaimsOK, Held, Implicit
  <2>4. PendingOK'
    BY <1>0, <2>1 DEF PendingOK, InHand, StreamTypes
  <2>5. ServerOK' /\ FramesOK' /\ TeardownOK'
    BY <1>0, <2>1 DEF ServerOK, FramesOK, TeardownOK, Held
  <2>6. StepKind
    BY <2>1 DEF StepKind, Unseen
  <2> QED BY <2>2, <2>3, <2>4, <2>5, <2>6 DEF StreamIInv
<1>2. CASE JoinClaim(j)
  <2>1. PICK o \in Openers : /\ o = streams[JSid[j]] /\ SidOf[o] = JSid[j] /\ Held(o)
                              /\ state[o] = "open" /\ Implicit(o)
    BY <1>0, <1>2, <1>a DEF JoinClaim, InState, TableOK, StreamTypes, Held
  <2>2. /\ UNCHANGED <<streams, node_streams, state, dest, joiner, timer, piping,
                      winner, wait, ow, oframes, server, said>>
        /\ claims' = [claims EXCEPT ![o] = Append(@, j)]
        /\ grant' = [grant EXCEPT ![o] = IF @ = "none" THEN "sleep" ELSE @]
        /\ jw' = [jw EXCEPT ![j] = "up"]
    BY <1>2, <2>1 DEF JoinClaim, streamTable, record
  <2>3. claims[o] \in Seq(Joiners) /\ Append(claims[o], j) \in Seq(Joiners)
    BY <1>0, <2>1 DEF StreamTypes
  <2>4. StreamTypes' /\ StreamFlags'
    <3>1. /\ claims' \in [Openers -> Seq(Joiners)]
          /\ grant' \in [Openers -> {"none", "sleep", "over"}]
          /\ jw' \in [Joiners -> {"none", "up", "lost", "closed"}]
      BY <1>0, <2>1, <2>2, <2>3 DEF StreamTypes
    <3> QED BY <1>0, <2>2, <3>1 DEF StreamTypes, StreamFlags
  <2>5. TableOK'
    BY <1>0, <2>2 DEF TableOK, Held
  <2>6. \A p \in Openers : p # o => claims'[p] = claims[p]
    BY <1>0, <2>2 DEF StreamTypes
  <2>7. PhaseOK' /\ ClaimsOK'
    BY <1>0, <2>1, <2>2, <2>6 DEF PhaseOK, ClaimsOK, Held, Implicit
  <2>8. \A p \in Openers, i \in Joiners : InHand(p, i)' <=> InHand(p, i) \/ (p = o /\ i = j)
    <3>1. ToSet(claims'[o]) = ToSet(claims[o]) \union {j}
      <4>1. claims'[o] = Append(claims[o], j)
        BY <1>0, <2>1, <2>2 DEF StreamTypes
      <4> QED BY <2>3, <4>1, AppendElements
    <3> SUFFICES ASSUME NEW p \in Openers, NEW i \in Joiners
                 PROVE  InHand(p, i)' <=> InHand(p, i) \/ (p = o /\ i = j)
      OBVIOUS
    <3>2. winner'[p] = winner[p]
      BY <2>2
    <3>3. i \in ToSet(claims'[p]) <=> i \in ToSet(claims[p]) \/ (p = o /\ i = j)
      <4>1. CASE p = o
        BY <3>1, <4>1
      <4>2. CASE p # o
        <5>1. claims'[p] = claims[p]
          BY <2>6, <4>2
        <5> QED BY <4>2, <5>1
      <4> QED BY <4>1, <4>2
    <3> QED BY <3>2, <3>3 DEF InHand
  <2>9. PendingOK'
    <3>1. \A i \in Joiners : jw'[i] = "none" => jw[i] = "none" /\ i # j
      BY <1>0, <2>2 DEF StreamTypes
    <3>2. \A i \in Joiners, p \in Openers :
            winner'[p] = i => i \notin ToSet(claims'[p])
      <4>1. \A i \in Joiners, p \in Openers : winner[p] = i => i # j
        BY <1>a DEF InHand
      <4>2. ToSet(claims'[o]) = ToSet(claims[o]) \union {j}
        <5>1. claims'[o] = Append(claims[o], j)
          BY <1>0, <2>1, <2>2 DEF StreamTypes
        <5> QED BY <2>3, <5>1, AppendElements
      <4> QED BY <1>0, <2>2, <2>6, <4>1, <4>2 DEF PendingOK
    <3> QED BY <1>0, <1>a, <2>1, <2>2, <2>8, <3>1, <3>2 DEF PendingOK
  <2>10. ServerOK' /\ FramesOK' /\ TeardownOK'
    BY <1>0, <2>2 DEF ServerOK, FramesOK, TeardownOK, Held
  <2>11. StepKind
    BY <2>2 DEF StepKind, Unseen
  <2> QED BY <2>4, <2>5, <2>7, <2>9, <2>10, <2>11 DEF StreamIInv
<1>3. CASE JoinGrant(j)
  <2>1. PICK o \in Openers : /\ o = streams[JSid[j]] /\ SidOf[o] = JSid[j] /\ Held(o)
                              /\ state[o] = "open" /\ ~Implicit(o)
    BY <1>0, <1>3, <1>a DEF JoinGrant, InState, TableOK, StreamTypes, Held
  <2>2. GrantClaim(o, j, "up", {}) /\ UNCHANGED <<claims, grant, winner, said>>
    BY <1>3, <2>1 DEF JoinGrant
  <2>3. winner[o] = None
    BY <1>0, <2>1 DEF ClaimsOK
  <2>4. CASE dest[o] = None \/ JNode[j] = dest[o]
    <3>1. \A p \in Openers : ~InHand(p, j)'
      BY <1>a, <2>2 DEF InHand
    <3>2. /\ grant' \in [Openers -> {"none", "sleep", "over"}]
          /\ claims' \in [Openers -> Seq(Joiners)]
          /\ winner' \in [Openers -> Joiners \union {None}]
      BY <1>0, <2>2 DEF StreamTypes
    <3>3. UNCHANGED said /\ winner'[o] = None /\ state[o] = "open" /\ server[j] = None
      BY <1>a, <2>1, <2>2, <2>3
    <3>4. /\ \A p \in Openers : p # o => winner'[p] = winner[p]
          /\ \A p \in Openers : claims'[p] = claims[p] \/ claims'[p] = <<>>
      BY <2>2
    <3>5. "up" \in {"up", "lost", "closed"} /\ {} \in SUBSET Joiners
      OBVIOUS
    <3>6. GrantClaim(o, j, "up", {}) /\ o \in Openers
      BY <2>1, <2>2
    <3>7. Handed(o, j)
      BY <2>4, <3>1, <3>2, <3>3, <3>4 DEF Handed
    <3> QED BY <3>5, <3>6, <3>7, GrantInv
  <2>5. CASE ~(dest[o] = None \/ JNode[j] = dest[o])
    <3>1. StreamFail(o, {j}) /\ UNCHANGED <<state, dest, joiner, wait, server>>
      BY <2>2, <2>5 DEF GrantClaim
    <3>2. Retired({o})
      BY <2>1, <3>1, FailRetires DEF Held
    <3> QED BY <1>0, <2>1, <2>2, <3>1, <3>2, RetireInv DEF StreamTypes
  <2> QED BY <2>4, <2>5
<1> QED BY <1>1, <1>2, <1>3 DEF Join

\* The grant task keeps it when the grace ends.
LEMMA GrantWakeStep ==
  ASSUME StreamIInv, NEW t \in Openers, GrantWake(t)
  PROVE  StreamIInv' /\ StepKind
<1>0. StreamTypes /\ StreamFlags /\ TableOK /\ PhaseOK /\ ClaimsOK /\ PendingOK /\ ServerOK
      /\ FramesOK /\ TeardownOK
  BY DEF StreamIInv
<1>1. CASE UNCHANGED <<streamTable, record, claims, winner, wait, conns>>
  <2>1. grant' \in [Openers -> {"none", "sleep", "over"}]
    <3>1. \/ grant' = [grant EXCEPT ![t] = "over"]
          \/ grant' = [grant EXCEPT ![t] = "over", ![streams[SidOf[t]]] = "none"]
      BY DEF GrantWake
    <3> QED BY <1>0, <3>1 DEF StreamTypes
  <2>2. UNCHANGED <<streams, node_streams, state, dest, joiner, timer, piping, claims, winner,
                    wait, ow, oframes, jw, verdict, server, said>>
    BY <1>1 DEF GrantWake, streamTable, record, conns
  <2>3. Retired({})
    BY <1>0, <2>2 DEF Retired, StreamTypes, StreamFlags
  <2> QED BY <1>0, <2>1, <2>2, <2>3, RetireInv DEF StreamTypes
<1>2. CASE ~UNCHANGED <<streamTable, record, claims, winner, wait, conns>>
  <2>1. InState(SidOf[t], {"open"}) /\ ~Yielding(SidOf[t]) /\ claims[streams[SidOf[t]]] # <<>>
    BY <1>2 DEF GrantWake
  <2>2. PICK o \in Openers : o = streams[SidOf[t]] /\ SidOf[o] = SidOf[t]
    BY <1>0, <2>1 DEF InState, TableOK, StreamTypes
  <2>3. /\ Held(o) /\ state[o] = "open" /\ claims[o] # <<>> /\ wait[o] # "yield"
        /\ Implicit(o) /\ dest[o] = None /\ winner[o] = None
    BY <1>0, <2>1, <2>2 DEF InState, Held, Yielding, ClaimsOK
  <2>4. GrantBest(o)
    BY <1>2, <2>2 DEF GrantWake
  <2>5. /\ claims' = [claims EXCEPT ![o] = <<>>]
        /\ grant' = [grant EXCEPT ![t] = "over", ![o] = "none"]
        /\ UNCHANGED said
    BY <1>2, <2>2 DEF GrantWake
  <2>6. PICK best \in DOMAIN claims[o] :
          LET w == claims[o][best]
              losers == {claims[o][i] : i \in DOMAIN claims[o]} \ {w}
          IN  \/ /\ GrantClaim(o, w, jw[w], losers)
                 /\ UNCHANGED winner
              \/ /\ winner' = [winner EXCEPT ![o] = w]
                 /\ wait' = [wait EXCEPT ![o] = "yield"]
                 /\ jw' = [l \in Joiners |-> IF l \in losers THEN "closed" ELSE jw[l]]
                 /\ UNCHANGED <<streamTable, record, ow, oframes, server>>
    BY <2>4 DEF GrantBest
  <2>7. /\ claims[o][best] \in Joiners
        /\ {claims[o][i] : i \in DOMAIN claims[o]} \ {claims[o][best]} \in SUBSET Joiners
    <3>1. claims[o] \in Seq(Joiners)
      BY <1>0 DEF StreamTypes
    <3> QED BY <3>1
  <2>8. PICK w \in Joiners, losers \in SUBSET Joiners :
          /\ w = claims[o][best]
          /\ \/ /\ GrantClaim(o, w, jw[w], losers)
                /\ UNCHANGED winner
             \/ /\ winner' = [winner EXCEPT ![o] = w]
                /\ wait' = [wait EXCEPT ![o] = "yield"]
                /\ jw' = [l \in Joiners |-> IF l \in losers THEN "closed" ELSE jw[l]]
                /\ UNCHANGED <<streamTable, record, ow, oframes, server>>
    BY <2>6, <2>7
  <2>9. InHand(o, w) /\ jw[w] \in {"up", "lost", "closed"} /\ server[w] = None
    <3>1. w \in ToSet(claims[o])
      BY <2>8 DEF ToSet
    <3>2. InHand(o, w)
      BY <3>1 DEF InHand
    <3> QED BY <1>0, <3>2 DEF PendingOK, StreamTypes
  <2>10. /\ grant' \in [Openers -> {"none", "sleep", "over"}]
         /\ claims' \in [Openers -> Seq(Joiners)]
    <3>1. <<>> \in Seq(Joiners)
      OBVIOUS
    <3>2. claims' \in [Openers -> Seq(Joiners)]
      BY <1>0, <2>5, <3>1 DEF StreamTypes
    <3>3. grant' \in [Openers -> {"none", "sleep", "over"}]
      BY <1>0, <2>5 DEF StreamTypes
    <3> QED BY <3>2, <3>3
  <2>11. /\ \A p \in Openers : p # o => claims'[p] = claims[p]
         /\ claims'[o] = <<>> /\ ToSet(claims'[o]) = {}
    BY <1>0, <2>5 DEF StreamTypes, ToSet
  <2>12. CASE GrantClaim(o, w, jw[w], losers) /\ UNCHANGED winner
    <3>1. \A p \in Openers : ~InHand(p, w)'
      <4>1. ~InHand(o, w)'
        BY <2>3, <2>11, <2>12 DEF InHand
      <4>2. ASSUME NEW p \in Openers, p # o PROVE ~InHand(p, w)'
        <5>1. ~InHand(p, w)
          BY <1>0, <2>9, <4>2 DEF PendingOK
        <5> QED BY <2>11, <2>12, <4>2, <5>1 DEF InHand
      <4> QED BY <4>1, <4>2
    <3>2. /\ winner' \in [Openers -> Joiners \union {None}]
          /\ winner'[o] = None
          /\ \A p \in Openers : p # o => winner'[p] = winner[p]
          /\ \A p \in Openers : claims'[p] = claims[p] \/ claims'[p] = <<>>
      BY <1>0, <2>3, <2>11, <2>12 DEF StreamTypes
    <3>3. PICK cs \in {"up", "lost", "closed"} : cs = jw[w]
      BY <2>9
    <3>4. GrantClaim(o, w, cs, losers) /\ UNCHANGED said
      BY <2>5, <2>12, <3>3
    <3>5. Handed(o, w)
      BY <2>3, <2>9, <2>10, <3>1, <3>2, <3>4 DEF Handed
    <3> QED BY <3>4, <3>5, GrantInv
  <2>13. CASE /\ winner' = [winner EXCEPT ![o] = w]
              /\ wait' = [wait EXCEPT ![o] = "yield"]
              /\ jw' = [l \in Joiners |-> IF l \in losers THEN "closed" ELSE jw[l]]
              /\ UNCHANGED <<streamTable, record, ow, oframes, server>>
    <3>1. UNCHANGED <<streams, node_streams, state, dest, joiner, timer, piping, ow, oframes,
                      server, said>>
      BY <2>5, <2>13 DEF streamTable, record
    <3>2. StreamTypes' /\ StreamFlags'
      <4>1. /\ winner' \in [Openers -> Joiners \union {None}]
            /\ wait' \in [Openers -> {"none", "yield", "claim", "confirm", "verdict", "over",
                          "raised"}]
            /\ jw' \in [Joiners -> {"none", "up", "lost", "closed"}]
        BY <1>0, <2>13 DEF StreamTypes
      <4> QED BY <1>0, <2>10, <3>1, <4>1 DEF StreamTypes, StreamFlags
    <3>3. TableOK'
      BY <1>0, <3>1 DEF TableOK, Held
    <3>4. PhaseOK'
      <4>1. \A p \in Openers : p # o => wait'[p] = wait[p] /\ claims'[p] = claims[p]
        BY <1>0, <2>11, <2>13 DEF StreamTypes
      <4>2. wait'[o] = "yield"
        BY <1>0, <2>13 DEF StreamTypes
      <4> QED BY <1>0, <2>3, <3>1, <4>1, <4>2 DEF PhaseOK, Held
    <3>5. ClaimsOK'
      BY <1>0, <2>3, <2>11, <2>13, <3>1 DEF ClaimsOK, Implicit, StreamTypes
    <3>6. PendingOK'
      <4>1. \A p \in Openers : p # o => winner'[p] = winner[p] /\ claims'[p] = claims[p]
        BY <1>0, <2>11, <2>13 DEF StreamTypes
      <4>2. winner'[o] = w
        BY <1>0, <2>13 DEF StreamTypes
      <4>3. \A p \in Openers, i \in Joiners : InHand(p, i)' => InHand(p, i)
        <5> SUFFICES ASSUME NEW p \in Openers, NEW i \in Joiners, InHand(p, i)'
                     PROVE  InHand(p, i)
          OBVIOUS
        <5>1. CASE p = o
          <6>1. i = w
            BY <2>11, <4>2, <5>1 DEF InHand
          <6> QED BY <2>9, <5>1, <6>1
        <5>2. CASE p # o
          BY <4>1, <5>2 DEF InHand
        <5> QED BY <5>1, <5>2
      <4>4. \A i \in Joiners : jw'[i] = "none" => jw[i] = "none"
        BY <2>13
      <4>5. \A i \in Joiners, p \in Openers : winner'[p] = i => i \notin ToSet(claims'[p])
        BY <1>0, <2>11, <4>1 DEF PendingOK
      <4> QED BY <1>0, <3>1, <4>3, <4>4, <4>5 DEF PendingOK
    <3>7. ServerOK' /\ FramesOK'
      BY <1>0, <2>13, <3>1 DEF ServerOK, FramesOK, StreamTypes
    <3>8. TeardownOK'
      BY <1>0, <2>3, <2>13, <3>1 DEF TeardownOK, Held, StreamTypes
    <3>9. StepKind
      BY <3>1 DEF StepKind, Unseen
    <3> QED BY <3>2, <3>3, <3>4, <3>5, <3>6, <3>7, <3>8, <3>9 DEF StreamIInv
  <2> QED BY <2>8, <2>12, <2>13
<1> QED BY <1>1, <1>2

\* The tasks of the handshake keep it.
LEMMA HandshakeStep ==
  ASSUME StreamIInv, NEW o \in Openers, Handshake(o)
  PROVE  StreamIInv' /\ StepKind
<1>0. StreamTypes /\ StreamFlags /\ TableOK /\ PhaseOK /\ ClaimsOK /\ PendingOK /\ ServerOK
      /\ FramesOK /\ TeardownOK
  BY DEF StreamIInv
<1>1. CASE GrantWake(o)
  BY <1>1, GrantWakeStep
<1>2. CASE GrantResume(o)
  <2>1. PICK j \in Joiners : j = winner[o]
    BY <1>0, <1>2 DEF GrantResume, ClaimsOK, StreamTypes
  <2>2. state[o] = "open" /\ dest[o] = None
    BY <1>0, <1>2 DEF GrantResume, ClaimsOK, PhaseOK, StreamTypes
  <2>3. InHand(o, j) /\ server[j] = None /\ jw[j] \in {"up", "lost", "closed"}
    BY <1>0, <2>1 DEF InHand, PendingOK, StreamTypes
  <2>4. PICK cs \in {"up", "lost", "closed"} : cs = jw[j]
    BY <2>3
  <2>5. GrantClaim(o, j, cs, {}) /\ UNCHANGED <<said, claims, grant>>
    BY <1>2, <2>1, <2>4 DEF GrantResume
  <2>6. winner' = [winner EXCEPT ![o] = None]
    BY <1>2 DEF GrantResume
  <2>7. /\ winner' \in [Openers -> Joiners \union {None}]
        /\ winner'[o] = None
        /\ \A p \in Openers : p # o => winner'[p] = winner[p]
        /\ \A p \in Openers : claims'[p] = claims[p] \/ claims'[p] = <<>>
        /\ claims' \in [Openers -> Seq(Joiners)]
        /\ grant' \in [Openers -> {"none", "sleep", "over"}]
    BY <1>0, <2>5, <2>6 DEF StreamTypes
  <2>8. \A p \in Openers : ~InHand(p, j)'
    <3>1. ~InHand(o, j)'
      BY <1>0, <2>1, <2>5, <2>7 DEF PendingOK, InHand
    <3>2. ASSUME NEW p \in Openers, p # o PROVE ~InHand(p, j)'
      <4>1. ~InHand(p, j)
        BY <1>0, <2>3, <3>2 DEF PendingOK
      <4> QED BY <2>5, <2>7, <3>2, <4>1 DEF InHand
    <3> QED BY <3>1, <3>2
  <2>9. PICK losers \in SUBSET Joiners : losers = {}
    OBVIOUS
  <2>10. UNCHANGED said /\ GrantClaim(o, j, cs, losers)
    BY <2>5, <2>9
  <2>11. Handed(o, j)
    BY <2>2, <2>3, <2>7, <2>8, <2>10 DEF Handed
  <2> QED BY <2>10, <2>11, GrantInv
<1>3. CASE SendFailed(o) \/ BridgeLost(o)
  <2>1. /\ wait[o] \in {"claim", "confirm", "verdict"}
        /\ wait' = [wait EXCEPT ![o] = "over"]
        /\ StreamFail(o, {})
        /\ UNCHANGED <<state, dest, joiner, claims, grant, winner, server, said>>
    BY <1>3 DEF SendFailed, BridgeLost
  <2>2. Retired({streams[SidOf[o]]} \ {None})
    BY <2>1, FailRetires
  <2>3. PICK G \in SUBSET Openers : G = {streams[SidOf[o]]} \ {None}
    <3>1. streams[SidOf[o]] \in Openers \union {None}
      BY <1>0 DEF StreamTypes
    <3>2. {streams[SidOf[o]]} \ {None} \in SUBSET Openers
      BY <3>1
    <3> QED BY <3>2
  <2>4. \A p \in G : Held(p)
    BY <1>0, <2>3 DEF Held, TableOK, StreamTypes
  <2>5. Held(o) => o \in G
    BY <2>3 DEF Held
  <2>6. /\ wait' \in [Openers -> {"none", "yield", "claim", "confirm", "verdict", "over",
                          "raised"}]
        /\ \A p \in Openers : p # o => wait'[p] = wait[p]
        /\ wait'[o] = "over"
    BY <1>0, <2>1 DEF StreamTypes
  <2>7. grant' \in [Openers -> {"none", "sleep", "over"}]
    BY <1>0, <2>1 DEF StreamTypes
  <2>8. Retired(G)
    BY <2>2, <2>3
  <2> QED BY <2>1, <2>4, <2>5, <2>6, <2>7, <2>8, RetireInv
<1>4. CASE Bridged(o)
  <2>1. /\ wait[o] = "verdict" /\ said[joiner[o]] = "STJOINED"
        /\ wait' = [wait EXCEPT ![o] = "over"]
        /\ timer' = [timer EXCEPT ![o] = FALSE]
        /\ piping' = [piping EXCEPT ![o] = streams[SidOf[o]] = o]
        /\ UNCHANGED <<streams, node_streams, state, dest, joiner, claims, grant, winner,
                      ow, oframes, jw, verdict, server, said>>
    BY <1>4 DEF Bridged, streamTable, conns
  <2>2. state[o] = "ready" /\ oframes[o] = <<"STOK">>
    BY <1>0, <2>1 DEF PhaseOK, FramesOK, StreamTypes
  <2>3. StreamTypes' /\ StreamFlags'
    BY <1>0, <2>1 DEF StreamTypes, StreamFlags
  <2>4. TableOK' /\ PhaseOK' /\ ClaimsOK'
    BY <1>0, <2>1, <2>2 DEF TableOK, PhaseOK, ClaimsOK, Held, Implicit, StreamTypes
  <2>5. PendingOK' /\ ServerOK'
    BY <1>0, <2>1 DEF PendingOK, ServerOK, InHand
  <2>6. FramesOK'
    BY <1>0, <2>1, <2>2 DEF FramesOK, StreamTypes
  <2>7. TeardownOK'
    <3>1. \A p \in Openers : Held(p)' <=> Held(p)
      BY <2>1 DEF Held
    <3>2. wait'[o] = "over" /\ ~timer'[o] /\ (piping'[o] <=> Held(o))
      <4>1. wait'[o] = "over"
        BY <1>0, <2>1 DEF StreamTypes
      <4>2. ~timer'[o] /\ (piping'[o] <=> Held(o))
        BY <1>0, <2>1 DEF StreamFlags, Held
      <4> QED BY <4>1, <4>2
    <3>3. \A p \in Openers : p # o => /\ wait'[p] = wait[p] /\ timer'[p] = timer[p]
                                      /\ piping'[p] = piping[p]
      BY <1>0, <2>1 DEF StreamTypes, StreamFlags
    <3> QED BY <1>0, <2>1, <2>2, <3>1, <3>2, <3>3 DEF TeardownOK
  <2>8. StepKind
    BY <2>1 DEF StepKind, Unseen
  <2> QED BY <2>3, <2>4, <2>5, <2>6, <2>7, <2>8 DEF StreamIInv
<1>5. CASE Timeout(o)
  <2>1. /\ timer[o] /\ Held(o)
        /\ UNCHANGED <<state, dest, joiner, claims, grant, winner, wait, server, said>>
    BY <1>0, <1>5 DEF Timeout, TeardownOK
  <2>2. CASE StreamFail(o, {})
    <3>1. Retired({o})
      BY <2>1, <2>2, FailRetires DEF Held
    <3> QED BY <1>0, <2>1, <3>1, RetireInv DEF StreamTypes
  <2>3. CASE /\ ~InState(SidOf[o], {"open", "joined"})
             /\ timer' = [timer EXCEPT ![o] = FALSE]
             /\ UNCHANGED <<streamTable, piping, ow, oframes, jw>>
    <3>1. state[o] = "ready"
      BY <1>0, <2>1, <2>3 DEF InState, Held, PhaseOK, StreamTypes
    <3>2. UNCHANGED <<streams, node_streams, piping, ow, oframes, jw>>
      BY <2>3 DEF streamTable
    <3>3. StreamTypes' /\ StreamFlags'
      BY <1>0, <2>1, <2>3, <3>2 DEF StreamTypes, StreamFlags
    <3>4. TableOK' /\ PhaseOK' /\ ClaimsOK'
      BY <1>0, <2>1, <3>2 DEF TableOK, PhaseOK, ClaimsOK, Held, Implicit
    <3>5. PendingOK' /\ ServerOK' /\ FramesOK'
      BY <1>0, <2>1, <3>2 DEF PendingOK, ServerOK, FramesOK, InHand
    <3>6. TeardownOK'
      BY <1>0, <2>1, <2>3, <3>1, <3>2 DEF TeardownOK, Held, StreamFlags
    <3>7. StepKind
      BY <2>1, <3>2 DEF StepKind, Unseen
    <3> QED BY <3>3, <3>4, <3>5, <3>6, <3>7 DEF StreamIInv
  <2> QED BY <1>5, <2>1, <2>2, <2>3 DEF Timeout, Held
<1>6. CASE BridgeRaised(o)
  <2>1. /\ wait[o] = "verdict"
        /\ wait' = [wait EXCEPT ![o] = "raised"]
        /\ UNCHANGED <<streams, node_streams, state, dest, joiner, timer, piping, claims, grant,
                      winner, ow, oframes, verdict, server, said>>
    BY <1>6 DEF BridgeRaised, streamTable, record
  <2>2. state[o] = "ready" /\ joiner[o] \in Joiners /\ oframes[o] = <<"STOK">>
    BY <1>0, <2>1 DEF PhaseOK, FramesOK, ServerOK, StreamTypes
  <2>3. PICK left \in {jw[joiner[o]], "closed"} : jw' = [jw EXCEPT ![joiner[o]] = left]
    BY <1>6 DEF BridgeRaised
  <2>4. /\ jw' \in [Joiners -> {"none", "up", "lost", "closed"}]
        /\ \A j \in Joiners : jw'[j] = jw[j] \/ j = joiner[o]
    BY <1>0, <2>2, <2>3 DEF StreamTypes
  <2>5. /\ wait'[o] = "raised"
        /\ \A p \in Openers : p # o => wait'[p] = wait[p]
    BY <1>0, <2>1 DEF StreamTypes
  <2>6. StreamTypes' /\ StreamFlags'
    BY <1>0, <2>1, <2>4 DEF StreamTypes, StreamFlags
  <2>7. TableOK' /\ ClaimsOK'
    BY <1>0, <2>1, <2>5 DEF TableOK, ClaimsOK, Held, Implicit
  <2>8. PhaseOK' /\ FramesOK'
    BY <1>0, <2>1, <2>2, <2>5 DEF PhaseOK, FramesOK, Held
  <2>9. PendingOK' /\ ServerOK'
    <3>1. ServerOK'
      BY <1>0, <2>1 DEF ServerOK
    <3>2. jw[joiner[o]] # "none"
      BY <1>0, <2>2, <1>6 DEF ServerOK, PendingOK
    <3>3. \A j \in Joiners : jw'[j] = "none" => jw[j] = "none"
      BY <2>4, <2>3, <3>2, <1>0, <2>2 DEF StreamTypes
    <3> QED BY <1>0, <2>1, <3>1, <3>3 DEF PendingOK, InHand
  <2>10. TeardownOK'
    BY <1>0, <2>1, <2>2, <2>5 DEF TeardownOK, Held
  <2>11. StepKind
    BY <2>1 DEF StepKind, Unseen
  <2> QED BY <2>6, <2>7, <2>8, <2>9, <2>10, <2>11 DEF StreamIInv
<1> QED BY <1>1, <1>2, <1>3, <1>4, <1>5, <1>6 DEF Handshake

\* The pipe, the peers and the node table keep it.
LEMMA OthersStep ==
  ASSUME StreamIInv,
         \/ \E o \in Openers : PipeEnd(o) \/ OpenerLost(o)
         \/ \E j \in Joiners : Answer(j) \/ JoinerLost(j)
         \/ \E n \in Nodes : NodeGone(n) \/ NodePruned(n) \/ NodeBack(n)
         \/ UNCHANGED streamVars
  PROVE  StreamIInv' /\ StepKind
<1>0. StreamTypes /\ StreamFlags /\ TableOK /\ PhaseOK /\ ClaimsOK /\ PendingOK /\ ServerOK
      /\ FramesOK /\ TeardownOK
  BY DEF StreamIInv
<1>1. ASSUME NEW o \in Openers, PipeEnd(o) PROVE StreamIInv' /\ StepKind
  <2>1. /\ Held(o) /\ StreamPop(SidOf[o], {}) /\ SidOf[o] \in Sids
        /\ UNCHANGED <<state, dest, joiner, claims, grant, winner, wait, oframes, server, said>>
    BY <1>0, <1>1 DEF PipeEnd, TeardownOK
  <2>2. Retired({o})
    <3>1. /\ oframes' \in [Openers -> {<<>>, <<"STOK">>, <<"STFAIL">>}]
          /\ \A q \in Openers : oframes'[q] = oframes[q]
      BY <1>0, <2>1 DEF StreamTypes
    <3>2. streams[SidOf[o]] = o /\ o # None
      BY <2>1 DEF Held
    <3>3. Retired({streams[SidOf[o]]} \ {None})
      <4>1. \A q \in Openers :
              oframes'[q] # oframes[q] => /\ q = streams[SidOf[o]] /\ state[q] # "ready"
                                          /\ oframes[q] = <<>> /\ oframes'[q] = <<"STFAIL">>
        BY <3>1
      <4>2. PICK J \in SUBSET Joiners : J = {}
        OBVIOUS
      <4>3. StreamPop(SidOf[o], J)
        BY <2>1, <4>2
      <4> QED BY <2>1, <3>1, <4>1, <4>3, PopRetires
    <3>4. {streams[SidOf[o]]} \ {None} = {o}
      BY <3>2
    <3> QED BY <3>3, <3>4
  <2> QED BY <1>0, <2>1, <2>2, RetireInv DEF StreamTypes
<1>2. ASSUME NEW o \in Openers, OpenerLost(o) PROVE StreamIInv' /\ StepKind
  <2>1. /\ ow[o] = "up" /\ ow' = [ow EXCEPT ![o] = "lost"]
        /\ UNCHANGED <<streams, node_streams, state, dest, joiner, timer, piping, claims, grant,
                      winner, wait, oframes, jw, server, said>>
    BY <1>2 DEF OpenerLost, streamTable, record
  <2>2. StreamTypes' /\ StreamFlags'
    BY <1>0, <2>1 DEF StreamTypes, StreamFlags
  <2>3. TableOK' /\ PhaseOK' /\ ClaimsOK'
    BY <1>0, <2>1 DEF TableOK, PhaseOK, ClaimsOK, Held, Implicit, StreamTypes
  <2>4. PendingOK' /\ ServerOK' /\ TeardownOK'
    BY <1>0, <2>1 DEF PendingOK, ServerOK, TeardownOK, Held, InHand
  <2>5. FramesOK'
    BY <1>0, <2>1 DEF FramesOK, StreamTypes
  <2>6. StepKind
    BY <1>0, <2>1 DEF StepKind, Unseen, StreamTypes
  <2> QED BY <2>2, <2>3, <2>4, <2>5, <2>6 DEF StreamIInv
<1>3. ASSUME NEW j \in Joiners, Answer(j) PROVE StreamIInv' /\ StepKind
  <2>1. PICK a \in {"STJOINED", "STFAIL"} : said' = [said EXCEPT ![j] = a]
    BY <1>3 DEF Answer
  <2>2. /\ said[j] = "nothing"
        /\ UNCHANGED <<streams, node_streams, state, dest, joiner, timer, piping, claims, grant,
                      winner, wait, ow, oframes, jw, server>>
    BY <1>3 DEF Answer, streamTable, record, conns
  <2>3. StreamTypes' /\ StreamFlags'
    BY <1>0, <2>1, <2>2 DEF StreamTypes, StreamFlags
  <2>4. TableOK' /\ PhaseOK' /\ ClaimsOK'
    BY <1>0, <2>2 DEF TableOK, PhaseOK, ClaimsOK, Held, Implicit
  <2>5. PendingOK' /\ ServerOK' /\ FramesOK'
    BY <1>0, <2>2 DEF PendingOK, ServerOK, FramesOK, InHand
  <2>6. TeardownOK'
    <3>1. \A i \in Joiners : said[i] = "STJOINED" => said'[i] = "STJOINED"
      BY <1>0, <2>1, <2>2 DEF StreamTypes
    <3>2. \A p \in Openers : piping[p] => joiner[p] \in Joiners
      BY <1>0 DEF TeardownOK, ServerOK, StreamTypes
    <3> QED BY <1>0, <2>2, <3>1, <3>2 DEF TeardownOK, Held
  <2>7. StepKind
    BY <2>2 DEF StepKind, Unseen
  <2> QED BY <2>3, <2>4, <2>5, <2>6, <2>7 DEF StreamIInv
<1>4. ASSUME NEW j \in Joiners, JoinerLost(j) PROVE StreamIInv' /\ StepKind
  <2>1. /\ jw[j] = "up" /\ jw' = [jw EXCEPT ![j] = "lost"]
        /\ UNCHANGED <<streams, node_streams, state, dest, joiner, timer, piping, claims, grant,
                      winner, wait, ow, oframes, server, said>>
    BY <1>4 DEF JoinerLost, streamTable, record
  <2>2. StreamTypes' /\ StreamFlags'
    BY <1>0, <2>1 DEF StreamTypes, StreamFlags
  <2>3. TableOK' /\ PhaseOK' /\ ClaimsOK' /\ ServerOK' /\ FramesOK' /\ TeardownOK'
    BY <1>0, <2>1
       DEF TableOK, PhaseOK, ClaimsOK, ServerOK, FramesOK, TeardownOK, Held, Implicit
  <2>4. PendingOK'
    BY <1>0, <2>1 DEF PendingOK, InHand, StreamTypes
  <2>5. StepKind
    BY <2>1 DEF StepKind, Unseen
  <2> QED BY <2>2, <2>3, <2>4, <2>5 DEF StreamIInv
<1>5. ASSUME NEW n \in Nodes, NodeGone(n) PROVE StreamIInv' /\ StepKind
  <2>1. PICK dead \in SUBSET Sids :
          /\ dead = {s \in node_streams[n] : streams[s] # None /\ state[streams[s]] # "ready"}
          /\ streams' = [s \in Sids |-> IF s \in dead THEN None ELSE streams[s]]
          /\ node_streams' =
               [m \in Nodes |-> IF m = n THEN {}
                                ELSE node_streams[m] \
                                     {s \in dead : m \in {OpenerNode[streams[s]],
                                                          dest[streams[s]]}}]
          /\ timer' = [o \in Openers |-> timer[o] /\ o \notin {streams[s] : s \in dead}]
          /\ ow' = [o \in Openers |-> IF o \in {streams[s] : s \in dead} THEN "closed"
                                                                         ELSE ow[o]]
          /\ jw' = [j \in Joiners |-> IF \E o \in {streams[s] : s \in dead} : joiner[o] = j
                                      THEN "closed" ELSE jw[j]]
    <3> DEFINE d == {s \in node_streams[n] : streams[s] # None /\ state[streams[s]] # "ready"}
    <3>1. d \in SUBSET Sids
      BY <1>0 DEF StreamTypes
    <3>2. /\ d = {s \in node_streams[n] : streams[s] # None /\ state[streams[s]] # "ready"}
          /\ streams' = [s \in Sids |-> IF s \in d THEN None ELSE streams[s]]
          /\ node_streams' =
               [m \in Nodes |-> IF m = n THEN {}
                                ELSE node_streams[m] \
                                     {s \in d : m \in {OpenerNode[streams[s]],
                                                       dest[streams[s]]}}]
          /\ timer' = [o \in Openers |-> timer[o] /\ o \notin {streams[s] : s \in d}]
          /\ ow' = [o \in Openers |-> IF o \in {streams[s] : s \in d} THEN "closed" ELSE ow[o]]
          /\ jw' = [j \in Joiners |-> IF \E o \in {streams[s] : s \in d} : joiner[o] = j
                                      THEN "closed" ELSE jw[j]]
      BY <1>5 DEF NodeGone
    <3> HIDE DEF d
    <3> QED BY <3>1, <3>2
  <2>2. UNCHANGED <<state, dest, joiner, claims, piping, grant, winner, wait, oframes, server,
                    said>>
    BY <1>5 DEF NodeGone
  <2>3. PICK G \in SUBSET Openers : G = {streams[s] : s \in dead}
    <3>1. \A s \in dead : streams[s] \in Openers
      BY <1>0, <2>1 DEF StreamTypes
    <3>2. {streams[s] : s \in dead} \in SUBSET Openers
      BY <3>1
    <3> QED BY <3>2
  <2>4. \A o \in G : Held(o) /\ state[o] # "ready" /\ SidOf[o] \in dead
    BY <1>0, <2>1, <2>3 DEF TableOK, Held
  <2>5. \A s \in Sids : streams[s] \in G <=> s \in dead
    BY <1>0, <2>1, <2>3, <2>4 DEF TableOK
  <2>6. \A o \in G : ~piping[o]
    BY <1>0, <2>4 DEF TeardownOK
  <2>7. /\ streams' \in [Sids -> Openers \union {None}]
        /\ \A s \in Sids : streams'[s] = IF streams[s] \in G THEN None ELSE streams[s]
    BY <1>0, <2>1, <2>5 DEF StreamTypes
  <2>8. node_streams' \in [Nodes -> SUBSET Sids]
    <3>1. \A m \in Nodes :
            node_streams[m] \ {s \in dead : m \in {OpenerNode[streams[s]], dest[streams[s]]}}
              \in SUBSET Sids
      BY <1>0 DEF StreamTypes
    <3> QED BY <2>1, <3>1
  <2>9. /\ ow' \in [Openers -> {"none", "up", "lost", "closed"}]
        /\ timer' \in [Openers -> BOOLEAN]
        /\ piping' \in [Openers -> BOOLEAN]
    BY <1>0, <2>1, <2>2 DEF StreamTypes, StreamFlags
  <2>10. \A o \in Openers :
           IF o \in G THEN ow'[o] = "closed" /\ ~timer'[o] /\ ~piping'[o]
                      ELSE ow'[o] = ow[o] /\ timer'[o] = timer[o] /\ piping'[o] = piping[o]
    BY <1>0, <2>1, <2>2, <2>3, <2>6 DEF StreamFlags
  <2>11. /\ jw' \in [Joiners -> {"none", "up", "lost", "closed"}]
         /\ \A j \in Joiners : jw'[j] # jw[j] => jw'[j] = "closed"
    BY <1>0, <2>1 DEF StreamTypes
  <2>12. Retired(G)
    BY <1>0, <2>2, <2>7, <2>8, <2>9, <2>10, <2>11 DEF Retired, StreamTypes
  <2> QED BY <1>0, <2>2, <2>4, <2>12, RetireInv DEF StreamTypes
<1>6. ASSUME NEW n \in Nodes, NodePruned(n) \/ NodeBack(n) PROVE StreamIInv' /\ StepKind
  <2>1. UNCHANGED <<streams, node_streams, state, dest, joiner, timer, piping, claims, grant,
                    winner, wait, ow, oframes, jw, server, said>>
    BY <1>6 DEF NodePruned, NodeBack, streamTable, record, conns
  <2>2. StepKind
    BY <2>1 DEF StepKind, Unseen
  <2> QED BY <2>1, <2>2 DEF StreamIInv, StreamTypes, StreamFlags, TableOK, PhaseOK, ClaimsOK, PendingOK,
                      ServerOK, FramesOK, TeardownOK, Held, InHand, Implicit
<1>7. CASE UNCHANGED streamVars
  <2>1. StepKind
    BY <1>7 DEF StepKind, Unseen, streamVars
  <2> QED BY <1>7, <2>1
          DEF streamVars, StreamIInv, StreamTypes, StreamFlags, TableOK, PhaseOK, ClaimsOK,
              PendingOK, ServerOK, FramesOK, TeardownOK, Held, InHand, Implicit
<1> QED BY <1>1, <1>2, <1>3, <1>4, <1>5, <1>6, <1>7

\* Every step keeps the invariant and is of one of the kinds.
LEMMA StreamStep == StreamIInv /\ [StreamNext]_streamVars => StreamIInv' /\ StepKind
<1> SUFFICES ASSUME StreamIInv, [StreamNext]_streamVars PROVE StreamIInv' /\ StepKind
  OBVIOUS
<1>1. ASSUME NEW o \in Openers, OpenRefused(o) \/ OpenAccepted(o) \/ Handshake(o)
      PROVE  StreamIInv' /\ StepKind
  BY <1>1, OpenStep, HandshakeStep
<1>2. ASSUME NEW j \in Joiners, Join(j) PROVE StreamIInv' /\ StepKind
  BY <1>2, JoinStep
<1>3. CASE \/ \E o \in Openers : PipeEnd(o) \/ OpenerLost(o)
           \/ \E j \in Joiners : Answer(j) \/ JoinerLost(j)
           \/ \E n \in Nodes : NodeGone(n) \/ NodePruned(n) \/ NodeBack(n)
           \/ UNCHANGED streamVars
  BY <1>3, OthersStep
<1> QED BY <1>1, <1>2, <1>3 DEF StreamNext

\* The invariant holds throughout.
LEMMA StreamInvariance == StreamSpec => []StreamIInv
<1>1. StreamIInv /\ [StreamNext]_streamVars => StreamIInv'
  BY StreamStep
<1> QED BY <1>1, StreamInitIInv, PTL DEF StreamSpec

\* Every field of the stream records keeps to the values the code gives it.
THEOREM StreamTypeCorrect == StreamSpec => [](StreamTypes /\ StreamFlags)
<1>1. StreamIInv => StreamTypes /\ StreamFlags
  BY DEF StreamIInv
<1> QED BY <1>1, StreamInvariance, PTL

(* _grant_claim never grants one stream to two joiners, whatever claims,   *)
(* grants, timeouts and teardowns overlap, for any number of streams.      *)
THEOREM StreamOneServer == StreamSpec => []OneServer
<1>1. StreamIInv => OneServer
  BY DEF StreamIInv, ServerOK, OneServer, StreamTypes
<1> QED BY <1>1, StreamInvariance, PTL

(* _stream_pipe runs only between a confirmed opener and the joiner that   *)
(* was granted this stream and said STJOINED, while the table owns it.     *)
THEOREM StreamPipeAgreed == StreamSpec => []PipeAgreed
<1>1. StreamIInv => PipeAgreed
  BY DEF StreamIInv, ServerOK, TeardownOK, Held, PipeAgreed
<1> QED BY <1>1, StreamInvariance, PTL

(* Between steps every opener connection of the table has a timer, a       *)
(* suspended grant or a pipe that will close it, unless an exception of    *)
(* _grant_claim ended the task of a stream it had already confirmed.       *)
THEOREM StreamNoOrphan == StreamSpec => []NoOrphanOpener
<1>1. StreamIInv => NoOrphanOpener
  <2> SUFFICES ASSUME StreamIInv, NEW o \in Openers, ow[o] \in {"up", "lost"}
               PROVE  /\ streams[SidOf[o]] = o
                      /\ \/ (timer[o] /\ state[o] # "ready") \/ piping[o]
                         \/ wait[o] \in {"claim", "confirm", "verdict"}
                         \/ wait[o] = "raised" /\ oframes[o] = <<"STOK">>
    BY DEF NoOrphanOpener
  <2>1. Held(o)
    BY DEF StreamIInv, TableOK
  <2>2. state[o] = "ready" => wait[o] \in {"confirm", "verdict", "raised"} \/ piping[o]
    BY <2>1 DEF StreamIInv, PhaseOK, TeardownOK
  <2>3. state[o] # "ready" => timer[o]
    BY <2>1 DEF StreamIInv, TeardownOK
  <2>4. wait[o] = "raised" => oframes[o] = <<"STOK">>
    BY DEF StreamIInv, FramesOK
  <2> QED BY <2>1, <2>2, <2>3, <2>4 DEF Held
<1> QED BY <1>1, StreamInvariance, PTL

-----------------------------------------------------------------------------
\* The caller's view in terms of the records: its peer,
PeerRule ==
  \A o \in Openers :
    /\ \A j \in Joiners : server[j] = o => PeerOf(o) = j
    /\ (\A j \in Joiners : server[j] # o) => PeerOf(o) = None

\* and its phase.
PhaseRule ==
  \A o \in Openers :
    /\ ow[o] = "none" => CallerPhase(o) = "idle"
    /\ oframes[o] = <<"STFAIL">> => CallerPhase(o) = "refused"
    /\ ow[o] = "closed" /\ oframes[o] # <<"STFAIL">> => CallerPhase(o) = "closed"
    /\ ow[o] \in {"up", "lost"} /\ oframes[o] = <<"STOK">> => CallerPhase(o) = "connected"
    /\ ow[o] \in {"up", "lost"} /\ oframes[o] = <<>> => CallerPhase(o) = "dialing"

\* The view of the callers follows from the invariant.
LEMMA ViewRules == StreamIInv => PeerRule /\ PhaseRule
<1> SUFFICES ASSUME StreamIInv PROVE PeerRule /\ PhaseRule
  OBVIOUS
<1>1. ASSUME NEW o \in Openers, NEW j \in Joiners, server[j] = o PROVE PeerOf(o) = j
  <2>1. PeerOf(o) = CHOOSE i \in Joiners : server[i] = o
    BY <1>1 DEF PeerOf
  <2>2. /\ (CHOOSE i \in Joiners : server[i] = o) \in Joiners
        /\ server[CHOOSE i \in Joiners : server[i] = o] = o
    BY <1>1
  <2>3. \A i, k \in Joiners : server[i] = o /\ server[k] = o => i = k
    BY DEF StreamIInv, ServerOK
  <2> QED BY <1>1, <2>1, <2>2, <2>3
<1>2. PeerRule
  BY <1>1 DEF PeerRule, PeerOf
<1>3. ASSUME NEW o \in Openers
      PROVE  /\ ow[o] = "none" => oframes[o] = <<>>
             /\ oframes[o] = <<"STFAIL">> => ow[o] = "closed"
  BY DEF StreamIInv, FramesOK
<1>4. PhaseRule
  <2> SUFFICES ASSUME NEW o \in Openers
               PROVE  /\ ow[o] = "none" => CallerPhase(o) = "idle"
                      /\ oframes[o] = <<"STFAIL">> => CallerPhase(o) = "refused"
                      /\ ow[o] = "closed" /\ oframes[o] # <<"STFAIL">> =>
                           CallerPhase(o) = "closed"
                      /\ ow[o] \in {"up", "lost"} /\ oframes[o] = <<"STOK">> =>
                           CallerPhase(o) = "connected"
                      /\ ow[o] \in {"up", "lost"} /\ oframes[o] = <<>> =>
                           CallerPhase(o) = "dialing"
    BY DEF PhaseRule
  <2>1. ow[o] = "none" => CallerPhase(o) = "idle"
    BY DEF CallerPhase
  <2>2. oframes[o] = <<"STFAIL">> => CallerPhase(o) = "refused"
    BY <1>3 DEF CallerPhase
  <2>3. ow[o] = "closed" /\ oframes[o] # <<"STFAIL">> => CallerPhase(o) = "closed"
    BY DEF CallerPhase
  <2>4. ow[o] \in {"up", "lost"} /\ oframes[o] = <<"STOK">> => CallerPhase(o) = "connected"
    BY DEF CallerPhase
  <2>5. ow[o] \in {"up", "lost"} /\ oframes[o] = <<>> => CallerPhase(o) = "dialing"
    BY DEF CallerPhase
  <2> QED BY <2>1, <2>2, <2>3, <2>4, <2>5
<1> QED BY <1>2, <1>4

\* Only a grant changes who is connected to whom.
LEMMA PeersKept ==
  ASSUME UNCHANGED server
  PROVE  [o \in Openers |-> PeerOf(o)]' = [o \in Openers |-> PeerOf(o)]
BY DEF PeerOf

\* No dial has begun.
LEMMA ConnectInit == StreamInit => Connect!Init
<1> SUFFICES ASSUME StreamInit PROVE Connect!Init
  OBVIOUS
<1>1. \A o \in Openers : CallerPhase(o) = "idle"
  BY DEF StreamInit, CallerPhase
<1>2. \A o \in Openers : PeerOf(o) = None
  BY DEF StreamInit, PeerOf
<1> QED BY <1>1, <1>2 DEF Connect!Init

\* An unseen step changes nothing a caller sees.
LEMMA UnseenStutters ==
  ASSUME StreamIInv, Unseen
  PROVE  UNCHANGED Connect!vars
<1>1. \A o \in Openers : CallerPhase(o)' = CallerPhase(o)
  <2> SUFFICES ASSUME NEW o \in Openers PROVE CallerPhase(o)' = CallerPhase(o)
    OBVIOUS
  <2>1. oframes'[o] = oframes[o] /\ (ow'[o] = ow[o] \/ (ow[o] = "up" /\ ow'[o] = "lost"))
    BY DEF Unseen
  <2> QED BY <2>1 DEF CallerPhase
<1> QED BY <1>1, PeersKept DEF Unseen, Connect!vars

\* A teardown refuses one caller or drops some.
LEMMA RetireDrops ==
  ASSUME StreamIInv, PhaseRule, PhaseRule', PeerRule,
         NEW G \in SUBSET Openers, Retired(G), UNCHANGED server, \A o \in G : Held(o)
  PROVE  Connect!Next
<1>1. \A o \in G : /\ ow[o] \in {"up", "lost"}
                   /\ oframes[o] \in {<<>>, <<"STOK">>}
                   /\ CallerPhase(o) \in {"dialing", "connected"}
                   /\ ow'[o] = "closed"
  <2> SUFFICES ASSUME NEW o \in G
               PROVE  /\ ow[o] \in {"up", "lost"}
                      /\ oframes[o] \in {<<>>, <<"STOK">>}
                      /\ CallerPhase(o) \in {"dialing", "connected"}
                      /\ ow'[o] = "closed"
    OBVIOUS
  <2>1. ow[o] \in {"up", "lost"} /\ ow'[o] = "closed"
    BY DEF StreamIInv, TableOK, Retired
  <2>2. oframes[o] \in {<<>>, <<"STOK">>}
    <3>1. oframes[o] \in {<<>>, <<"STOK">>, <<"STFAIL">>}
      BY DEF StreamIInv, StreamTypes
    <3>2. oframes[o] # <<"STFAIL">>
      BY <2>1 DEF StreamIInv, FramesOK
    <3> QED BY <3>1, <3>2
  <2> QED BY <2>1, <2>2 DEF PhaseRule
<1>2. \A o \in Openers : o \notin G => CallerPhase(o)' = CallerPhase(o)
  <2> SUFFICES ASSUME NEW o \in Openers, o \notin G PROVE CallerPhase(o)' = CallerPhase(o)
    OBVIOUS
  <2>1. ow'[o] = ow[o] /\ oframes'[o] = oframes[o]
    BY DEF Retired
  <2> QED BY <2>1 DEF CallerPhase
<1>3. CASE \A o \in Openers : oframes'[o] = oframes[o]
  <2>1. \A o \in G : CallerPhase(o)' = "closed"
    BY <1>1, <1>3 DEF PhaseRule
  <2>2. [o \in Openers |-> CallerPhase(o)]'
          = [o \in Openers |-> IF o \in G THEN "closed" ELSE CallerPhase(o)]
    BY <1>2, <2>1
  <2>3. Connect!Drop
    BY <1>1, <2>2, PeersKept DEF Connect!Drop
  <2> QED BY <2>3 DEF Connect!Next
<1>4. ASSUME NEW o \in Openers, oframes'[o] # oframes[o] PROVE Connect!Next
  <2>1. G = {o} /\ state[o] # "ready" /\ oframes[o] = <<>> /\ oframes'[o] = <<"STFAIL">>
    BY <1>4 DEF Retired
  <2>2. CallerPhase(o) = "dialing" /\ CallerPhase(o)' = "refused"
    BY <1>1, <2>1 DEF PhaseRule
  <2>3. PeerOf(o) = None
    BY <2>1 DEF PeerRule, StreamIInv, ServerOK
  <2>4. [p \in Openers |-> CallerPhase(p)]'
          = [[p \in Openers |-> CallerPhase(p)] EXCEPT ![o] = "refused"]
    BY <1>2, <2>1, <2>2
  <2>5. Connect!Refuse(o)
    BY <2>2, <2>3, <2>4, PeersKept DEF Connect!Refuse
  <2> QED BY <2>5 DEF Connect!Next
<1> QED BY <1>3, <1>4

\* A grant assigns a server of its own to one caller, or is not yet seen.
LEMMA GrantAssigns ==
  ASSUME StreamIInv, StreamIInv', PhaseRule, PhaseRule', PeerRule, PeerRule',
         NEW o \in Openers, NEW j \in Joiners, NEW cs \in {"up", "lost", "closed"},
         NEW losers \in SUBSET Joiners, GrantClaim(o, j, cs, losers), Handed(o, j)
  PROVE  [Connect!Next]_(Connect!vars)
<1>1. /\ state[o] = "open" /\ server[j] = None /\ UNCHANGED ow
      /\ dest[o] = None \/ JNode[j] = dest[o]
  BY DEF GrantClaim, Handed
<1>2. CASE UNCHANGED <<server, oframes>>
  <2>1. Unseen
    BY <1>1, <1>2 DEF Unseen
  <2> QED BY <2>1, UnseenStutters
<1>3. CASE /\ server' = [server EXCEPT ![j] = o]
           /\ ow[o] # "up" => UNCHANGED oframes
           /\ ow[o] = "up" => oframes' = [oframes EXCEPT ![o] = Append(@, "STOK")]
  <2>1. ow[o] # "none" /\ CallerPhase(o) # "idle"
    <3>1. ow[o] \in {"up", "lost", "closed"} /\ oframes[o] \in {<<>>, <<"STOK">>, <<"STFAIL">>}
      BY <1>1 DEF StreamIInv, PhaseOK, StreamTypes
    <3> QED BY <3>1 DEF PhaseRule
  <2>2. PeerOf(o) = None
    BY <1>1 DEF PeerRule, StreamIInv, ServerOK
  <2>3. \A p \in Openers : PeerOf(p) # j
    <3> SUFFICES ASSUME NEW p \in Openers PROVE PeerOf(p) # j
      OBVIOUS
    <3>1. CASE \A i \in Joiners : server[i] # p
      BY <3>1 DEF PeerRule
    <3>2. ASSUME NEW i \in Joiners, server[i] = p PROVE PeerOf(p) # j
      BY <1>1, <3>2 DEF PeerRule
    <3> QED BY <3>1, <3>2
  <2>4. \A i \in Joiners : server'[i] = IF i = j THEN o ELSE server[i]
    BY <1>3 DEF StreamIInv, StreamTypes
  <2>5. \A p \in Openers : PeerOf(p)' = IF p = o THEN j ELSE PeerOf(p)
    <3>1. PeerOf(o)' = j
      BY <2>4 DEF PeerRule
    <3>2. ASSUME NEW p \in Openers, p # o PROVE PeerOf(p)' = PeerOf(p)
      <4>1. CASE \A i \in Joiners : server[i] # p
        <5>1. \A i \in Joiners : server'[i] # p
          BY <2>4, <3>2, <4>1
        <5> QED BY <4>1, <5>1 DEF PeerRule
      <4>2. ASSUME NEW i \in Joiners, server[i] = p PROVE PeerOf(p)' = PeerOf(p)
        <5>1. server'[i] = p
          BY <1>1, <2>4, <4>2
        <5> QED BY <4>2, <5>1 DEF PeerRule
      <4> QED BY <4>1, <4>2
    <3> QED BY <3>1, <3>2
  <2>6. [p \in Openers |-> PeerOf(p)]' = [[p \in Openers |-> PeerOf(p)] EXCEPT ![o] = j]
    BY <2>5
  <2>7. CASE ow[o] # "up"
    <3>1. \A p \in Openers : CallerPhase(p)' = CallerPhase(p)
      BY <1>1, <1>3, <2>7 DEF CallerPhase
    <3>2. Connect!Assign(o, j)
      BY <2>1, <2>2, <2>3, <2>6, <3>1 DEF Connect!Assign
    <3> QED BY <3>2 DEF Connect!Next
  <2>8. CASE ow[o] = "up"
    <3>1. oframes[o] = <<>>
      <4>1. oframes[o] # <<"STFAIL">> /\ oframes[o] # <<"STOK">>
        BY <1>1, <2>8 DEF StreamIInv, FramesOK
      <4> QED BY <4>1 DEF StreamIInv, StreamTypes
    <3>2. oframes'[o] = <<"STOK">> /\ \A p \in Openers : p # o => oframes'[p] = oframes[p]
      <4>1. Append(<<>>, "STOK") = <<"STOK">>
        OBVIOUS
      <4> QED BY <1>3, <2>8, <3>1, <4>1 DEF StreamIInv, StreamTypes
    <3>3. CallerPhase(o) = "dialing" /\ CallerPhase(o)' = "connected"
      BY <1>1, <2>8, <3>1, <3>2 DEF PhaseRule
    <3>4. \A p \in Openers : p # o => CallerPhase(p)' = CallerPhase(p)
      BY <1>1, <3>2 DEF CallerPhase
    <3>5. [p \in Openers |-> CallerPhase(p)]'
            = [[p \in Openers |-> CallerPhase(p)] EXCEPT ![o] = "connected"]
      BY <3>3, <3>4
    <3>6. Connect!Assign(o, j)
      BY <2>1, <2>2, <2>3, <2>6, <3>3, <3>5 DEF Connect!Assign
    <3> QED BY <3>6 DEF Connect!Next
  <2> QED BY <2>7, <2>8
<1> QED BY <1>1, <1>2, <1>3 DEF GrantClaim

\* STOPEN is refused at once or becomes a dial.
LEMMA OpenDials ==
  ASSUME StreamIInv, PhaseRule, PhaseRule', PeerRule, NEW o \in Openers,
         OpenRefused(o) \/ OpenAccepted(o)
  PROVE  Connect!Next
<1>1. ow[o] = "none" /\ oframes[o] = <<>> /\ state[o] = "new" /\ UNCHANGED server
  BY DEF OpenRefused, OpenAccepted, StreamIInv, FramesOK, PhaseOK
<1>2. CallerPhase(o) = "idle" /\ PeerOf(o) = None
  BY <1>1 DEF PhaseRule, PeerRule, StreamIInv, ServerOK
<1>3. \A p \in Openers : p # o => CallerPhase(p)' = CallerPhase(p)
  <2> SUFFICES ASSUME NEW p \in Openers, p # o PROVE CallerPhase(p)' = CallerPhase(p)
    OBVIOUS
  <2>1. ow'[p] = ow[p] /\ oframes'[p] = oframes[p]
    BY DEF OpenRefused, OpenAccepted, StreamIInv, StreamTypes
  <2> QED BY <2>1 DEF CallerPhase
<1>4. CASE OpenRefused(o)
  <2>1. oframes'[o] = <<"STFAIL">>
    BY <1>4 DEF OpenRefused, StreamIInv, StreamTypes
  <2>2. CallerPhase(o)' = "refused"
    BY <2>1 DEF PhaseRule
  <2>3. [p \in Openers |-> CallerPhase(p)]'
          = [[p \in Openers |-> CallerPhase(p)] EXCEPT ![o] = "refused"]
    BY <1>3, <2>2
  <2>4. Connect!Refuse(o)
    BY <1>1, <1>2, <2>3, PeersKept DEF Connect!Refuse
  <2> QED BY <2>4 DEF Connect!Next
<1>5. CASE OpenAccepted(o)
  <2>1. oframes'[o] = <<>> /\ ow'[o] = "up"
    BY <1>1, <1>5 DEF OpenAccepted, StreamIInv, StreamTypes
  <2>2. CallerPhase(o)' = "dialing"
    BY <2>1 DEF PhaseRule
  <2>3. [p \in Openers |-> CallerPhase(p)]'
          = [[p \in Openers |-> CallerPhase(p)] EXCEPT ![o] = "dialing"]
    BY <1>3, <2>2
  <2>4. Connect!Dial(o)
    BY <1>1, <1>2, <2>3, PeersKept DEF Connect!Dial
  <2> QED BY <2>4 DEF Connect!Next
<1> QED BY <1>4, <1>5

\* Every step is a step of the LAN's connect() or a stutter of it.
LEMMA ConnectStep ==
  ASSUME StreamIInv, StreamIInv', PhaseRule, PhaseRule', PeerRule, PeerRule', StepKind
  PROVE  [Connect!Next]_(Connect!vars)
<1>1. ASSUME NEW o \in Openers, OpenRefused(o) \/ OpenAccepted(o)
      PROVE  [Connect!Next]_(Connect!vars)
  BY <1>1, OpenDials
<1>2. CASE Grants
  BY <1>2, GrantAssigns DEF Grants
<1>3. CASE Retires
  BY <1>3, RetireDrops DEF Retires
<1>4. CASE Unseen
  BY <1>4, UnseenStutters
<1> QED BY <1>1, <1>2, <1>3, <1>4 DEF StepKind

(* The handshake of server.py implements the connect() of a LAN: every     *)
(* dial is refused, or connected to one server of its own, or dropped, and *)
(* its verdict is final.                                                   *)
THEOREM StreamImplementsConnect == StreamSpec => ImplementsConnect
<1>1. StreamInit => Connect!Init
  BY ConnectInit
<1>2. StreamIInv => PeerRule /\ PhaseRule
  BY ViewRules
<1>3. StreamIInv /\ PeerRule /\ PhaseRule /\ (PeerRule /\ PhaseRule)' /\ StreamIInv'
        /\ [StreamNext]_streamVars
        => [Connect!Next]_(Connect!vars)
  BY StreamStep, ConnectStep
<1> QED
  BY <1>1, <1>2, <1>3, StreamInvariance, PTL DEF StreamSpec, ImplementsConnect, Connect!Spec
=============================================================================
