------------------------- MODULE ControlLinkProofs -------------------------
(***************************************************************************)
(* Proofs about ControlLink, for any number of frames and of lost links:   *)
(* the order of the frames, the count of the queue, whole frames at both   *)
(* ends, and the lease before the game.                                    *)
(***************************************************************************)
EXTENDS ControlLink, SequenceTheorems, TLAPS

Ops == {"none", "node", "mode", "tun", "shut"}
Frame == [id : Nat, op : Ops, host : BOOLEAN]
Records == [reg : BOOLEAN, host : BOOLEAN, part : Nat]

\* The types of all variables.
Types ==
  /\ q \in Seq(Frame) /\ bytes \in Nat
  /\ cur \in Frame /\ off \in {0, 1}
  /\ up \in BOOLEAN
  /\ out \in Seq(Frame \X {1, 2}) /\ inp \in Seq({1, 2}) /\ rpart \in BOOLEAN
  /\ relay \in Records
  /\ claimed \in BOOLEAN /\ claiming \in BOOLEAN
  /\ have_assign \in BOOLEAN /\ main \in {"wait", "started", "failing", "dead"}
  /\ next \in Nat /\ left \in Nat /\ breaks \in Nat
  /\ seen \in Nat /\ torn \in BOOLEAN

\* Frames are numbered from 1 as they are queued.
Numbered ==
  /\ \A i \in DOMAIN q : 0 < q[i].id /\ q[i].id < next
  /\ \A i \in DOMAIN out : 0 < out[i][1].id /\ out[i][1].id < next
  /\ cur # None => 0 < cur.id
  /\ cur.id < next /\ seen < next
  /\ cur = None => off = 0

\* A frame that is not begun has no half in the socket.
NotBegun == off = 0 /\ cur # None => \A i \in DOMAIN out : out[i][1].id < cur.id

\* The halves in the socket, after the half the relay holds and before the rest of cur.
OutWhole ==
  /\ \A i \in DOMAIN out :
       out[i][2] = 2 => IF i = 1 THEN relay.part = out[i][1].id
                                 ELSE out[i - 1][1] = out[i][1] /\ out[i - 1][2] = 1
  /\ \A i \in DOMAIN out :
       out[i][2] = 1 => IF i = 1 THEN relay.part = 0 ELSE out[i - 1][2] = 2
  /\ out = <<>> => relay.part = (IF off = 1 THEN cur.id ELSE 0)
  /\ out # <<>> => IF off = 1 THEN out[Len(out)][1] = cur /\ out[Len(out)][2] = 1
                              ELSE out[Len(out)][2] = 2

\* The same for the hook's end.
InWhole ==
  /\ \A i \in DOMAIN inp :
       inp[i] = 2 => IF i = 1 THEN rpart ELSE inp[i - 1] = 1
  /\ \A i \in DOMAIN inp :
       inp[i] = 1 => IF i = 1 THEN ~rpart ELSE inp[i - 1] = 2
  /\ inp = <<>> => ~rpart
  /\ inp # <<>> => inp[Len(inp)] = 2

\* An ASSIGN answers a registration.
Answered == inp # <<>> \/ have_assign => seen > 0

\* The inductive invariant.
IInv == /\ Types /\ Numbered /\ NotBegun /\ CtlOrdered /\ BytesCounted
        /\ OutWhole /\ InWhole /\ NoTornFrame /\ Answered /\ LeaseFirst

-----------------------------------------------------------------------------
\* What concatenation does to the length and the elements of a sequence.
LEMMA ConcatFacts ==
  ASSUME NEW F, NEW a \in Seq(F), NEW b \in Seq(F)
  PROVE  /\ a \o b \in Seq(F) /\ Len(a \o b) = Len(a) + Len(b)
         /\ \A i \in 1 .. Len(a) : (a \o b)[i] = a[i]
         /\ \A i \in 1 .. Len(a) + Len(b) :
              i > Len(a) => (a \o b)[i] = b[i - Len(a)] /\ i - Len(a) \in 1 .. Len(b)
         /\ Len(a) \in Nat /\ Len(b) \in Nat
OBVIOUS

\* The domain, the length and the elements of a sequence.
LEMMA SeqFacts ==
  ASSUME NEW F, NEW a \in Seq(F)
  PROVE  /\ Len(a) \in Nat /\ DOMAIN a = 1 .. Len(a) /\ \A i \in 1 .. Len(a) : a[i] \in F
         /\ a = <<>> <=> Len(a) = 0
OBVIOUS

\* What is left when the first element is taken.
LEMMA TailFacts ==
  ASSUME NEW F, NEW a \in Seq(F), a # <<>>
  PROVE  /\ Tail(a) \in Seq(F) /\ Len(Tail(a)) = Len(a) - 1
         /\ \A i \in 1 .. Len(a) - 1 : Tail(a)[i] = a[i + 1]
         /\ Head(a) = a[1] /\ Head(a) \in F
OBVIOUS

\* An element put behind a sequence, or in front of it.
LEMMA EndFacts ==
  ASSUME NEW F, NEW a \in Seq(F), NEW x \in F
  PROVE  /\ Append(a, x) \in Seq(F) /\ Len(Append(a, x)) = Len(a) + 1
         /\ Append(a, x)[Len(a) + 1] = x /\ \A i \in 1 .. Len(a) : Append(a, x)[i] = a[i]
         /\ <<x>> \o a \in Seq(F) /\ Len(<<x>> \o a) = Len(a) + 1
         /\ (<<x>> \o a)[1] = x /\ \A i \in 2 .. Len(a) + 1 : (<<x>> \o a)[i] = a[i - 1]
OBVIOUS

\* Two elements put behind a sequence.
LEMMA PairFacts ==
  ASSUME NEW F, NEW a \in Seq(F), NEW x \in F, NEW y \in F
  PROVE  /\ a \o <<x, y>> \in Seq(F) /\ Len(a \o <<x, y>>) = Len(a) + 2
         /\ \A i \in 1 .. Len(a) : (a \o <<x, y>>)[i] = a[i]
         /\ (a \o <<x, y>>)[Len(a) + 1] = x /\ (a \o <<x, y>>)[Len(a) + 2] = y
OBVIOUS

\* What the types say of the elements.
LEMMA TypeFacts ==
  ASSUME Types
  PROVE  /\ Len(q) \in Nat /\ DOMAIN q = 1 .. Len(q) /\ (q = <<>> <=> Len(q) = 0)
         /\ Len(out) \in Nat /\ DOMAIN out = 1 .. Len(out) /\ (out = <<>> <=> Len(out) = 0)
         /\ Len(inp) \in Nat /\ DOMAIN inp = 1 .. Len(inp) /\ (inp = <<>> <=> Len(inp) = 0)
         /\ \A i \in DOMAIN q : q[i] \in Frame /\ q[i].id \in Nat
         /\ \A i \in DOMAIN out : out[i][1] \in Frame /\ out[i][1].id \in Nat /\ out[i][2] \in {1, 2}
         /\ \A i \in DOMAIN inp : inp[i] \in {1, 2}
         /\ cur \in Frame /\ cur.id \in Nat /\ off \in {0, 1} /\ None \in Frame /\ None.id = 0
         /\ next \in Nat /\ seen \in Nat /\ bytes \in Nat
<1>1. q \in Seq(Frame) /\ out \in Seq(Frame \X {1, 2}) /\ inp \in Seq({1, 2})
  BY DEF Types
<1>2. \A f \in Frame : f.id \in Nat
  BY DEF Frame
<1>3. /\ Len(q) \in Nat /\ DOMAIN q = 1 .. Len(q) /\ (q = <<>> <=> Len(q) = 0)
      /\ \A i \in 1 .. Len(q) : q[i] \in Frame /\ q[i].id \in Nat
  BY <1>1, <1>2, SeqFacts
<1>4. /\ Len(out) \in Nat /\ DOMAIN out = 1 .. Len(out) /\ (out = <<>> <=> Len(out) = 0)
      /\ \A i \in 1 .. Len(out) : out[i] \in Frame \X {1, 2}
  BY <1>1, SeqFacts
<1>5. \A i \in 1 .. Len(out) : out[i][1] \in Frame /\ out[i][1].id \in Nat /\ out[i][2] \in {1, 2}
  BY <1>2, <1>4
<1>6. /\ Len(inp) \in Nat /\ DOMAIN inp = 1 .. Len(inp) /\ (inp = <<>> <=> Len(inp) = 0)
      /\ \A i \in 1 .. Len(inp) : inp[i] \in {1, 2}
  BY <1>1, SeqFacts
<1>7. cur \in Frame /\ off \in {0, 1} /\ next \in Nat /\ seen \in Nat /\ bytes \in Nat
  BY DEF Types
<1>8. None \in Frame /\ None.id = 0
  BY DEF None, Frame, Ops
<1> QED BY <1>2, <1>3, <1>4, <1>5, <1>6, <1>7, <1>8

\* The queue holds the first registration, and no link is up.
LEMMA InitIInv == Init => IInv
<1> SUFFICES ASSUME Init PROVE IInv
  OBVIOUS
<1>1. None \in Frame /\ [id |-> 1, op |-> "node", host |-> FALSE] \in Frame /\ Unknown \in Records
  BY DEF None, Frame, Ops, Unknown, Records
<1>2. q \in Seq(Frame) /\ Len(q) = 1 /\ q[1].id = 1
  BY <1>1 DEF Init
<1>3. Types
  <2>1. out \in Seq(Frame \X {1, 2}) /\ inp \in Seq({1, 2})
    BY DEF Init
  <2>2. bytes \in Nat /\ next \in Nat /\ left \in Nat /\ breaks \in Nat /\ seen \in Nat /\ off \in {0, 1}
    BY BoundAssumption DEF Init
  <2>3. cur \in Frame /\ relay \in Records
    BY <1>1 DEF Init
  <2>4. /\ up \in BOOLEAN /\ rpart \in BOOLEAN /\ claimed \in BOOLEAN /\ claiming \in BOOLEAN
        /\ have_assign \in BOOLEAN /\ torn \in BOOLEAN
        /\ main \in {"wait", "started", "failing", "dead"}
    BY DEF Init
  <2> QED BY <1>2, <2>1, <2>2, <2>3, <2>4 DEF Types
<1>4. Numbered /\ NotBegun /\ CtlOrdered
  BY <1>2, <1>1 DEF Init, Numbered, NotBegun, CtlOrdered, None, Frame
<1>5. BytesCounted /\ OutWhole /\ InWhole /\ NoTornFrame /\ Answered /\ LeaseFirst
  BY <1>2 DEF Init, BytesCounted, OutWhole, InWhole, NoTornFrame, Answered, LeaseFirst, Unknown
<1> QED BY <1>3, <1>4, <1>5 DEF IInv

\* dt_tcp_queue puts new numbers behind the old ones.
LEMMA QueueEffect ==
  ASSUME Types, NEW ops \in Seq(Ops), Queue(ops)
  PROVE  /\ q' \in Seq(Frame) /\ Len(q') = Len(q) + Len(ops)
         /\ \A i \in 1 .. Len(q) : q'[i] = q[i]
         /\ \A i \in 1 .. Len(q') : i > Len(q) => q'[i].id = next + (i - Len(q)) - 1
         /\ bytes' = bytes + Len(ops) /\ next' = next + Len(ops)
<1> DEFINE fs == [i \in DOMAIN ops |->
                    [id |-> next + i - 1, op |-> ops[i], host |-> ops[i] = "node" /\ claimed]]
<1>1. \A i \in DOMAIN ops : fs[i] \in Frame /\ fs[i].id = next + i - 1
  <2> SUFFICES ASSUME NEW i \in DOMAIN ops
               PROVE  fs[i] \in Frame /\ fs[i].id = next + i - 1
    OBVIOUS
  <2>1. i \in Nat \ {0} /\ ops[i] \in Ops
    BY DEF Ops
  <2>2. next + i - 1 \in Nat
    BY <2>1 DEF Types
  <2>3. (ops[i] = "node" /\ claimed) \in BOOLEAN
    BY DEF Types
  <2> QED BY <2>1, <2>2, <2>3 DEF Frame
<1>2. fs \in Seq(Frame) /\ Len(fs) = Len(ops)
  <2>1. /\ DOMAIN fs = 1 .. Len(ops) /\ Len(ops) \in Nat /\ DOMAIN ops = 1 .. Len(ops)
        /\ fs = [i \in 1 .. Len(ops) |-> fs[i]]
    OBVIOUS
  <2> HIDE DEF fs
  <2>2. fs \in [1 .. Len(ops) -> Frame]
    BY <1>1, <2>1
  <2> QED BY <2>1, <2>2
<1>3. q' = q \o fs /\ bytes' = bytes + Len(ops) /\ next' = next + Len(ops)
  BY DEF Queue
<1> HIDE DEF fs
<1>4. q \in Seq(Frame)
  BY DEF Types
<1>5. q' \in Seq(Frame) /\ Len(q') = Len(q) + Len(ops)
  <2>1. q \o fs \in Seq(Frame) /\ Len(q \o fs) = Len(q) + Len(fs)
    BY <1>2, <1>4, ConcatFacts
  <2> QED BY <1>2, <1>3, <2>1
<1>6. \A i \in 1 .. Len(q) : q'[i] = q[i]
  <2>1. \A i \in 1 .. Len(q) : (q \o fs)[i] = q[i]
    BY <1>2, <1>4, ConcatFacts
  <2> QED BY <1>3, <2>1
<1>7. \A i \in 1 .. Len(q') : i > Len(q) => q'[i].id = next + (i - Len(q)) - 1
  <2> SUFFICES ASSUME NEW i \in 1 .. Len(q'), i > Len(q)
               PROVE  q'[i].id = next + (i - Len(q)) - 1
    OBVIOUS
  <2>1. \A k \in 1 .. Len(q) + Len(fs) :
          k > Len(q) => (q \o fs)[k] = fs[k - Len(q)] /\ k - Len(q) \in 1 .. Len(fs)
    BY <1>2, <1>4, ConcatFacts
  <2>2. q'[i] = fs[i - Len(q)] /\ i - Len(q) \in 1 .. Len(ops)
    BY <1>2, <1>3, <1>5, <2>1
  <2>3. DOMAIN ops = 1 .. Len(ops) /\ Len(q) \in Nat /\ i \in Nat
    BY <1>4
  <2> QED BY <1>1, <2>2, <2>3
<1> QED BY <1>3, <1>5, <1>6, <1>7

-----------------------------------------------------------------------------
\* All parts of the invariant but the types.
Facts == /\ Numbered /\ NotBegun /\ CtlOrdered /\ BytesCounted
         /\ OutWhole /\ InWhole /\ NoTornFrame /\ Answered /\ LeaseFirst

\* A step that only queues frames.
LEMMA QueueKeeps ==
  ASSUME IInv, NEW ops \in Seq(Ops), Queue(ops),
         UNCHANGED <<cur, off, out, inp, rpart, relay, seen, torn, have_assign, main>>
  PROVE  Facts'
<1>1. /\ q' \in Seq(Frame) /\ Len(q') = Len(q) + Len(ops)
      /\ \A i \in 1 .. Len(q) : q'[i] = q[i]
      /\ \A i \in 1 .. Len(q') : i > Len(q) => q'[i].id = next + (i - Len(q)) - 1
      /\ bytes' = bytes + Len(ops) /\ next' = next + Len(ops)
  BY QueueEffect DEF IInv
<1>2. /\ Len(ops) \in Nat /\ Len(q) \in Nat /\ DOMAIN q = 1 .. Len(q) /\ DOMAIN q' = 1 .. Len(q')
      /\ next \in Nat /\ seen \in Nat /\ cur.id \in Nat /\ bytes \in Nat
      /\ \A i \in DOMAIN q : q[i].id \in Nat
      /\ \A i \in DOMAIN out : out[i][1].id \in Nat
  <2>1. q \in Seq(Frame) /\ out \in Seq(Frame \X {1, 2}) /\ cur \in Frame
        /\ next \in Nat /\ seen \in Nat /\ bytes \in Nat
    BY DEF IInv, Types
  <2>2. Len(ops) \in Nat /\ Len(q) \in Nat /\ DOMAIN q = 1 .. Len(q)
        /\ \A i \in DOMAIN q : q[i] \in Frame
    BY <2>1, SeqFacts
  <2>3. DOMAIN q' = 1 .. Len(q')
    BY <1>1
  <2>4. \A i \in DOMAIN out : out[i][1] \in Frame
    <3>1. DOMAIN out = 1 .. Len(out) /\ \A i \in 1 .. Len(out) : out[i] \in Frame \X {1, 2}
      BY <2>1, SeqFacts
    <3> QED BY <3>1
  <2>5. \A f \in Frame : f.id \in Nat
    BY DEF Frame
  <2> QED BY <2>1, <2>2, <2>3, <2>4, <2>5
<1>2a. Len(q') = Len(q) + Len(ops) /\ next' = next + Len(ops)
  BY <1>1
<1>2b. \A i \in 1 .. Len(q) : q'[i] = q[i]
  BY <1>1
<1>2c. \A i \in 1 .. Len(q') : i > Len(q) => q'[i].id = next + (i - Len(q)) - 1
  BY <1>1
<1>2d. \A i \in DOMAIN q' : i \in Nat /\ 1 <= i /\ i <= Len(q) + Len(ops)
  BY <1>2, <1>2a
<1>3. \A i \in DOMAIN q' : IF i <= Len(q) THEN i \in DOMAIN q /\ q'[i] = q[i]
                           ELSE q'[i].id = next + (i - Len(q)) - 1
  <2> SUFFICES ASSUME NEW i \in DOMAIN q'
               PROVE  IF i <= Len(q) THEN i \in DOMAIN q /\ q'[i] = q[i]
                      ELSE q'[i].id = next + (i - Len(q)) - 1
    OBVIOUS
  <2>1. CASE i <= Len(q)
    <3>1. i \in 1 .. Len(q)
      BY <1>2, <1>2d, <2>1
    <3> QED BY <1>2, <1>2b, <2>1, <3>1
  <2>2. CASE ~(i <= Len(q))
    <3>1. i \in 1 .. Len(q') /\ i > Len(q)
      BY <1>2, <1>2d, <2>2
    <3> QED BY <1>2c, <2>2, <3>1
  <2> QED BY <2>1, <2>2
<1>3a. \A i \in DOMAIN q' : i \in Nat
  BY <1>2d
<1>4. Numbered'
  <2>1. \A i \in DOMAIN q' : 0 < q'[i].id /\ q'[i].id < next'
    <3> SUFFICES ASSUME NEW i \in DOMAIN q' PROVE 0 < q'[i].id /\ q'[i].id < next'
      OBVIOUS
    <3>1. i \in Nat /\ 1 <= i /\ i <= Len(q) + Len(ops)
      BY <1>2d
    <3>2. cur.id < next
      BY DEF IInv, Numbered
    <3>3. CASE i <= Len(q)
      <4>1. 0 < q[i].id /\ q[i].id < next /\ q'[i] = q[i] /\ q[i].id \in Nat
        BY <1>2, <1>3, <3>3 DEF IInv, Numbered
      <4> QED BY <1>2, <1>2a, <4>1
    <3>4. CASE ~(i <= Len(q))
      <4>1. q'[i].id = next + (i - Len(q)) - 1
        BY <1>3, <3>4
      <4> QED BY <1>2, <1>2a, <3>1, <3>2, <3>4, <4>1
    <3> QED BY <3>3, <3>4
  <2>2. \A i \in DOMAIN out : 0 < out[i][1].id /\ out[i][1].id < next'
    BY <1>2, <1>2a DEF IInv, Numbered
  <2> QED BY <1>2, <1>2a, <2>1, <2>2 DEF IInv, Numbered
<1>5. CtlOrdered'
  <2>1. \A i \in DOMAIN out, j \in DOMAIN q' : out[i][1].id < q'[j].id
    BY SMTT(30), <1>2, <1>3, <1>3a DEF IInv, Numbered, CtlOrdered
  <2>2. \A i \in DOMAIN q' : seen < q'[i].id /\ cur.id < q'[i].id
    BY <1>2, <1>3, <1>3a DEF IInv, Numbered, CtlOrdered
  <2>3. \A i, j \in DOMAIN q' : i < j => q'[i].id < q'[j].id
    BY <1>2, <1>3, <1>3a DEF IInv, Numbered, CtlOrdered
  <2> QED BY <2>1, <2>2, <2>3 DEF IInv, CtlOrdered, Num
<1>6. BytesCounted'
  <2>1. cur' = cur /\ bytes = Len(q) + (IF cur = None THEN 0 ELSE 1)
    BY DEF IInv, BytesCounted
  <2>2. CASE cur = None
    BY <1>1, <1>2, <2>1, <2>2 DEF BytesCounted
  <2>3. CASE cur # None
    BY <1>1, <1>2, <2>1, <2>3 DEF BytesCounted
  <2> QED BY <2>2, <2>3
<1> QED BY <1>4, <1>5, <1>6 DEF IInv, Facts, NotBegun, OutWhole, InWhole, NoTornFrame,
                                Answered, LeaseFirst

\* The datagrams, half-closes, refreshes, claims and registrations that are queued.
LEMMA QueueStep ==
  ASSUME IInv, AppQueue("tun") \/ AppQueue("shut") \/ Refresh \/ ClaimSend \/ Dial
  PROVE  IInv'
<1>1. PICK ops \in Seq(Ops) : Queue(ops)
  <2>1. /\ <<"tun">> \in Seq(Ops) /\ <<"shut">> \in Seq(Ops) /\ <<"node">> \in Seq(Ops)
        /\ <<"node", "mode">> \in Seq(Ops)
    BY DEF Ops
  <2>2. \/ Queue(<<"tun">>) \/ Queue(<<"shut">>) \/ Queue(<<"node">>)
        \/ Queue(<<"node", "mode">>)
    BY DEF AppQueue, Refresh, ClaimSend, Dial
  <2> QED BY <2>1, <2>2
<1>2. /\ UNCHANGED <<cur, off, out, inp, rpart, relay, seen, torn, have_assign, main, claimed, breaks>>
      /\ left' \in Nat /\ up' \in BOOLEAN /\ claiming' \in BOOLEAN
  <2>1. left \in Nat /\ up \in BOOLEAN /\ claiming \in BOOLEAN
    BY DEF IInv, Types
  <2>2. CASE AppQueue("tun") \/ AppQueue("shut") \/ Refresh
    BY <2>1, <2>2 DEF AppQueue, Refresh, sender, inbound, atRelay, starting
  <2>3. CASE ClaimSend
    BY <2>1, <2>3 DEF ClaimSend, sender, inbound, atRelay, starting
  <2>4. CASE Dial
    BY <2>1, <2>4 DEF Dial, sender, inbound, atRelay, starting
  <2> QED BY <2>2, <2>3, <2>4
<1>3. Facts'
  BY <1>1, <1>2, QueueKeeps
<1>4. q' \in Seq(Frame) /\ bytes' \in Nat /\ next' \in Nat
  BY <1>1, QueueEffect DEF IInv, Types
<1>5. Types'
  BY <1>2, <1>4 DEF IInv, Types
<1> QED BY <1>3, <1>5 DEF IInv, Facts

\* The steps of the program and of the relay that move no frame.
LEMMA FlagStep ==
  ASSUME IInv, Claim \/ UdpNode \/ Begin \/ BudgetSpent \/ Fatal
  PROVE  IInv'
<1>1. /\ UNCHANGED <<q, bytes, cur, off, up, out, inp, rpart, have_assign, next, left, breaks,
                     seen, torn>>
      /\ relay'.part = relay.part /\ relay' \in Records
      /\ claimed' \in BOOLEAN /\ claiming' \in BOOLEAN
      /\ main' \in {"wait", "started", "failing", "dead"}
      /\ main' = "started" => main = "started" \/ have_assign \/ NoWait
  BY DEF IInv, Types, Records, Claim, UdpNode, Begin, BudgetSpent, Fatal, queue, sender, inbound,
         atRelay, starting
<1>2. Types'
  BY <1>1 DEF IInv, Types
<1>3. Numbered' /\ NotBegun' /\ CtlOrdered' /\ BytesCounted' /\ InWhole' /\ NoTornFrame' /\ Answered'
  BY <1>1 DEF IInv, Numbered, NotBegun, CtlOrdered, BytesCounted, InWhole, NoTornFrame, Answered
<1>4. OutWhole'
  BY <1>1 DEF IInv, OutWhole
<1>5. LeaseFirst'
  BY <1>1 DEF IInv, Answered, LeaseFirst
<1> QED BY <1>2, <1>3, <1>4, <1>5 DEF IInv

-----------------------------------------------------------------------------
\* dt_tcp_thread takes the next frame.
LEMMA TakeStep == ASSUME IInv, Take PROVE IInv'
<1>1. Types
  BY DEF IInv
<1>2. /\ cur = None /\ q # <<>> /\ cur' = Head(q) /\ q' = Tail(q) /\ off' = 0
      /\ UNCHANGED <<bytes, next, up, out, inp, rpart, have_assign, relay, seen, claimed, claiming,
                     main, left, breaks, torn>>
  BY DEF Take, inbound, atRelay, starting
<1>3. /\ q' \in Seq(Frame) /\ Len(q') = Len(q) - 1 /\ cur' = q[1] /\ cur' \in Frame
      /\ \A i \in 1 .. Len(q) - 1 : q'[i] = q[i + 1]
  <2>1. q \in Seq(Frame)
    BY <1>1 DEF Types
  <2> QED BY <1>2, <2>1, TailFacts
<1>4. Types'
  BY <1>1, <1>2, <1>3 DEF Types
<1>5. Len(q) \in Nat /\ 1 <= Len(q) /\ 1 \in DOMAIN q /\ DOMAIN q = 1 .. Len(q)
  BY <1>1, <1>2, TypeFacts
<1>6. DOMAIN q' = 1 .. (Len(q) - 1)
  BY <1>3
<1>7. \A i \in DOMAIN q' : i \in Nat /\ i + 1 \in DOMAIN q /\ q'[i] = q[i + 1] /\ 1 < i + 1
  BY <1>3, <1>5, <1>6
<1>8. 0 < cur'.id /\ cur'.id < next /\ cur' # None
  BY <1>3, <1>5, TypeFacts, <1>1 DEF IInv, Numbered
<1>9. off = 0
  BY <1>2 DEF IInv, Numbered
<1>10. Numbered'
  BY <1>2, <1>7, <1>8 DEF IInv, Numbered
<1>11. \A i \in DOMAIN out : out[i][1].id < cur'.id
  BY <1>3, <1>5 DEF IInv, CtlOrdered
<1>12. CtlOrdered'
  <2>1. \A i \in DOMAIN out : Num(out[i][1], out[i][2]) < Num(cur', 2)
    <3>1. cur'.id \in Nat
      BY <1>3, <1>5, <1>1, TypeFacts
    <3>2. \A i \in DOMAIN out : out[i][1].id \in Nat /\ out[i][2] \in {1, 2}
      BY <1>1, TypeFacts
    <3> QED BY <1>11, <3>1, <3>2 DEF Num
  <2>2. \A i \in DOMAIN q' : seen < q'[i].id /\ cur'.id < q'[i].id
    BY <1>3, <1>5, <1>7 DEF IInv, CtlOrdered
  <2>3. \A i, j \in DOMAIN q' : i < j => q'[i].id < q'[j].id
    <3> SUFFICES ASSUME NEW i \in DOMAIN q', NEW j \in DOMAIN q', i < j PROVE q'[i].id < q'[j].id
      OBVIOUS
    <3>1. i + 1 < j + 1
      BY <1>7
    <3> QED BY <3>1, <1>7 DEF IInv, CtlOrdered
  <2>4. seen < cur'.id
    BY <1>3, <1>5 DEF IInv, CtlOrdered
  <2>5. \A i \in DOMAIN out, j \in DOMAIN q' : out[i][1].id < q'[j].id
    BY <1>7 DEF IInv, CtlOrdered
  <2>6. \A i \in DOMAIN out :
          /\ 2 * seen + 2 < Num(out[i][1], out[i][2])
          /\ \A j \in DOMAIN out : i < j => Num(out[i][1], out[i][2]) < Num(out[j][1], out[j][2])
    BY DEF IInv, CtlOrdered
  <2> QED BY <1>2, <2>1, <2>2, <2>3, <2>4, <2>5, <2>6 DEF CtlOrdered, Num
<1>13. NotBegun'
  BY <1>2, <1>11 DEF NotBegun
<1>14. BytesCounted'
  BY <1>2, <1>3, <1>5, <1>8 DEF IInv, BytesCounted
<1>15. OutWhole'
  BY <1>2, <1>9 DEF IInv, OutWhole
<1>16. InWhole' /\ NoTornFrame' /\ Answered' /\ LeaseFirst'
  BY <1>2 DEF IInv, InWhole, NoTornFrame, Answered, LeaseFirst
<1> QED BY <1>4, <1>10, <1>12, <1>13, <1>14, <1>15, <1>16 DEF IInv

\* The lease comes over a link whose frames are whole.
LEMMA ReceiveStep == ASSUME IInv, Receive PROVE IInv'
<1>1. Types
  BY DEF IInv
<1>2. /\ inp # <<>> /\ inp' = Tail(inp) /\ rpart' = (Head(inp) = 1)
      /\ have_assign' = (have_assign \/ Head(inp) = 2)
      /\ torn' = (torn \/ rpart = (Head(inp) = 1))
      /\ UNCHANGED <<q, bytes, next, cur, off, up, out, relay, seen, claimed, claiming, main, left,
                     breaks>>
  <2>1. have_assign' = IF Head(inp) = 2 THEN TRUE ELSE have_assign
    BY DEF Receive, Dispatch
  <2>2. have_assign \in BOOLEAN
    BY <1>1 DEF Types
  <2>3. have_assign' = (have_assign \/ Head(inp) = 2)
    BY <2>1, <2>2
  <2> QED BY <2>3 DEF Receive, queue, sender, atRelay, starting
<1>3. /\ inp' \in Seq({1, 2}) /\ Len(inp') = Len(inp) - 1 /\ Head(inp) = inp[1]
      /\ \A i \in 1 .. Len(inp) - 1 : inp'[i] = inp[i + 1]
  <2>1. inp \in Seq({1, 2})
    BY <1>1 DEF Types
  <2> QED BY <1>2, <2>1, TailFacts
<1>4. Len(inp) \in Nat /\ 1 <= Len(inp) /\ 1 \in DOMAIN inp /\ DOMAIN inp = 1 .. Len(inp)
      /\ inp[1] \in {1, 2}
  BY <1>1, <1>2, TypeFacts
<1>5. rpart' \in BOOLEAN /\ have_assign' \in BOOLEAN /\ torn' \in BOOLEAN
  BY <1>1, <1>2 DEF Types
<1>6. Types'
  BY <1>1, <1>2, <1>3, <1>5 DEF Types
<1>7. inp[1] = 2 <=> rpart
  BY <1>4 DEF IInv, InWhole
<1>7a. rpart' <=> inp[1] = 1
  <2>1. rpart' = (inp[1] = 1)
    BY <1>2, <1>3
  <2> QED BY <2>1
<1>8. NoTornFrame'
  <2>1. ~torn
    BY DEF IInv, NoTornFrame
  <2>2. torn' = (torn \/ (rpart = (inp[1] = 1)))
    BY <1>2, <1>3
  <2>3. rpart \in BOOLEAN
    BY <1>1 DEF Types
  <2>4. rpart # (inp[1] = 1)
    <3>1. CASE inp[1] = 1
      <4>1. rpart = FALSE
        BY <3>1, <1>7, <2>3
      <4> QED BY <3>1, <4>1
    <3>2. CASE inp[1] = 2
      <4>1. rpart = TRUE
        BY <3>2, <1>7, <2>3
      <4>2. ~(inp[1] = 1)
        BY <3>2
      <4>3. (inp[1] = 1) = FALSE
        BY <4>2
      <4> QED BY <4>1, <4>3
    <3> QED BY <1>4, <3>1, <3>2
  <2> QED BY <2>1, <2>2, <2>4 DEF NoTornFrame
<1>9. DOMAIN inp' = 1 .. (Len(inp) - 1) /\ (inp' = <<>> <=> Len(inp) = 1)
  BY <1>3, <1>4
<1>10. InWhole'
  <2>1. \A i \in DOMAIN inp' : inp'[i] = 2 => IF i = 1 THEN rpart' ELSE inp'[i - 1] = 1
    <3> SUFFICES ASSUME NEW i \in 1 .. (Len(inp) - 1), inp'[i] = 2
                 PROVE  IF i = 1 THEN rpart' ELSE inp'[i - 1] = 1
      BY <1>9
    <3>1. i \in Nat /\ i + 1 \in DOMAIN inp /\ i + 1 # 1 /\ inp[i + 1] = 2 /\ (i + 1) - 1 = i
      BY <1>3, <1>4
    <3>2. inp[i] = 1
      BY <3>1 DEF IInv, InWhole
    <3>3. CASE i = 1
      BY <3>2, <3>3, <1>7a
    <3>4. CASE i # 1
      <4>1. i - 1 \in 1 .. (Len(inp) - 1) /\ (i - 1) + 1 = i
        BY <3>4, <1>4
      <4> QED BY <4>1, <3>2, <3>4, <1>3
    <3> QED BY <3>3, <3>4
  <2>2. \A i \in DOMAIN inp' : inp'[i] = 1 => IF i = 1 THEN ~rpart' ELSE inp'[i - 1] = 2
    <3> SUFFICES ASSUME NEW i \in 1 .. (Len(inp) - 1), inp'[i] = 1
                 PROVE  IF i = 1 THEN ~rpart' ELSE inp'[i - 1] = 2
      BY <1>9
    <3>1. i \in Nat /\ i + 1 \in DOMAIN inp /\ i + 1 # 1 /\ inp[i + 1] = 1 /\ (i + 1) - 1 = i
      BY <1>3, <1>4
    <3>2. inp[i] = 2
      BY <3>1 DEF IInv, InWhole
    <3>3. CASE i = 1
      BY <3>2, <3>3, <1>7a
    <3>4. CASE i # 1
      <4>1. i - 1 \in 1 .. (Len(inp) - 1) /\ (i - 1) + 1 = i
        BY <3>4, <1>4
      <4> QED BY <4>1, <3>2, <3>4, <1>3
    <3> QED BY <3>3, <3>4
  <2>3. inp[Len(inp)] = 2
    BY <1>2 DEF IInv, InWhole
  <2>4. inp' = <<>> => ~rpart'
    <3>1. Len(inp) = 1 => inp[1] = 2
      BY <2>3
    <3> QED BY <1>7a, <1>9, <3>1
  <2>5. inp' # <<>> => inp'[Len(inp')] = 2
    <3> SUFFICES ASSUME inp' # <<>> PROVE inp'[Len(inp')] = 2
      OBVIOUS
    <3>1. Len(inp) - 1 \in 1 .. Len(inp) - 1 /\ (Len(inp) - 1) + 1 = Len(inp)
      BY <1>4, <1>9
    <3> QED BY <3>1, <1>3, <2>3
  <2> QED BY <2>1, <2>2, <2>4, <2>5 DEF InWhole
<1>11. Numbered' /\ NotBegun' /\ CtlOrdered' /\ BytesCounted' /\ OutWhole'
  BY <1>2 DEF IInv, Numbered, NotBegun, CtlOrdered, BytesCounted, OutWhole
<1>12. Answered' /\ LeaseFirst'
  <2>1. seen > 0
    BY <1>2 DEF IInv, Answered
  <2>2. have_assign => have_assign'
    BY <1>2
  <2> QED BY <1>2, <2>1, <2>2 DEF IInv, Answered, LeaseFirst
<1> QED BY <1>6, <1>8, <1>10, <1>11, <1>12 DEF IInv

-----------------------------------------------------------------------------
\* The socket takes the first half of a frame.
LEMMA SendHalfStep == ASSUME IInv, SendHalf PROVE IInv'
<1>1. Types
  BY DEF IInv
<1>2. /\ cur # None /\ off = 0 /\ off' = 1 /\ out' = Append(out, <<cur, 1>>)
      /\ UNCHANGED <<q, bytes, next, cur, up, inp, rpart, have_assign, relay, seen, claimed, claiming,
                     main, left, breaks, torn>>
  BY DEF SendHalf, queue, inbound, atRelay, starting
<1>3. /\ out' \in Seq(Frame \X {1, 2}) /\ Len(out') = Len(out) + 1 /\ out'[Len(out) + 1] = <<cur, 1>>
      /\ \A i \in 1 .. Len(out) : out'[i] = out[i]
  <2>1. out \in Seq(Frame \X {1, 2}) /\ <<cur, 1>> \in Frame \X {1, 2}
    BY <1>1 DEF Types
  <2> QED BY <1>2, <2>1, EndFacts
<1>4. /\ Len(out) \in Nat /\ DOMAIN out = 1 .. Len(out) /\ (out = <<>> <=> Len(out) = 0)
      /\ \A i \in DOMAIN out : out[i][1].id \in Nat /\ out[i][2] \in {1, 2}
      /\ cur.id \in Nat /\ seen \in Nat
  BY <1>1, TypeFacts
<1>5. DOMAIN out' = 1 .. Len(out) + 1 /\ out' # <<>>
  BY <1>3, <1>4
<1>6. \A i \in DOMAIN out' : \/ i \in DOMAIN out /\ out'[i] = out[i] /\ i < Len(out) + 1
                             \/ i = Len(out) + 1 /\ out'[i][1] = cur /\ out'[i][2] = 1
  BY <1>3, <1>4, <1>5
<1>7. Types'
  BY <1>1, <1>2, <1>3 DEF Types
<1>8. Numbered' /\ NotBegun'
  BY <1>2, <1>6 DEF IInv, Numbered, NotBegun
<1>9. CtlOrdered'
  <2>1. \A i \in DOMAIN out : out[i][1].id < cur.id
    BY <1>2 DEF IInv, NotBegun
  <2>2. \A i \in DOMAIN out : Num(out[i][1], out[i][2]) < Num(cur, 1)
    BY <2>1, <1>4 DEF Num
  <2>3. 2 * seen + 2 < Num(cur, 1) /\ Num(cur, 1) < Num(cur, 2)
    BY <1>2, <1>4 DEF IInv, CtlOrdered, Num
  <2>4. \A i \in DOMAIN out' :
          /\ 2 * seen + 2 < Num(out'[i][1], out'[i][2])
          /\ Num(out'[i][1], out'[i][2]) < Num(cur, 2)
          /\ \A j \in DOMAIN q : out'[i][1].id < q[j].id
    BY <1>2, <1>6, <2>3 DEF IInv, CtlOrdered
  <2>5. \A i, j \in DOMAIN out' : i < j => Num(out'[i][1], out'[i][2]) < Num(out'[j][1], out'[j][2])
    <3> SUFFICES ASSUME NEW i \in DOMAIN out', NEW j \in DOMAIN out', i < j
                 PROVE  Num(out'[i][1], out'[i][2]) < Num(out'[j][1], out'[j][2])
      OBVIOUS
    <3>1. i \in DOMAIN out /\ out'[i] = out[i]
      BY <1>4, <1>5, <1>6
    <3>2. CASE j \in DOMAIN out /\ out'[j] = out[j]
      BY <3>1, <3>2 DEF IInv, CtlOrdered
    <3>3. CASE out'[j][1] = cur /\ out'[j][2] = 1
      BY <3>1, <3>3, <2>2
    <3> QED BY <1>6, <3>2, <3>3
  <2> QED BY <1>2, <2>4, <2>5 DEF IInv, CtlOrdered, Num
<1>10. OutWhole'
  <2>1. IF out = <<>> THEN relay.part = 0 ELSE out[Len(out)][2] = 2
    BY <1>2 DEF IInv, OutWhole
  <2>2. \A i \in DOMAIN out' :
          out'[i][2] = 2 => IF i = 1 THEN relay.part = out'[i][1].id
                                     ELSE out'[i - 1][1] = out'[i][1] /\ out'[i - 1][2] = 1
    <3> SUFFICES ASSUME NEW i \in DOMAIN out', out'[i][2] = 2
                 PROVE  IF i = 1 THEN relay.part = out'[i][1].id
                                 ELSE out'[i - 1][1] = out'[i][1] /\ out'[i - 1][2] = 1
      OBVIOUS
    <3>1. i \in DOMAIN out /\ out'[i] = out[i]
      BY <1>6
    <3>2. i # 1 => out'[i - 1] = out[i - 1]
      BY <1>3, <1>4, <3>1
    <3> QED BY <3>1, <3>2 DEF IInv, OutWhole
  <2>3. \A i \in DOMAIN out' :
          out'[i][2] = 1 => IF i = 1 THEN relay.part = 0 ELSE out'[i - 1][2] = 2
    <3> SUFFICES ASSUME NEW i \in DOMAIN out', out'[i][2] = 1
                 PROVE  IF i = 1 THEN relay.part = 0 ELSE out'[i - 1][2] = 2
      OBVIOUS
    <3>1. CASE i \in DOMAIN out /\ out'[i] = out[i]
      <4>1. i # 1 => out'[i - 1] = out[i - 1]
        BY <1>3, <1>4, <3>1
      <4> QED BY <3>1, <4>1 DEF IInv, OutWhole
    <3>2. CASE i = Len(out) + 1
      <4>1. i # 1 => out # <<>> /\ i - 1 = Len(out) /\ out'[i - 1] = out[Len(out)]
        BY <1>3, <1>4, <3>2
      <4>2. i = 1 => out = <<>>
        BY <1>4, <3>2
      <4> QED BY <2>1, <4>1, <4>2
    <3> QED BY <1>6, <3>1, <3>2
  <2>4. out'[Len(out')][1] = cur /\ out'[Len(out')][2] = 1
    BY <1>3
  <2> QED BY <1>2, <1>5, <2>2, <2>3, <2>4 DEF OutWhole
<1>11. BytesCounted' /\ InWhole' /\ NoTornFrame' /\ Answered' /\ LeaseFirst'
  BY <1>2 DEF IInv, BytesCounted, InWhole, NoTornFrame, Answered, LeaseFirst
<1> QED BY <1>7, <1>8, <1>9, <1>10, <1>11 DEF IInv

\* The link is lost.
LEMMA RedialStep == ASSUME IInv, Redial PROVE IInv'
<1>1. Types
  BY DEF IInv
<1>2. /\ breaks > 0 /\ breaks' = breaks - 1 /\ up' = FALSE
      /\ q' = (IF cur # None /\ off = 0 THEN <<cur>> \o q ELSE q)
      /\ bytes' = (IF cur # None /\ off = 1 THEN bytes - 1 ELSE bytes)
      /\ cur' = None /\ off' = 0 /\ rpart' = FALSE /\ out' = <<>> /\ inp' = <<>> /\ relay' = Unknown
      /\ UNCHANGED <<next, have_assign, seen, claimed, claiming, main, left, torn>>
  BY DEF Redial, RedialQueue, RedialInput, starting
<1>2a. cur' = None /\ off' = 0 /\ out' = <<>> /\ next' = next /\ seen' = seen
  BY <1>2
<1>3. /\ Len(q) \in Nat /\ DOMAIN q = 1 .. Len(q) /\ cur.id \in Nat /\ None \in Frame /\ None.id = 0
      /\ next \in Nat /\ bytes \in Nat /\ off \in {0, 1}
      /\ \A i \in DOMAIN q : q[i].id \in Nat
  BY <1>1, TypeFacts
<1>4. BytesCounted' /\ bytes' \in Nat /\ q' \in Seq(Frame) /\ Numbered'
      /\ \A i \in DOMAIN q' : seen < q'[i].id /\ 0 < q'[i].id
                             /\ \A j \in DOMAIN q' : i < j => q'[i].id < q'[j].id
  <2>0. q \in Seq(Frame) /\ cur \in Frame
    BY <1>1 DEF Types
  <2>1. CASE cur # None /\ off = 0
    <3>1. /\ q' \in Seq(Frame) /\ Len(q') = Len(q) + 1 /\ q'[1] = cur
          /\ \A i \in 2 .. Len(q) + 1 : q'[i] = q[i - 1]
      BY <1>2, <2>0, <2>1, EndFacts
    <3>2. DOMAIN q' = 1 .. Len(q) + 1
      BY <3>1
    <3>3. \A i \in DOMAIN q' : \/ i = 1 /\ q'[i] = cur
                               \/ i > 1 /\ i - 1 \in DOMAIN q /\ q'[i] = q[i - 1]
      BY <1>3, <3>1, <3>2
    <3>4. bytes = Len(q) + 1 /\ bytes' = bytes
      BY <1>2, <2>1 DEF IInv, BytesCounted
    <3>5. BytesCounted'
      BY <1>2a, <1>3, <3>1, <3>4 DEF BytesCounted
    <3>6. 0 < cur.id /\ cur.id < next /\ seen < cur.id
      BY <2>1 DEF IInv, Numbered, CtlOrdered
    <3>7. \A i \in DOMAIN q' : seen < q'[i].id /\ 0 < q'[i].id /\ q'[i].id < next
      BY <3>3, <3>6 DEF IInv, Numbered, CtlOrdered
    <3>8. \A i, j \in DOMAIN q' : i < j => q'[i].id < q'[j].id
      <4> SUFFICES ASSUME NEW i \in DOMAIN q', NEW j \in DOMAIN q', i < j PROVE q'[i].id < q'[j].id
        OBVIOUS
      <4>1. i \in Nat /\ j \in Nat /\ j > 1 /\ j - 1 \in DOMAIN q /\ q'[j] = q[j - 1]
        BY <1>3, <3>2, <3>3
      <4>2. CASE i = 1
        BY <4>1, <4>2, <3>3 DEF IInv, CtlOrdered
      <4>3. CASE i # 1
        <5>1. i - 1 \in DOMAIN q /\ q'[i] = q[i - 1] /\ i - 1 < j - 1
          BY <4>1, <4>3, <3>3
        <5> QED BY <4>1, <5>1 DEF IInv, CtlOrdered
      <4> QED BY <4>2, <4>3
    <3>9. Numbered'
      BY <1>2, <1>3, <3>6, <3>7 DEF IInv, Numbered
    <3> QED BY <1>3, <3>1, <3>4, <3>5, <3>7, <3>8, <3>9
  <2>2. CASE ~(cur # None /\ off = 0)
    <3>1. q' = q
      BY <1>2, <2>2
    <3>2. bytes' = Len(q)
      <4>1. CASE cur = None
        BY <1>2, <1>3, <4>1 DEF IInv, BytesCounted
      <4>2. CASE cur # None
        <5>1. off = 1 /\ bytes = Len(q) + 1
          BY <1>3, <2>2, <4>2 DEF IInv, BytesCounted
        <5> QED BY <1>2, <1>3, <4>2, <5>1
      <4> QED BY <4>1, <4>2
    <3>3. Numbered'
      BY <1>2a, <1>3, <3>1 DEF IInv, Numbered
    <3>4. BytesCounted'
      BY <1>2a, <1>3, <3>1, <3>2 DEF BytesCounted
    <3> QED BY <1>3, <2>0, <3>1, <3>2, <3>3, <3>4 DEF IInv, Numbered, CtlOrdered
  <2> QED BY <2>1, <2>2
<1>5. Types'
  <2>1. breaks' \in Nat
    BY <1>1, <1>2 DEF Types
  <2>2. Unknown \in Records
    BY DEF Unknown, Records
  <2>3. out' \in Seq(Frame \X {1, 2}) /\ inp' \in Seq({1, 2})
    BY <1>2
  <2> QED BY <1>1, <1>2, <1>3, <1>4, <2>1, <2>2, <2>3 DEF Types
<1>6. CtlOrdered' /\ NotBegun'
  BY <1>2a, <1>3, <1>4 DEF CtlOrdered, NotBegun
<1>7. OutWhole' /\ InWhole'
  BY <1>2 DEF OutWhole, InWhole, Unknown
<1>8. NoTornFrame' /\ Answered' /\ LeaseFirst'
  BY <1>2 DEF IInv, NoTornFrame, Answered, LeaseFirst
<1> QED BY <1>4, <1>5, <1>6, <1>7, <1>8 DEF IInv

\* The socket takes the rest of a frame.
LEMMA SendRestStep == ASSUME IInv, SendRest PROVE IInv'
<1>1. Types
  BY DEF IInv
<1>2. /\ cur # None
      /\ out' = out \o (IF off = 0 THEN <<<<cur, 1>>, <<cur, 2>>>> ELSE <<<<cur, 2>>>>)
      /\ bytes' = bytes - 1 /\ cur' = None /\ off' = 0
      /\ UNCHANGED <<q, next, up, inp, rpart, have_assign, relay, seen, claimed, claiming, main, left,
                     breaks, torn>>
  BY DEF SendRest, inbound, atRelay, starting
<1>3. /\ Len(out) \in Nat /\ DOMAIN out = 1 .. Len(out) /\ (out = <<>> <=> Len(out) = 0)
      /\ \A i \in DOMAIN out : out[i][1].id \in Nat /\ out[i][2] \in {1, 2}
      /\ cur.id \in Nat /\ seen \in Nat /\ off \in {0, 1} /\ None \in Frame /\ None.id = 0
      /\ Len(q) \in Nat /\ next \in Nat
  BY <1>1, TypeFacts
<1>4. PICK n \in Nat :
        /\ n = Len(out) + (IF off = 0 THEN 2 ELSE 1)
        /\ out' \in Seq(Frame \X {1, 2}) /\ Len(out') = n
        /\ \A i \in 1 .. Len(out) : out'[i] = out[i]
        /\ off = 0 => out'[Len(out) + 1] = <<cur, 1>>
        /\ out'[n] = <<cur, 2>>
  <2>1. /\ out \in Seq(Frame \X {1, 2})
        /\ <<cur, 1>> \in Frame \X {1, 2} /\ <<cur, 2>> \in Frame \X {1, 2}
    BY <1>1 DEF Types
  <2>2. CASE off = 0
    <3>1. out' = out \o <<<<cur, 1>>, <<cur, 2>>>>
      BY <1>2, <2>2
    <3>2. /\ out' \in Seq(Frame \X {1, 2}) /\ Len(out') = Len(out) + 2
          /\ \A i \in 1 .. Len(out) : out'[i] = out[i]
          /\ out'[Len(out) + 1] = <<cur, 1>> /\ out'[Len(out) + 2] = <<cur, 2>>
      BY <2>1, <3>1, PairFacts
    <3>3. Len(out) + 2 \in Nat
      BY <1>3
    <3> QED BY <2>2, <3>2, <3>3
  <2>3. CASE off = 1
    <3>1. <<<<cur, 2>>>> \in Seq(Frame \X {1, 2}) /\ Len(<<<<cur, 2>>>>) = 1 /\ <<<<cur, 2>>>>[1] = <<cur, 2>>
      BY <2>1
    <3>2. out' = out \o <<<<cur, 2>>>>
      BY <1>2, <2>3
    <3>3. /\ out' \in Seq(Frame \X {1, 2}) /\ Len(out') = Len(out) + 1
          /\ \A i \in 1 .. Len(out) : out'[i] = out[i]
          /\ \A i \in 1 .. Len(out) + 1 : i > Len(out) => out'[i] = <<<<cur, 2>>>>[i - Len(out)]
      BY <2>1, <3>1, <3>2, ConcatFacts
    <3>4. out'[Len(out) + 1] = <<cur, 2>>
      <4>1. Len(out) + 1 \in 1 .. Len(out) + 1 /\ Len(out) + 1 > Len(out) /\ (Len(out) + 1) - Len(out) = 1
        BY <1>3
      <4> QED BY <3>1, <3>3, <4>1
    <3> QED BY SMTT(30), <1>3, <2>3, <3>3, <3>4
  <2> QED BY <1>3, <2>2, <2>3
<1>5. DOMAIN out' = 1 .. n /\ n > Len(out) /\ out' # <<>>
  BY <1>3, <1>4
<1>6. \A i \in DOMAIN out' :
        \/ i \in DOMAIN out /\ out'[i] = out[i] /\ i <= Len(out)
        \/ i = Len(out) + 1 /\ off = 0 /\ i < n /\ out'[i][1] = cur /\ out'[i][2] = 1
        \/ i = n /\ out'[i][1] = cur /\ out'[i][2] = 2
  <2> SUFFICES ASSUME NEW i \in 1 .. n
               PROVE  \/ i \in DOMAIN out /\ out'[i] = out[i] /\ i <= Len(out)
                      \/ i = Len(out) + 1 /\ off = 0 /\ i < n /\ out'[i][1] = cur /\ out'[i][2] = 1
                      \/ i = n /\ out'[i][1] = cur /\ out'[i][2] = 2
    BY <1>5
  <2>1. CASE i <= Len(out)
    BY <1>3, <1>4, <2>1
  <2>2. CASE i > Len(out) /\ i < n
    <3>1. i = Len(out) + 1 /\ off = 0
      BY <1>3, <1>4, <2>2
    <3> QED BY <1>4, <2>2, <3>1
  <2>3. CASE i = n
    BY <1>4, <2>3
  <2> QED BY <1>3, <2>1, <2>2, <2>3
<1>7. bytes' \in Nat /\ BytesCounted'
  <2>1. bytes = Len(q) + 1
    BY <1>2 DEF IInv, BytesCounted
  <2>2. bytes' = Len(q) /\ q' = q /\ cur' = None
    BY <1>2, <1>3, <2>1
  <2> QED BY <1>3, <2>2 DEF BytesCounted
<1>8. Types'
  <2>1. out' \in Seq(Frame \X {1, 2}) /\ cur' \in Frame /\ off' \in {0, 1}
    BY <1>2, <1>3, <1>4
  <2>2. UNCHANGED <<q, next, up, inp, rpart, have_assign, relay, seen, claimed, claiming, main, left,
                   breaks, torn>>
    BY <1>2
  <2> QED BY <1>1, <1>7, <2>1, <2>2 DEF Types
<1>9. cur' = None /\ off' = 0 /\ next' = next /\ seen' = seen /\ q' = q /\ relay' = relay
  BY <1>2
<1>10. Numbered' /\ NotBegun'
  <2>1. 0 < cur.id /\ cur.id < next
    BY <1>2 DEF IInv, Numbered
  <2>2. \A i \in DOMAIN out' : 0 < out'[i][1].id /\ out'[i][1].id < next
    BY <1>6, <2>1 DEF IInv, Numbered
  <2>3. None.id < next
    BY <1>3, <2>1
  <2> QED BY <1>9, <2>2, <2>3 DEF IInv, Numbered, NotBegun
<1>11. CtlOrdered'
  <2>1. off = 0 => \A i \in DOMAIN out : out[i][1].id < cur.id
    BY <1>2 DEF IInv, NotBegun
  <2>2. off = 0 => \A i \in DOMAIN out : Num(out[i][1], out[i][2]) < Num(cur, 1)
    BY <2>1, <1>3 DEF Num
  <2>3. 2 * seen + 2 < Num(cur, 1) /\ Num(cur, 1) < Num(cur, 2) /\ 2 * seen + 2 < Num(cur, 2)
    BY <1>2, <1>3 DEF IInv, CtlOrdered, Num
  <2>4. \A i \in DOMAIN out' :
          /\ 2 * seen + 2 < Num(out'[i][1], out'[i][2])
          /\ \A j \in DOMAIN q : out'[i][1].id < q[j].id
    BY <1>6, <2>3 DEF IInv, CtlOrdered
  <2>5. \A i, j \in DOMAIN out' : i < j => Num(out'[i][1], out'[i][2]) < Num(out'[j][1], out'[j][2])
    <3> SUFFICES ASSUME NEW i \in 1 .. n, NEW j \in 1 .. n, i < j
                 PROVE  Num(out'[i][1], out'[i][2]) < Num(out'[j][1], out'[j][2])
      BY <1>5
    <3>0. i \in DOMAIN out' /\ j \in DOMAIN out' /\ i < n
      BY <1>3, <1>5
    <3>1. CASE i \in DOMAIN out /\ out'[i] = out[i]
      <4>1. CASE j \in DOMAIN out /\ out'[j] = out[j]
        BY <3>1, <4>1 DEF IInv, CtlOrdered
      <4>2. CASE off = 0 /\ out'[j][1] = cur /\ out'[j][2] = 1
        BY <3>1, <4>2, <2>2
      <4>3. CASE out'[j][1] = cur /\ out'[j][2] = 2
        BY <1>2, <3>1, <4>3 DEF IInv, CtlOrdered
      <4> QED BY <3>0, <1>6, <4>1, <4>2, <4>3
    <3>2. CASE i = Len(out) + 1 /\ off = 0 /\ out'[i][1] = cur /\ out'[i][2] = 1
      <4>1. j = n
        BY <1>3, <1>4, <3>2
      <4> QED BY <1>4, <2>3, <3>2, <4>1
    <3> QED BY <3>0, <1>3, <1>6, <3>1, <3>2
  <2>6. \A i \in DOMAIN q : seen < q[i].id /\ None.id < q[i].id /\ \A j \in DOMAIN q : i < j => q[i].id < q[j].id
    BY <1>3 DEF IInv, CtlOrdered, Numbered
  <2> QED BY <1>9, <2>4, <2>5, <2>6 DEF CtlOrdered
<1>12. OutWhole'
  <2>1. off = 0 => IF out = <<>> THEN relay.part = 0 ELSE out[Len(out)][2] = 2
    BY DEF IInv, OutWhole
  <2>2. off = 1 => IF out = <<>> THEN relay.part = cur.id
                                 ELSE out[Len(out)][1] = cur /\ out[Len(out)][2] = 1
    BY DEF IInv, OutWhole
  <2>3. \A i \in DOMAIN out' :
          out'[i][2] = 2 => IF i = 1 THEN relay.part = out'[i][1].id
                                     ELSE out'[i - 1][1] = out'[i][1] /\ out'[i - 1][2] = 1
    <3> SUFFICES ASSUME NEW i \in DOMAIN out', out'[i][2] = 2
                 PROVE  IF i = 1 THEN relay.part = out'[i][1].id
                                 ELSE out'[i - 1][1] = out'[i][1] /\ out'[i - 1][2] = 1
      OBVIOUS
    <3>1. CASE i \in DOMAIN out /\ out'[i] = out[i] /\ i <= Len(out)
      <4>1. i # 1 => out'[i - 1] = out[i - 1]
        BY SMTT(30), <1>3, <1>4, <3>1
      <4> QED BY <3>1, <4>1 DEF IInv, OutWhole
    <3>2. CASE i = n /\ out'[i][1] = cur
      <4>1. CASE off = 0
        <5>1. i # 1 /\ i - 1 = Len(out) + 1
          BY <1>3, <1>4, <3>2, <4>1
        <5>2. out'[i - 1] = <<cur, 1>>
          BY <1>4, <4>1, <5>1
        <5> QED BY <3>2, <5>1, <5>2
      <4>2. CASE off = 1
        <5>1. i - 1 = Len(out) /\ (i = 1 <=> out = <<>>)
          BY <1>3, <1>4, <3>2, <4>2
        <5>2. i # 1 => out'[i - 1] = out[Len(out)]
          BY <1>3, <1>4, <5>1
        <5> QED BY <2>2, <3>2, <4>2, <5>1, <5>2
      <4> QED BY <1>3, <4>1, <4>2
    <3> QED BY <1>6, <3>1, <3>2
  <2>4. \A i \in DOMAIN out' :
          out'[i][2] = 1 => IF i = 1 THEN relay.part = 0 ELSE out'[i - 1][2] = 2
    <3> SUFFICES ASSUME NEW i \in DOMAIN out', out'[i][2] = 1
                 PROVE  IF i = 1 THEN relay.part = 0 ELSE out'[i - 1][2] = 2
      OBVIOUS
    <3>1. CASE i \in DOMAIN out /\ out'[i] = out[i] /\ i <= Len(out)
      <4>1. i # 1 => out'[i - 1] = out[i - 1]
        BY SMTT(30), <1>3, <1>4, <3>1
      <4> QED BY <3>1, <4>1 DEF IInv, OutWhole
    <3>2. CASE i = Len(out) + 1 /\ off = 0
      <4>1. i - 1 = Len(out) /\ (i = 1 <=> out = <<>>)
        BY <1>3, <3>2
      <4>2. i # 1 => out'[i - 1] = out[Len(out)]
        BY <1>3, <1>4, <4>1
      <4> QED BY <2>1, <3>2, <4>1, <4>2
    <3> QED BY <1>6, <3>1, <3>2
  <2>5. out'[Len(out')][2] = 2
    BY <1>4
  <2> QED BY <1>5, <1>9, <2>3, <2>4, <2>5 DEF OutWhole
<1>13. InWhole' /\ NoTornFrame' /\ Answered' /\ LeaseFirst'
  BY <1>2 DEF IInv, InWhole, NoTornFrame, Answered, LeaseFirst
<1> QED BY <1>7, <1>8, <1>10, <1>11, <1>12, <1>13 DEF IInv

-----------------------------------------------------------------------------
\* The relay reads a half: the first element of out.
LEMMA RelayReadsStep == ASSUME IInv, RelayReads PROVE IInv'
<1> DEFINE f == out[1][1]
           whole == out[1][2] = 2
           node == whole /\ f.op = "node"
<1>1. Types
  BY DEF IInv
<1>2. /\ Len(out) \in Nat /\ DOMAIN out = 1 .. Len(out) /\ (out = <<>> <=> Len(out) = 0)
      /\ \A i \in DOMAIN out : out[i][1] \in Frame /\ out[i][1].id \in Nat /\ out[i][2] \in {1, 2}
      /\ cur.id \in Nat /\ seen \in Nat /\ next \in Nat /\ Len(inp) \in Nat /\ DOMAIN inp = 1 .. Len(inp)
      /\ \A i \in DOMAIN inp : inp[i] \in {1, 2}
      /\ \A i \in DOMAIN q : q[i].id \in Nat
  BY <1>1, TypeFacts
<1>3. out # <<>>
  BY DEF RelayReads
<1>4. /\ Tail(out) \in Seq(Frame \X {1, 2}) /\ Len(Tail(out)) = Len(out) - 1 /\ Head(out) = out[1]
      /\ \A i \in 1 .. Len(out) - 1 : Tail(out)[i] = out[i + 1]
  <2>1. out \in Seq(Frame \X {1, 2})
    BY <1>1 DEF Types
  <2> QED BY <1>3, <2>1, TailFacts
<1>5. /\ torn' = (torn \/ relay.part # (IF whole THEN f.id ELSE 0))
      /\ seen' = IF whole THEN f.id ELSE seen
      /\ relay' = [(IF node THEN Registered(f) ELSE relay) EXCEPT !.part = IF whole THEN 0 ELSE f.id]
      /\ inp' = IF node THEN inp \o <<1, 2>> ELSE inp
      /\ out' = Tail(out)
      /\ UNCHANGED <<q, bytes, next, cur, off, up, rpart, have_assign, claimed, claiming, main, left,
                     breaks>>
  BY <1>4 DEF RelayReads, queue, starting
<1>6. 1 \in DOMAIN out /\ f \in Frame /\ f.id \in Nat /\ out[1][2] \in {1, 2}
  BY <1>2, <1>3
<1>7. /\ whole => relay.part = f.id
      /\ ~whole => relay.part = 0
  BY <1>6 DEF IInv, OutWhole
<1>8. relay' \in Records /\ relay'.part = (IF whole THEN 0 ELSE f.id)
  <2>1. relay \in Records /\ Registered(f) \in Records
    BY <1>1, <1>6 DEF Types, Records, Registered, Frame
  <2>2. PICK r \in Records : relay' = [r EXCEPT !.part = IF whole THEN 0 ELSE f.id]
    BY <1>5, <2>1
  <2>3. CASE whole
    BY <2>2, <2>3 DEF Records
  <2>4. CASE ~whole
    <3>1. relay' = [r EXCEPT !.part = f.id] /\ f.id \in Nat
      BY <1>6, <2>2, <2>4
    <3> HIDE DEF f, whole
    <3> QED BY <2>4, <3>1 DEF Records
  <2> QED BY <2>3, <2>4
<1>9. 0 < f.id /\ f.id < next /\ (cur # None => f.id <= cur.id) /\ 2 * seen + 2 < Num(f, out[1][2])
  <2>1. 0 < f.id /\ f.id < next /\ 2 * seen + 2 < Num(f, out[1][2])
    BY <1>6 DEF IInv, Numbered, CtlOrdered
  <2>2. cur # None => Num(f, out[1][2]) < Num(cur, 2)
    BY <1>6 DEF IInv, CtlOrdered
  <2>3. cur # None => f.id <= cur.id
    BY SMTT(30), <1>2, <1>6, <2>2 DEF Num
  <2> QED BY <2>1, <2>3
<1> HIDE DEF f, whole, node
<1>10. DOMAIN out' = 1 .. (Len(out) - 1) /\ Len(out') = Len(out) - 1 /\ (out' = <<>> <=> Len(out) = 1)
  BY SMTT(30), <1>2, <1>3, <1>4, <1>5
<1>11. \A i \in DOMAIN out' : i \in Nat /\ i + 1 \in DOMAIN out /\ out'[i] = out[i + 1] /\ 1 < i + 1
  BY SMTT(30), <1>2, <1>4, <1>5, <1>10
<1>12. NoTornFrame'
  <2>1. ~torn
    BY DEF IInv, NoTornFrame
  <2>2. relay.part = (IF whole THEN f.id ELSE 0)
    BY <1>7 DEF f, whole
  <2> QED BY <1>5, <2>1, <2>2 DEF NoTornFrame
<1>13. seen' \in Nat /\ seen' < next /\ (seen' = seen \/ (whole /\ seen' = f.id)) /\ (seen' > 0 \/ seen' = seen)
  BY <1>2, <1>5, <1>6, <1>9 DEF IInv, Numbered, f
<1>14. Numbered' /\ NotBegun'
  <2>1. \A i \in DOMAIN out' : 0 < out'[i][1].id /\ out'[i][1].id < next
    BY <1>11 DEF IInv, Numbered
  <2>2. off = 0 /\ cur # None => \A i \in DOMAIN out' : out'[i][1].id < cur.id
    BY <1>11 DEF IInv, NotBegun
  <2> QED BY <1>5, <1>13, <2>1, <2>2 DEF IInv, Numbered, NotBegun
<1>15. CtlOrdered'
  <2>1. \A i \in DOMAIN out' :
          /\ Num(f, out[1][2]) < Num(out'[i][1], out'[i][2])
          /\ cur # None => Num(out'[i][1], out'[i][2]) < Num(cur, 2)
          /\ \A j \in DOMAIN q : out'[i][1].id < q[j].id
    BY <1>6, <1>11 DEF IInv, CtlOrdered, f
  <2>2. \A i \in DOMAIN out' : 2 * seen + 2 < Num(out'[i][1], out'[i][2])
    BY <1>11 DEF IInv, CtlOrdered
  <2>3. \A i \in DOMAIN out' : 2 * seen' + 2 < Num(out'[i][1], out'[i][2])
    <3>1. CASE seen' = seen
      BY <2>2, <3>1
    <3>2. CASE whole /\ seen' = f.id
      <4>1. Num(f, out[1][2]) = 2 * seen' + 2
        BY <3>2 DEF Num, whole
      <4> QED BY <2>1, <4>1
    <3> QED BY <1>13, <3>1, <3>2
  <2>4. \A i, j \in DOMAIN out' : i < j => Num(out'[i][1], out'[i][2]) < Num(out'[j][1], out'[j][2])
    <3> SUFFICES ASSUME NEW i \in DOMAIN out', NEW j \in DOMAIN out', i < j
                 PROVE  Num(out'[i][1], out'[i][2]) < Num(out'[j][1], out'[j][2])
      OBVIOUS
    <3>1. i + 1 < j + 1
      BY <1>11
    <3> QED BY <1>11, <3>1 DEF IInv, CtlOrdered
  <2>5. cur # None => seen' < cur.id
    <3>1. CASE seen' = seen
      BY <3>1 DEF IInv, CtlOrdered
    <3>2. CASE whole /\ seen' = f.id
      <4>1. cur # None => Num(f, 2) < Num(cur, 2)
        BY <1>6, <3>2 DEF IInv, CtlOrdered, f, whole
      <4> QED BY <1>2, <1>6, <3>2, <4>1 DEF Num, f
    <3> QED BY <1>13, <3>1, <3>2
  <2>6. \A i \in DOMAIN q : seen' < q[i].id
    <3>1. \A i \in DOMAIN q : f.id < q[i].id /\ seen < q[i].id
      BY <1>6 DEF IInv, CtlOrdered, f
    <3> QED BY <1>13, <3>1
  <2>7. \A i \in DOMAIN q : cur.id < q[i].id /\ \A j \in DOMAIN q : i < j => q[i].id < q[j].id
    BY DEF IInv, CtlOrdered
  <2>8. cur' = cur /\ q' = q
    BY <1>5
  <2> QED BY <2>1, <2>3, <2>4, <2>5, <2>6, <2>7, <2>8 DEF CtlOrdered
<1>16. OutWhole'
  <2>1. \A i \in DOMAIN out' :
          out'[i][2] = 2 => IF i = 1 THEN relay'.part = out'[i][1].id
                                     ELSE out'[i - 1][1] = out'[i][1] /\ out'[i - 1][2] = 1
    <3> SUFFICES ASSUME NEW i \in DOMAIN out', out'[i][2] = 2
                 PROVE  IF i = 1 THEN relay'.part = out'[i][1].id
                                 ELSE out'[i - 1][1] = out'[i][1] /\ out'[i - 1][2] = 1
      OBVIOUS
    <3>1. i \in Nat /\ i + 1 # 1 /\ (i + 1) - 1 = i /\ out[i + 1][2] = 2 /\ i + 1 \in DOMAIN out
      BY <1>11
    <3>2. out[i][1] = out[i + 1][1] /\ out[i][2] = 1
      BY <3>1 DEF IInv, OutWhole
    <3>3. CASE i = 1
      <4>1. ~whole /\ f = out[2][1] /\ out'[1] = out[2]
        BY <1>11, <3>2, <3>3 DEF f, whole
      <4> QED BY <1>8, <3>3, <4>1
    <3>4. CASE i # 1
      <4>1. i - 1 \in DOMAIN out' /\ (i - 1) + 1 = i
        BY <1>2, <1>3, <1>10, <3>4
      <4>2. out'[i - 1] = out[i]
        BY <1>11, <4>1
      <4> QED BY <1>11, <3>2, <3>4, <4>2
    <3> QED BY <3>3, <3>4
  <2>2. \A i \in DOMAIN out' :
          out'[i][2] = 1 => IF i = 1 THEN relay'.part = 0 ELSE out'[i - 1][2] = 2
    <3> SUFFICES ASSUME NEW i \in DOMAIN out', out'[i][2] = 1
                 PROVE  IF i = 1 THEN relay'.part = 0 ELSE out'[i - 1][2] = 2
      OBVIOUS
    <3>1. i \in Nat /\ i + 1 # 1 /\ (i + 1) - 1 = i /\ out[i + 1][2] = 1 /\ i + 1 \in DOMAIN out
      BY <1>11
    <3>2. out[i][2] = 2
      BY <3>1 DEF IInv, OutWhole
    <3>3. CASE i = 1
      BY <1>8, <3>2, <3>3 DEF whole
    <3>4. CASE i # 1
      <4>1. i - 1 \in DOMAIN out' /\ (i - 1) + 1 = i
        BY <1>2, <1>3, <1>10, <3>4
      <4>2. out'[i - 1] = out[i]
        BY <1>11, <4>1
      <4> QED BY <3>2, <3>4, <4>2
    <3> QED BY <3>3, <3>4
  <2>3. IF off = 1 THEN out[Len(out)][1] = cur /\ out[Len(out)][2] = 1 ELSE out[Len(out)][2] = 2
    BY <1>3 DEF IInv, OutWhole
  <2>4. out' = <<>> => relay'.part = (IF off = 1 THEN cur.id ELSE 0)
    <3> SUFFICES ASSUME out' = <<>> PROVE relay'.part = (IF off = 1 THEN cur.id ELSE 0)
      OBVIOUS
    <3>1. Len(out) = 1
      BY <1>10
    <3>2. CASE off = 1
      <4>1. out[1][1] = cur /\ out[1][2] = 1
        BY <2>3, <3>1, <3>2
      <4>2. f = cur /\ ~whole
        BY <4>1 DEF f, whole
      <4> QED BY <1>8, <3>2, <4>2
    <3>3. CASE off # 1
      <4>1. out[1][2] = 2
        BY <2>3, <3>1, <3>3
      <4>2. whole
        BY <4>1 DEF whole
      <4> QED BY <1>8, <3>3, <4>2
    <3> QED BY <3>2, <3>3
  <2>5. out' # <<>> => out'[Len(out')] = out[Len(out)]
    <3> SUFFICES ASSUME out' # <<>> PROVE out'[Len(out')] = out[Len(out)]
      OBVIOUS
    <3>1. Len(out) - 1 \in DOMAIN out' /\ (Len(out) - 1) + 1 = Len(out)
      BY <1>2, <1>3, <1>10
    <3> QED BY <1>10, <1>11, <3>1
  <2>6. off' = off /\ cur' = cur
    BY <1>5
  <2> QED BY <2>1, <2>2, <2>3, <2>4, <2>5, <2>6 DEF OutWhole
<1>17. inp' \in Seq({1, 2}) /\ InWhole'
  <2>0. inp \in Seq({1, 2})
    BY <1>1 DEF Types
  <2>1. CASE node
    <3>1. /\ inp' \in Seq({1, 2}) /\ Len(inp') = Len(inp) + 2
          /\ \A i \in 1 .. Len(inp) : inp'[i] = inp[i]
          /\ inp'[Len(inp) + 1] = 1 /\ inp'[Len(inp) + 2] = 2
      BY <1>5, <2>0, <2>1, PairFacts
    <3>2. DOMAIN inp' = 1 .. Len(inp) + 2 /\ inp' # <<>> /\ rpart' = rpart
      BY <1>2, <1>5, <3>1
    <3>3. \A i \in DOMAIN inp' : \/ i \in DOMAIN inp /\ inp'[i] = inp[i] /\ i <= Len(inp)
                                 \/ i = Len(inp) + 1 /\ inp'[i] = 1
                                 \/ i = Len(inp) + 2 /\ inp'[i] = 2
      BY <1>2, <3>1, <3>2
    <3>4. \A i \in DOMAIN inp' : inp'[i] = 2 => IF i = 1 THEN rpart ELSE inp'[i - 1] = 1
      <4> SUFFICES ASSUME NEW i \in DOMAIN inp', inp'[i] = 2
                   PROVE  IF i = 1 THEN rpart ELSE inp'[i - 1] = 1
        OBVIOUS
      <4>1. CASE i \in DOMAIN inp /\ inp'[i] = inp[i]
        <5>1. i # 1 => inp'[i - 1] = inp[i - 1]
          BY <1>2, <3>1, <4>1
        <5> QED BY <4>1, <5>1 DEF IInv, InWhole
      <4>2. CASE i = Len(inp) + 2
        <5>1. i # 1 /\ i - 1 = Len(inp) + 1
          BY <1>2, <4>2
        <5> QED BY <3>1, <5>1
      <4> QED BY <3>3, <4>1, <4>2
    <3>5. \A i \in DOMAIN inp' : inp'[i] = 1 => IF i = 1 THEN ~rpart ELSE inp'[i - 1] = 2
      <4> SUFFICES ASSUME NEW i \in DOMAIN inp', inp'[i] = 1
                   PROVE  IF i = 1 THEN ~rpart ELSE inp'[i - 1] = 2
        OBVIOUS
      <4>1. CASE i \in DOMAIN inp /\ inp'[i] = inp[i]
        <5>1. i # 1 => inp'[i - 1] = inp[i - 1]
          BY <1>2, <3>1, <4>1
        <5> QED BY <4>1, <5>1 DEF IInv, InWhole
      <4>2. CASE i = Len(inp) + 1
        <5>1. CASE Len(inp) = 0
          <6>1. inp = <<>>
            BY <2>0, <5>1
          <6>2. i = 1 /\ ~rpart
            BY <4>2, <5>1, <6>1 DEF IInv, InWhole
          <6> QED BY <6>2
        <5>2. CASE Len(inp) # 0
          <6>1. inp # <<>>
            BY <5>2
          <6>2. inp[Len(inp)] = 2
            BY <6>1 DEF IInv, InWhole
          <6>3. i # 1 /\ i - 1 = Len(inp) /\ inp'[i - 1] = inp[Len(inp)]
            BY <1>2, <3>1, <4>2, <5>2
          <6> QED BY <6>2, <6>3
        <5> QED BY <5>1, <5>2
      <4> QED BY <3>3, <4>1, <4>2
    <3> QED BY <3>1, <3>2, <3>4, <3>5 DEF InWhole
  <2>2. CASE ~node
    <3>1. inp' = inp /\ rpart' = rpart
      BY <1>5, <2>2
    <3> QED BY <2>0, <3>1 DEF IInv, InWhole
  <2> QED BY <2>1, <2>2
<1>18. BytesCounted'
  BY <1>5 DEF IInv, BytesCounted
<1>19. Answered' /\ LeaseFirst'
  <2>1. inp' # inp => seen' > 0
    BY <1>5, <1>6, <1>9 DEF node, f
  <2>2. seen > 0 => seen' > 0
    BY <1>13
  <2>3. have_assign' = have_assign /\ main' = main
    BY <1>5
  <2>4. Answered'
    BY <2>1, <2>2, <2>3 DEF IInv, Answered
  <2> QED BY <2>2, <2>3, <2>4 DEF IInv, LeaseFirst
<1>20. Types'
  <2>1. torn' \in BOOLEAN
    BY <1>12, <1>5
  <2>2. out' \in Seq(Frame \X {1, 2})
    BY <1>4, <1>5
  <2>3. UNCHANGED <<q, bytes, next, cur, off, up, rpart, have_assign, claimed, claiming, main, left, breaks>>
    BY <1>5
  <2> QED BY <1>1, <1>8, <1>13, <1>17, <2>1, <2>2, <2>3 DEF Types
<1> QED BY <1>12, <1>14, <1>15, <1>16, <1>17, <1>18, <1>19, <1>20 DEF IInv

-----------------------------------------------------------------------------
\* Every step keeps the invariant.
LEMMA StepIInv == IInv /\ [Next]_vars => IInv'
<1> SUFFICES ASSUME IInv, [Next]_vars PROVE IInv'
  OBVIOUS
<1>1. CASE AppQueue("tun") \/ AppQueue("shut") \/ Refresh \/ ClaimSend \/ Dial
  BY <1>1, QueueStep
<1>2. CASE Claim \/ UdpNode \/ Begin \/ BudgetSpent \/ Fatal
  BY <1>2, FlagStep
<1>3. CASE Take
  BY <1>3, TakeStep
<1>4. CASE SendHalf
  BY <1>4, SendHalfStep
<1>5. CASE SendRest
  BY <1>5, SendRestStep
<1>6. CASE Receive
  BY <1>6, ReceiveStep
<1>7. CASE Redial
  BY <1>7, RedialStep
<1>8. CASE RelayReads
  BY <1>8, RelayReadsStep
<1>9. CASE UNCHANGED vars
  BY <1>9 DEF vars, IInv, Types, Numbered, NotBegun, CtlOrdered, BytesCounted, OutWhole, InWhole,
              NoTornFrame, Answered, LeaseFirst
<1> QED BY <1>1, <1>2, <1>3, <1>4, <1>5, <1>6, <1>7, <1>8, <1>9 DEF Next, Link

\* The invariant holds throughout.
LEMMA Invariance == Spec => []IInv
  BY InitIInv, StepIInv, PTL DEF Spec

(* The relay reads the control messages in the order in which the program  *)
(* queued them and none of them twice, whatever links dt_tcp_thread loses. *)
THEOREM MessagesInOrder == Spec => []CtlOrdered
<1>1. IInv => CtlOrdered
  BY DEF IInv
<1> QED BY Invariance, <1>1, PTL

(* g_sq_bytes counts exactly the frames that dt_tcp_thread still has to    *)
(* send.                                                                   *)
THEOREM QueueBytesExact == Spec => []BytesCounted
<1>1. IInv => BytesCounted
  BY DEF IInv
<1> QED BY Invariance, <1>1, PTL

(* No frame that the loss of a link has cut is continued on a later one,   *)
(* at the sender of dt_tcp_thread or in its rbuf.                          *)
THEOREM FramesWhole == Spec => []NoTornFrame
<1>1. IInv => NoTornFrame
  BY DEF IInv
<1> QED BY Invariance, <1>1, PTL

(* dt_start returns to the game only with an ASSIGN that answers a         *)
(* registration the relay has read, unless LAN_HOOK_LEASE_WAIT is 0.       *)
THEOREM LeaseBarrier == Spec => []LeaseFirst
<1>1. IInv => LeaseFirst
  BY DEF IInv
<1> QED BY Invariance, <1>1, PTL
=============================================================================
