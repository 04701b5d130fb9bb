------------------------- MODULE StreamQueueProofs -------------------------
(***************************************************************************)
(* Proofs about the two byte queues of a tunnel stream: about InQueue for  *)
(* any number of bytes, any queue limit and any size of a read that goes   *)
(* at least twice into the queue, and about OutQueue for any number of     *)
(* sending threads, any number of bytes and any queue limit.               *)
(***************************************************************************)
EXTENDS InQueue, OutQueue, SequenceTheorems, TLAPS

-----------------------------------------------------------------------------
(* The receiving side.                                                     *)

\* The flags of the stream.
Flags ==
  /\ fin \in BOOLEAN /\ paused \in BOOLEAN /\ peerFin \in BOOLEAN
  /\ rdShut \in BOOLEAN /\ dead \in BOOLEAN /\ used \in BOOLEAN
  /\ open \in BOOLEAN /\ failed \in BOOLEAN /\ may \in BOOLEAN

\* The types of all variables.
Types ==
  /\ Flags
  /\ sent \in Nat /\ got \in Nat
  /\ inq \in Seq(Nat) /\ buf \in Seq(Nat) /\ read \in Seq(Nat)
  /\ Len(buf) <= Buf
  /\ pump \in {"top", "wait", "put", "tail", "over"}
  /\ app \in {"idle", "recv", "verdict"}
  /\ seen \in {"none", "eof", "reset"}

\* Ascending numbers up to g.
Ascending(s, g) ==
  /\ \A i \in 1 .. Len(s) : s[i] <= g
  /\ \A i, k \in 1 .. Len(s) : i < k => s[i] < s[k]

\* The bytes on their way from the relay to the application.
All == (read \o inq) \o buf

\* They are ascending, none beyond what was read, and none is missing until some are dropped.
InOrder == Ascending(All, got) /\ (lost = {} => Len(All) = got)

\* Only a pump between its read and its put holds bytes.
Holding == pump # "put" => buf = <<>>

\* The peer's end is seen behind its last byte.
EndLast == got <= sent /\ (peerFin => fin /\ got = sent /\ pump # "put")

\* Why a stream ends: a slot is freed, a read side shut or a pump gone for a known reason.
Reasons ==
  /\ ~used => "freed" \in lost
  /\ rdShut => "shut" \in lost
  /\ pump \in {"tail", "over"} => dead \/ failed \/ "signal" \in lost
  /\ ~open => pump \in {"tail", "over"}

\* What recv() knew when it decided that nothing will come.
Ended(done) == done /\ lost = {} /\ ~dead => peerFin /\ inq = <<>>

\* The inductive invariant.
IInv == /\ Types /\ InOrder /\ Holding /\ EndLast /\ Reasons /\ PausedHasData
        /\ Ended(app = "verdict" /\ ~failed) /\ Ended(seen = "eof")

-----------------------------------------------------------------------------
(* The elements of a concatenation.                                        *)
LEMMA ConcatElements ==
  ASSUME NEW s \in Seq(Nat), NEW t \in Seq(Nat)
  PROVE  /\ s \o t \in Seq(Nat)
         /\ Len(s \o t) = Len(s) + Len(t)
         /\ \A i \in 1 .. Len(s) : (s \o t)[i] = s[i]
         /\ \A i \in 1 .. Len(t) : (s \o t)[Len(s) + i] = t[i]
         /\ \A i \in 1 .. Len(s) + Len(t) : i \notin 1 .. Len(s) =>
              i - Len(s) \in 1 .. Len(t) /\ (s \o t)[i] = t[i - Len(s)]
<1>1. s \o t \in Seq(Nat) /\ Len(s \o t) = Len(s) + Len(t)
  BY ConcatProperties
<1>2. \A i \in 1 .. Len(s) + Len(t) :
        (s \o t)[i] = IF i <= Len(s) THEN s[i] ELSE t[i - Len(s)]
  BY ConcatProperties
<1>3. Len(s) \in Nat /\ Len(t) \in Nat
  BY LenProperties
<1> QED
  BY <1>1, <1>2, <1>3

(* ConcatAssociative for bytes.                                            *)
LEMMA Associative == \A a, b, c \in Seq(Nat) : (a \o b) \o c = a \o (b \o c)
BY SMTT(30), ConcatAssociative

(* Bytes can be taken out of the middle.                                   *)
LEMMA DropMiddle ==
  ASSUME NEW a \in Seq(Nat), NEW b \in Seq(Nat), NEW c \in Seq(Nat), NEW g \in Nat,
         Ascending((a \o b) \o c, g)
  PROVE  Ascending((a \o <<>>) \o c, g)
<1> DEFINE s == (a \o b) \o c
           t == a \o c
           m == Len(b)
<1>1. a \o <<>> = a
  BY ConcatEmptySeq
<1>2. Len(a) \in Nat /\ Len(b) \in Nat /\ Len(c) \in Nat
  BY LenProperties
<1>3. a \o b \in Seq(Nat) /\ Len(a \o b) = Len(a) + Len(b)
      /\ \A i \in 1 .. Len(a) : (a \o b)[i] = a[i]
  BY ConcatElements
<1>4. /\ Len(s) = Len(a) + Len(b) + Len(c)
      /\ \A i \in 1 .. Len(a) : s[i] = a[i]
      /\ \A i \in 1 .. Len(c) : s[Len(a) + Len(b) + i] = c[i]
  <2>1. /\ Len(s) = Len(a \o b) + Len(c)
        /\ \A i \in 1 .. Len(a \o b) : s[i] = (a \o b)[i]
        /\ \A i \in 1 .. Len(c) : s[Len(a \o b) + i] = c[i]
    BY <1>3, ConcatElements
  <2> HIDE DEF s
  <2> QED
    BY <2>1, <1>2, <1>3
<1>5. /\ Len(t) = Len(a) + Len(c)
      /\ \A i \in 1 .. Len(a) : t[i] = a[i]
      /\ \A i \in 1 .. Len(a) + Len(c) : i \notin 1 .. Len(a) =>
           i - Len(a) \in 1 .. Len(c) /\ t[i] = c[i - Len(a)]
  BY ConcatElements
<1>6. Ascending(s, g)
  OBVIOUS
<1> DEFINE j(i) == IF i \in 1 .. Len(a) THEN i ELSE m + i
<1> HIDE DEF s, t
<1>7. \A i \in 1 .. Len(t) : j(i) \in 1 .. Len(s) /\ t[i] = s[j(i)]
  <2> TAKE i \in 1 .. Len(t)
  <2>1. CASE i \in 1 .. Len(a)
    BY <2>1, <1>2, <1>4, <1>5
  <2>2. CASE i \notin 1 .. Len(a)
    <3>1. i - Len(a) \in 1 .. Len(c) /\ t[i] = c[i - Len(a)]
      BY <2>2, <1>5
    <3>2. s[Len(a) + Len(b) + (i - Len(a))] = c[i - Len(a)]
      BY <3>1, <1>4
    <3>3. Len(a) + Len(b) + (i - Len(a)) = m + i /\ m + i \in 1 .. Len(s)
      BY <3>1, <1>2, <1>4, <1>5
    <3> QED
      BY <3>1, <3>2, <3>3, <2>2
  <2> QED
    BY <2>1, <2>2
<1>8. \A i, k \in 1 .. Len(t) : i < k => j(i) < j(k)
  BY <1>2, <1>5
<1> HIDE DEF j
<1>9. Ascending(t, g)
  BY <1>6, <1>7, <1>8 DEF Ascending
<1> QED
  BY <1>1, <1>9 DEF t

(* Of what is read, the bytes behind the queue can be dropped too.         *)
LEMMA DropEnd ==
  ASSUME NEW s \in Seq(Nat), NEW c \in Seq(Nat), NEW g \in Nat, Ascending(s \o c, g)
  PROVE  Ascending(s \o <<>>, g)
<1>1. s \o <<>> = s
  BY ConcatEmptySeq
<1>2. Len(s) \in Nat /\ Len(c) \in Nat
  BY LenProperties
<1>3. Len(s \o c) = Len(s) + Len(c) /\ \A i \in 1 .. Len(s) : (s \o c)[i] = s[i]
  BY ConcatElements
<1> QED
  BY SMTT(30), <1>1, <1>2, <1>3 DEF Ascending

(* The next n bytes of the peer go behind those that were read.            *)
LEMMA NextBytes ==
  ASSUME NEW s \in Seq(Nat), NEW g \in Nat, NEW n \in Nat, Ascending(s, g)
  PROVE  LET t == [i \in 1 .. n |-> g + i] IN
         /\ t \in Seq(Nat) /\ Len(t) = n
         /\ Ascending(s \o t, g + n) /\ Len(s \o t) = Len(s) + n
<1> DEFINE t == [i \in 1 .. n |-> g + i]
<1>1. t \in Seq(Nat) /\ Len(t) = n /\ \A i \in 1 .. n : t[i] = g + i
  OBVIOUS
<1> HIDE DEF t
<1>2. Len(s) \in Nat /\ \A i \in 1 .. Len(s) : s[i] \in Nat
  BY LenProperties, ElementOfSeq
<1>3. /\ Len(s \o t) = Len(s) + n
      /\ \A i \in 1 .. Len(s) : (s \o t)[i] = s[i]
      /\ \A i \in 1 .. Len(s) + n : i \notin 1 .. Len(s) =>
           i - Len(s) \in 1 .. n /\ (s \o t)[i] = t[i - Len(s)]
  BY <1>1, ConcatElements
<1>4. \A i \in 1 .. Len(s \o t) : i \notin 1 .. Len(s) => (s \o t)[i] = g + (i - Len(s))
  BY <1>1, <1>3
<1>5. \A i \in 1 .. Len(s \o t) : (s \o t)[i] <= g + n
  BY <1>2, <1>3, <1>4 DEF Ascending
<1>6. \A i, k \in 1 .. Len(s \o t) : i < k => (s \o t)[i] < (s \o t)[k]
  <2> TAKE i, k \in 1 .. Len(s \o t)
  <2> HAVE i < k
  <2>1. CASE k \in 1 .. Len(s)
    BY <2>1, <1>2, <1>3 DEF Ascending
  <2>2. CASE k \notin 1 .. Len(s) /\ i \in 1 .. Len(s)
    BY <2>2, <1>2, <1>3, <1>4 DEF Ascending
  <2>3. CASE i \notin 1 .. Len(s)
    BY <2>3, <1>2, <1>3, <1>4
  <2> QED
    BY <2>1, <2>2, <2>3
<1>7. Ascending(s \o t, g + n)
  BY <1>5, <1>6 DEF Ascending
<1> QED
  BY <1>1, <1>3, <1>7 DEF t

(* What recv() takes off the queue it puts behind what it returned before. *)
LEMMA TakenOver ==
  ASSUME NEW r \in Seq(Nat), NEW s \in Seq(Nat), NEW n \in 1 .. Len(s)
  PROVE  /\ r \o SubSeq(s, 1, n) \in Seq(Nat) /\ SubSeq(s, n + 1, Len(s)) \in Seq(Nat)
         /\ Len(SubSeq(s, n + 1, Len(s))) = Len(s) - n
         /\ (r \o SubSeq(s, 1, n)) \o SubSeq(s, n + 1, Len(s)) = r \o s
<1> DEFINE u == SubSeq(s, 1, n)
           v == SubSeq(s, n + 1, Len(s))
<1>1. Len(s) \in Nat /\ n \in Nat /\ n <= Len(s)
  BY LenProperties
<1>2. u \in Seq(Nat) /\ v \in Seq(Nat) /\ Len(v) = Len(s) - n
  BY <1>1, SubSeqProperties
<1>3. u \o v = SubSeq(s, 1, Len(s))
  BY <1>1, ConcatAdjacentSubSeq
<1>4. SubSeq(s, 1, Len(s)) = s
  BY SubSeqFull
<1> HIDE DEF u, v
<1>5. r \o u \in Seq(Nat) /\ (r \o u) \o v = r \o (u \o v)
  <2>1. u \in Seq(Nat) /\ v \in Seq(Nat)
    BY <1>2
  <2>2. r \o u \in Seq(Nat)
    BY <2>1, ConcatElements
  <2>3. (r \o u) \o v = r \o (u \o v)
    BY <2>1, Associative
  <2> QED
    BY <2>2, <2>3
<1>6. r \o u \in Seq(Nat) /\ v \in Seq(Nat) /\ Len(v) = Len(s) - n /\ (r \o u) \o v = r \o s
  BY <1>2, <1>3, <1>4, <1>5
<1> QED
  BY <1>6 DEF u, v

-----------------------------------------------------------------------------
(* Initially nothing has happened.                                         *)
LEMMA InitInv == Init => IInv
<1> SUFFICES ASSUME Init PROVE IInv
  OBVIOUS
<1> USE DEF Init
<1>1. Types
  <2>1. <<>> \in Seq(Nat) /\ Len(<<>>) <= Buf
    BY InAssumption, EmptySeq
  <2> QED
    BY <2>1 DEF Types, Flags
<1>2. read \o inq = <<>> /\ (read \o inq) \o buf = <<>>
  BY EmptySeq, ConcatEmptySeq
<1>3. InOrder
  BY <1>2 DEF InOrder, All, Ascending
<1>4. Holding /\ EndLast /\ Reasons /\ PausedHasData
  BY DEF Holding, EndLast, Reasons, PausedHasData
<1>5. Ended(app = "verdict" /\ ~failed) /\ Ended(seen = "eof")
  BY DEF Ended
<1> QED
  BY <1>1, <1>3, <1>4, <1>5 DEF IInv

(* The steps that touch no byte of the stream.                             *)
Quiet ==
  \/ PeerSend \/ PeerEnd \/ PumpTop \/ PumpIdle \/ PumpInterrupted \/ PumpFin \/ PumpReset
  \/ Recv \/ RecvEnd \/ RecvVerdict \/ RecvNothing \/ ShutdownWrite \/ Close \/ Done
  \/ UNCHANGED vars

LEMMA QuietStep == Quiet => UNCHANGED <<got, inq, buf, read>> /\ (lost' = {} => lost = {})
BY DEF Quiet, PeerSend, PeerEnd, PumpTop, PumpIdle, PumpInterrupted, PumpFin, PumpReset, Recv,
       RecvEnd, RecvVerdict, RecvNothing, ShutdownWrite, Close, Done, vars, ends

(* The step is one of those or a named one of the others.                  *)
LEMMA Steps ==
  [Next]_vars => \/ Quiet \/ PumpPut \/ PumpTail \/ ShutdownRead
                 \/ \E n \in 1 .. Buf : PumpRead(n)
                 \/ \E n \in 1 .. MaxIn : RecvData(n)
BY DEF Next, PumpRecv, Receiving, Quiet

(* PumpRead appends the next bytes to those on their way.                  *)
LEMMA ReadBytes ==
  ASSUME IInv, NEW n \in 1 .. Buf, PumpRead(n)
  PROVE  buf' \in Seq(Nat) /\ Len(buf') = n /\ InOrder'
<1> DEFINE s == read \o inq
           t == [i \in 1 .. n |-> got + i]
<1>1. n \in Nat /\ got \in Nat /\ read \in Seq(Nat) /\ inq \in Seq(Nat)
  BY InAssumption DEF IInv, Types
<1>2. s \in Seq(Nat)
  BY <1>1, ConcatElements
<1>3. buf = <<>>
  BY DEF IInv, Holding, PumpRead
<1>4. All = s
  BY <1>2, <1>3, ConcatEmptySeq DEF All
<1>5. Ascending(s, got) /\ (lost = {} => Len(s) = got)
  BY <1>4 DEF IInv, InOrder
<1>6. buf' = t /\ got' = got + n /\ read' = read /\ inq' = inq /\ lost' = lost
  BY DEF PumpRead
<1>7. All' = s \o t
  BY <1>6 DEF All
<1> HIDE DEF s
<1>8. t \in Seq(Nat) /\ Len(t) = n /\ Ascending(s \o t, got + n) /\ Len(s \o t) = Len(s) + n
  BY <1>1, <1>2, <1>5, NextBytes
<1>9. InOrder'
  <2>1. Ascending(All, got)'
    BY <1>6, <1>7, <1>8 DEF Ascending
  <2>2. lost' = {} => Len(All') = got'
    BY <1>5, <1>6, <1>7, <1>8
  <2> QED
    BY <2>1, <2>2 DEF InOrder
<1> QED
  BY <1>6, <1>8, <1>9

(* PumpPut moves them to the queue or drops them.                          *)
LEMMA PutBytes ==
  ASSUME IInv, PumpPut
  PROVE  inq' \in Seq(Nat) /\ buf' \in Seq(Nat) /\ InOrder'
<1>1. got \in Nat /\ read \in Seq(Nat) /\ inq \in Seq(Nat) /\ buf \in Seq(Nat)
  BY DEF IInv, Types
<1>2. read \o inq \in Seq(Nat) /\ inq \o buf \in Seq(Nat) /\ <<>> \in Seq(Nat)
  BY <1>1, ConcatElements, EmptySeq
<1>3. Ascending((read \o inq) \o buf, got) /\ (lost = {} => Len((read \o inq) \o buf) = got)
  BY DEF IInv, InOrder, All
<1>4. buf' = <<>> /\ read' = read /\ got' = got
  BY DEF PumpPut
<1>5. CASE inq' = inq /\ lost' # {}
  <2>1. Ascending((read \o inq) \o <<>>, got)
    BY <1>1, <1>2, <1>3, DropEnd
  <2> QED
    BY <2>1, <1>1, <1>2, <1>4, <1>5 DEF InOrder, All, Ascending
<1>6. CASE inq' = inq \o buf /\ lost' = lost
  <2>1. read \o (inq \o buf) = (read \o inq) \o buf
    BY <1>1, Associative
  <2>2. (read \o (inq \o buf)) \o <<>> = read \o (inq \o buf)
    BY <1>1, <1>2, ConcatElements, ConcatEmptySeq
  <2>3. All' = (read \o inq) \o buf
    BY <2>1, <2>2, <1>4, <1>6 DEF All
  <2> QED
    BY <2>3, <1>2, <1>3, <1>4, <1>6 DEF InOrder, Ascending
<1> QED
  BY <1>5, <1>6 DEF PumpPut

(* Freeing the slot and shutting the read side drop what is queued.        *)
LEMMA DropBytes ==
  ASSUME IInv, inq' = <<>>, lost' # {}, UNCHANGED <<got, buf, read>>
  PROVE  inq' \in Seq(Nat) /\ InOrder'
<1>1. got \in Nat /\ read \in Seq(Nat) /\ inq \in Seq(Nat) /\ buf \in Seq(Nat)
  BY DEF IInv, Types
<1>2. Ascending((read \o inq) \o buf, got)
  BY DEF IInv, InOrder, All
<1>3. Ascending((read \o <<>>) \o buf, got)
  BY <1>1, <1>2, DropMiddle
<1>4. Ascending(All, got)'
  BY <1>3 DEF All, Ascending
<1> QED
  BY <1>4, EmptySeq DEF InOrder

(* RecvData moves bytes from the queue to the application.                 *)
LEMMA RecvBytes ==
  ASSUME IInv, NEW n \in 1 .. MaxIn, RecvData(n)
  PROVE  inq' \in Seq(Nat) /\ read' \in Seq(Nat) /\ Len(inq') = Len(inq) - n /\ InOrder'
<1>1. read \in Seq(Nat) /\ inq \in Seq(Nat) /\ n \in 1 .. Len(inq)
  BY DEF IInv, Types, RecvData
<1>2. /\ read' = read \o SubSeq(inq, 1, n) /\ inq' = SubSeq(inq, n + 1, Len(inq))
      /\ UNCHANGED <<got, buf, lost>>
  BY DEF RecvData
<1>3. /\ read' \in Seq(Nat) /\ inq' \in Seq(Nat) /\ Len(inq') = Len(inq) - n
      /\ read' \o inq' = read \o inq
  BY <1>1, <1>2, TakenOver
<1>4. All' = All
  BY <1>2, <1>3 DEF All
<1>5. InOrder'
  BY <1>2, <1>4 DEF IInv, InOrder, Ascending
<1> QED
  BY <1>3, <1>5

-----------------------------------------------------------------------------
(* Flags are only set to truth values.                                     *)
LEMMA StepFlags == Flags /\ [Next]_vars => Flags'
<1> SUFFICES ASSUME Flags, [Next]_vars PROVE Flags'
  OBVIOUS
<1> USE DEF Flags
<1>1. CASE PeerSend
  BY <1>1 DEF PeerSend, ends
<1>2. CASE PeerEnd
  BY <1>2 DEF PeerEnd, ends
<1>3. CASE PumpTop
  BY <1>3 DEF PumpTop, ends
<1>4. CASE PumpIdle
  BY <1>4 DEF PumpIdle, ends
<1>5. CASE PumpInterrupted
  BY <1>5 DEF PumpInterrupted, ends
<1>6. CASE PumpFin
  BY <1>6 DEF PumpFin, ends
<1>7. CASE PumpReset
  BY <1>7 DEF PumpReset, ends
<1>8. CASE PumpPut
  <2>1. paused' \in BOOLEAN
    BY <1>8 DEF PumpPut
  <2> QED
    BY <1>8, <2>1 DEF PumpPut, ends
<1>9. CASE PumpTail
  <2>1. used' \in BOOLEAN
    BY <1>9 DEF PumpTail
  <2> QED
    BY <1>9, <2>1 DEF PumpTail, ends
<1>10. CASE Recv \/ RecvNothing
  BY <1>10 DEF Recv, RecvNothing, ends
<1>11. CASE RecvEnd \/ RecvVerdict
  BY <1>11 DEF RecvEnd, RecvVerdict, ends
<1>12. CASE ShutdownRead
  BY <1>12 DEF ShutdownRead
<1>13. CASE ShutdownWrite
  BY <1>13 DEF ShutdownWrite
<1>14. CASE Close
  BY <1>14 DEF Close
<1>15. CASE Done \/ UNCHANGED vars
  BY <1>15 DEF Done, vars, ends
<1>16. ASSUME NEW n \in 1 .. Buf, PumpRead(n) PROVE Flags'
  BY <1>16 DEF PumpRead, ends
<1>17. ASSUME NEW n \in 1 .. MaxIn, RecvData(n) PROVE Flags'
  <2>1. paused' \in BOOLEAN
    BY <1>17 DEF RecvData
  <2> QED
    BY <1>17, <2>1 DEF RecvData, ends
<1> QED
  BY <1>1, <1>2, <1>3, <1>4, <1>5, <1>6, <1>7, <1>8, <1>9, <1>10, <1>11, <1>12, <1>13, <1>14,
     <1>15, <1>16, <1>17, Steps DEF Quiet

(* The types are kept.                                                     *)
LEMMA StepTypes == IInv /\ [Next]_vars => Types'
<1> SUFFICES ASSUME IInv, [Next]_vars PROVE Types'
  OBVIOUS
<1>0. Types /\ Flags'
  BY StepFlags DEF IInv, Types
<1>1. CASE PeerSend \/ PeerEnd \/ PumpTop \/ PumpIdle \/ PumpInterrupted
  BY <1>0, <1>1 DEF Types, PeerSend, PeerEnd, PumpTop, PumpIdle, PumpInterrupted
<1>2. CASE PumpFin \/ PumpReset \/ Recv \/ RecvEnd \/ RecvVerdict \/ RecvNothing
  BY <1>0, <1>2 DEF Types, PumpFin, PumpReset, Recv, RecvEnd, RecvVerdict, RecvNothing
<1>3. CASE ShutdownWrite \/ Close \/ Done \/ UNCHANGED vars
  BY <1>0, <1>3 DEF Types, ShutdownWrite, Close, Done, vars
<1>4. CASE PumpPut
  <2>1. inq' \in Seq(Nat) /\ buf' \in Seq(Nat) /\ Len(buf') <= Buf
    <3>1. buf' = <<>>
      BY <1>4 DEF PumpPut
    <3> QED
      BY <3>1, <1>4, PutBytes, InAssumption, EmptySeq
  <2> QED
    BY <1>0, <1>4, <2>1 DEF Types, PumpPut
<1>5. CASE PumpTail \/ ShutdownRead
  <2>1. inq' \in Seq(Nat)
    BY <1>0, <1>5, EmptySeq DEF Types, PumpTail, ShutdownRead
  <2> QED
    BY <1>0, <1>5, <2>1 DEF Types, PumpTail, ShutdownRead
<1>6. ASSUME NEW n \in 1 .. Buf, PumpRead(n) PROVE Types'
  <2>1. buf' \in Seq(Nat) /\ Len(buf') <= Buf
    BY <1>6, ReadBytes, InAssumption
  <2>2. got' \in Nat
    BY <1>0, <1>6 DEF Types, PumpRead
  <2> QED
    BY <1>0, <1>6, <2>1, <2>2 DEF Types, PumpRead
<1>7. ASSUME NEW n \in 1 .. MaxIn, RecvData(n) PROVE Types'
  <2>1. inq' \in Seq(Nat) /\ read' \in Seq(Nat)
    BY <1>7, RecvBytes
  <2> QED
    BY <1>0, <1>7, <2>1 DEF Types, RecvData
<1> QED
  BY <1>1, <1>2, <1>3, <1>4, <1>5, <1>6, <1>7, Steps DEF Quiet

(* The bytes stay in order.                                                *)
LEMMA StepInOrder == IInv /\ [Next]_vars => InOrder'
<1> SUFFICES ASSUME IInv, [Next]_vars PROVE InOrder'
  OBVIOUS
<1>1. CASE Quiet
  BY <1>1, QuietStep DEF IInv, InOrder, All, Ascending
<1>2. CASE PumpPut
  BY <1>2, PutBytes
<1>3. CASE PumpTail
  <2>1. CASE dead \/ wrShut
    BY <1>3, <2>1, DropBytes DEF PumpTail
  <2>2. CASE ~(dead \/ wrShut)
    BY <1>3, <2>2 DEF PumpTail, IInv, InOrder, All, Ascending
  <2> QED
    BY <2>1, <2>2
<1>4. CASE ShutdownRead
  BY <1>4, DropBytes DEF ShutdownRead
<1>5. ASSUME NEW n \in 1 .. Buf, PumpRead(n) PROVE InOrder'
  BY <1>5, ReadBytes
<1>6. ASSUME NEW n \in 1 .. MaxIn, RecvData(n) PROVE InOrder'
  BY <1>6, RecvBytes
<1> QED
  BY <1>1, <1>2, <1>3, <1>4, <1>5, <1>6, Steps

(* The pump holds bytes only between read and put, and has seen the end    *)
(* only behind the last byte.                                              *)
LEMMA StepEnd == IInv /\ [Next]_vars => Holding' /\ EndLast'
<1> SUFFICES ASSUME IInv, [Next]_vars PROVE Holding' /\ EndLast'
  OBVIOUS
<1>0. Holding /\ EndLast /\ Types
  BY DEF IInv
<1>1. CASE PeerSend \/ PeerEnd \/ PumpFin
  BY <1>0, <1>1 DEF Types, Flags, Holding, EndLast, PeerSend, PeerEnd, PumpFin
<1>2. CASE \/ PumpTop \/ PumpIdle \/ PumpInterrupted \/ PumpReset \/ Recv \/ RecvEnd
           \/ RecvVerdict \/ RecvNothing \/ ShutdownWrite \/ Close \/ Done \/ UNCHANGED vars
  BY <1>0, <1>2 DEF Holding, EndLast, PumpTop, PumpIdle, PumpInterrupted, PumpReset, Recv,
     RecvEnd, RecvVerdict, RecvNothing, ShutdownWrite, Close, Done, vars
<1>3. CASE PumpPut \/ PumpTail \/ ShutdownRead
  BY <1>0, <1>3 DEF Holding, EndLast, PumpPut, PumpTail, ShutdownRead
<1>4. ASSUME NEW n \in 1 .. Buf, PumpRead(n) PROVE Holding' /\ EndLast'
  BY <1>0, <1>4, InAssumption DEF Types, Flags, Holding, EndLast, PumpRead
<1>5. ASSUME NEW n \in 1 .. MaxIn, RecvData(n) PROVE Holding' /\ EndLast'
  BY <1>0, <1>5 DEF Holding, EndLast, RecvData
<1> QED
  BY <1>1, <1>2, <1>3, <1>4, <1>5, Steps DEF Quiet

(* A stream ends for a known reason only.                                  *)
LEMMA StepReasons == IInv /\ [Next]_vars => Reasons'
<1> SUFFICES ASSUME IInv, [Next]_vars PROVE Reasons'
  OBVIOUS
<1>0. Reasons /\ Types
  BY DEF IInv
<1>1. CASE PumpTop \/ PumpInterrupted \/ PumpReset \/ PumpTail
  BY <1>0, <1>1 DEF Types, Flags, Reasons, PumpTop, PumpInterrupted, PumpReset, PumpTail, ends
<1>2. CASE PumpIdle \/ PumpFin \/ PumpPut
  BY <1>0, <1>2 DEF Reasons, PumpIdle, PumpFin, PumpPut, ends
<1>3. CASE ShutdownRead \/ ShutdownWrite \/ Close
  BY <1>0, <1>3 DEF Reasons, ShutdownRead, ShutdownWrite, Close
<1>4. CASE \/ PeerSend \/ PeerEnd \/ Recv \/ RecvEnd \/ RecvVerdict \/ RecvNothing \/ Done
           \/ UNCHANGED vars
  BY <1>0, <1>4 DEF Reasons, PeerSend, PeerEnd, Recv, RecvEnd, RecvVerdict, RecvNothing, Done,
     vars, ends
<1>5. ASSUME NEW n \in 1 .. Buf, PumpRead(n) PROVE Reasons'
  BY <1>0, <1>5 DEF Reasons, PumpRead, ends
<1>6. ASSUME NEW n \in 1 .. MaxIn, RecvData(n) PROVE Reasons'
  BY <1>0, <1>6 DEF Reasons, RecvData, ends
<1> QED
  BY <1>1, <1>2, <1>3, <1>4, <1>5, <1>6, Steps DEF Quiet

(* A pump that stops leaves the queue half full, and recv() that takes it  *)
(* below half lets the pump go.                                            *)
LEMMA StepPaused == IInv /\ [Next]_vars => PausedHasData'
<1> SUFFICES ASSUME IInv, [Next]_vars PROVE PausedHasData'
  OBVIOUS
<1>0. PausedHasData /\ Types
  BY DEF IInv
<1>1. CASE Quiet
  BY <1>0, <1>1 DEF PausedHasData, Quiet, PeerSend, PeerEnd, PumpTop, PumpIdle,
     PumpInterrupted, PumpFin, PumpReset, Recv, RecvEnd, RecvVerdict, RecvNothing,
     ShutdownWrite, Close, Done, vars, ends
<1>2. CASE PumpPut
  <2> DEFINE i == Len(inq)
             b == Len(buf)
             j == Len(inq')
  <2>1. i \in Nat /\ b \in Nat /\ b <= Buf
    BY <1>0, LenProperties DEF Types
  <2>2. CASE i + b > MaxIn
    <3>1. inq' = inq
      BY <1>2, <2>2 DEF PumpPut
    <3>2. i >= MaxIn \div 2 /\ i > 0
      <4> HIDE DEF i, b
      <4> QED
        BY <2>1, <2>2, InAssumption
    <3>3. inq # <<>>
      BY <3>2, EmptySeq
    <3> QED
      BY <3>1, <3>2, <3>3 DEF PausedHasData
  <2>3. CASE ~(i + b > MaxIn)
    <3>1. inq' = inq \o buf /\ paused' = paused /\ used' = used
      BY <1>2, <2>3 DEF PumpPut
    <3>2. j = i + b
      BY <1>0, <3>1, ConcatElements DEF Types
    <3>3. ASSUME paused, used
          PROVE  j >= MaxIn \div 2 /\ j > 0
      <4>1. i >= MaxIn \div 2 /\ inq # <<>>
        BY <1>0, <3>3 DEF PausedHasData
      <4>2. i > 0
        BY <4>1, <1>0, EmptySeq DEF Types
      <4> HIDE DEF i, b, j
      <4> QED
        BY <4>1, <4>2, <3>2, <2>1, InAssumption
    <3>4. j > 0 => inq' # <<>>
      BY EmptySeq
    <3> QED
      BY <3>1, <3>3, <3>4 DEF PausedHasData
  <2> QED
    BY <2>2, <2>3
<1>3. CASE PumpTail
  BY <1>0, <1>3 DEF PausedHasData, PumpTail
<1>4. CASE ShutdownRead
  BY <1>4 DEF PausedHasData, ShutdownRead
<1>5. ASSUME NEW n \in 1 .. Buf, PumpRead(n) PROVE PausedHasData'
  BY <1>0, <1>5 DEF PausedHasData, PumpRead
<1>6. ASSUME NEW n \in 1 .. MaxIn, RecvData(n) PROVE PausedHasData'
  <2>1. Len(inq') = Len(inq) - n
    BY <1>6, RecvBytes
  <2>2. paused' => Len(inq') >= MaxIn \div 2
    BY <1>6, <2>1 DEF RecvData
  <2>3. MaxIn \div 2 > 0
    BY InAssumption
  <2>4. Len(inq') >= MaxIn \div 2 => inq' # <<>>
    BY <2>3, EmptySeq, InAssumption
  <2> QED
    BY <2>2, <2>4 DEF PausedHasData
<1> QED
  BY <1>1, <1>2, <1>3, <1>4, <1>5, <1>6, Steps

(* Once recv() has decided that nothing will come, nothing does.           *)
LEMMA StepEnded ==
  IInv /\ [Next]_vars => Ended(app = "verdict" /\ ~failed)' /\ Ended(seen = "eof")'
<1> DEFINE Goal == Ended(app = "verdict" /\ ~failed)' /\ Ended(seen = "eof")'
<1> SUFFICES ASSUME IInv, [Next]_vars PROVE Goal
  OBVIOUS
<1>0. Ended(app = "verdict" /\ ~failed) /\ Ended(seen = "eof") /\ EndLast /\ Reasons /\ Types
  BY DEF IInv
<1>1. CASE RecvEnd
  <2>1. lost = {} /\ ~dead /\ ~failed => peerFin /\ inq = <<>>
    BY <1>0, <1>1 DEF Reasons, RecvEnd, Found
  <2> QED
    BY <1>0, <1>1, <2>1 DEF Ended, RecvEnd, ends
<1>2. CASE RecvVerdict
  <2>1. lost = {} /\ ~dead => used
    BY <1>0 DEF Reasons
  <2>2. seen' = "eof" /\ lost = {} /\ ~dead => ~failed
    BY <1>2, <2>1 DEF RecvVerdict, Found
  <2> QED
    BY <1>0, <1>2, <2>2 DEF Ended, RecvVerdict, ends
<1>3. CASE PumpPut
  <2>1. ~peerFin
    BY <1>0, <1>3 DEF EndLast, PumpPut
  <2> QED
    BY <1>0, <1>3, <2>1 DEF Ended, PumpPut, ends
<1>4. CASE PumpTail \/ ShutdownRead
  BY <1>0, <1>4 DEF Ended, PumpTail, ShutdownRead, ends
<1>5. CASE \/ PeerSend \/ PeerEnd \/ PumpTop \/ PumpIdle \/ PumpInterrupted \/ PumpFin
           \/ PumpReset
  BY <1>0, <1>5 DEF Types, Flags, Ended, PeerSend, PeerEnd, PumpTop, PumpIdle, PumpInterrupted,
     PumpFin, PumpReset, ends
<1>6. CASE Recv \/ RecvNothing \/ ShutdownWrite \/ Close \/ Done \/ UNCHANGED vars
  BY <1>0, <1>6 DEF Ended, Recv, RecvNothing, ShutdownWrite, Close, Done, vars, ends
<1>7. ASSUME NEW n \in 1 .. Buf, PumpRead(n) PROVE Goal
  BY <1>0, <1>7 DEF Ended, PumpRead, ends
<1>8. ASSUME NEW n \in 1 .. MaxIn, RecvData(n) PROVE Goal
  BY <1>0, <1>8 DEF Ended, RecvData, ends
<1> QED
  BY <1>1, <1>2, <1>3, <1>4, <1>5, <1>6, <1>7, <1>8, Steps DEF Quiet

LEMMA Invariance == Spec => []IInv
<1>1. IInv /\ [Next]_vars => IInv'
  BY StepTypes, StepInOrder, StepEnd, StepReasons, StepPaused, StepEnded DEF IInv
<1> QED
  BY InitInv, <1>1, PTL DEF Spec

-----------------------------------------------------------------------------
(* Every reachable state of the receiving side has its type.               *)
THEOREM TypeCorrect == Spec => []Types
<1>1. IInv => Types
  BY DEF IInv
<1> QED
  BY Invariance, <1>1, PTL

(* The bytes recv() returned (hk_linux.c), those queued and those the pump *)
(* has read (hk_stream.c) follow each other in the order the peer sent     *)
(* them, none twice, and none is missing that was not dropped for a known  *)
(* reason.                                                                 *)
THEOREM BytesInOrder == Spec => []ReadInOrder
<1>1. IInv => ReadInOrder
  <2> SUFFICES ASSUME IInv PROVE ReadInOrder
    OBVIOUS
  <2>1. Ascending((read \o inq) \o buf, got) /\ (lost = {} => Len((read \o inq) \o buf) = got)
    BY DEF IInv, InOrder, All
  <2> QED
    BY <2>1 DEF ReadInOrder, Ascending
<1> QED
  BY Invariance, <1>1, PTL

(* A pump that stopped reading for a full queue is let go by a recv():     *)
(* there is at least half a queue to take.                                 *)
THEOREM PausedIsReadable == Spec => []PausedHasData
<1>1. IInv => PausedHasData
  BY DEF IInv
<1> QED
  BY Invariance, <1>1, PTL

(* recv() reports a clean end only behind the peer's last byte, although   *)
(* it looks at the stream a second time to tell a reset from an end.       *)
THEOREM EndsClean == Spec => []CleanEnd
<1>1. IInv => CleanEnd
  <2> SUFFICES ASSUME IInv, seen = "eof", lost = {}, ~dead PROVE fin /\ Len(read) = sent
    BY DEF CleanEnd
  <2>1. peerFin /\ inq = <<>>
    BY DEF IInv, Ended
  <2>2. fin /\ got = sent /\ buf = <<>>
    BY <2>1 DEF IInv, EndLast, Holding
  <2>3. (read \o inq) \o buf = read
    BY <2>1, <2>2, ConcatEmptySeq DEF IInv, Types
  <2>4. Len((read \o inq) \o buf) = got
    BY DEF IInv, InOrder, All
  <2> QED
    BY <2>2, <2>3, <2>4
<1> QED
  BY Invariance, <1>1, PTL

-----------------------------------------------------------------------------
(* The sending side.                                                       *)

\* A chunk of the out-queue.
Chunk == [base : Nat, n : Nat, off : Nat]

(* The queue q holds the last bytes of the w ever queued, without a gap;   *)
(* only its head is done in part, and no chunk of it is done.              *)
Queued(q, w) ==
  /\ q \in Seq(Chunk) /\ w \in Nat
  /\ \A i \in 1 .. Len(q) :
       /\ q[i].off < q[i].n /\ q[i].base + q[i].n <= w
       /\ i > 1 => q[i].off = 0
       /\ q[i].base + q[i].n = IF i = Len(q) THEN w ELSE q[i + 1].base

\* The bytes that wait in q.
PendingOf(q, w) == IF q = <<>> THEN 0 ELSE w - (Head(q).base + Head(q).off)

\* The numbers of a chunk.
LEMMA ChunkFields ==
  ASSUME NEW c \in Chunk
  PROVE  c.base \in Nat /\ c.n \in Nat /\ c.off \in Nat
BY DEF Chunk

\* The head of a queue that is not empty has bytes to send, and the queue at least those.
LEMMA HeadOf ==
  ASSUME NEW q, NEW w, Queued(q, w), q # <<>>
  PROVE  /\ Head(q) \in Chunk /\ Head(q) = q[1] /\ Len(q) \in Nat \ {0}
         /\ Rest(Head(q)) \in Nat \ {0}
         /\ PendingOf(q, w) \in Nat /\ Rest(Head(q)) <= PendingOf(q, w)
<1>1. q \in Seq(Chunk) /\ w \in Nat
  BY DEF Queued
<1>2. Len(q) \in Nat \ {0} /\ Head(q) = q[1] /\ q[1] \in Chunk
  BY <1>1
<1>3. q[1].off < q[1].n /\ q[1].base + q[1].n <= w
  BY <1>2 DEF Queued
<1>4. PICK b \in Nat, n \in Nat, o \in Nat : b = q[1].base /\ n = q[1].n /\ o = q[1].off
  BY <1>2, ChunkFields
<1>5. Rest(Head(q)) = n - o /\ PendingOf(q, w) = w - (b + o)
  BY <1>2, <1>4 DEF Rest, PendingOf
<1>6. o < n /\ b + n <= w
  BY <1>3, <1>4
<1> QED BY <1>1, <1>2, <1>5, <1>6

\* What dt_stream_send appends.
LEMMA AppendChunk ==
  ASSUME NEW q, NEW w, Queued(q, w), NEW k \in Nat \ {0},
         NEW c, c = [base |-> w, n |-> k, off |-> 0]
  PROVE  /\ Queued(Append(q, c), w + k) /\ Append(q, c) # <<>>
         /\ PendingOf(Append(q, c), w + k) = PendingOf(q, w) + k
         /\ q # <<>> => Head(Append(q, c)) = Head(q)
<1> DEFINE p == Append(q, c)
<1>1. q \in Seq(Chunk) /\ w \in Nat /\ c \in Chunk /\ Len(q) \in Nat
  BY DEF Queued, Chunk
<1>2. /\ p \in Seq(Chunk) /\ Len(p) = Len(q) + 1 /\ p[Len(p)] = c
      /\ \A i \in 1 .. Len(q) : p[i] = q[i]
  BY <1>1
<1> HIDE DEF p
<1>3. p # <<>> /\ Head(p) = p[1]
  BY <1>1, <1>2
<1>4. Queued(p, w + k)
  <2> SUFFICES ASSUME NEW i \in 1 .. Len(p)
               PROVE  /\ p[i].off < p[i].n /\ p[i].base + p[i].n <= w + k
                      /\ i > 1 => p[i].off = 0
                      /\ p[i].base + p[i].n = IF i = Len(p) THEN w + k ELSE p[i + 1].base
    BY <1>1, <1>2 DEF Queued
  <2>1. CASE i = Len(p)
    BY <1>1, <1>2, <2>1
  <2>2. CASE i = Len(q)
    <3>1. /\ q[i].off < q[i].n /\ q[i].base + q[i].n = w
          /\ i > 1 => q[i].off = 0
      BY <1>1, <1>2, <2>2 DEF Queued
    <3>2. p[i] = q[i] /\ p[i + 1] = c /\ q[i] \in Chunk /\ i # Len(p)
      BY <1>1, <1>2, <2>2
    <3> QED BY <1>1, <3>1, <3>2
  <2>3. CASE i \in 1 .. Len(q) /\ i # Len(q)
    <3>1. /\ q[i].off < q[i].n /\ q[i].base + q[i].n <= w
          /\ i > 1 => q[i].off = 0
          /\ q[i].base + q[i].n = q[i + 1].base
      BY <2>3 DEF Queued
    <3>2. p[i] = q[i] /\ p[i + 1] = q[i + 1] /\ q[i] \in Chunk /\ i # Len(p)
      BY <1>1, <1>2, <2>3
    <3>3. q[i].base + q[i].n <= w + k
      <4>1. PICK b \in Nat, m \in Nat : b = q[i].base /\ m = q[i].n
        BY <3>2, ChunkFields
      <4>2. b + m <= w
        BY <3>1, <4>1
      <4>3. b + m <= w + k
        BY <1>1, <4>2
      <4> QED BY <3>2, <4>1, <4>3
    <3> QED BY <3>1, <3>2, <3>3
  <2> QED BY <1>1, <1>2, <2>1, <2>2, <2>3
<1>5. q # <<>> => Head(p) = Head(q)
  BY <1>1, <1>2, <1>3
<1>6. PendingOf(p, w + k) = PendingOf(q, w) + k
  <2>1. CASE q = <<>>
    <3>1. Len(q) = 0 /\ Head(p) = c
      BY <1>1, <1>2, <1>3, <2>1
    <3> QED BY <1>1, <1>3, <2>1, <3>1 DEF PendingOf
  <2>2. CASE q # <<>>
    <3>1. PICK b \in Nat, o \in Nat : b = Head(q).base /\ o = Head(q).off
      BY <2>2, HeadOf, ChunkFields
    <3>2. PendingOf(q, w) = w - (b + o) /\ PendingOf(p, w + k) = (w + k) - (b + o)
      BY <1>3, <1>5, <2>2, <3>1 DEF PendingOf
    <3> QED BY <1>1, <3>2
  <2> QED BY <2>1, <2>2
<1> QED BY <1>3, <1>4, <1>5, <1>6 DEF p

\* What a pop of the head leaves.
LEMMA PopChunk ==
  ASSUME NEW q, NEW w, Queued(q, w), q # <<>>
  PROVE  /\ Queued(Tail(q), w)
         /\ PendingOf(Tail(q), w) = PendingOf(q, w) - Rest(Head(q))
<1> DEFINE p == Tail(q)
<1>1. /\ q \in Seq(Chunk) /\ w \in Nat /\ Len(q) \in Nat \ {0}
      /\ Head(q) = q[1] /\ Head(q) \in Chunk
  BY HeadOf DEF Queued
<1>2. /\ p \in Seq(Chunk) /\ Len(p) = Len(q) - 1
      /\ \A i \in 1 .. Len(p) : p[i] = q[i + 1]
  BY <1>1
<1> HIDE DEF p
<1>3. Queued(p, w)
  <2> SUFFICES ASSUME NEW i \in 1 .. Len(p)
               PROVE  /\ p[i].off < p[i].n /\ p[i].base + p[i].n <= w
                      /\ i > 1 => p[i].off = 0
                      /\ p[i].base + p[i].n = IF i = Len(p) THEN w ELSE p[i + 1].base
    BY <1>1, <1>2 DEF Queued
  <2>1. i + 1 \in 1 .. Len(q) /\ i + 1 > 1 /\ p[i] = q[i + 1] /\ (i = Len(p) <=> i + 1 = Len(q))
    BY <1>1, <1>2
  <2>2. i # Len(p) => p[i + 1] = q[i + 1 + 1]
    BY <1>1, <1>2
  <2>3. /\ q[i + 1].off < q[i + 1].n /\ q[i + 1].base + q[i + 1].n <= w
        /\ i + 1 > 1 => q[i + 1].off = 0
        /\ q[i + 1].base + q[i + 1].n = IF i + 1 = Len(q) THEN w ELSE q[i + 1 + 1].base
    BY <2>1 DEF Queued
  <2> QED BY <2>1, <2>2, <2>3
<1>4. PendingOf(p, w) = PendingOf(q, w) - Rest(Head(q))
  <2>1. q[1].base + q[1].n = IF 1 = Len(q) THEN w ELSE q[1 + 1].base
    <3>1. 1 \in 1 .. Len(q)
      BY <1>1
    <3> QED BY <3>1 DEF Queued
  <2>2. CASE p = <<>>
    <3>1. Len(q) = 1
      BY <1>1, <1>2, <2>2
    <3> QED BY <1>1, <2>1, <2>2, <3>1 DEF PendingOf, Rest, Chunk
  <2>3. CASE p # <<>>
    <3>1. Head(p) = q[2] /\ 2 \in 1 .. Len(q)
      BY <1>1, <1>2, <2>3
    <3>2. q[2].off = 0 /\ q[1].base + q[1].n = q[2].base
      BY <2>1, <3>1 DEF Queued
    <3>3. PendingOf(p, w) = w - q[2].base
      <4>1. q[2] \in Chunk
        BY <1>1, <3>1
      <4>2. q[2].base \in Nat
        BY <4>1, ChunkFields
      <4> QED BY <2>3, <3>1, <3>2, <4>2 DEF PendingOf
    <3>4. PendingOf(q, w) = w - (q[1].base + q[1].off)
      BY <1>1 DEF PendingOf
    <3>5. PICK b \in Nat, m \in Nat, o \in Nat : b = q[1].base /\ m = q[1].n /\ o = q[1].off
      BY <1>1, ChunkFields
    <3>6. Rest(Head(q)) = m - o
      BY <1>1, <3>5 DEF Rest
    <3>7. PendingOf(p, w) = w - (b + m) /\ PendingOf(q, w) = w - (b + o)
      BY <3>2, <3>3, <3>4, <3>5
    <3> QED BY <1>1, <3>6, <3>7
  <2> QED BY <2>2, <2>3
<1> QED BY <1>3, <1>4 DEF p

\* What a send of a part of the head leaves.
LEMMA TrimChunk ==
  ASSUME NEW q, NEW w, Queued(q, w), q # <<>>, NEW k \in Nat \ {0}, k < Rest(Head(q)),
         NEW c, c = [Head(q) EXCEPT !.off = @ + k]
  PROVE  /\ Queued(<<c>> \o Tail(q), w) /\ <<c>> \o Tail(q) # <<>>
         /\ PendingOf(<<c>> \o Tail(q), w) = PendingOf(q, w) - k
<1> DEFINE p == <<c>> \o Tail(q)
<1>1. /\ q \in Seq(Chunk) /\ w \in Nat /\ Len(q) \in Nat \ {0}
      /\ Head(q) = q[1] /\ Head(q) \in Chunk
  BY HeadOf DEF Queued
<1>2. c \in Chunk /\ c.base = q[1].base /\ c.n = q[1].n /\ c.off = q[1].off + k /\ c.off < c.n
  <2>1. c.base = q[1].base /\ c.n = q[1].n /\ c.off = q[1].off + k
    BY <1>1 DEF Chunk
  <2>2. PICK n \in Nat, o \in Nat : n = q[1].n /\ o = q[1].off
    BY <1>1, ChunkFields
  <2>3. k < n - o
    BY <1>1, <2>2 DEF Rest
  <2>4. o + k < n
    BY <2>3
  <2>5. c \in Chunk
    <3>1. o + k \in Nat /\ c = [Head(q) EXCEPT !.off = o + k]
      BY <1>1, <2>2
    <3>2. Head(q) \in [base : Nat, n : Nat, off : Nat]
      BY <1>1 DEF Chunk
    <3>3. c \in [base : Nat, n : Nat, off : Nat]
      BY <3>1, <3>2
    <3> QED BY <3>3 DEF Chunk
  <2> QED BY <2>1, <2>2, <2>4, <2>5
<1>3. /\ p \in Seq(Chunk) /\ Len(p) = Len(q) /\ p[1] = c
      /\ \A i \in 2 .. Len(q) : p[i] = q[i]
  BY <1>1, <1>2
<1> HIDE DEF p
<1>4. p # <<>> /\ Head(p) = c
  BY <1>1, <1>3
<1>5. Queued(p, w)
  <2> SUFFICES ASSUME NEW i \in 1 .. Len(p)
               PROVE  /\ p[i].off < p[i].n /\ p[i].base + p[i].n <= w
                      /\ i > 1 => p[i].off = 0
                      /\ p[i].base + p[i].n = IF i = Len(p) THEN w ELSE p[i + 1].base
    BY <1>1, <1>3 DEF Queued
  <2>1. /\ q[i].off < q[i].n /\ q[i].base + q[i].n <= w
        /\ i > 1 => q[i].off = 0
        /\ q[i].base + q[i].n = IF i = Len(q) THEN w ELSE q[i + 1].base
    BY <1>3 DEF Queued
  <2>2. i # Len(q) => p[i + 1] = q[i + 1]
    BY <1>1, <1>3
  <2>3. CASE i = 1
    <3>1. p[i] = c /\ c.base + c.n = q[i].base + q[i].n /\ c.off < c.n
      BY <1>2, <1>3, <2>3
    <3>2. p[i].base + p[i].n = IF i = Len(p) THEN w ELSE p[i + 1].base
      BY <1>3, <2>1, <2>2, <3>1
    <3> QED BY <2>1, <2>3, <3>1, <3>2
  <2>4. CASE i # 1
    <3>1. p[i] = q[i]
      BY <1>1, <1>3, <2>4
    <3>2. p[i].base + p[i].n = IF i = Len(p) THEN w ELSE p[i + 1].base
      <4>1. CASE i = Len(q)
        BY <1>3, <2>1, <3>1, <4>1
      <4>2. CASE i # Len(q)
        BY <1>3, <2>1, <2>2, <3>1, <4>2
      <4> QED BY <4>1, <4>2
    <3> QED BY <2>1, <3>1, <3>2
  <2> QED BY <2>3, <2>4
<1>6. PendingOf(p, w) = PendingOf(q, w) - k
  <2>1. PendingOf(p, w) = w - (c.base + c.off) /\ PendingOf(q, w) = w - (q[1].base + q[1].off)
    BY <1>1, <1>4 DEF PendingOf
  <2>2. q[1].base \in Nat /\ q[1].off \in Nat
    BY <1>1 DEF Chunk
  <2> QED BY <1>1, <1>2, <2>1, <2>2
<1> QED BY <1>4, <1>5, <1>6 DEF p

\* The types of the flags, of the two drainers' points and of the history.
OutTypes ==
  /\ used \in BOOLEAN /\ open \in BOOLEAN /\ dead \in BOOLEAN /\ wrShut \in BOOLEAN
  /\ shutDone \in BOOLEAN /\ wrFull \in BOOLEAN /\ flushing \in BOOLEAN
  /\ sending \in BOOLEAN /\ esent \in BOOLEAN
  /\ pump \in {"top", "take", "send", "sent", "flush", "fsend", "fpop", "tail", "over"}
  /\ exit \in {"none", "claim", "pick", "send", "pop", "give", "left", "gone"}
  /\ excuse \subseteq {"both", "torn"}

\* The types of the senders.
CallTypes ==
  /\ call \in [Threads -> {"idle", "try", "poll", "asleep"}]
  /\ armed \in [Threads -> BOOLEAN] /\ poked \in [Threads -> BOOLEAN]
  /\ DOMAIN left = Threads
  /\ "both" \notin excuse => left \in [Threads -> Nat]

(* The pump's chunk is the head of the queue and marked as being sent; it  *)
(* flushes, unmarked, only after close().                                  *)
PumpHolds ==
  /\ pump \in {"send", "sent"} => sending /\ out # <<>> /\ pchunk = Head(out)
  /\ pump = "sent" => pgot \in 1 .. Rest(pchunk)
  /\ pump \in {"flush", "fsend", "fpop"} => dead
  /\ pump = "fsend" => out # <<>> /\ pchunk = Head(out)
  /\ pump = "fpop" => out # <<>>

(* The exit drain's chunk is the head of the queue and marked as being     *)
(* sent; while it drains, the stream is neither closed nor freed.          *)
ExitHolds ==
  /\ exit \in {"pick", "send", "pop", "give"} => flushing
  /\ Draining => ~dead /\ used
  /\ exit \in {"send", "pop"} =>
       sending /\ out # <<>> /\ echunk = Head(out) /\ pump \notin {"send", "sent"}

\* The slot is freed by the pump, when it retires.
Freed == ~used => pump = "over" /\ ~open /\ out = <<>>

(* Until pump and exit drain share the queue of a stream that is closed or *)
(* freed, the queue is counted and only one of them has its head.          *)
QueueInv ==
  "both" \notin excuse =>
    Queued(out, written) /\ ototal = PendingOf(out, written) /\ PumpHolds /\ ExitHolds /\ Freed

\* Bytes that are on the wire and still in the queue.
Ahead ==
  IF pump = "sent" THEN pgot
  ELSE IF pump = "fpop" THEN Rest(Head(out))
  ELSE IF exit = "pop" /\ esent THEN Rest(echunk) ELSE 0

(* The wire has every byte that is not queued and those that are ahead,    *)
(* unless the pump gave up a chunk in the middle of the flush.             *)
WireInv ==
  excuse = {} =>
    /\ wire \in Seq(Nat) /\ WireAscends /\ Len(wire) <= written
    /\ used /\ ~(dead /\ pump \in {"tail", "over"}) => Len(wire) = written - ototal + Ahead
    /\ shutDone => wrShut /\ Len(wire) = written

(* A sender asleep that nobody poked has told the pump, by wrFull, and at  *)
(* the writable mark its bytes do not fit.                                 *)
Asleep(t) ==
  call[t] = "asleep" =>
    /\ armed[t]
    /\ ~poked[t] /\ ~dead /\ open /\ exit \in {"none", "claim"} =>
         wrFull /\ (ototal <= WRoom => Accepted(left[t]) = 0)

\* All senders; the excuses need an exit drain.
SleepInv == /\ exit \in {"none", "claim"} => excuse = {}
            /\ \A t \in Threads : Asleep(t)

\* The inductive invariant of the out-queue.
OutIInv == OutTypes /\ CallTypes /\ QueueInv /\ WireInv /\ SleepInv

\* Nothing is queued at first.
LEMMA OutInitIInv == OutInit => OutIInv
<1> SUFFICES ASSUME OutInit PROVE OutIInv
  OBVIOUS
<1>1. OutTypes /\ CallTypes
  BY DEF OutInit, OutTypes, CallTypes
<1>2. QueueInv
  BY DEF OutInit, QueueInv, Queued, PendingOf, PumpHolds, ExitHolds, Freed, Draining
<1>3. WireInv
  BY DEF OutInit, WireInv, WireAscends, Ahead
<1>4. SleepInv
  BY DEF OutInit, SleepInv, Asleep
<1> QED BY <1>1, <1>2, <1>3, <1>4 DEF OutIInv

\* Every step keeps the types of the flags and points.
LEMMA OutTypesStep == OutTypes /\ [OutNext]_outVars => OutTypes'
<1> SUFFICES ASSUME OutTypes, [OutNext]_outVars PROVE OutTypes'
  OBVIOUS
<1> USE DEF OutTypes, stream, senders, pumping, exiting
<1>1. ASSUME NEW t \in Threads, SendRefused(t) PROVE OutTypes'
  BY <1>1 DEF SendRefused
<1>2. ASSUME NEW t \in Threads, SendQueued(t) PROVE OutTypes'
  BY <1>2 DEF SendQueued
<1>3. ASSUME NEW t \in Threads, SendFull(t) PROVE OutTypes'
  BY <1>3 DEF SendFull
<1>4. ASSUME NEW t \in Threads, SendAwake(t) PROVE OutTypes'
  BY <1>4 DEF SendAwake
<1>5. ASSUME NEW t \in Threads, NEW n \in 1 .. NAsk, NEW point \in {"try", "poll"},
             Send(t, n, point)
      PROVE  OutTypes'
  BY <1>5 DEF Send
<1>6. CASE Shutdown
  BY <1>6 DEF Shutdown
<1>7. CASE OnClose
  BY <1>7 DEF OnClose
<1>8. CASE PumpHead
  BY <1>8 DEF PumpHead, ShutNow
<1>9. CASE PumpBreak
  <2>1. /\ pump' = "tail" /\ open' \in {FALSE, open}
        /\ UNCHANGED <<used, dead, wrShut, shutDone, wrFull, flushing, sending, esent, exit,
             excuse>>
    BY <1>9 DEF PumpBreak
  <2>2. open' \in BOOLEAN
    BY <2>1
  <2> QED BY <2>1, <2>2
<1>10. CASE PumpTake
  BY <1>10 DEF PumpTake
<1>11. CASE PumpNone
  BY <1>11 DEF PumpNone
<1>12. ASSUME NEW k \in 1 .. MaxOut, PumpSend(k) PROVE OutTypes'
  BY <1>12 DEF PumpSend
<1>13. CASE PumpAgain
  BY <1>13 DEF PumpAgain
<1>14. CASE PumpSent
  <2>1. /\ sending' = FALSE /\ pump' = "take" /\ wrFull' \in {FALSE, wrFull}
        /\ UNCHANGED <<used, open, dead, wrShut, shutDone, flushing, esent, exit, excuse>>
    BY <1>14 DEF PumpSent
  <2>2. wrFull' \in BOOLEAN
    BY <2>1
  <2> QED BY <2>1, <2>2
<1>15. CASE FlushTake
  BY <1>15 DEF FlushTake
<1>16. CASE FlushNone
  BY <1>16 DEF FlushNone
<1>17. ASSUME NEW k \in 0 .. MaxOut, FlushSend(k) PROVE OutTypes'
  BY <1>17 DEF FlushSend
<1>18. CASE FlushPop
  BY <1>18 DEF FlushPop
<1>19. CASE PumpRetire
  BY <1>19 DEF PumpRetire
<1>20. CASE Exit
  BY <1>20 DEF Exit
<1>21. CASE ExitClaim
  BY <1>21 DEF ExitClaim
<1>22. CASE ExitSkip
  BY <1>22 DEF ExitSkip
<1>23. CASE ExitTake
  BY <1>23 DEF ExitTake
<1>24. CASE ExitNone
  BY <1>24 DEF ExitNone
<1>25. CASE ExitGive
  BY <1>25 DEF ExitGive
<1>26. ASSUME NEW k \in 0 .. MaxOut, ExitSend(k) PROVE OutTypes'
  BY <1>26 DEF ExitSend
<1>27. CASE ExitPop
  <2>1. /\ sending' = FALSE /\ esent' = FALSE /\ exit' \in {"pick", "give"}
        /\ UNCHANGED <<used, open, dead, wrShut, shutDone, wrFull, flushing, pump, excuse>>
    BY <1>27 DEF ExitPop
  <2>2. exit' \in {"none", "claim", "pick", "send", "pop", "give", "left", "gone"}
    BY <2>1
  <2> QED BY <2>1, <2>2
<1>28. CASE Gone
  BY <1>28 DEF Gone
<1>29. CASE UNCHANGED outVars
  <2>1. UNCHANGED <<used, open, dead, wrShut, shutDone, wrFull, flushing, sending, esent,
                    pump, exit, excuse>>
    BY <1>29 DEF outVars
  <2> QED BY <2>1
<1> QED BY <1>1, <1>2, <1>3, <1>4, <1>5, <1>6, <1>7, <1>8, <1>9, <1>10, <1>11, <1>12,
       <1>13, <1>14, <1>15, <1>16, <1>17, <1>18, <1>19, <1>20, <1>21, <1>22, <1>23, <1>24,
       <1>25, <1>26, <1>27, <1>28, <1>29
       DEF OutNext, Sender, PumpStep, ExitStep, Exited

\* dt_stream_send takes no more than it is given.
LEMMA AcceptedFacts ==
  ASSUME NEW len \in Nat, ototal \in Nat
  PROVE  Accepted(len) \in Int /\ Accepted(len) <= len
BY OutAssumption DEF Accepted

\* What the queue invariant says of the count and of the head.
LEMMA TotalNat ==
  ASSUME QueueInv, "both" \notin excuse
  PROVE  /\ ototal \in Nat /\ written \in Nat /\ ototal = PendingOf(out, written)
         /\ Queued(out, written)
         /\ out = <<>> => ototal = 0
         /\ out # <<>> => /\ Rest(Head(out)) \in Nat \ {0} /\ Rest(Head(out)) <= ototal
                         /\ Head(out) \in Chunk
<1>1. Queued(out, written) /\ ototal = PendingOf(out, written) /\ written \in Nat
  BY DEF QueueInv, Queued
<1>2. CASE out = <<>>
  BY <1>1, <1>2 DEF PendingOf
<1>3. CASE out # <<>>
  BY <1>1, <1>3, HeadOf
<1> QED BY <1>1, <1>2, <1>3

\* Every step keeps the types of the senders.
LEMMA CallTypesStep == OutIInv /\ [OutNext]_outVars => CallTypes'
<1> SUFFICES ASSUME OutIInv, [OutNext]_outVars PROVE CallTypes'
  OBVIOUS
<1> USE DEF stream, senders, pumping, exiting
<1>0. CallTypes
  BY DEF OutIInv
<1>1. ASSUME NEW t \in Threads, SendRefused(t) PROVE CallTypes'
  BY <1>0, <1>1 DEF CallTypes, SendRefused, Returns
<1>2. ASSUME NEW t \in Threads, SendQueued(t) PROVE CallTypes'
  <2> DEFINE k == Accepted(left[t])
  <2>1. UNCHANGED excuse
    BY <1>2 DEF SendQueued
  <2>2. CASE Returns(t)
    BY <1>0, <2>1, <2>2 DEF CallTypes, Returns
  <2>3. CASE left[t] > k /\ left' = [left EXCEPT ![t] = @ - k]
               /\ UNCHANGED <<call, armed, poked>>
    <3>1. DOMAIN left' = Threads
      BY <1>0, <2>3 DEF CallTypes
    <3>2. ASSUME "both" \notin excuse PROVE left' \in [Threads -> Nat]
      <4>1. left \in [Threads -> Nat] /\ left[t] \in Nat
        BY <1>0, <3>2 DEF CallTypes
      <4>2. k \in Int
        BY <3>2, <4>1, TotalNat, AcceptedFacts DEF OutIInv
      <4>3. left[t] - k \in Nat
        BY <2>3, <4>1, <4>2
      <4> QED BY <2>3, <4>1, <4>3
    <3> QED BY <1>0, <2>1, <2>3, <3>1, <3>2 DEF CallTypes
  <2> QED BY <1>2, <2>2, <2>3 DEF SendQueued
<1>3. ASSUME NEW t \in Threads, SendFull(t) PROVE CallTypes'
  <2>1. UNCHANGED excuse
    BY <1>3 DEF SendFull
  <2>2. CASE call[t] = "poll" /\ Returns(t)
    BY <1>0, <2>1, <2>2 DEF CallTypes, Returns
  <2>3. CASE armed' = [armed EXCEPT ![t] = TRUE] /\ poked' = [poked EXCEPT ![t] = FALSE]
               /\ UNCHANGED <<call, left>>
    BY <1>0, <2>1, <2>3 DEF CallTypes
  <2>4. CASE call' = [call EXCEPT ![t] = "asleep"] /\ UNCHANGED <<left, armed, poked>>
    BY <1>0, <2>1, <2>4 DEF CallTypes
  <2> QED BY <1>3, <2>2, <2>3, <2>4 DEF SendFull
<1>4. ASSUME NEW t \in Threads, SendAwake(t) PROVE CallTypes'
  BY <1>0, <1>4 DEF CallTypes, SendAwake
<1>5. ASSUME NEW t \in Threads, NEW n \in 1 .. NAsk, NEW point \in {"try", "poll"},
             Send(t, n, point)
      PROVE  CallTypes'
  <2>1. n \in Nat
    OBVIOUS
  <2>2. left' = [left EXCEPT ![t] = n] /\ call' = [call EXCEPT ![t] = point]
          /\ UNCHANGED <<armed, poked, excuse>>
    BY <1>5 DEF Send
  <2> QED BY <1>0, <2>1, <2>2 DEF CallTypes
<1>6. CASE Shutdown
  BY <1>0, <1>6 DEF CallTypes, Shutdown
<1>7. CASE OnClose
  BY <1>0, <1>7 DEF CallTypes, OnClose, Signal
<1>8. CASE PumpHead
  BY <1>0, <1>8 DEF CallTypes, PumpHead
<1>9. CASE PumpBreak
  <2>1. UNCHANGED <<call, left, armed, excuse>> /\ (Signal \/ UNCHANGED poked)
    BY <1>9 DEF PumpBreak
  <2> QED BY <1>0, <2>1 DEF CallTypes, Signal
<1>10. CASE PumpTake
  BY <1>0, <1>10 DEF CallTypes, PumpTake
<1>11. CASE PumpNone
  BY <1>0, <1>11 DEF CallTypes, PumpNone
<1>12. ASSUME NEW k \in 1 .. MaxOut, PumpSend(k) PROVE CallTypes'
  BY <1>0, <1>12 DEF CallTypes, PumpSend
<1>13. CASE PumpAgain
  BY <1>0, <1>13 DEF CallTypes, PumpAgain
<1>14. CASE PumpSent
  <2>1. UNCHANGED <<call, left, armed, excuse>> /\ (Signal \/ UNCHANGED poked)
    BY <1>14 DEF PumpSent
  <2> QED BY <1>0, <2>1 DEF CallTypes, Signal
<1>15. CASE FlushTake
  BY <1>0, <1>15 DEF CallTypes, FlushTake
<1>16. CASE FlushNone
  BY <1>0, <1>16 DEF CallTypes, FlushNone
<1>17. ASSUME NEW k \in 0 .. MaxOut, FlushSend(k) PROVE CallTypes'
  BY <1>0, <1>17 DEF CallTypes, FlushSend
<1>18. CASE FlushPop
  BY <1>0, <1>18 DEF CallTypes, FlushPop
<1>19. CASE PumpRetire
  <2>1. UNCHANGED <<call, left, armed>> /\ (Signal \/ UNCHANGED poked)
                    /\ excuse \subseteq excuse'
    BY <1>19 DEF PumpRetire
  <2> QED BY <1>0, <2>1 DEF CallTypes, Signal
<1>20. CASE Exit
  BY <1>0, <1>20 DEF CallTypes, Exit
<1>21. CASE ExitClaim
  BY <1>0, <1>21 DEF CallTypes, ExitClaim
<1>22. CASE ExitSkip
  BY <1>0, <1>22 DEF CallTypes, ExitSkip
<1>23. CASE ExitTake
  BY <1>0, <1>23 DEF CallTypes, ExitTake
<1>24. CASE ExitNone
  BY <1>0, <1>24 DEF CallTypes, ExitNone
<1>25. CASE ExitGive
  BY <1>0, <1>25 DEF CallTypes, ExitGive
<1>26. ASSUME NEW k \in 0 .. MaxOut, ExitSend(k) PROVE CallTypes'
  BY <1>0, <1>26 DEF CallTypes, ExitSend
<1>27. CASE ExitPop
  BY <1>0, <1>27 DEF CallTypes, ExitPop
<1>28. CASE Gone
  BY <1>0, <1>28 DEF CallTypes, Gone
<1>29. CASE UNCHANGED outVars
  BY <1>0, <1>29 DEF CallTypes, outVars
<1> QED BY <1>1, <1>2, <1>3, <1>4, <1>5, <1>6, <1>7, <1>8, <1>9, <1>10, <1>11, <1>12,
       <1>13, <1>14, <1>15, <1>16, <1>17, <1>18, <1>19, <1>20, <1>21, <1>22, <1>23, <1>24,
       <1>25, <1>26, <1>27, <1>28, <1>29
       DEF OutNext, Sender, PumpStep, ExitStep, Exited

\* The history only grows.
LEMMA ExcuseGrows == [OutNext]_outVars => excuse \subseteq excuse'
<1> SUFFICES ASSUME [OutNext]_outVars PROVE excuse \subseteq excuse'
  OBVIOUS
<1>1. ASSUME NEW t \in Threads, SendRefused(t) PROVE excuse \subseteq excuse'
  BY <1>1 DEF SendRefused
<1>2. ASSUME NEW t \in Threads, SendQueued(t) PROVE excuse \subseteq excuse'
  BY <1>2 DEF SendQueued
<1>3. ASSUME NEW t \in Threads, SendFull(t) PROVE excuse \subseteq excuse'
  BY <1>3 DEF SendFull
<1>4. ASSUME NEW t \in Threads, SendAwake(t) PROVE excuse \subseteq excuse'
  BY <1>4 DEF SendAwake
<1>5. ASSUME NEW t \in Threads, NEW n \in 1 .. NAsk, NEW point \in {"try", "poll"},
             Send(t, n, point)
      PROVE  excuse \subseteq excuse'
  BY <1>5 DEF Send
<1>6. CASE Shutdown
  BY <1>6 DEF Shutdown
<1>7. CASE OnClose
  BY <1>7 DEF OnClose
<1>8. CASE PumpHead
  BY <1>8 DEF PumpHead
<1>9. CASE PumpBreak
  BY <1>9 DEF PumpBreak
<1>10. CASE PumpTake
  BY <1>10 DEF PumpTake
<1>11. CASE PumpNone
  BY <1>11 DEF PumpNone
<1>12. ASSUME NEW k \in 1 .. MaxOut, PumpSend(k) PROVE excuse \subseteq excuse'
  BY <1>12 DEF PumpSend
<1>13. CASE PumpAgain
  BY <1>13 DEF PumpAgain
<1>14. CASE PumpSent
  BY <1>14 DEF PumpSent
<1>15. CASE FlushTake
  BY <1>15 DEF FlushTake
<1>16. CASE FlushNone
  BY <1>16 DEF FlushNone
<1>17. ASSUME NEW k \in 0 .. MaxOut, FlushSend(k) PROVE excuse \subseteq excuse'
  BY <1>17 DEF FlushSend
<1>18. CASE FlushPop
  BY <1>18 DEF FlushPop
<1>19. CASE PumpRetire
  BY <1>19 DEF PumpRetire
<1>20. CASE Exit
  BY <1>20 DEF Exit
<1>21. CASE ExitClaim
  BY <1>21 DEF ExitClaim
<1>22. CASE ExitSkip
  BY <1>22 DEF ExitSkip
<1>23. CASE ExitTake
  BY <1>23 DEF ExitTake
<1>24. CASE ExitNone
  BY <1>24 DEF ExitNone
<1>25. CASE ExitGive
  BY <1>25 DEF ExitGive
<1>26. ASSUME NEW k \in 0 .. MaxOut, ExitSend(k) PROVE excuse \subseteq excuse'
  BY <1>26 DEF ExitSend
<1>27. CASE ExitPop
  BY <1>27 DEF ExitPop
<1>28. CASE Gone
  BY <1>28 DEF Gone
<1>29. CASE UNCHANGED outVars
  BY <1>29 DEF outVars
<1> QED BY <1>1, <1>2, <1>3, <1>4, <1>5, <1>6, <1>7, <1>8, <1>9, <1>10, <1>11, <1>12,
       <1>13, <1>14, <1>15, <1>16, <1>17, <1>18, <1>19, <1>20, <1>21, <1>22, <1>23, <1>24,
       <1>25, <1>26, <1>27, <1>28, <1>29
       DEF OutNext, Sender, PumpStep, ExitStep, Exited

\* The queue invariant without its excuse.
QueueOK == /\ Queued(out, written) /\ ototal = PendingOf(out, written)
           /\ PumpHolds /\ ExitHolds /\ Freed

\* Every step keeps the queue invariant.
LEMMA QueueStep == OutIInv /\ [OutNext]_outVars => QueueInv'
<1> SUFFICES ASSUME OutIInv, [OutNext]_outVars, "both" \notin excuse' PROVE QueueOK'
  BY DEF QueueInv, QueueOK
<1> USE DEF stream, senders, pumping, exiting, Draining
<1>a. "both" \notin excuse /\ OutTypes /\ QueueInv
  BY ExcuseGrows DEF OutIInv
<1>b. QueueOK
  BY <1>a DEF QueueInv, QueueOK
<1>c. /\ ototal \in Nat /\ written \in Nat
      /\ out = <<>> => ototal = 0
      /\ out # <<>> => /\ Rest(Head(out)) \in Nat \ {0} /\ Rest(Head(out)) <= ototal
                      /\ Head(out) \in Chunk
  BY <1>a, TotalNat
<1>1. ASSUME NEW t \in Threads, SendRefused(t) PROVE QueueOK'
  BY <1>a, <1>b, <1>1 DEF QueueOK, OutTypes, PumpHolds, ExitHolds, Freed, SendRefused
<1>2. ASSUME NEW t \in Threads, SendQueued(t) PROVE QueueOK'
  <2> DEFINE k == Accepted(left[t])
             c == [base |-> written, n |-> k, off |-> 0]
  <2>1. /\ ~dead /\ open /\ k > 0
        /\ out' = Append(out, c) /\ ototal' = ototal + k /\ written' = written + k
        /\ UNCHANGED <<used, open, dead, pump, pchunk, pgot, exit, echunk, flushing, sending>>
    BY <1>2 DEF SendQueued
  <2>2. k \in Nat \ {0}
    <3>1. left[t] \in Nat
      BY <1>a DEF OutIInv, CallTypes
    <3>2. k \in Int
      BY <1>c, <3>1, AcceptedFacts
    <3> HIDE DEF k
    <3> QED BY <2>1, <3>2
  <2> HIDE DEF k
  <2>3. /\ Queued(out', written') /\ out' # <<>>
             /\ PendingOf(out', written') = PendingOf(out, written) + k
        /\ out # <<>> => Head(out') = Head(out)
    BY <1>b, <2>1, <2>2, AppendChunk DEF QueueOK
  <2>4. PumpHolds'
    BY <1>b, <2>1, <2>3 DEF QueueOK, PumpHolds
  <2>5. ExitHolds' /\ Freed'
    BY <1>b, <2>1, <2>3 DEF QueueOK, ExitHolds, Freed
  <2> QED BY <1>b, <2>1, <2>3, <2>4, <2>5 DEF QueueOK
<1>3. ASSUME NEW t \in Threads, SendFull(t) PROVE QueueOK'
  BY <1>a, <1>b, <1>3 DEF QueueOK, OutTypes, PumpHolds, ExitHolds, Freed, SendFull
<1>4. ASSUME NEW t \in Threads, SendAwake(t) PROVE QueueOK'
  BY <1>a, <1>b, <1>4 DEF QueueOK, OutTypes, PumpHolds, ExitHolds, Freed, SendAwake
<1>5. ASSUME NEW t \in Threads, NEW n \in 1 .. NAsk, NEW point \in {"try", "poll"},
             Send(t, n, point)
      PROVE  QueueOK'
  BY <1>a, <1>b, <1>5 DEF QueueOK, OutTypes, PumpHolds, ExitHolds, Freed, Send
<1>6. CASE Shutdown
  BY <1>a, <1>b, <1>6 DEF QueueOK, OutTypes, PumpHolds, ExitHolds, Freed, Shutdown
<1>7. CASE OnClose
  BY <1>a, <1>b, <1>7 DEF QueueOK, OutTypes, PumpHolds, ExitHolds, Freed, OnClose
<1>8. CASE PumpHead
  BY <1>a, <1>b, <1>8 DEF QueueOK, OutTypes, PumpHolds, ExitHolds, Freed, PumpHead, ShutNow
<1>9. CASE PumpBreak
  BY <1>a, <1>b, <1>9 DEF QueueOK, OutTypes, PumpHolds, ExitHolds, Freed, PumpBreak
<1>10. CASE PumpTake
  BY <1>a, <1>b, <1>10 DEF QueueOK, OutTypes, PumpHolds, ExitHolds, Freed, PumpTake
<1>11. CASE PumpNone
  BY <1>a, <1>b, <1>11 DEF QueueOK, OutTypes, PumpHolds, ExitHolds, Freed, PumpNone
<1>12. ASSUME NEW k \in 1 .. MaxOut, PumpSend(k) PROVE QueueOK'
  BY <1>a, <1>b, <1>12 DEF QueueOK, OutTypes, PumpHolds, ExitHolds, Freed, PumpSend
<1>13. CASE PumpAgain
  BY <1>a, <1>b, <1>13 DEF QueueOK, OutTypes, PumpHolds, ExitHolds, Freed, PumpAgain
<1>14. CASE PumpSent
  <2> DEFINE c == [Head(out) EXCEPT !.off = @ + pgot]
  <2>1. /\ pump = "sent" /\ pump' = "take" /\ sending' = FALSE /\ ototal' = ototal - pgot
        /\ out' = (IF c.off >= c.n THEN Tail(out) ELSE <<c>> \o Tail(out))
        /\ UNCHANGED <<written, used, open, dead, exit, echunk, flushing>>
    BY <1>14 DEF PumpSent
  <2>2. /\ out # <<>> /\ pchunk = Head(out) /\ pgot \in 1 .. Rest(Head(out)) /\ used
        /\ exit \notin {"send", "pop"}
    BY <1>b, <2>1 DEF QueueOK, PumpHolds, ExitHolds, Freed
  <2>3. pgot \in Nat \ {0} /\ c.n = Head(out).n /\ c.off = Head(out).off + pgot
    BY <1>c, <2>2 DEF Chunk
  <2>4. Queued(out', written') /\ ototal' = PendingOf(out', written')
    <3>1. Head(out).n \in Nat /\ Head(out).off \in Nat
      BY <1>c, <2>2, ChunkFields
    <3>2. CASE c.off >= c.n
      <4>1. pgot = Rest(Head(out))
        BY <2>2, <2>3, <3>1, <3>2 DEF Rest
      <4>2. out' = Tail(out)
        BY <2>1, <3>2
      <4> QED BY <1>b, <2>1, <2>2, <4>1, <4>2, PopChunk DEF QueueOK
    <3>3. CASE ~(c.off >= c.n)
      <4>1. pgot < Rest(Head(out))
        BY <2>2, <2>3, <3>1, <3>3 DEF Rest
      <4>2. out' = <<c>> \o Tail(out)
        BY <2>1, <3>3
      <4> HIDE DEF c
      <4>3. c = [Head(out) EXCEPT !.off = @ + pgot]
        BY DEF c
      <4> QED BY <1>b, <2>1, <2>2, <2>3, <4>1, <4>2, <4>3, TrimChunk DEF QueueOK
    <3> QED BY <3>2, <3>3
  <2>5. PumpHolds' /\ ExitHolds' /\ Freed'
    BY <1>b, <2>1, <2>2 DEF QueueOK, PumpHolds, ExitHolds, Freed
  <2> QED BY <2>4, <2>5 DEF QueueOK
<1>15. CASE FlushTake
  BY <1>a, <1>b, <1>15 DEF QueueOK, OutTypes, PumpHolds, ExitHolds, Freed, FlushTake
<1>16. CASE FlushNone
  BY <1>a, <1>b, <1>16 DEF QueueOK, OutTypes, PumpHolds, ExitHolds, Freed, FlushNone
<1>17. ASSUME NEW k \in 0 .. MaxOut, FlushSend(k) PROVE QueueOK'
  BY <1>a, <1>b, <1>17 DEF QueueOK, OutTypes, PumpHolds, ExitHolds, Freed, FlushSend
<1>18. CASE FlushPop
  <2>1. /\ out # <<>> /\ out' = Tail(out) /\ UNCHANGED written
        /\ ototal' = ototal - Rest(Head(out))
    <3>1. pump = "fpop" /\ used /\ out # <<>>
      BY <1>b, <1>18 DEF FlushPop, QueueOK, PumpHolds, Freed
    <3> QED BY <1>18, <3>1 DEF FlushPop
  <2>2. Queued(out, written)' /\ ototal' = PendingOf(out', written')
    BY <1>b, <2>1, PopChunk DEF QueueOK
  <2>3. /\ pump = "fpop" /\ pump' = "flush" /\ used
        /\ UNCHANGED <<used, open, dead, sending, exit, echunk, flushing>>
    BY <1>b, <1>18 DEF FlushPop, QueueOK, Freed
  <2>4. dead /\ exit \notin {"pick", "send", "pop"}
    BY <1>b, <2>3 DEF QueueOK, PumpHolds, ExitHolds
  <2>5. PumpHolds' /\ ExitHolds' /\ Freed'
    BY <1>b, <2>3, <2>4 DEF QueueOK, PumpHolds, ExitHolds, Freed
  <2> QED BY <2>2, <2>5 DEF QueueOK
<1>19. CASE PumpRetire
  <2>1. /\ pump = "tail" /\ pump' = "over" /\ open' = FALSE
        /\ UNCHANGED <<written, dead, flushing, sending, exit, echunk>>
    BY <1>19 DEF PumpRetire
  <2>2. CASE used' = FALSE /\ out' = <<>> /\ ototal' = 0
               /\ excuse' = (IF Draining THEN excuse \union {"both"} ELSE excuse)
    <3>1. ~Draining
      BY <2>2
    <3>2. Queued(out', written') /\ ototal' = PendingOf(out', written')
      BY <1>c, <2>1, <2>2 DEF Queued, PendingOf
    <3>3. PumpHolds' /\ ExitHolds' /\ Freed'
      BY <1>b, <2>1, <2>2, <3>1 DEF QueueOK, PumpHolds, ExitHolds, Freed
    <3> QED BY <3>2, <3>3 DEF QueueOK
  <2>3. CASE UNCHANGED <<used, out, ototal>>
    <3>1. used
      BY <1>b, <2>1 DEF QueueOK, Freed
    <3>2. PumpHolds' /\ ExitHolds' /\ Freed'
      BY <1>b, <2>1, <2>3, <3>1 DEF QueueOK, PumpHolds, ExitHolds, Freed
    <3> QED BY <1>b, <2>1, <2>3, <3>2 DEF QueueOK
  <2> QED BY <1>19, <2>2, <2>3 DEF PumpRetire
<1>20. CASE Exit
  BY <1>a, <1>b, <1>20 DEF QueueOK, OutTypes, PumpHolds, ExitHolds, Freed, Exit
<1>21. CASE ExitClaim
  BY <1>a, <1>b, <1>21 DEF QueueOK, OutTypes, PumpHolds, ExitHolds, Freed, ExitClaim
<1>22. CASE ExitSkip
  BY <1>a, <1>b, <1>22 DEF QueueOK, OutTypes, PumpHolds, ExitHolds, Freed, ExitSkip
<1>23. CASE ExitTake
  BY <1>a, <1>b, <1>23 DEF QueueOK, OutTypes, PumpHolds, ExitHolds, Freed, ExitTake
<1>24. CASE ExitNone
  BY <1>a, <1>b, <1>24 DEF QueueOK, OutTypes, PumpHolds, ExitHolds, Freed, ExitNone
<1>25. CASE ExitGive
  BY <1>a, <1>b, <1>25 DEF QueueOK, OutTypes, PumpHolds, ExitHolds, Freed, ExitGive
<1>26. ASSUME NEW k \in 0 .. MaxOut, ExitSend(k) PROVE QueueOK'
  BY <1>a, <1>b, <1>26 DEF QueueOK, OutTypes, PumpHolds, ExitHolds, Freed, ExitSend
<1>27. CASE ExitPop
  <2>1. /\ exit = "pop" /\ sending' = FALSE /\ exit' \in {"pick", "give"}
        /\ UNCHANGED <<written, used, open, dead, pump, pchunk, pgot, flushing>>
    BY <1>27 DEF ExitPop
  <2>2. /\ used /\ ~dead /\ flushing /\ out # <<>> /\ echunk = Head(out)
        /\ pump \notin {"send", "sent", "flush", "fsend", "fpop"}
    BY <1>b, <2>1 DEF QueueOK, PumpHolds, ExitHolds
  <2>3. Queued(out', written') /\ ototal' = PendingOf(out', written')
    <3>1. CASE esent
      <4>1. out' = Tail(out) /\ ototal' = ototal - Rest(Head(out))
        BY <1>27, <2>2, <3>1 DEF ExitPop, Rest
      <4> QED BY <1>b, <2>1, <2>2, <4>1, PopChunk DEF QueueOK
    <3>2. CASE ~esent
      BY <1>b, <1>27, <2>1, <3>2 DEF ExitPop, QueueOK
    <3> QED BY <3>1, <3>2
  <2>4. PumpHolds' /\ ExitHolds'
    BY <2>1, <2>2 DEF PumpHolds, ExitHolds
  <2>5. Freed'
    BY <2>1, <2>2 DEF Freed
  <2> QED BY <2>3, <2>4, <2>5 DEF QueueOK
<1>28. CASE Gone
  BY <1>a, <1>b, <1>28 DEF QueueOK, OutTypes, PumpHolds, ExitHolds, Freed, Gone
<1>29. CASE UNCHANGED outVars
  BY <1>a, <1>b, <1>29 DEF QueueOK, OutTypes, PumpHolds, ExitHolds, Freed, outVars
<1> QED BY <1>1, <1>2, <1>3, <1>4, <1>5, <1>6, <1>7, <1>8, <1>9, <1>10, <1>11, <1>12,
       <1>13, <1>14, <1>15, <1>16, <1>17, <1>18, <1>19, <1>20, <1>21, <1>22, <1>23, <1>24,
       <1>25, <1>26, <1>27, <1>28, <1>29
       DEF OutNext, Sender, PumpStep, ExitStep, Exited

\* Numbers that count on from where a sequence ends.
LEMMA CountOn ==
  ASSUME NEW s \in Seq(Nat), \A i \in 1 .. Len(s) : s[i] = i,
         NEW b \in Seq(Nat), \A i \in 1 .. Len(b) : b[i] = Len(s) + i
  PROVE  /\ s \o b \in Seq(Nat) /\ Len(s \o b) = Len(s) + Len(b)
         /\ s \o b = [i \in 1 .. Len(s \o b) |-> i]
<1> DEFINE p == s \o b
<1>1. /\ p \in Seq(Nat) /\ Len(p) = Len(s) + Len(b)
      /\ \A i \in 1 .. Len(s) : p[i] = s[i]
      /\ \A i \in 1 .. Len(s) + Len(b) : i \notin 1 .. Len(s) =>
           i - Len(s) \in 1 .. Len(b) /\ p[i] = b[i - Len(s)]
  BY ConcatElements
<1> HIDE DEF p
<1>2. Len(s) \in Nat /\ Len(b) \in Nat
  OBVIOUS
<1>3. ASSUME NEW i \in 1 .. Len(p) PROVE p[i] = i
  <2>1. CASE i \in 1 .. Len(s)
    BY <1>1, <2>1
  <2>2. CASE i \notin 1 .. Len(s)
    <3>1. i - Len(s) \in 1 .. Len(b) /\ p[i] = b[i - Len(s)]
      BY <1>1, <2>2
    <3>2. b[i - Len(s)] = Len(s) + (i - Len(s))
      BY <3>1
    <3> QED BY <1>2, <3>1, <3>2
  <2> QED BY <2>1, <2>2
<1>4. p = [i \in 1 .. Len(p) |-> p[i]]
  BY <1>1
<1>5. p = [i \in 1 .. Len(p) |-> i]
  BY <1>3, <1>4
<1> QED BY <1>1, <1>5 DEF p

\* What a send of the first k bytes of the head adds to the wire.
LEMMA WireGrows ==
  ASSUME NEW c \in Chunk, NEW k \in Nat, wire \in Seq(Nat), WireAscends,
         Len(wire) = c.base + c.off, wire' = wire \o Bytes(c, k)
  PROVE  wire' \in Seq(Nat) /\ WireAscends' /\ Len(wire') = Len(wire) + k
<1>1. c.base \in Nat /\ c.off \in Nat
  BY ChunkFields
<1>2. PICK b \in Seq(Nat) : b = Bytes(c, k) /\ Len(b) = k
        /\ \A i \in 1 .. k : b[i] = c.base + c.off + i
  <2> DEFINE d == [i \in 1 .. k |-> c.base + c.off + i]
  <2>1. \A i \in 1 .. k : c.base + c.off + i \in Nat
    BY <1>1
  <2>2. d \in Seq(Nat) /\ Len(d) = k /\ \A i \in 1 .. k : d[i] = c.base + c.off + i
    BY <2>1
  <2>3. d = Bytes(c, k)
    BY DEF Bytes
  <2> HIDE DEF d
  <2> QED BY <2>2, <2>3
<1>3. PICK s \in Seq(Nat) : s = wire /\ \A i \in 1 .. Len(s) : s[i] = i
  BY DEF WireAscends
<1>s. Len(s) = c.base + c.off /\ \A i \in 1 .. Len(b) : b[i] = Len(s) + i
  BY <1>1, <1>2, <1>3
<1>4. /\ s \o b \in Seq(Nat) /\ Len(s \o b) = Len(s) + Len(b)
      /\ s \o b = [i \in 1 .. Len(s \o b) |-> i]
  BY <1>3, <1>s, CountOn
<1>5. wire' = s \o b
  BY <1>2, <1>3
<1> QED BY <1>2, <1>3, <1>4, <1>5 DEF WireAscends

\* The wire invariant without its excuse.
WireOK ==
  /\ wire \in Seq(Nat) /\ WireAscends /\ Len(wire) <= written
  /\ used /\ ~(dead /\ pump \in {"tail", "over"}) => Len(wire) = written - ototal + Ahead
  /\ shutDone => wrShut /\ Len(wire) = written

\* Every step keeps the wire invariant.
LEMMA WireStep == OutIInv /\ [OutNext]_outVars => WireInv'
<1> SUFFICES ASSUME OutIInv, [OutNext]_outVars, excuse' = {} PROVE WireOK'
  BY DEF WireInv, WireOK
<1> USE DEF stream, senders, pumping, exiting, Draining
<1>a. excuse = {} /\ "both" \notin excuse /\ OutTypes /\ QueueInv /\ WireInv
  BY ExcuseGrows DEF OutIInv
<1>b. PumpHolds /\ ExitHolds /\ Freed /\ WireOK
  BY <1>a DEF QueueInv, WireInv, WireOK
<1>c. /\ ototal \in Nat /\ written \in Nat /\ ototal = PendingOf(out, written)
      /\ out = <<>> => ototal = 0
      /\ out # <<>> => /\ Rest(Head(out)) \in Nat \ {0} /\ Rest(Head(out)) <= ototal
                      /\ Head(out) \in Chunk
  BY <1>a, TotalNat
<1>d. Len(wire) \in Nat
  BY <1>b DEF WireOK
<1>e. UNCHANGED wire => (WireAscends' <=> WireAscends)
  BY DEF WireAscends
<1>f. out # <<>> => ototal = written - (Head(out).base + Head(out).off)
        /\ Head(out).base + Head(out).off \in Nat
  BY <1>c, ChunkFields DEF PendingOf
<1>1. ASSUME NEW t \in Threads, SendRefused(t) PROVE WireOK'
  BY <1>a, <1>b, <1>c, <1>d, <1>e, <1>1
       DEF WireOK, OutTypes, PumpHolds, ExitHolds, Freed, Ahead, SendRefused
<1>2. ASSUME NEW t \in Threads, SendQueued(t) PROVE WireOK'
  <2> DEFINE k == Accepted(left[t])
  <2>1. /\ ~dead /\ ~wrShut /\ k > 0 /\ ototal' = ototal + k /\ written' = written + k
        /\ out' = Append(out, [base |-> written, n |-> k, off |-> 0])
        /\ UNCHANGED <<wire, used, dead, pump, pgot, exit, echunk, esent, shutDone, wrShut>>
    BY <1>2 DEF SendQueued
  <2>2. k \in Int
    <3>1. left[t] \in Nat
      BY <1>a DEF OutIInv, CallTypes
    <3> QED BY <1>c, <3>1, AcceptedFacts
  <2> HIDE DEF k
  <2>3. pump # "fpop"
    BY <1>b, <2>1 DEF PumpHolds
  <2>4. Ahead' = Ahead
    BY <2>1, <2>3 DEF Ahead
  <2>5. Ahead \in Int
    BY <1>b, <1>c, <2>3 DEF Ahead, PumpHolds, ExitHolds
  <2> QED BY <1>b, <1>c, <1>d, <1>e, <2>1, <2>2, <2>4, <2>5 DEF WireOK
<1>3. ASSUME NEW t \in Threads, SendFull(t) PROVE WireOK'
  BY <1>a, <1>b, <1>c, <1>d, <1>e, <1>3
       DEF WireOK, OutTypes, PumpHolds, ExitHolds, Freed, Ahead, SendFull
<1>4. ASSUME NEW t \in Threads, SendAwake(t) PROVE WireOK'
  BY <1>a, <1>b, <1>c, <1>d, <1>e, <1>4
       DEF WireOK, OutTypes, PumpHolds, ExitHolds, Freed, Ahead, SendAwake
<1>5. ASSUME NEW t \in Threads, NEW n \in 1 .. NAsk, NEW point \in {"try", "poll"},
             Send(t, n, point)
      PROVE  WireOK'
  BY <1>a, <1>b, <1>c, <1>d, <1>e, <1>5
       DEF WireOK, OutTypes, PumpHolds, ExitHolds, Freed, Ahead, Send
<1>6. CASE Shutdown
  BY <1>a, <1>b, <1>c, <1>d, <1>e, <1>6
       DEF WireOK, OutTypes, PumpHolds, ExitHolds, Freed, Ahead, Shutdown
<1>7. CASE OnClose
  BY <1>a, <1>b, <1>c, <1>d, <1>e, <1>7
       DEF WireOK, OutTypes, PumpHolds, ExitHolds, Freed, Ahead, OnClose
<1>8. CASE PumpHead
  <2>1. /\ pump = "top" /\ pump' \in {"flush", "take", "top"} /\ (pump' = "take" => ototal > 0)
        /\ shutDone' = (shutDone \/ ShutNow)
        /\ UNCHANGED <<out, wire, ototal, written, used, dead, exit, esent, echunk, pgot,
             wrShut>>
    BY <1>8 DEF PumpHead
  <2>2. Ahead' = Ahead
    BY <2>1 DEF Ahead
  <2>3. ShutNow => wrShut /\ Len(wire) = written
    <3> SUFFICES ASSUME ShutNow PROVE wrShut /\ Len(wire) = written
      OBVIOUS
    <3>1. wrShut /\ used /\ ototal = 0 /\ out = <<>>
      BY <1>c DEF ShutNow
    <3>2. exit # "pop"
      BY <1>b, <3>1 DEF ExitHolds
    <3> QED BY <1>b, <1>c, <2>1, <3>1, <3>2 DEF WireOK, Ahead
  <2> QED BY <1>b, <1>e, <2>1, <2>2, <2>3 DEF WireOK
<1>9. CASE PumpBreak
  BY <1>a, <1>b, <1>c, <1>d, <1>e, <1>9
       DEF WireOK, OutTypes, PumpHolds, ExitHolds, Freed, Ahead, PumpBreak
<1>10. CASE PumpTake
  BY <1>a, <1>b, <1>c, <1>d, <1>e, <1>10
       DEF WireOK, OutTypes, PumpHolds, ExitHolds, Freed, Ahead, PumpTake
<1>11. CASE PumpNone
  BY <1>a, <1>b, <1>c, <1>d, <1>e, <1>11
       DEF WireOK, OutTypes, PumpHolds, ExitHolds, Freed, Ahead, PumpNone
<1>12. ASSUME NEW k \in 1 .. MaxOut, PumpSend(k) PROVE WireOK'
  <2>1. /\ pump = "send" /\ k \in 1 .. Rest(pchunk) /\ wire' = wire \o Bytes(pchunk, k)
        /\ pgot' = k /\ pump' = "sent"
        /\ UNCHANGED <<out, ototal, written, used, dead, exit, esent, echunk, shutDone, wrShut>>
    BY <1>12 DEF PumpSend
  <2>2. out # <<>> /\ pchunk = Head(out) /\ exit \notin {"send", "pop"} /\ used
    BY <1>b, <2>1 DEF PumpHolds, ExitHolds, Freed
  <2>3. Len(wire) = written - ototal
    BY <1>b, <1>c, <2>1, <2>2 DEF WireOK, Ahead
  <2>4. /\ wire' \in Seq(Nat) /\ WireAscends' /\ Len(wire') = Len(wire) + k
    <3>1. Head(out) \in Chunk /\ Len(wire) = Head(out).base + Head(out).off
      BY <1>c, <1>f, <2>2, <2>3
    <3>2. k \in Nat /\ wire' = wire \o Bytes(Head(out), k)
      BY <1>c, <2>1, <2>2
    <3> QED BY <1>b, <3>1, <3>2, WireGrows DEF WireOK
  <2>5. k \in Nat \ {0} /\ k <= ototal
    BY <1>c, <2>1, <2>2
  <2>6. ~shutDone
    BY <1>b, <1>c, <2>3, <2>5 DEF WireOK
  <2>7. Ahead' = k
    BY <2>1 DEF Ahead
  <2> QED BY <1>c, <1>d, <2>1, <2>3, <2>4, <2>5, <2>6, <2>7 DEF WireOK
<1>13. CASE PumpAgain
  BY <1>a, <1>b, <1>c, <1>d, <1>e, <1>13
       DEF WireOK, OutTypes, PumpHolds, ExitHolds, Freed, Ahead, PumpAgain
<1>14. CASE PumpSent
  <2>1. /\ pump = "sent" /\ pump' = "take" /\ ototal' = ototal - pgot
        /\ UNCHANGED <<wire, written, used, dead, exit, esent, echunk, shutDone, wrShut>>
    BY <1>14 DEF PumpSent
  <2>2. /\ out # <<>> /\ pchunk = Head(out) /\ pgot \in 1 .. Rest(Head(out)) /\ used
        /\ exit \notin {"send", "pop"}
    BY <1>b, <2>1 DEF PumpHolds, ExitHolds, Freed
  <2>3. Len(wire) = written - ototal + pgot
    BY <1>b, <2>1, <2>2 DEF WireOK, Ahead
  <2>4. Ahead' = 0
    BY <2>1, <2>2 DEF Ahead
  <2> QED BY <1>b, <1>c, <1>d, <1>e, <2>1, <2>2, <2>3, <2>4 DEF WireOK
<1>15. CASE FlushTake
  BY <1>a, <1>b, <1>c, <1>d, <1>e, <1>15
       DEF WireOK, OutTypes, PumpHolds, ExitHolds, Freed, Ahead, FlushTake
<1>16. CASE FlushNone
  BY <1>a, <1>b, <1>c, <1>d, <1>e, <1>16
       DEF WireOK, OutTypes, PumpHolds, ExitHolds, Freed, Ahead, FlushNone
<1>17. ASSUME NEW k \in 0 .. MaxOut, FlushSend(k) PROVE WireOK'
  <2>1. /\ pump = "fsend" /\ k \in 0 .. Rest(pchunk) /\ wire' = wire \o Bytes(pchunk, k)
        /\ pump' = (IF k = Rest(pchunk) THEN "fpop" ELSE "tail")
        /\ UNCHANGED <<out, ototal, written, used, dead, exit, esent, echunk, shutDone, wrShut>>
    BY <1>17 DEF FlushSend
  <2>2. out # <<>> /\ pchunk = Head(out) /\ dead /\ exit \notin {"pick", "send", "pop"} /\ used
    BY <1>b, <2>1 DEF PumpHolds, ExitHolds, Freed
  <2>3. Len(wire) = written - ototal
    BY <1>b, <1>c, <2>1, <2>2 DEF WireOK, Ahead
  <2>4. /\ wire' \in Seq(Nat) /\ WireAscends' /\ Len(wire') = Len(wire) + k
    <3>1. Head(out) \in Chunk /\ Len(wire) = Head(out).base + Head(out).off
      BY <1>c, <1>f, <2>2, <2>3
    <3>2. k \in Nat /\ wire' = wire \o Bytes(Head(out), k)
      BY <1>c, <2>1, <2>2
    <3> QED BY <1>b, <3>1, <3>2, WireGrows DEF WireOK
  <2>5. k \in Nat /\ k <= ototal /\ ototal # 0
    BY <1>c, <2>1, <2>2
  <2>6. ~shutDone
    BY <1>b, <1>c, <2>3, <2>5 DEF WireOK
  <2>7. wire' \in Seq(Nat) /\ WireAscends' /\ Len(wire') <= written'
    BY <1>c, <2>1, <2>3, <2>4, <2>5
  <2>8. pump' = "fpop" => Len(wire') = written' - ototal' + Ahead'
    <3>1. ASSUME pump' = "fpop" PROVE Ahead' = k
      <4>1. k = Rest(pchunk) /\ out' = out
        BY <2>1, <3>1
      <4> QED BY <2>2, <3>1, <4>1 DEF Ahead, Rest
    <3> QED BY <1>c, <2>1, <2>3, <2>4, <2>5, <3>1
  <2>9. pump' \in {"fpop", "tail"} /\ dead' /\ ~shutDone'
    BY <2>1, <2>2, <2>6
  <2> QED BY <2>7, <2>8, <2>9 DEF WireOK
<1>18. CASE FlushPop
  <2>1. pump = "fpop" /\ out # <<>> /\ used /\ dead /\ exit \notin {"pick", "send", "pop"}
    BY <1>b, <1>18 DEF FlushPop, PumpHolds, ExitHolds, Freed
  <2>2. /\ pump' = "flush" /\ ototal' = ototal - Rest(Head(out))
        /\ UNCHANGED <<wire, written, used, dead, exit, shutDone, wrShut>>
    BY <1>18, <2>1 DEF FlushPop
  <2>3. Len(wire) = written - ototal + Rest(Head(out))
    BY <1>b, <2>1 DEF WireOK, Ahead
  <2>4. Ahead' = 0
    BY <2>1, <2>2 DEF Ahead
  <2> QED BY <1>b, <1>c, <1>d, <1>e, <2>1, <2>2, <2>3, <2>4 DEF WireOK
<1>19. CASE PumpRetire
  <2>1. /\ pump = "tail" /\ pump' = "over"
        /\ UNCHANGED <<wire, written, dead, exit, esent, echunk, shutDone, wrShut>>
        /\ used' = FALSE \/ UNCHANGED <<used, out, ototal>>
    BY <1>19 DEF PumpRetire
  <2>2. Ahead' = Ahead
    BY <2>1 DEF Ahead
  <2> QED BY <1>b, <1>e, <2>1, <2>2 DEF WireOK
<1>20. CASE Exit
  BY <1>a, <1>b, <1>c, <1>d, <1>e, <1>20
       DEF WireOK, OutTypes, PumpHolds, ExitHolds, Freed, Ahead, Exit
<1>21. CASE ExitClaim
  BY <1>a, <1>b, <1>c, <1>d, <1>e, <1>21
       DEF WireOK, OutTypes, PumpHolds, ExitHolds, Freed, Ahead, ExitClaim
<1>22. CASE ExitSkip
  BY <1>a, <1>b, <1>c, <1>d, <1>e, <1>22
       DEF WireOK, OutTypes, PumpHolds, ExitHolds, Freed, Ahead, ExitSkip
<1>23. CASE ExitTake
  BY <1>a, <1>b, <1>c, <1>d, <1>e, <1>23
       DEF WireOK, OutTypes, PumpHolds, ExitHolds, Freed, Ahead, ExitTake
<1>24. CASE ExitNone
  BY <1>a, <1>b, <1>c, <1>d, <1>e, <1>24
       DEF WireOK, OutTypes, PumpHolds, ExitHolds, Freed, Ahead, ExitNone
<1>25. CASE ExitGive
  BY <1>a, <1>b, <1>c, <1>d, <1>e, <1>25
       DEF WireOK, OutTypes, PumpHolds, ExitHolds, Freed, Ahead, ExitGive
<1>26. ASSUME NEW k \in 0 .. MaxOut, ExitSend(k) PROVE WireOK'
  <2>1. /\ exit = "send" /\ exit' = "pop" /\ k \in 0 .. Rest(echunk)
             /\ wire' = wire \o Bytes(echunk, k)
        /\ esent' = (k = Rest(echunk)) /\ ~(0 < k /\ k < Rest(echunk))
        /\ UNCHANGED <<out, ototal, written, used, dead, pump, pgot, echunk, shutDone, wrShut>>
    BY <1>a, <1>26 DEF ExitSend
  <2>2. /\ out # <<>> /\ echunk = Head(out) /\ ~dead /\ used
        /\ pump \notin {"send", "sent", "flush", "fsend", "fpop"}
    BY <1>b, <2>1 DEF PumpHolds, ExitHolds
  <2>3. Len(wire) = written - ototal
    BY <1>b, <1>c, <2>1, <2>2 DEF WireOK, Ahead
  <2>4. /\ wire' \in Seq(Nat) /\ WireAscends' /\ Len(wire') = Len(wire) + k
    <3>1. Head(out) \in Chunk /\ Len(wire) = Head(out).base + Head(out).off
      BY <1>c, <1>f, <2>2, <2>3
    <3>2. k \in Nat /\ wire' = wire \o Bytes(Head(out), k)
      BY <1>c, <2>1, <2>2
    <3> QED BY <1>b, <3>1, <3>2, WireGrows DEF WireOK
  <2>5. k \in Nat /\ k <= ototal /\ ototal # 0
    BY <1>c, <2>1, <2>2
  <2>6. ~shutDone
    BY <1>b, <1>c, <2>3, <2>5 DEF WireOK
  <2>7. Ahead' = k
    <3>1. pump' \notin {"sent", "fpop"} /\ exit' = "pop" /\ echunk' = echunk
      BY <2>1, <2>2
    <3>2. k = Rest(echunk) \/ k = 0
      BY <1>c, <2>1, <2>2
    <3>3. CASE k = Rest(echunk)
      BY <2>1, <3>1, <3>3 DEF Ahead, Rest
    <3>4. CASE k = 0 /\ k # Rest(echunk)
      BY <2>1, <3>1, <3>4 DEF Ahead
    <3> QED BY <3>2, <3>3, <3>4
  <2> QED BY <1>c, <1>d, <2>1, <2>2, <2>3, <2>4, <2>5, <2>6, <2>7 DEF WireOK
<1>27. CASE ExitPop
  <2>1. /\ exit = "pop" /\ exit' \in {"pick", "give"}
        /\ UNCHANGED <<wire, written, used, dead, pump, pgot, shutDone, wrShut>>
    BY <1>27 DEF ExitPop
  <2>2. /\ used /\ ~dead /\ out # <<>> /\ echunk = Head(out)
        /\ pump \notin {"send", "sent", "flush", "fsend", "fpop"}
    BY <1>b, <2>1 DEF PumpHolds, ExitHolds
  <2>3. Ahead' = 0
    BY <2>1, <2>2 DEF Ahead
  <2>4. ototal' = ototal - Ahead
    <3>1. CASE esent
      <4>1. ototal' = ototal - Rest(Head(out))
        BY <1>27, <2>2, <3>1 DEF ExitPop, Rest
      <4> QED BY <2>1, <2>2, <3>1, <4>1 DEF Ahead
    <3>2. CASE ~esent
      <4>1. ototal' = ototal
        BY <1>27, <3>2 DEF ExitPop
      <4> QED BY <1>c, <2>1, <2>2, <3>2, <4>1 DEF Ahead
    <3> QED BY <3>1, <3>2
  <2>5. Ahead \in Int
    <3>1. Ahead = IF esent THEN Rest(Head(out)) ELSE 0
      BY <2>1, <2>2 DEF Ahead
    <3> QED BY <1>c, <2>2, <3>1
  <2> QED BY <1>b, <1>c, <1>d, <1>e, <2>1, <2>2, <2>3, <2>4, <2>5 DEF WireOK
<1>28. CASE Gone
  BY <1>a, <1>b, <1>c, <1>d, <1>e, <1>28
       DEF WireOK, OutTypes, PumpHolds, ExitHolds, Freed, Ahead, Gone
<1>29. CASE UNCHANGED outVars
  BY <1>a, <1>b, <1>c, <1>d, <1>e, <1>29
       DEF WireOK, OutTypes, PumpHolds, ExitHolds, Freed, Ahead, outVars
<1> QED BY <1>1, <1>2, <1>3, <1>4, <1>5, <1>6, <1>7, <1>8, <1>9, <1>10, <1>11, <1>12,
       <1>13, <1>14, <1>15, <1>16, <1>17, <1>18, <1>19, <1>20, <1>21, <1>22, <1>23, <1>24,
       <1>25, <1>26, <1>27, <1>28, <1>29
       DEF OutNext, Sender, PumpStep, ExitStep, Exited

\* No excuse before the exit drain has begun.
LEMMA ExcuseLater ==
  (exit \in {"none", "claim"} => excuse = {}) /\ [OutNext]_outVars
    => (exit' \in {"none", "claim"} => exit \in {"none", "claim"} /\ excuse' = {})
<1> DEFINE P == exit \in {"none", "claim"} => excuse = {}
           Q == exit' \in {"none", "claim"} => exit \in {"none", "claim"} /\ excuse' = {}
<1> SUFFICES ASSUME P, [OutNext]_outVars PROVE Q
  OBVIOUS
<1> USE DEF exiting
<1>1. ASSUME NEW t \in Threads, SendRefused(t) PROVE Q
  BY <1>1 DEF SendRefused
<1>2. ASSUME NEW t \in Threads, SendQueued(t) PROVE Q
  BY <1>2 DEF SendQueued
<1>3. ASSUME NEW t \in Threads, SendFull(t) PROVE Q
  BY <1>3 DEF SendFull
<1>4. ASSUME NEW t \in Threads, SendAwake(t) PROVE Q
  BY <1>4 DEF SendAwake
<1>5. ASSUME NEW t \in Threads, NEW n \in 1 .. NAsk, NEW point \in {"try", "poll"},
             Send(t, n, point)
      PROVE  Q
  BY <1>5 DEF Send
<1>6. CASE Shutdown
  BY <1>6 DEF Shutdown
<1>7. CASE OnClose
  BY <1>7 DEF OnClose, Draining
<1>8. CASE PumpHead
  BY <1>8 DEF PumpHead
<1>9. CASE PumpBreak
  BY <1>9 DEF PumpBreak
<1>10. CASE PumpTake
  BY <1>10 DEF PumpTake
<1>11. CASE PumpNone
  BY <1>11 DEF PumpNone
<1>12. ASSUME NEW k \in 1 .. MaxOut, PumpSend(k) PROVE Q
  BY <1>12 DEF PumpSend
<1>13. CASE PumpAgain
  BY <1>13 DEF PumpAgain
<1>14. CASE PumpSent
  BY <1>14 DEF PumpSent
<1>15. CASE FlushTake
  BY <1>15 DEF FlushTake
<1>16. CASE FlushNone
  BY <1>16 DEF FlushNone
<1>17. ASSUME NEW k \in 0 .. MaxOut, FlushSend(k) PROVE Q
  BY <1>17 DEF FlushSend
<1>18. CASE FlushPop
  BY <1>18 DEF FlushPop
<1>19. CASE PumpRetire
  BY <1>19 DEF PumpRetire, Draining
<1>20. CASE Exit
  BY <1>20 DEF Exit
<1>21. CASE ExitClaim
  BY <1>21 DEF ExitClaim
<1>22. CASE ExitSkip
  BY <1>22 DEF ExitSkip
<1>23. CASE ExitTake
  BY <1>23 DEF ExitTake
<1>24. CASE ExitNone
  BY <1>24 DEF ExitNone
<1>25. CASE ExitGive
  BY <1>25 DEF ExitGive
<1>26. ASSUME NEW k \in 0 .. MaxOut, ExitSend(k) PROVE Q
  BY <1>26 DEF ExitSend
<1>27. CASE ExitPop
  BY <1>27 DEF ExitPop
<1>28. CASE Gone
  BY <1>28 DEF Gone
<1>29. CASE UNCHANGED outVars
  BY <1>29 DEF outVars
<1> QED BY <1>1, <1>2, <1>3, <1>4, <1>5, <1>6, <1>7, <1>8, <1>9, <1>10, <1>11, <1>12,
       <1>13, <1>14, <1>15, <1>16, <1>17, <1>18, <1>19, <1>20, <1>21, <1>22, <1>23, <1>24,
       <1>25, <1>26, <1>27, <1>28, <1>29
       DEF OutNext, Sender, PumpStep, ExitStep, Exited

\* What does not fit will not fit a fuller queue.
LEMMA AcceptedShrinks ==
  ASSUME NEW len \in Nat, ototal \in Nat, ototal' \in Nat, ototal <= ototal', Accepted(len) = 0
  PROVE  Accepted(len)' = 0
<1>1. MaxOut \in Nat \ {0}
  BY OutAssumption
<1>2. CASE ototal + len <= MaxOut
  <2>1. len = 0
    BY <1>2 DEF Accepted
  <2> QED BY <1>1, <2>1 DEF Accepted
<1>3. CASE ~(ototal + len <= MaxOut)
  <2>0. ototal + len > MaxOut
    BY <1>1, <1>3
  <2>1. ~(ototal' + len <= MaxOut)
    <3>1. PICK a \in Nat, b \in Nat, m \in Nat : a = ototal /\ b = ototal' /\ m = MaxOut
      BY <1>1
    <3>2. a + len > m /\ a <= b
      BY <2>0, <3>1
    <3>3. ~(b + len <= m)
      BY <3>2
    <3> QED BY <3>1, <3>3
  <2>2. len <= MaxOut \/ ototal >= MaxOut
    BY <1>1, <1>3 DEF Accepted
  <2>3. len <= MaxOut \/ ototal' >= MaxOut
    BY <1>1, <2>2
  <2> QED BY <2>1, <2>3 DEF Accepted
<1> QED BY <1>2, <1>3

\* Every step leaves a sleeper poked, or with a reason to sleep.
LEMMA AsleepStep ==
  ASSUME OutIInv, [OutNext]_outVars, NEW u \in Threads
  PROVE  Asleep(u)'
<1> DEFINE Goal ==
      /\ armed'[u]
      /\ ~poked'[u] /\ ~dead' /\ open' /\ exit' \in {"none", "claim"} =>
           wrFull' /\ (ototal' <= WRoom => Accepted(left[u])' = 0)
<1> SUFFICES ASSUME call'[u] = "asleep" PROVE Goal
  BY DEF Asleep
<1> USE DEF stream, senders, pumping, exiting
<1>a. Asleep(u) /\ CallTypes
  BY DEF OutIInv, SleepInv
<1>b. exit' \in {"none", "claim"} => exit \in {"none", "claim"} /\ excuse = {}
  BY ExcuseLater DEF OutIInv, SleepInv
<1>c. excuse = {} => /\ PumpHolds /\ ototal \in Nat /\ left[u] \in Nat
  BY <1>a, TotalNat DEF OutIInv, CallTypes, QueueInv
<1>d. ASSUME call[u] = "asleep", UNCHANGED <<ototal, wrFull, dead, open>>, left'[u] = left[u],
             armed'[u] = armed[u], poked'[u] = poked[u]
      PROVE  Goal
  BY <1>a, <1>b, <1>d DEF Asleep, Accepted
<1>1. ASSUME NEW t \in Threads, SendRefused(t) PROVE Goal
  <2> HIDE DEF Goal
  <2> QED BY <1>a, <1>d, <1>1 DEF CallTypes, SendRefused, Returns
<1>2. ASSUME NEW t \in Threads, SendQueued(t) PROVE Goal
  <2> DEFINE k == Accepted(left[t])
  <2>1. /\ k > 0 /\ ototal' = ototal + k /\ wrFull' = (wrFull \/ ototal + left[t] > MaxOut)
        /\ UNCHANGED <<dead, open, exit, excuse>>
        /\ call[t] \in {"try", "poll"}
    BY <1>2 DEF SendQueued
  <2>2. Returns(t) \/ (left' = [left EXCEPT ![t] = @ - k] /\ UNCHANGED <<call, armed, poked>>)
    BY <1>2 DEF SendQueued
  <2>3. u # t /\ call[u] = "asleep" /\ armed'[u] = armed[u] /\ poked'[u] = poked[u]
          /\ left'[u] = left[u]
    BY <1>a, <2>1, <2>2 DEF CallTypes, Returns
  <2>4. ASSUME ~poked'[u], ~dead', open', exit' \in {"none", "claim"}
        PROVE  wrFull' /\ (ototal' <= WRoom => Accepted(left[u])' = 0)
    <3>1. wrFull /\ (ototal <= WRoom => Accepted(left[u]) = 0)
      BY <1>a, <1>b, <2>1, <2>3, <2>4 DEF Asleep
    <3>2. excuse = {} /\ ototal \in Nat
      BY <1>b, <1>c, <2>4
    <3>3. PICK l \in Nat : l = left[u]
      BY <1>c, <3>2
    <3>4. k \in Int
      <4>1. left[t] \in Nat
        BY <1>a, <3>2 DEF CallTypes
      <4> QED BY <3>2, <4>1, AcceptedFacts
    <3> HIDE DEF k
    <3>5. ototal' \in Nat /\ ototal <= ototal'
      BY <2>1, <3>2, <3>4
    <3>6. ASSUME ototal' <= WRoom PROVE Accepted(l)' = 0
      <4>1. WRoom \in Int
        BY OutAssumption DEF WRoom
      <4>2. ototal <= WRoom
        BY <3>2, <3>5, <3>6, <4>1
      <4>3. Accepted(l) = 0
        BY <3>1, <3>3, <4>2
      <4> QED BY <3>2, <3>5, <4>3, AcceptedShrinks
    <3>7. Accepted(left[u])' = Accepted(l)'
      BY <2>3, <3>3
    <3> QED BY <2>1, <3>1, <3>6, <3>7
  <2> QED BY <1>a, <2>3, <2>4 DEF Asleep
<1>3. ASSUME NEW t \in Threads, SendFull(t) PROVE Goal
  <2>1. /\ wrFull' = TRUE /\ Accepted(left[t]) = 0 /\ call[t] \in {"try", "poll"}
        /\ UNCHANGED <<ototal, dead, open, exit>>
    BY <1>3 DEF SendFull
  <2>2. CASE call[t] = "poll" /\ Returns(t)
    <3>1. u # t /\ call[u] = "asleep" /\ armed'[u] = armed[u] /\ poked'[u] = poked[u]
            /\ left'[u] = left[u]
      BY <1>a, <2>2 DEF CallTypes, Returns
    <3> QED BY <1>a, <2>1, <3>1 DEF Asleep, Accepted
  <2>3. CASE armed' = [armed EXCEPT ![t] = TRUE] /\ poked' = [poked EXCEPT ![t] = FALSE]
               /\ UNCHANGED <<call, left>>
    <3>1. u # t /\ call[u] = "asleep" /\ armed'[u] = armed[u] /\ poked'[u] = poked[u]
            /\ left'[u] = left[u]
      BY <1>a, <2>1, <2>3 DEF CallTypes
    <3> QED BY <1>a, <2>1, <3>1 DEF Asleep, Accepted
  <2>4. CASE armed[t] /\ call' = [call EXCEPT ![t] = "asleep"]
               /\ UNCHANGED <<left, armed, poked>>
    <3>1. CASE u = t
      BY <2>1, <2>4, <3>1 DEF Accepted
    <3>2. CASE u # t
      <4>1. call[u] = "asleep" /\ armed'[u] = armed[u] /\ poked'[u] = poked[u]
              /\ left'[u] = left[u]
        BY <1>a, <2>4, <3>2 DEF CallTypes
      <4> QED BY <1>a, <2>1, <4>1 DEF Asleep, Accepted
    <3> QED BY <3>1, <3>2
  <2> QED BY <1>3, <2>2, <2>3, <2>4 DEF SendFull
<1>4. ASSUME NEW t \in Threads, SendAwake(t) PROVE Goal
  <2> HIDE DEF Goal
  <2> QED BY <1>a, <1>d, <1>4 DEF CallTypes, SendAwake
<1>5. ASSUME NEW t \in Threads, NEW n \in 1 .. NAsk, NEW point \in {"try", "poll"},
             Send(t, n, point)
      PROVE  Goal
  <2> HIDE DEF Goal
  <2> QED BY <1>a, <1>d, <1>5 DEF CallTypes, Send
<1>6. CASE Shutdown
  <2> HIDE DEF Goal
  <2> QED BY <1>a, <1>d, <1>6 DEF CallTypes, Shutdown
<1>7. CASE OnClose
  BY <1>a, <1>7 DEF Asleep, OnClose
<1>8. CASE PumpHead
  <2> HIDE DEF Goal
  <2> QED BY <1>a, <1>d, <1>8 DEF CallTypes, PumpHead
<1>9. CASE PumpBreak
  <2>1. CASE open' = FALSE
    BY <1>a, <1>9, <2>1 DEF Asleep, PumpBreak
  <2>2. CASE UNCHANGED <<open, poked>>
    <3> HIDE DEF Goal
    <3> QED BY <1>d, <1>9, <2>2 DEF PumpBreak
  <2> QED BY <1>9, <2>1, <2>2 DEF PumpBreak
<1>10. CASE PumpTake
  <2> HIDE DEF Goal
  <2> QED BY <1>a, <1>d, <1>10 DEF CallTypes, PumpTake
<1>11. CASE PumpNone
  <2> HIDE DEF Goal
  <2> QED BY <1>a, <1>d, <1>11 DEF CallTypes, PumpNone
<1>12. ASSUME NEW k \in 1 .. MaxOut, PumpSend(k) PROVE Goal
  <2> HIDE DEF Goal
  <2> QED BY <1>a, <1>d, <1>12 DEF CallTypes, PumpSend
<1>13. CASE PumpAgain
  <2> HIDE DEF Goal
  <2> QED BY <1>a, <1>d, <1>13 DEF CallTypes, PumpAgain
<1>14. CASE PumpSent
  <2>1. /\ UNCHANGED <<call, left, armed, dead, open, exit>> /\ ototal' = ototal - pgot
        /\ \/ wrFull /\ ototal' <= WRoom /\ (dead \/ Signal)
           \/ ~(wrFull /\ ototal' <= WRoom) /\ UNCHANGED <<wrFull, poked>>
    BY <1>14 DEF PumpSent
  <2>2. armed'[u] /\ call[u] = "asleep"
    BY <1>a, <2>1 DEF Asleep
  <2>3. CASE wrFull /\ ototal' <= WRoom /\ (dead \/ Signal)
    <3>1. CASE dead
      BY <2>1, <2>2, <3>1
    <3>2. CASE Signal
      BY <2>1, <2>2, <3>2 DEF Signal
    <3> QED BY <2>3, <3>1, <3>2
  <2>4. CASE ~(wrFull /\ ototal' <= WRoom) /\ UNCHANGED <<wrFull, poked>>
    BY <1>a, <2>1, <2>2, <2>4 DEF Asleep
  <2> QED BY <2>1, <2>3, <2>4
<1>15. CASE FlushTake
  <2> HIDE DEF Goal
  <2> QED BY <1>a, <1>d, <1>15 DEF CallTypes, FlushTake
<1>16. CASE FlushNone
  <2> HIDE DEF Goal
  <2> QED BY <1>a, <1>d, <1>16 DEF CallTypes, FlushNone
<1>17. ASSUME NEW k \in 0 .. MaxOut, FlushSend(k) PROVE Goal
  <2> HIDE DEF Goal
  <2> QED BY <1>a, <1>d, <1>17 DEF CallTypes, FlushSend
<1>18. CASE FlushPop
  <2>1. pump = "fpop" /\ UNCHANGED <<call, armed, dead>>
    BY <1>18 DEF FlushPop
  <2>2. exit' \in {"none", "claim"} => dead
    BY <1>b, <1>c, <2>1 DEF PumpHolds
  <2> QED BY <1>a, <2>1, <2>2 DEF Asleep
<1>19. CASE PumpRetire
  BY <1>a, <1>19 DEF Asleep, PumpRetire
<1>20. CASE Exit
  <2> HIDE DEF Goal
  <2> QED BY <1>a, <1>d, <1>20 DEF CallTypes, Exit
<1>21. CASE ExitClaim
  <2> HIDE DEF Goal
  <2> QED BY <1>a, <1>d, <1>21 DEF CallTypes, ExitClaim
<1>22. CASE ExitSkip
  <2> HIDE DEF Goal
  <2> QED BY <1>a, <1>d, <1>22 DEF CallTypes, ExitSkip
<1>23. CASE ExitTake
  <2> HIDE DEF Goal
  <2> QED BY <1>a, <1>d, <1>23 DEF CallTypes, ExitTake
<1>24. CASE ExitNone
  <2> HIDE DEF Goal
  <2> QED BY <1>a, <1>d, <1>24 DEF CallTypes, ExitNone
<1>25. CASE ExitGive
  <2> HIDE DEF Goal
  <2> QED BY <1>a, <1>d, <1>25 DEF CallTypes, ExitGive
<1>26. ASSUME NEW k \in 0 .. MaxOut, ExitSend(k) PROVE Goal
  <2> HIDE DEF Goal
  <2> QED BY <1>a, <1>d, <1>26 DEF CallTypes, ExitSend
<1>27. CASE ExitPop
  BY <1>a, <1>b, <1>27 DEF Asleep, ExitPop
<1>28. CASE Gone
  <2> HIDE DEF Goal
  <2> QED BY <1>a, <1>d, <1>28 DEF CallTypes, Gone
<1>29. CASE UNCHANGED outVars
  <2> HIDE DEF Goal
  <2> QED BY <1>d, <1>29 DEF outVars
<1> QED BY <1>1, <1>2, <1>3, <1>4, <1>5, <1>6, <1>7, <1>8, <1>9, <1>10, <1>11, <1>12,
       <1>13, <1>14, <1>15, <1>16, <1>17, <1>18, <1>19, <1>20, <1>21, <1>22, <1>23, <1>24,
       <1>25, <1>26, <1>27, <1>28, <1>29
       DEF OutNext, Sender, PumpStep, ExitStep, Exited

\* So it does for all senders.
LEMMA SleepStep == OutIInv /\ [OutNext]_outVars => SleepInv'
<1> SUFFICES ASSUME OutIInv, [OutNext]_outVars PROVE SleepInv'
  OBVIOUS
<1>1. exit' \in {"none", "claim"} => excuse' = {}
  BY ExcuseLater DEF OutIInv, SleepInv
<1>2. \A t \in Threads : Asleep(t)'
  BY AsleepStep
<1> QED BY <1>1, <1>2 DEF SleepInv

\* Every step keeps the invariant.
LEMMA OutStepIInv == OutIInv /\ [OutNext]_outVars => OutIInv'
BY OutTypesStep, CallTypesStep, QueueStep, WireStep, SleepStep DEF OutIInv

\* The invariant holds throughout.
LEMMA OutInvariance == OutSpec => []OutIInv
<1>1. OutInit => OutIInv
  BY OutInitIInv
<1>2. OutIInv /\ [OutNext]_outVars => OutIInv'
  BY OutStepIInv
<1> QED BY <1>1, <1>2, PTL DEF OutSpec

(* The flags, points and senders of a stream keep to the values the code   *)
(* gives them, whatever close(), shutdown() and exit() overlap.            *)
THEOREM OutTypeCorrect == OutSpec => [](OutTypes /\ CallTypes)
<1>1. OutIInv => OutTypes /\ CallTypes
  BY DEF OutIInv
<1> QED BY <1>1, OutInvariance, PTL

(* dt_stream_send, the pump and dt_flush_streams put the bytes on the      *)
(* relay connection in order, none twice and none left out, for any number *)
(* of sending threads and any queue size, until the exit drain tears a     *)
(* chunk or shares the queue of a closed stream.                           *)
THEOREM OutInOrder == OutSpec => []WireInOrder
<1>1. OutIInv => WireInOrder
  BY DEF OutIInv, WireInv, WireInOrder
<1> QED BY <1>1, OutInvariance, PTL

(* dt_stream.ototal counts the bytes in the queue, also while the exit     *)
(* drain takes over a chunk of which the pump has sent a part.             *)
THEOREM OutCounted == OutSpec => []QueueCounted
<1>1. OutIInv => QueueCounted
  BY DEF OutIInv, QueueInv, QueueCounted, Pending, PendingOf
<1> QED BY <1>1, OutInvariance, PTL

\* The pump sends STSHUT only behind the last byte that was queued.
THEOREM OutFinLast == OutSpec => []FinLast
<1>1. OutIInv => FinLast
  BY DEF OutIInv, WireInv, FinLast
<1> QED BY <1>1, OutInvariance, PTL

(* A sender that dt_stream_send put to sleep on a full queue is poked by   *)
(* the pump's step that reaches DT_ST_WROOM, if its bytes fit then.        *)
THEOREM OutSleeperPoked == OutSpec => []SleeperPoked
<1>1. OutIInv => SleeperPoked
  <2> SUFFICES ASSUME OutIInv, NEW t \in Threads, call[t] = "asleep", ~dead, open,
                      exit \in {"none", "claim"}, ototal <= WRoom, Accepted(left[t]) > 0
               PROVE  poked[t]
    BY DEF SleeperPoked
  <2>1. Asleep(t)
    BY DEF OutIInv, SleepInv
  <2>2. ~(Accepted(left[t]) = 0)
    OBVIOUS
  <2> QED BY <2>1, <2>2 DEF Asleep
<1> QED BY <1>1, OutInvariance, PTL
=============================================================================
