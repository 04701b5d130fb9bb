---------------------------- MODULE StreamSlots ----------------------------
(***************************************************************************)
(* The table g_st of tunnelled streams in the hook: the life of a slot     *)
(* from connect() to close() on the opener's side (hook/hk_route.c,        *)
(* hook/hk_udp.c, hook/hk_stream.c).  connect() allocates a slot and       *)
(* starts a thread for its stream id; the thread keeps a pointer to the    *)
(* slot while it dials the relay, waits for the verdict and pumps bytes;   *)
(* close() runs on the application's thread at any moment, after which the *)
(* descriptor number is free for the next socket().                        *)
(*                                                                         *)
(* A step is one critical section under DLOCK.  The bytes of a stream are  *)
(* left out: only who owns the slot, and until when, is modelled.          *)
(***************************************************************************)
EXTENDS Integers

CONSTANTS Fds,        \* descriptor numbers of the application
          Dials,      \* stream ids dt_next_sid may draw, one per connect()
          MaxStream,  \* slots of the table (DT_MAXSTREAM)
          None

ASSUME StreamAssumption == MaxStream \in Nat
ASSUME NoneAssumption == None \notin Fds \union Dials

VARIABLES used, gsock, sid, state, dead, fd_live, wr_shut,   \* g_st[slot]
          pc, at,     \* the thread of a stream id and the slot it points to
          desc, dial, \* the application's descriptors and what they dialled last
          call,       \* the descriptor of the connect() that draws a stream id
          raced       \* history: descriptors with overlapping calls

flags == <<dead, fd_live, wr_shut>>
slots == <<used, gsock, sid, state, dead, fd_live, wr_shut>>
app == <<desc, dial, call, raced>>
vars == <<used, gsock, sid, state, dead, fd_live, wr_shut, pc, at, desc, dial,
          call, raced>>

Slots == 1 .. MaxStream

Init ==
  /\ used = [s \in Slots |-> FALSE]
  /\ gsock = [s \in Slots |-> None]
  /\ sid = [s \in Slots |-> None]
  /\ state = [s \in Slots |-> "dead"]
  /\ dead = [s \in Slots |-> FALSE]
  /\ fd_live = [s \in Slots |-> FALSE]
  /\ wr_shut = [s \in Slots |-> FALSE]
  /\ pc = [d \in Dials |-> "unused"]
  /\ at = [d \in Dials |-> 0]
  /\ desc = [f \in Fds |-> "closed"]
  /\ dial = [f \in Fds |-> None]
  /\ call = [d \in Dials |-> None]
  /\ raced = {}

\* dt_stream_by_sock: the slots it may find; it takes the first.
BySock(f) == {s \in Slots : used[s] /\ gsock[s] = f}
Finds(f, s) == s \in BySock(f) /\ \A r \in BySock(f) : s <= r
First(S) == CHOOSE s \in S : \A r \in S : s <= r

\* The connect() calls between looking the descriptor up and taking a slot.
Pending(f) == {d \in Dials : pc[d] = "looked" /\ call[d] = f}

\* The slot a thread points to still holds the thread's stream.
Mine(d) == used[at[d]] /\ sid[at[d]] = d

-----------------------------------------------------------------------------
\* The application's calls.  socket() may return any closed number; one that
\* nothing is left under starts afresh.
Socket(f) ==
  /\ desc[f] = "closed"
  /\ desc' = [desc EXCEPT ![f] = "open"]
  /\ raced' = IF BySock(f) = {} /\ Pending(f) = {} THEN raced \ {f} ELSE raced
  /\ UNCHANGED <<slots, pc, at, dial, call>>

\* Mutant: the descriptor is not looked up first.
LookupUnchecked(f, d) ==
  /\ desc[f] = "open"
  /\ pc[d] = "unused"
  /\ pc' = [pc EXCEPT ![d] = "looked"]
  /\ call' = [call EXCEPT ![d] = f]
  /\ raced' = IF Pending(f) = {} THEN raced ELSE raced \union {f}
  /\ UNCHANGED <<slots, at, desc, dial>>

\* dt_on_connect looks the descriptor up and drops the lock.  (A descriptor
\* that has a stream is told EALREADY, which changes nothing.)
Lookup(f, d) ==
  /\ desc[f] = "open" /\ BySock(f) = {}
  /\ pc[d] = "unused"
  /\ pc' = [pc EXCEPT ![d] = "looked"]
  /\ call' = [call EXCEPT ![d] = f]
  /\ raced' = IF Pending(f) = {} THEN raced ELSE raced \union {f}
  /\ UNCHANGED <<slots, at, desc, dial>>

\* dt_stream_alloc finds no slot: the call is consumed, nothing will answer.
AllocFull(d) ==
  /\ pc[d] = "looked"
  /\ \A s \in Slots : used[s]
  /\ pc' = [pc EXCEPT ![d] = "over"]
  /\ UNCHANGED <<slots, at, app>>

\* dt_stream_alloc resets the first free slot, all but fd_live, and the
\* thread is spawned.  It does not look the descriptor up again.
Alloc(d) ==
  /\ pc[d] = "looked"
  /\ \E s \in Slots :
       /\ ~used[s] /\ \A r \in Slots : ~used[r] => s <= r
       /\ used' = [used EXCEPT ![s] = TRUE]
       /\ gsock' = [gsock EXCEPT ![s] = call[d]]
       /\ sid' = [sid EXCEPT ![s] = d]
       /\ state' = [state EXCEPT ![s] = "connecting"]
       /\ dead' = [dead EXCEPT ![s] = FALSE]
       /\ wr_shut' = [wr_shut EXCEPT ![s] = FALSE]
  /\ pc' = [pc EXCEPT ![d] = "start"]
  /\ dial' = [dial EXCEPT ![call[d]] = d]
  /\ UNCHANGED <<fd_live, at, desc, call, raced>>

\* shutdown(SHUT_WR) on a tunnelled stream.
Shutdown(f) ==
  /\ desc[f] = "open"
  /\ \E s \in Slots : Finds(f, s) /\ wr_shut' = [wr_shut EXCEPT ![s] = TRUE]
  /\ UNCHANGED <<used, gsock, sid, state, dead, fd_live, pc, at, app>>

\* The descriptor is closed, maybe under a connect() of another thread.
Closed(f) ==
  /\ desc[f] = "open"
  /\ desc' = [desc EXCEPT ![f] = "closed"]
  /\ dial' = [dial EXCEPT ![f] = None]
  /\ raced' = IF Pending(f) = {} THEN raced ELSE raced \union {f}

\* Mutant: the slot is freed whenever no verdict has come.
CloseFrees(f) ==
  /\ Closed(f)
  /\ \/ /\ BySock(f) = {}
        /\ UNCHANGED <<used, gsock, dead>>
     \/ \E s \in Slots :
          /\ Finds(f, s)
          /\ dead' = [dead EXCEPT ![s] = TRUE]
          /\ used' = [used EXCEPT ![s] = FALSE]
          /\ UNCHANGED gsock
  /\ UNCHANGED <<sid, state, fd_live, wr_shut, pc, at, call>>

(* dt_on_close, then the real close.  A thread that has sent its STOPEN    *)
(* owns the slot; the descriptor is detached only once a verdict is in.    *)
Close(f) ==
  /\ Closed(f)
  /\ \/ /\ BySock(f) = {}
        /\ UNCHANGED <<used, gsock, dead>>
     \/ \E s \in Slots :
          /\ Finds(f, s)
          /\ dead' = [dead EXCEPT ![s] = TRUE]
          /\ gsock' = [gsock EXCEPT ![s] = IF state[s] # "connecting" /\ fd_live[s]
                                           THEN None ELSE @]
          /\ used' = [used EXCEPT ![s] = ~(state[s] = "connecting" /\ ~fd_live[s])]
  /\ UNCHANGED <<sid, state, fd_live, wr_shut, pc, at, call>>

-----------------------------------------------------------------------------
\* dt_stream_thread(sid): it finds its slot, or the stream was closed first.
Start(d) ==
  /\ pc[d] = "start"
  /\ \/ \E s \in Slots :
          /\ used[s] /\ sid[s] = d /\ gsock[s] # None
          /\ at' = [at EXCEPT ![d] = s]
          /\ pc' = [pc EXCEPT ![d] = "dial"]
     \/ /\ \A s \in Slots : ~(used[s] /\ sid[s] = d /\ gsock[s] # None)
        /\ pc' = [pc EXCEPT ![d] = "over"]
        /\ UNCHANGED at
  /\ UNCHANGED <<slots, app>>

\* dt_st_fail_local(st): whichever stream the slot holds now.
FailLocal(s) ==
  state' = [state EXCEPT ![s] = IF used[s] THEN "dead" ELSE @]

\* The relay cannot be reached, or the STOPEN not sent.
DialFail(d) ==
  /\ pc[d] \in {"dial", "stopen"}
  /\ FailLocal(at[d])
  /\ pc' = [pc EXCEPT ![d] = "over"]
  /\ UNCHANGED <<used, gsock, sid, flags, at, app>>

\* The relay is connected; the thread gives up if the slot is closed.
DialDone(d) ==
  /\ pc[d] = "dial"
  /\ pc' = [pc EXCEPT ![d] = IF ~used[at[d]] \/ dead[at[d]] THEN "over" ELSE "stopen"]
  /\ UNCHANGED <<slots, at, app>>

\* The STOPEN is out: from here on the thread owns the slot.
OpenSent(d) ==
  /\ pc[d] = "stopen"
  /\ fd_live' = [fd_live EXCEPT ![at[d]] = @ \/ Mine(d)]
  /\ pc' = [pc EXCEPT ![d] = "verdict"]
  /\ UNCHANGED <<used, gsock, sid, state, dead, wr_shut, at, app>>

\* Mutant: the end of the connection is not recorded.
VerdictEOFSilent(d) ==
  /\ pc[d] = "verdict"
  /\ pc' = [pc EXCEPT ![d] = "over"]
  /\ UNCHANGED <<slots, at, app>>

\* The relay closes the connection before any verdict.
VerdictEOF(d) ==
  /\ pc[d] = "verdict"
  /\ state' = [state EXCEPT ![at[d]] = IF Mine(d) THEN "dead" ELSE @]
  /\ pc' = [pc EXCEPT ![d] = "over"]
  /\ UNCHANGED <<used, gsock, sid, flags, at, app>>

\* The relay's verdict for a stream that is still attached or is gone.
Verdict(d, ok) ==
  /\ pc[d] = "verdict" /\ ~(Mine(d) /\ gsock[at[d]] = None)
  /\ state' = [state EXCEPT ![at[d]] = IF ~Mine(d) THEN @ ELSE IF ok THEN "open" ELSE "dead"]
  /\ pc' = [pc EXCEPT ![d] = IF Mine(d) /\ ok THEN "pump" ELSE "over"]
  /\ UNCHANGED <<used, gsock, sid, flags, at, app>>

(* The verdict for a detached stream frees its slot; a refusal is handed   *)
(* to the first attached stream for the same destination (every dial of    *)
(* the model goes to one destination) if that one is still connecting.     *)
VerdictDetached(d, ok) ==
  /\ pc[d] = "verdict" /\ Mine(d) /\ gsock[at[d]] = None
  /\ LET heirs == {s \in Slots : used[s] /\ gsock[s] # None} IN
       state' = [s \in Slots |->
                   IF \/ s = at[d]
                      \/ ~ok /\ heirs # {} /\ s = First(heirs) /\ state[s] = "connecting"
                   THEN "dead" ELSE state[s]]
  /\ used' = [used EXCEPT ![at[d]] = FALSE]
  /\ pc' = [pc EXCEPT ![d] = "over"]
  /\ UNCHANGED <<gsock, sid, flags, at, app>>

\* The pump sees the close, or that the slot is not its own any more.
PumpClosed(d) ==
  /\ pc[d] = "pump" /\ (~Mine(d) \/ dead[at[d]])
  /\ pc' = [pc EXCEPT ![d] = "tail"]
  /\ UNCHANGED <<slots, at, app>>

\* The relay's connection fails.
PumpError(d) ==
  /\ pc[d] = "pump"
  /\ state' = [state EXCEPT ![at[d]] = IF Mine(d) THEN "dead" ELSE @]
  /\ pc' = [pc EXCEPT ![d] = "tail"]
  /\ UNCHANGED <<used, gsock, sid, flags, at, app>>

\* The tail of the thread: it frees the slot if the application is done.
Tail(d) ==
  /\ pc[d] = "tail"
  /\ pc' = [pc EXCEPT ![d] = "over"]
  /\ state' = [state EXCEPT ![at[d]] = IF Mine(d) THEN "dead" ELSE @]
  /\ used' = [used EXCEPT ![at[d]] = @ /\ ~(Mine(d) /\ (dead[at[d]] \/ wr_shut[at[d]]))]
  /\ UNCHANGED <<gsock, sid, flags, at, app>>

-----------------------------------------------------------------------------
Thread(d) ==
  \/ Start(d) \/ DialFail(d) \/ DialDone(d) \/ OpenSent(d) \/ VerdictEOF(d)
  \/ \E ok \in BOOLEAN : Verdict(d, ok) \/ VerdictDetached(d, ok)
  \/ PumpClosed(d) \/ Tail(d)

Application(f) ==
  \/ Socket(f) \/ Shutdown(f) \/ Close(f)
  \/ \E d \in Dials : Lookup(f, d)

Next ==
  \/ \E f \in Fds : Application(f)
  \/ \E d \in Dials : AllocFull(d) \/ Alloc(d) \/ Thread(d) \/ PumpError(d)

Spec == Init /\ [][Next]_vars

(* Threads keep running.  The relay ends every handshake within its budget *)
(* (OpenerAnswered of RelayStream) and a dial of the relay ends.           *)
FairSpec == Spec /\ \A d \in Dials : WF_vars(Thread(d))

-----------------------------------------------------------------------------
TypeOK ==
  /\ used \in [Slots -> BOOLEAN]
  /\ gsock \in [Slots -> Fds \union {None}]
  /\ sid \in [Slots -> Dials \union {None}]
  /\ state \in [Slots -> {"connecting", "open", "dead"}]
  /\ dead \in [Slots -> BOOLEAN]
  /\ fd_live \in [Slots -> BOOLEAN]
  /\ wr_shut \in [Slots -> BOOLEAN]
  /\ pc \in [Dials -> {"unused", "looked", "start", "dial", "stopen", "verdict", "pump",
                      "tail", "over"}]
  /\ at \in [Dials -> Slots \union {0}]
  /\ desc \in [Fds -> {"closed", "open"}]
  /\ dial \in [Fds -> Dials \union {None}]
  /\ call \in [Dials -> Fds \union {None}]
  /\ raced \subseteq Fds

(* One stream per descriptor, and once it is dialled it is the stream of   *)
(* its last connect(): recycling numbers never mixes up two connections,   *)
(* however late the threads of closed ones are.  The exception: connect()  *)
(* looks the descriptor up and takes a slot in two sections, so two calls  *)
(* of two threads give one descriptor two streams, and a close() between   *)
(* the two sections leaves the stream to whoever gets the number next.     *)
OwnStream ==
  \A f \in Fds \ raced :
    /\ \A r, s \in BySock(f) : r = s
    /\ dial[f] # None => \A s \in BySock(f) : sid[s] = dial[f]

(* A pumping thread's slot holds its own stream, never one that was put    *)
(* there after a close; an open stream is being pumped, and a dial nobody  *)
(* closed has a thread that will bring its verdict.                        *)
PumpOwns ==
  /\ \A d \in Dials : pc[d] \in {"pump", "tail"} => Mine(d)
  /\ \A s \in Slots :
       /\ used[s] /\ state[s] = "open" => pc[sid[s]] \in {"pump", "tail"}
       /\ used[s] /\ state[s] = "connecting" /\ ~dead[s]
            => pc[sid[s]] \in {"start", "dial", "stopen", "verdict"}

(* A dial the application does not close gets its verdict.                 *)
DialResolves ==
  \A s \in Slots : (used[s] /\ state[s] = "connecting" /\ ~dead[s])
                     ~> (state[s] # "connecting" \/ dead[s])
=============================================================================
