---------------------------- MODULE RelayStream ----------------------------
(***************************************************************************)
(* The stream handshake of the relay (server.py): an opener asks for a     *)
(* stream with STOPEN, every link of the destination is asked with STREQ,  *)
(* the process that serves the port dials back and claims the stream with  *)
(* STJOIN, and the relay answers STOK to one claimant and BUSY to the      *)
(* others, confirms the opener and pipes bytes once the claimant reports   *)
(* its local bridge.                                                       *)
(*                                                                         *)
(* The relay is one asyncio loop: a step is what a task does between two   *)
(* suspensions.  tcp_send on a healthy connection does not suspend (a      *)
(* verdict is the first frame on it); on a transport that is already       *)
(* closing its drain() yields once and then raises, which is where the     *)
(* "wait" states "claim", "confirm" and the yield of a grant come from.    *)
(* A stream's record st is named by its opener connection, because tasks   *)
(* keep using the record after the table has forgotten the stream id.      *)
(***************************************************************************)
EXTENDS RelayNodes, Integers, Sequences, FiniteSets

CONSTANTS Openers,    \* STOPEN connections
          Joiners,    \* STJOIN connections
          Sids,       \* stream ids
          SidOf,      \* stream id an opener uses
          OpenerNode,     \* node of an opener
          DestOf,     \* node an opener addresses, None for a port-only dial
          JSid,       \* stream id a joiner claims
          JNode,      \* node of a joiner
          HostClaim,  \* freshness of a node's host claim
          MaxBacks    \* bound: nodes coming back

ASSUME NoneAssumption == None \notin Openers \union Joiners \union Nodes \union Sids
ASSUME OpenerAssumption ==
  /\ SidOf \in [Openers -> Sids]
  /\ OpenerNode \in [Openers -> Nodes]
  /\ DestOf \in [Openers -> Nodes \union {None}]
ASSUME JoinerAssumption ==
  /\ JSid \in [Joiners -> Sids]
  /\ JNode \in [Joiners -> Nodes]
  /\ HostClaim \in [Nodes -> Nat]

VARIABLES streams,       \* sid -> the record in the table
          node_streams,  \* node -> sids it takes part in
          live,          \* nodes with a live control link
          backs,
          state, dest, joiner, claims, timer, piping,   \* the record st
          grant, winner, \* the _implicit_grant task and the claim it picked
          wait,          \* where _grant_claim is suspended, "raised": an exception ended it
          ow, oframes,   \* opener connection, frames the relay sent on it
          jw, verdict, server,  \* joiner connection, its verdict, whose claim
          said,          \* what a granted joiner answered
          asked          \* joiners whose process has the STREQ

streamTable == <<streams, node_streams>>
record == <<state, dest, joiner, timer, piping>>
conns == <<ow, oframes, jw, verdict, server>>
streamVars == <<streams, node_streams, live, backs, state, dest, joiner, claims,
                timer, piping, grant, winner, wait, ow, oframes, jw, verdict, server,
                said, asked>>

Implicit(o) == DestOf[o] = None

\* The id names a record whose state is in S.
InState(sid, S) == streams[sid] # None /\ state[streams[sid]] \in S

StreamInit ==
  /\ streams = [s \in Sids |-> None]
  /\ node_streams = [n \in Nodes |-> {}]
  /\ live = Nodes
  /\ backs = 0
  /\ state = [o \in Openers |-> "new"]
  /\ dest = [o \in Openers |-> None]
  /\ joiner = [o \in Openers |-> None]
  /\ claims = [o \in Openers |-> <<>>]
  /\ timer = [o \in Openers |-> FALSE]
  /\ piping = [o \in Openers |-> FALSE]
  /\ grant = [o \in Openers |-> "none"]
  /\ winner = [o \in Openers |-> None]
  /\ wait = [o \in Openers |-> "none"]
  /\ ow = [o \in Openers |-> "none"]
  /\ oframes = [o \in Openers |-> <<>>]
  /\ jw = [j \in Joiners |-> "none"]
  /\ verdict = [j \in Joiners |-> "none"]
  /\ server = [j \in Joiners |-> None]
  /\ said = [j \in Joiners |-> "nothing"]
  /\ asked = {}

-----------------------------------------------------------------------------
(* _stream_pop(sid): whatever record the table holds is retired, its timer *)
(* or pipe cancelled and both its connections closed.  J: joiners closed   *)
(* in the same step.                                                       *)
StreamPop(sid, J) ==
  LET p == streams[sid] IN
  /\ streams' = [streams EXCEPT ![sid] = None]
  /\ IF p = None
     THEN /\ UNCHANGED <<node_streams, timer, piping, ow>>
          /\ jw' = [j \in Joiners |-> IF j \in J THEN "closed" ELSE jw[j]]
     ELSE /\ node_streams' = [n \in Nodes |-> IF n \in {OpenerNode[p], dest[p]}
                                              THEN node_streams[n] \ {sid}
                                              ELSE node_streams[n]]
          /\ timer' = [timer EXCEPT ![p] = FALSE]
          /\ piping' = [piping EXCEPT ![p] = FALSE]
          /\ ow' = [ow EXCEPT ![p] = "closed"]
          /\ jw' = [j \in Joiners |-> IF j \in J \union {joiner[p]} THEN "closed" ELSE jw[j]]

\* _stream_fail(st, sid, ...): a framed refusal only before the confirmation.
StreamFail(o, J) ==
  /\ oframes' = IF ow[o] = "up" /\ state[o] \in {"open", "joined"}
                THEN [oframes EXCEPT ![o] = Append(@, "STFAIL")] ELSE oframes
  /\ StreamPop(SidOf[o], J)

\* Mutant: the winner is not written into the record.
GrantClaimUnrecorded(o, j, conn, losers) ==
  LET told(v) == [k \in Joiners |-> IF k = j THEN v
                                    ELSE IF k \in losers THEN "BUSY" ELSE verdict[k]]
  IN
  \/ /\ dest[o] # None /\ JNode[j] # dest[o]
     /\ verdict' = told("BAD_ID")
     /\ StreamFail(o, losers \union {j})
     /\ UNCHANGED <<state, dest, joiner, wait, server>>
  \/ /\ dest[o] # None => JNode[j] = dest[o]
     /\ joiner' = [joiner EXCEPT ![o] = j]
     /\ dest' = dest
     /\ node_streams' = IF dest[o] = None
                        THEN [node_streams EXCEPT ![JNode[j]] = @ \union {SidOf[o]}]
                        ELSE node_streams
     /\ jw' = [k \in Joiners |-> IF k = j THEN conn
                                 ELSE IF k \in losers THEN "closed" ELSE jw[k]]
     /\ \/ /\ conn # "up"              \* the STOK to the joiner will raise
           /\ wait' = [wait EXCEPT ![o] = "claim"]
           /\ verdict' = told(verdict[j])
           /\ UNCHANGED <<server, oframes>>
        \/ /\ conn = "up"
           /\ verdict' = told("STOK")
           /\ server' = [server EXCEPT ![j] = o]
           /\ IF ow[o] = "up"
              THEN /\ oframes' = [oframes EXCEPT ![o] = Append(@, "STOK")]
                   /\ wait' = [wait EXCEPT ![o] = "verdict"]
              ELSE /\ wait' = [wait EXCEPT ![o] = "confirm"]
                   /\ UNCHANGED oframes
     /\ UNCHANGED <<streams, state, timer, piping, ow>>

(* _grant_claim(st, sid, node, reader, writer) up to its first suspension. *)
(* conn: the state of the joiner's connection; losers: claimants answered  *)
(* BUSY by the same task just before.                                      *)
GrantClaim(o, j, conn, losers) ==
  LET told(v) == [k \in Joiners |-> IF k = j THEN v
                                    ELSE IF k \in losers THEN "BUSY" ELSE verdict[k]]
  IN
  \/ \* a claim from a node the stream does not address fails the stream
     /\ dest[o] # None /\ JNode[j] # dest[o]
     /\ verdict' = told("BAD_ID")
     /\ StreamFail(o, losers \union {j})
     /\ UNCHANGED <<state, dest, joiner, wait, server>>
  \/ /\ dest[o] # None => JNode[j] = dest[o]
     /\ joiner' = [joiner EXCEPT ![o] = j]
     /\ dest' = [dest EXCEPT ![o] = JNode[j]]
     /\ node_streams' = IF dest[o] = None
                        THEN [node_streams EXCEPT ![JNode[j]] = @ \union {SidOf[o]}]
                        ELSE node_streams
     /\ jw' = [k \in Joiners |-> IF k = j THEN conn
                                 ELSE IF k \in losers THEN "closed" ELSE jw[k]]
     /\ \/ /\ conn # "up"              \* the STOK to the joiner will raise
           /\ state' = [state EXCEPT ![o] = "joined"]
           /\ wait' = [wait EXCEPT ![o] = "claim"]
           /\ verdict' = told(verdict[j])
           /\ UNCHANGED <<server, oframes>>
        \/ /\ conn = "up"
           /\ state' = [state EXCEPT ![o] = "ready"]
           /\ verdict' = told("STOK")
           /\ server' = [server EXCEPT ![j] = o]
           /\ IF ow[o] = "up"
              THEN /\ oframes' = [oframes EXCEPT ![o] = Append(@, "STOK")]
                   /\ wait' = [wait EXCEPT ![o] = "verdict"]
              ELSE /\ wait' = [wait EXCEPT ![o] = "confirm"]
                   /\ UNCHANGED oframes
     /\ UNCHANGED <<streams, timer, piping, ow>>

-----------------------------------------------------------------------------
\* Whose links get the STREQ of opener o.
Asked(o) == IF Implicit(o) THEN live \ {OpenerNode[o]} ELSE live \intersect {DestOf[o]}

\* handle_stream_open: a refusal of its own, without a record.
OpenRefused(o) ==
  /\ ow[o] = "none"
  /\ OpenerNode[o] \notin live \/ streams[SidOf[o]] # None \/ Asked(o) = {}
  /\ oframes' = [oframes EXCEPT ![o] = <<"STFAIL">>]
  /\ ow' = [ow EXCEPT ![o] = "closed"]
  /\ UNCHANGED <<streamTable, live, backs, record, claims, grant, winner, wait, jw, verdict,
                 server, said, asked>>

\* handle_stream_open: the record, the handshake timer, the STREQs.
OpenAccepted(o) ==
  /\ ow[o] = "none"
  /\ OpenerNode[o] \in live /\ streams[SidOf[o]] = None /\ Asked(o) # {}
  /\ ow' = [ow EXCEPT ![o] = "up"]
  /\ state' = [state EXCEPT ![o] = "open"]
  /\ dest' = [dest EXCEPT ![o] = DestOf[o]]
  /\ timer' = [timer EXCEPT ![o] = TRUE]
  /\ streams' = [streams EXCEPT ![SidOf[o]] = o]
  /\ node_streams' = [n \in Nodes |-> IF n \in {OpenerNode[o], DestOf[o]}
                                      THEN node_streams[n] \union {SidOf[o]}
                                      ELSE node_streams[n]]
  /\ asked' = asked \union {j \in Joiners : JSid[j] = SidOf[o] /\ JNode[j] \in Asked(o)}
  /\ UNCHANGED <<live, backs, joiner, claims, piping, grant, winner, wait, oframes, jw,
                 verdict, server, said>>

\* A process that was asked and serves the port dials back: handle_stream_join.
JoinUnknown(j) ==
  /\ jw[j] = "none" /\ j \in asked
  /\ streams[JSid[j]] = None
  /\ jw' = [jw EXCEPT ![j] = "closed"]
  /\ UNCHANGED <<streamTable, live, backs, record, claims, grant, winner, wait, ow, oframes,
                 verdict, server, said, asked>>

JoinBusy(j) ==
  /\ jw[j] = "none" /\ j \in asked
  /\ InState(JSid[j], {"joined", "ready"})
  /\ jw' = [jw EXCEPT ![j] = "closed"]
  /\ verdict' = [verdict EXCEPT ![j] = "BUSY"]
  /\ UNCHANGED <<streamTable, live, backs, record, claims, grant, winner, wait, ow, oframes,
                 server, said, asked>>

\* A port-only dial collects claims for IMPLICIT_GRACE_S.
JoinClaim(j) ==
  /\ jw[j] = "none" /\ j \in asked
  /\ LET o == streams[JSid[j]] IN
       /\ InState(JSid[j], {"open"}) /\ Implicit(o)
       /\ claims' = [claims EXCEPT ![o] = Append(@, j)]
       /\ grant' = [grant EXCEPT ![o] = IF @ = "none" THEN "sleep" ELSE @]
  /\ jw' = [jw EXCEPT ![j] = "up"]
  /\ UNCHANGED <<streamTable, live, backs, record, winner, wait, ow, oframes, verdict, server,
                 said, asked>>

\* An addressed dial is granted to the first claim.
JoinGrant(j) ==
  /\ jw[j] = "none" /\ j \in asked
  /\ LET o == streams[JSid[j]] IN
       /\ InState(JSid[j], {"open"}) /\ ~Implicit(o)
       /\ GrantClaim(o, j, "up", {})
  /\ UNCHANGED <<live, backs, claims, grant, winner, said, asked>>

-----------------------------------------------------------------------------
\* claims.sort(key=score, reverse=True): the freshest host, first come on a tie.
Best(c, i) ==
  \A k \in DOMAIN c :
    \/ HostClaim[JNode[c[i]]] > HostClaim[JNode[c[k]]]
    \/ HostClaim[JNode[c[i]]] = HostClaim[JNode[c[k]]] /\ i <= k

\* A grant whose BUSY found a closing loser is between two loop iterations.
Yielding(sid) == \E o \in Openers : SidOf[o] = sid /\ wait[o] = "yield"

\* The losers are answered BUSY, then the winner is granted; a loser whose
\* transport is closing makes the task yield in between.
GrantBest(o) ==
  \E best \in DOMAIN claims[o] :
    LET w == claims[o][best]
        losers == {claims[o][i] : i \in DOMAIN claims[o]} \ {w}
    IN
    /\ Best(claims[o], best)
    /\ \/ /\ \A l \in losers : jw[l] = "up"
          /\ GrantClaim(o, w, jw[w], losers)
          /\ UNCHANGED winner
       \/ /\ \E l \in losers : jw[l] # "up"
          /\ winner' = [winner EXCEPT ![o] = w]
          /\ wait' = [wait EXCEPT ![o] = "yield"]
          /\ verdict' = [l \in Joiners |-> IF l \in losers THEN "BUSY" ELSE verdict[l]]
          /\ jw' = [l \in Joiners |-> IF l \in losers THEN "closed" ELSE jw[l]]
          /\ UNCHANGED <<streamTable, record, ow, oframes, server>>

(* _implicit_grant after its sleep.  It looks the stream up again, so it   *)
(* may find another record under the id.  The yield lasts one iteration of *)
(* the loop, far less than the grace another grant task still sleeps.      *)
GrantWake(t) ==
  /\ grant[t] = "sleep" /\ ~Yielding(SidOf[t])
  /\ LET o == streams[SidOf[t]] IN
     \/ /\ ~(InState(SidOf[t], {"open"}) /\ claims[o] # <<>>)
        /\ grant' = [grant EXCEPT ![t] = "over"]
        /\ UNCHANGED <<streamTable, record, claims, winner, wait, conns>>
     \/ /\ InState(SidOf[t], {"open"}) /\ claims[o] # <<>>
        /\ claims' = [claims EXCEPT ![o] = <<>>]
        /\ grant' = [grant EXCEPT ![t] = "over", ![o] = "none"]
        /\ GrantBest(o)
  /\ UNCHANGED <<live, backs, said, asked>>

\* The grant goes on with the record it holds, in the table or not.
GrantResume(o) ==
  /\ wait[o] = "yield"
  /\ GrantClaim(o, winner[o], jw[winner[o]], {})
  /\ winner' = [winner EXCEPT ![o] = None]
  /\ UNCHANGED <<live, backs, claims, grant, said, asked>>

\* Mutant: the failed send is swallowed and the opener confirmed.
SendFailedSwallowed(o) ==
  /\ wait[o] \in {"claim", "confirm"}
  /\ wait' = [wait EXCEPT ![o] = "over"]
  /\ state' = [state EXCEPT ![o] = "ready"]
  /\ oframes' = IF ow[o] = "up" THEN [oframes EXCEPT ![o] = Append(@, "STOK")] ELSE oframes
  /\ UNCHANGED <<streamTable, live, backs, dest, joiner, claims, timer, piping, grant, winner,
                 ow, jw, verdict, server, said, asked>>

\* The STOK to a closing joiner, or to a closing opener, raised.
SendFailed(o) ==
  /\ wait[o] \in {"claim", "confirm"}
  /\ wait' = [wait EXCEPT ![o] = "over"]
  /\ StreamFail(o, {})
  /\ UNCHANGED <<live, backs, state, dest, joiner, claims, grant, winner, verdict,
                 server, said, asked>>

\* The joinee bridged to its local game, or could not.
Answer(j) ==
  /\ verdict[j] = "STOK" /\ said[j] = "nothing" /\ jw[j] = "up"
  /\ \E a \in {"STJOINED", "STFAIL"} : said' = [said EXCEPT ![j] = a]
  /\ UNCHANGED <<streamTable, live, backs, record, claims, grant, winner, wait, conns, asked>>

\* Mutant: the pipe starts without looking whether the stream still exists.
BridgedUnchecked(o) ==
  /\ wait[o] = "verdict" /\ said[joiner[o]] = "STJOINED"
  /\ wait' = [wait EXCEPT ![o] = "over"]
  /\ timer' = [timer EXCEPT ![o] = FALSE]
  /\ piping' = [piping EXCEPT ![o] = TRUE]
  /\ UNCHANGED <<streamTable, live, backs, state, dest, joiner, claims, grant, winner,
                 conns, said, asked>>

\* _grant_claim reads STJOINED: the timer ends and _stream_pipe starts.
Bridged(o) ==
  /\ wait[o] = "verdict" /\ said[joiner[o]] = "STJOINED"
  /\ wait' = [wait EXCEPT ![o] = "over"]
  /\ timer' = [timer EXCEPT ![o] = FALSE]
  /\ piping' = [piping EXCEPT ![o] = streams[SidOf[o]] = o]
  /\ UNCHANGED <<streamTable, live, backs, state, dest, joiner, claims, grant, winner,
                 conns, said, asked>>

\* Mutant: a lost bridge is left to the handshake timer.
BridgeLostIgnored(o) ==
  /\ wait[o] = "verdict"
  /\ wait' = [wait EXCEPT ![o] = "over"]
  /\ UNCHANGED <<streamTable, live, backs, record, claims, grant, winner, conns, said, asked>>

\* The joinee refused this stream, its connection ended, or the deadline
\* passed (with an STJOINED still on its way, too).
BridgeLost(o) ==
  /\ wait[o] = "verdict"
  /\ wait' = [wait EXCEPT ![o] = "over"]
  /\ StreamFail(o, {})
  /\ UNCHANGED <<live, backs, state, dest, joiner, claims, grant, winner, verdict,
                 server, said, asked>>

(* The verdict is read, but no handler catches what follows: a frame of    *)
(* another kind, or an STFAIL of another stream, makes the task evaluate   *)
(* STF_HOST_FAILED, a name server.py does not have, and a connection error *)
(* that is no reset is outside the except.  The task ends and the record   *)
(* stays "ready" with both its connections; the timer then finds nothing   *)
(* to do.  The joiner's connection is closed first for a frame of another  *)
(* kind, and with the task when its own coroutine granted the claim.       *)
BridgeRaised(o) ==
  /\ wait[o] = "verdict"
  /\ wait' = [wait EXCEPT ![o] = "raised"]
  /\ \E left \in {jw[joiner[o]], "closed"} : jw' = [jw EXCEPT ![joiner[o]] = left]
  /\ UNCHANGED <<streamTable, live, backs, record, claims, grant, winner, ow, oframes,
                 verdict, server, said, asked>>

\* _stream_pipe: the first end or error of either direction retires both.
PipeEnd(o) ==
  /\ piping[o]
  /\ StreamPop(SidOf[o], {})
  /\ UNCHANGED <<live, backs, state, dest, joiner, claims, grant, winner, wait,
                 oframes, verdict, server, said, asked>>

\* Mutant: only a stream that was claimed times out.
TimeoutJoined(o) ==
  /\ timer[o]
  /\ LET p == streams[SidOf[o]] IN
     \/ /\ ~InState(SidOf[o], {"joined"})
        /\ timer' = [timer EXCEPT ![o] = FALSE]
        /\ UNCHANGED <<streamTable, piping, ow, oframes, jw>>
     \/ /\ InState(SidOf[o], {"joined"})
        /\ StreamFail(p, {})
  /\ UNCHANGED <<live, backs, state, dest, joiner, claims, grant, winner, wait,
                 verdict, server, said, asked>>

\* _stream_join_timeout at the end of the handshake budget.
Timeout(o) ==
  /\ timer[o]
  /\ LET p == streams[SidOf[o]] IN
     \/ /\ ~InState(SidOf[o], {"open", "joined"})
        /\ timer' = [timer EXCEPT ![o] = FALSE]
        /\ UNCHANGED <<streamTable, piping, ow, oframes, jw>>
     \/ /\ InState(SidOf[o], {"open", "joined"})
        /\ StreamFail(p, {})
  /\ UNCHANGED <<live, backs, state, dest, joiner, claims, grant, winner, wait,
                 verdict, server, said, asked>>

-----------------------------------------------------------------------------
(* The last link of a node ends: handle_peer retires the node's streams    *)
(* that are still in handshake.                                            *)
NodeGone(n) ==
  /\ n \in live
  /\ live' = live \ {n}
  /\ LET dead == {s \in node_streams[n] : streams[s] # None /\ state[streams[s]] # "ready"}
         gone == {streams[s] : s \in dead}
     IN
       /\ streams' = [s \in Sids |-> IF s \in dead THEN None ELSE streams[s]]
       /\ node_streams' =
            [m \in Nodes |-> IF m = n THEN {}
                             ELSE node_streams[m] \
                                  {s \in dead : m \in {OpenerNode[streams[s]], dest[streams[s]]}}]
       /\ timer' = [o \in Openers |-> timer[o] /\ o \notin gone]
       /\ ow' = [o \in Openers |-> IF o \in gone THEN "closed" ELSE ow[o]]
       /\ jw' = [j \in Joiners |-> IF \E o \in gone : joiner[o] = j THEN "closed" ELSE jw[j]]
  /\ UNCHANGED <<backs, state, dest, joiner, claims, piping, grant, winner, wait,
                 oframes, verdict, server, said, asked>>

\* The same, but a registration pruned the closing link first: the handler
\* finds no node and leaves the streams to their timer.
NodePruned(n) ==
  /\ n \in live
  /\ live' = live \ {n}
  /\ UNCHANGED <<streamTable, backs, record, claims, grant, winner, wait, conns, said, asked>>

NodeBack(n) ==
  /\ n \notin live /\ backs < MaxBacks
  /\ live' = live \union {n}
  /\ backs' = backs + 1
  /\ UNCHANGED <<streamTable, record, claims, grant, winner, wait, conns, said, asked>>

\* A peer resets its connection: the transport is closing from here on.
OpenerLost(o) ==
  /\ ow[o] = "up"
  /\ ow' = [ow EXCEPT ![o] = "lost"]
  /\ UNCHANGED <<streamTable, live, backs, record, claims, grant, winner, wait, oframes, jw,
                 verdict, server, said, asked>>

JoinerLost(j) ==
  /\ jw[j] = "up"
  /\ jw' = [jw EXCEPT ![j] = "lost"]
  /\ UNCHANGED <<streamTable, live, backs, record, claims, grant, winner, wait, ow, oframes,
                 verdict, server, said, asked>>

-----------------------------------------------------------------------------
Handshake(o) ==
  \/ GrantWake(o) \/ GrantResume(o) \/ SendFailed(o) \/ Bridged(o) \/ BridgeLost(o)
  \/ BridgeRaised(o) \/ Timeout(o)

Join(j) == JoinUnknown(j) \/ JoinBusy(j) \/ JoinClaim(j) \/ JoinGrant(j)

StreamNext ==
  \/ \E o \in Openers : \/ OpenRefused(o) \/ OpenAccepted(o) \/ Handshake(o)
                        \/ PipeEnd(o) \/ OpenerLost(o)
  \/ \E j \in Joiners : Join(j) \/ Answer(j) \/ JoinerLost(j)
  \/ \E n \in Nodes : NodeGone(n) \/ NodePruned(n) \/ NodeBack(n)

StreamSpec == StreamInit /\ [][StreamNext]_streamVars

\* The loop runs every ready task and every timer fires.
StreamFairSpec ==
  /\ StreamSpec
  /\ \A o \in Openers :
       /\ WF_streamVars(GrantWake(o)) /\ WF_streamVars(GrantResume(o))
       /\ WF_streamVars(SendFailed(o)) /\ WF_streamVars(Bridged(o))
       /\ WF_streamVars(BridgeLost(o)) /\ WF_streamVars(Timeout(o))

-----------------------------------------------------------------------------
(* A stream is granted to one joiner at most: two processes never bridge   *)
(* the same stream, whatever claims, grants and teardowns overlap.         *)
OneServer ==
  \A i, j \in Joiners : server[i] # None /\ server[i] = server[j] => i = j

(* Bytes are piped only between a confirmed opener and the joiner that was *)
(* granted this stream and reported its bridge, and only while the table   *)
(* still owns the stream.                                                  *)
PipeAgreed ==
  \A o \in Openers :
    piping[o] =>
      /\ streams[SidOf[o]] = o
      /\ oframes[o] = <<"STOK">>
      /\ server[joiner[o]] = o /\ said[joiner[o]] = "STJOINED"

(* An opener connection the relay has not closed is in the table, and a    *)
(* timer (of a stream not yet "ready", or it would do nothing), a granting *)
(* task or a pipe still owns its teardown.  The one opener without an      *)
(* owner is a confirmed one whose granting task an exception ended while   *)
(* it waited for the joinee's bridge (BridgeRaised).                       *)
NoOrphanOpener ==
  \A o \in Openers :
    ow[o] \in {"up", "lost"} =>
      /\ streams[SidOf[o]] = o
      /\ \/ (timer[o] /\ state[o] # "ready") \/ piping[o]
         \/ wait[o] \in {"claim", "confirm", "verdict"}
         \/ wait[o] = "raised" /\ oframes[o] = <<"STOK">>

(* "The opener therefore gets its verdict within 10 s of starting          *)
(* connect": every accepted open ends in a verdict or a closed connection. *)
OpenerAnswered ==
  \A o \in Openers : ow[o] = "up" ~> oframes[o] # <<>> \/ ow[o] # "up"

-----------------------------------------------------------------------------
\* The caller's view of its connection, and the server it was given.
CallerPhase(o) ==
  IF ow[o] = "none" THEN "idle"
  ELSE IF oframes[o] = <<"STFAIL">> THEN "refused"
  ELSE IF ow[o] = "closed" THEN "closed"
  ELSE IF oframes[o] = <<"STOK">> THEN "connected"
  ELSE "dialing"

PeerOf(o) ==
  IF \E j \in Joiners : server[j] = o THEN CHOOSE j \in Joiners : server[j] = o ELSE None

Connect == INSTANCE ConnectService
             WITH Callers <- Openers, Servers <- Joiners,
                  phase <- [o \in Openers |-> CallerPhase(o)],
                  peer <- [o \in Openers |-> PeerOf(o)]

(* The handshake implements the connect() of a LAN: each opener is         *)
(* refused, connected to one server of its own, or dropped, once.  In      *)
(* particular no framed STFAIL follows the STOK, after which the           *)
(* connection carries the bytes of the game.                               *)
ImplementsConnect == Connect!Spec
=============================================================================
