--------------------------- MODULE ConnectService ---------------------------
(***************************************************************************)
(* What the relay promises to a caller that dials through it: the promise  *)
(* of connect() on a LAN.  A dial is refused, or connected to exactly one  *)
(* server, or dropped; a verdict is final; a connected caller has a server *)
(* that was assigned to it before and to nobody else.                      *)
(***************************************************************************)
CONSTANTS Callers, Servers, None

VARIABLES phase, peer

vars == <<phase, peer>>

Init ==
  /\ phase = [c \in Callers |-> "idle"]
  /\ peer = [c \in Callers |-> None]

Dial(c) ==
  /\ phase[c] = "idle"
  /\ phase' = [phase EXCEPT ![c] = "dialing"]
  /\ UNCHANGED peer

Refuse(c) ==
  /\ phase[c] \in {"idle", "dialing"}
  /\ peer[c] = None
  /\ phase' = [phase EXCEPT ![c] = "refused"]
  /\ UNCHANGED peer

\* One server is assigned; the caller may already be gone.
Assign(c, s) ==
  /\ phase[c] # "idle" /\ peer[c] = None
  /\ \A d \in Callers : peer[d] # s
  /\ peer' = [peer EXCEPT ![c] = s]
  /\ \/ UNCHANGED phase
     \/ phase[c] = "dialing" /\ phase' = [phase EXCEPT ![c] = "connected"]

\* One event of the relay may end several dials at once.
Drop ==
  \E C \in SUBSET {c \in Callers : phase[c] \in {"dialing", "connected"}} :
    /\ phase' = [c \in Callers |-> IF c \in C THEN "closed" ELSE phase[c]]
    /\ UNCHANGED peer

Next ==
  \/ \E c \in Callers : Dial(c) \/ Refuse(c)
  \/ \E c \in Callers, s \in Servers : Assign(c, s)
  \/ Drop

Spec == Init /\ [][Next]_vars
=============================================================================
