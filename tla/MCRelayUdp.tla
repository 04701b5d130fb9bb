----------------------------- MODULE MCRelayUdp -----------------------------
(* Instance of RelayUdp for TLC: three processes on three nodes, a that    *)
(* only serves, b behind the same NAT, which rewrites the address that b   *)
(* declares, and c in UDP-over-TCP mode; b and c play the same triple.     *)
EXTENDS RelayUdp, TLC

CONSTANTS a1, b1, c1, a, b, c, na, nb, nc, ea, eb, ec, t1, gp

TheLinks == {a1, b1, c1}
TheProcs == {a, b, c}
TheProcOf == a1 :> a @@ b1 :> b @@ c1 :> c
TheNodeOf == a :> na @@ b :> nb @@ c :> nc
TheExt == a :> ea @@ b :> eb @@ c :> ec
TheDecl == a :> ea @@ b :> ea @@ c :> ec
TheTunnels == {c}
TheTrips == {t1}
ThePortOf == t1 :> gp
TheTripsOf == a :> {} @@ b :> {t1} @@ c :> {t1}
=============================================================================
