--------------------------- MODULE MCStreamSlots ---------------------------
(* Instances of StreamSlots for TLC: descriptors recycled by up to three   *)
(* dials in a table of two slots.                                          *)
EXTENDS StreamSlots, TLC

CONSTANTS f1, d1, d2, d3

OneFd == {f1}
ThreeDials == {d1, d2, d3}
=============================================================================
