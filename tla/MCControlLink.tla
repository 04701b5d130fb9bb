--------------------------- MODULE MCControlLink ---------------------------
(***************************************************************************)
(* The control link of one process: two more frames, and two lost links.   *)
(***************************************************************************)
EXTENDS ControlLink
=============================================================================
