---------------------------- MODULE TunnelStream ----------------------------
(***************************************************************************)
(* What the two directions of a tunnel stream share (struct dt_stream,     *)
(* hk_core.h): the state of the slot, and the thread that pumps both.      *)
(***************************************************************************)
VARIABLES used, open,    \* the slot is this stream's; ST_OPEN
          dead, wrShut,  \* closed, shut down for writing by the application
          pump           \* where the stream's pump thread is
=============================================================================
