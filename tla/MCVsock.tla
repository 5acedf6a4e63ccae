------------------------------- MODULE MCVsock -------------------------------
(***************************************************************************)
(* One connection with counters that wrap within its life.                 *)
(***************************************************************************)
EXTENDS Vsock
=============================================================================
