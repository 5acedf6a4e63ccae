---------------------------- MODULE MCVirtqueue ----------------------------
(***************************************************************************)
(* An instance of Virtqueue: two request slots on a queue of four          *)
(* descriptors, whose indices wrap after eight requests.                   *)
(***************************************************************************)
EXTENDS Virtqueue

CONSTANTS t1, t2
=============================================================================
