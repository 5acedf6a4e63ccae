------------------------------- MODULE MCSwGic -------------------------------
(***************************************************************************)
(* Two cpus, one interrupt of each kind.                                   *)
(***************************************************************************)
EXTENDS GicBlob
=============================================================================
