------------------------------ MODULE MCWorker ------------------------------
(***************************************************************************)
(* Small workers for TLC.                                                  *)
(***************************************************************************)
EXTENDS Worker, TLC

CONSTANTS p, s1, s2

Symmetry == Permutations(Secondaries)
=============================================================================
