------------------------------ MODULE MCIrqLine ------------------------------
(***************************************************************************)
(* Two vcpus and the reader threads.                                       *)
(***************************************************************************)
EXTENDS IrqLine, TLC

CONSTANTS c1, c2

Symmetry == Permutations(Vcpus)
=============================================================================
