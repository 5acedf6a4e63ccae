------------------------------- MODULE MCFleet -------------------------------
(***************************************************************************)
(* Small fleets for TLC.                                                   *)
(***************************************************************************)
EXTENDS Fleet, TLC

CONSTANTS h1, h2, r1, ta, v1, v2, v3

OneTemplate == [t \in {ta} |-> 1]

Symmetry == Permutations(Handlers) \cup Permutations(Refillers)
            \cup Permutations(Vms)
=============================================================================
