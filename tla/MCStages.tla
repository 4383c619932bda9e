------------------------------ MODULE MCStages ------------------------------
(* A small instance of Stages for TLC. *)
EXTENDS Stages, TLC

Symmetry == Permutations(Outputs)
=============================================================================
