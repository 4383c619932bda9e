----------------------------- MODULE MCNodeLoop -----------------------------
(* A small instance of NodeLoop for TLC. *)
EXTENDS NodeLoop

Symmetry == Permutations(Tasks)
=============================================================================
