----------------------------- MODULE MCRotation -----------------------------
(* A small instance of Rotation for TLC. *)
EXTENDS Rotation

ThreeVms == 1..3
=============================================================================
