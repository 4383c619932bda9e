------------------------------ MODULE MCMachine ------------------------------
(* A small instance of Machine for TLC. *)
EXTENDS Machine
=============================================================================
