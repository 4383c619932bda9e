------------------------------ MODULE MCSandbox ------------------------------
(* A small instance of Sandbox for TLC. *)
EXTENDS Sandbox
=============================================================================
