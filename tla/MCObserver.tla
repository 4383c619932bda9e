----------------------------- MODULE MCObserver ------------------------------
(* Observer for TLC; the bounds are in the configurations.                     *)
EXTENDS Observer
=============================================================================
