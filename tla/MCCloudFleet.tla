---------------------------- MODULE MCCloudFleet ----------------------------
(* A small instance of CloudFleet for TLC. *)
EXTENDS CloudFleet

ThreeCores == 1..3
=============================================================================
