------------------------------ MODULE MCReplica ------------------------------
(* A small instance of Replica for TLC: two nodes in the order of their ids.   *)
EXTENDS Replica

CONSTANTS n1, n2, a, b
TwoNodes == <<n1, n2>>
EitherOutput == Permutations({a, b})
=============================================================================
