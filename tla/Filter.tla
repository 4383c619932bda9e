------------------------------- MODULE Filter -------------------------------
(***************************************************************************)
(* A list without some of its elements: what Array.prototype.filter leaves *)
(* of the ledger's and the node's queues, in a form that can be reasoned   *)
(* about (module FilterProofs).                                            *)
(***************************************************************************)
EXTENDS Naturals, Sequences

\* What is left of the first n elements of s, for each n.
Kept(s, S) ==
    LET kept[n \in 0..Len(s)] ==
            IF n = 0 THEN <<>>
            ELSE IF s[n] \in S THEN kept[n - 1] ELSE Append(kept[n - 1], s[n])
    IN  kept

\* s without the elements of S, in their order.
Without(s, S) == Kept(s, S)[Len(s)]
=============================================================================
