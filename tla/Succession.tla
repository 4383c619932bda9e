----------------------------- MODULE Succession -----------------------------
(***************************************************************************)
(* What the rotation of control planes promises (design section 9.4), with *)
(* no run, call or write in it: who may act, and by what right.  A control *)
(* plane that was launched stands by until the pointer names it or it is   *)
(* given the ledger of an earlier one; one that let its clients go never   *)
(* acts again and is never named; the generation named only grows.  The    *)
(* last two hold while no write of the pointer has undone another: the     *)
(* parameter store has no compare-and-set, and `clean` says so.            *)
(***************************************************************************)
EXTENDS Naturals

CONSTANTS Vms, None

VARIABLES
    gen,    \* the generation each control plane was launched for
    stage,  \* where it is in its life
    right,  \* those that were named, or given a ledger
    given,  \* those whose ledger is on its way to a successor
    named,  \* the one the pointer names
    term,   \* the generation the pointer names
    clean   \* no write of the pointer has undone another

succession == <<gen, stage, right, given, named, term, clean>>
-----------------------------------------------------------------------------
Becomes(v, s) == stage' = [stage EXCEPT ![v] = s]
PointerStays == UNCHANGED <<named, term, clean>>

Launches(v) ==
    /\ stage[v] = "none"
    /\ gen' = [gen EXCEPT ![v] = gen'[v]] /\ gen'[v] \in Nat
    /\ clean => gen'[v] > term
    /\ UNCHANGED <<stage, right>> /\ PointerStays

StandsBy(v) ==
    /\ stage[v] = "none" /\ Becomes(v, "ready")
    /\ UNCHANGED <<gen, right>> /\ PointerStays

\* The pointer names it.
Entitled(v) ==
    /\ stage[v] # "none" /\ named = v
    /\ right' = right \cup {v}
    /\ UNCHANGED <<gen, stage>> /\ PointerStays

\* It is given the ledger of one that was launched no later.
Succeeds(v) ==
    /\ \E u \in given : gen[u] <= gen[v]
    /\ clean => stage[v] # "retired"
    /\ Becomes(v, "ready")
    /\ right' = right \cup {v}
    /\ UNCHANGED gen /\ PointerStays

HandsOver(v) ==
    /\ stage[v] \in {"ready", "handing over"} /\ Becomes(v, "handing over")
    /\ UNCHANGED <<gen, right>> /\ PointerStays

\* Nobody finished the handover in time.
CarriesOn(v) ==
    /\ stage[v] = "handing over" /\ Becomes(v, "ready")
    /\ UNCHANGED <<gen, right>> /\ PointerStays

Retires(v) ==
    /\ clean => v # named
    /\ Becomes(v, "retired")
    /\ UNCHANGED <<gen, right>> /\ PointerStays

\* Any number of them are gone at once: the operator sweeps.
Vanish ==
    LET gone == {v \in Vms : stage'[v] = "gone"}
    IN  /\ stage' = [v \in Vms |-> IF v \in gone THEN "gone" ELSE stage[v]]
        /\ right' = right \ gone
        /\ UNCHANGED gen /\ PointerStays

\* The pointer moves on to a later generation, or the machine is off; once a
\* write was undone it may be back at any.
PointerMoves ==
    /\ clean' => /\ clean
                 /\ \/ named' = None /\ term' = term
                    \/ /\ named' \in Vms
                       /\ stage[named'] # "retired"
                       /\ term' = gen[named'] /\ term' > term
    /\ UNCHANGED <<gen, stage, right>>

Init ==
    /\ term \in Nat \ {0}
    /\ named \in Vms
    /\ stage = [v \in Vms |-> IF v = named THEN "ready" ELSE "none"]
    /\ gen = [v \in Vms |-> IF v = named THEN term ELSE 0]
    /\ right = {named}
    /\ given = {}
    /\ clean = TRUE

Next ==
    \/ /\ given' \subseteq given
       /\ \/ \E v \in Vms : \/ Launches(v)
                            \/ StandsBy(v) \/ Entitled(v) \/ Succeeds(v)
                            \/ CarriesOn(v) \/ Retires(v)
          \/ Vanish \/ PointerMoves
    \/ \E v \in Vms : HandsOver(v) /\ given' \subseteq given \cup {v}

Spec == Init /\ [][Next]_succession
-----------------------------------------------------------------------------
(* The control plane the pointer names takes clients: it has not let them  *)
(* go for good.                                                            *)
NamedNotRetired == clean /\ named \in Vms \ {None} => stage[named] # "retired"

(* The generation the pointer names never goes back.                       *)
TermGrows == [][clean' => term' >= term]_succession
=============================================================================
