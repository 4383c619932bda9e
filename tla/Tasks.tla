------------------------------- MODULE Tasks -------------------------------
(***************************************************************************)
(* The record of one task and the pure functions the control plane applies *)
(* to it: packages/core/src/tasks.ts, results.ts and the per-task          *)
(* predicates of scheduler.ts.  An operator takes a task record and        *)
(* returns what the code leaves in it (or the set of what it can leave).   *)
(*                                                                         *)
(* Abstractions.  An identity (output hash plus sorted write list) is an   *)
(* element of Outputs, or of Traps for a reported error.  Attempts are     *)
(* kept by node: the nodes that hold an open one (eligible never gives a   *)
(* node a second) and the connected nodes one was taken back from, which   *)
(* may still report under its old number.  Results are a set, a record     *)
(* saying which of its node's reports of the round it is (nth); the order  *)
(* of different nodes' reports matters only where it breaks a tied vote,   *)
(* which is a choice here.  Times, counters, logs and broadcasts are left  *)
(* out, and the `released` flag, which only orders tasks among each other. *)
(*                                                                         *)
(* An operator named ...Bug is a plausible wrong version of the one below  *)
(* it; nothing uses it, README.md says which property tells it apart.      *)
(***************************************************************************)
EXTENDS Naturals, FiniteSets

CONSTANTS
    Nodes,              \* node ids: one per hello, never reused
    Outputs,            \* identities a completed run can report
    Traps,              \* identities of reported program errors
    NoResult,           \* `accepted: null`
    MaxContestedRounds, \* MAX_CONTESTED_ROUNDS
    ResultsCap,         \* RESULTS_PER_TASK_CAP
    ReleasesCap         \* RELEASES_PER_TASK_CAP

Identities == Outputs \cup Traps
Results == [node : Nodes, identity : Identities, round : Nat, nth : Nat]

ASSUME TasksAssumption ==
    /\ NoResult \notin Identities
    /\ MaxContestedRounds \in Nat /\ MaxContestedRounds >= 2
    /\ ReleasesCap \in Nat \ {0}
    \* Three records in each round but the last, and one in that.
    /\ ResultsCap \in Nat /\ ResultsCap > 3 * (MaxContestedRounds - 1) + 1

Task == [status : {"pending", "assigned", "done", "failed"},
         open : SUBSET Nodes,          \* nodes with a running attempt
         closed : SUBSET Nodes,        \* connected nodes with an ended one
         gaveUp : SUBSET Nodes,        \* connected nodes that released one
         releases : Nat,               \* attempts with outcome "released"
         results : SUBSET Results,
         accepted : Identities \cup {NoResult},
         contestedRounds : Nat,
         resolvedByVote : BOOLEAN,
         requiredAgreement : {1, 2}]

NewTask(agreement) ==
    [status |-> "pending", open |-> {}, closed |-> {}, gaveUp |-> {}, releases |-> 0,
     results |-> {}, accepted |-> NoResult, contestedRounds |-> 0,
     resolvedByVote |-> FALSE, requiredAgreement |-> agreement]
-----------------------------------------------------------------------------
(* What a task record says. *)

IsOpen(t) == t.status \in {"pending", "assigned"}

\* The records of the current contested round.
Round(t) == {r \in t.results : r.round = t.contestedRounds}
Said(t, n) == {r \in Round(t) : r.node = n}
Answered(t, n) == Said(t, n) # {}

\* Does the task want one more attempt?
Wants(t) ==
    /\ IsOpen(t)
    /\ Cardinality(Round(t)) + Cardinality(t.open) < t.requiredAgreement

\* The refusals of `eligible` that depend on this task alone.
Eligible(t, n) == n \notin t.open /\ ~Answered(t, n)

\* Nor does a contested task go back to a node that reported on it while a
\* node that did not is free, or a task to a node that gave it up while
\* another is: if all these nodes have a free slot, does n take it?
ReportedBy(t, n) == \E r \in t.results : r.node = n

Willing(t, n, nodes) ==
    /\ Eligible(t, n)
    /\ t.contestedRounds > 0 /\ ReportedBy(t, n) => \A m \in nodes : ReportedBy(t, m)
    /\ n \in t.gaveUp => \A m \in nodes \ {n} : ~Eligible(t, m)

\* One open attempt, on another node, and nothing wanted: a twin may join
\* once that attempt is overdue.
Speculatable(t, n) ==
    /\ t.status = "assigned" /\ ~Wants(t)
    /\ Eligible(t, n)
    /\ Cardinality(t.open) = 1
-----------------------------------------------------------------------------
(* tasks.ts: attempts open and end. *)

AssignTask(t, n) == [t EXCEPT !.open = @ \cup {n}, !.status = "assigned"]

CloseAttempts(t, ns) ==
    [t EXCEPT !.open = @ \ ns, !.closed = @ \cup (t.open \cap ns)]

CancelOthers(t) == CloseAttempts(t, t.open)

FailTask(t) == [CancelOthers(t) EXCEPT !.status = "failed"]

\* An attempt went away: with none left running and nothing decided this
\* round the task is pending again.
ReleaseTask(t) ==
    IF t.status = "assigned" /\ t.open = {} /\ Round(t) = {}
    THEN [t EXCEPT !.status = "pending"] ELSE t

\* The record forgets who left, but not their open attempts.
LoseNodesBug(t, ns) == ReleaseTask([t EXCEPT !.closed = @ \ ns, !.gaveUp = @ \ ns])

\* releaseNode for these nodes: their attempts are lost, and being gone they
\* report no more.
LoseNodes(t, ns) ==
    ReleaseTask([t EXCEPT !.open = @ \ ns, !.closed = @ \ ns, !.gaveUp = @ \ ns])
-----------------------------------------------------------------------------
(* results.ts: a report is judged. *)

\* Settle on this identity: a trap fails the task, anything else completes it.
Accept(t, identity) ==
    [CancelOthers(t) EXCEPT
        !.accepted = identity,
        !.status = IF identity \in Traps THEN "failed" ELSE "done"]

\* Disagreement: a done task loses its result, and a new round begins.
Contest(t) ==
    [CancelOthers(t) EXCEPT
        !.accepted = IF t.status = "done" THEN NoResult ELSE @,
        !.contestedRounds = @ + 1,
        !.status = "pending"]

\* Votes are nodes, over the records of every round.
Votes(t, identity) ==
    Cardinality({n \in Nodes : \E r \in t.results :
                    r.node = n /\ r.identity = identity})

Reported(t) == {i \in Identities : \E r \in t.results : r.identity = i}

Leaders(t) ==
    {i \in Reported(t) : \A j \in Reported(t) : Votes(t, j) =< Votes(t, i)}

\* A tie counts as a majority.
SettleContestedTieBug(t) ==
    IF t.contestedRounds < 2 THEN {t}
    ELSE {Accept([t EXCEPT !.resolvedByVote = TRUE], i) : i \in Leaders(t)}

\* Nobody votes before the second contested round; a tie is decided, by report
\* order, only from the round cap on.
SettleContested(t) ==
    IF \/ t.contestedRounds < 2
       \/ /\ t.contestedRounds < MaxContestedRounds
          /\ \E i, j \in Leaders(t) : i # j
    THEN {t}
    ELSE {Accept([t EXCEPT !.resolvedByVote = TRUE], i) : i \in Leaders(t)}

Disputed(t) == \E r, s \in Round(t) : r.identity # s.identity

\* The ResultRecord of a report that arrives now.
Report(t, n, identity) ==
    [node |-> n, identity |-> identity, round |-> t.contestedRounds,
     nth |-> Cardinality(Said(t, n))]

Recorded(t, n, identity) == [t EXCEPT !.results = @ \cup {Report(t, n, identity)}]

\* A node may say the same thing twice.
IgnoredBug(t, n, identity) ==
    \/ Cardinality(t.results) >= ResultsCap
    \/ t.status = "failed"
    \/ t.status = "done" /\ identity = t.accepted

\* Reports that are dropped before they are weighed: the node said so already
\* this round, the evidence is full, or it verifies what was accepted.
Ignored(t, n, identity) ==
    \/ \E r \in Said(t, n) : r.nth = 0 /\ r.identity = identity
    \/ Cardinality(t.results) >= ResultsCap
    \/ t.status = "failed"
    \/ t.status = "done" /\ identity = t.accepted

\* A contradiction retracts a sealed task too.
WeighBug(t, n, identity, sealed) ==
    LET u == Recorded(t, n, identity)
    IN CASE Ignored(t, n, identity) -> {t}
         [] ~Ignored(t, n, identity) /\ (t.status = "done" \/ Disputed(u)) ->
               SettleContested(Contest(u))
         [] OTHER ->
               IF Cardinality(Round(u)) >= t.requiredAgreement
               THEN {Accept(u, identity)} ELSE {u}

\* onResult once the attempt is closed.  On a sealed task the record is kept
\* and nothing else changes.
Weigh(t, n, identity, sealed) ==
    LET u == Recorded(t, n, identity)
    IN CASE Ignored(t, n, identity) -> {t}
         [] ~Ignored(t, n, identity) /\ t.status = "done" ->
               IF sealed THEN {u} ELSE SettleContested(Contest(u))
         [] ~Ignored(t, n, identity) /\ IsOpen(t) ->
               IF Disputed(u) THEN SettleContested(Contest(u))
               ELSE IF Cardinality(Round(u)) >= t.requiredAgreement
                    THEN {Accept(u, identity)}
               ELSE {u}

\* The attempt a report names closes if it is still open; a report under an
\* earlier number closes nothing and is evidence only.
CloseReported(t, n, current) == IF current THEN CloseAttempts(t, {n}) ELSE t

OnResult(t, n, current, identity, sealed) ==
    Weigh(CloseReported(t, n, current), n, identity, sealed)

\* A report for an attempt n never held may verify or contest a done task,
\* and nothing else.
MayReport(t, n, current) ==
    IF current THEN n \in t.open ELSE n \in t.closed \/ t.status = "done"

\* A release is not counted: the task may be given up for ever.
OnReleasedBug(t, n) ==
    ReleaseTask([CloseAttempts(t, {n}) EXCEPT !.gaveUp = @ \cup {n}])

\* The node gave its open attempt up at its own deadline.
OnReleased(t, n) ==
    LET u == [CloseAttempts(t, {n}) EXCEPT !.releases = @ + 1,
                                           !.gaveUp = @ \cup {n}]
    IN IF u.releases >= ReleasesCap /\ IsOpen(u) THEN FailTask(u)
       ELSE ReleaseTask(u)

\* Redundancy is switched off: one report is enough for an open task, and it
\* settles on the one it holds.
SettleExisting(t) ==
    LET u == [t EXCEPT !.requiredAgreement = 1]
    IN IF Round(u) = {} THEN {u} ELSE {Accept(u, r.identity) : r \in Round(u)}
=============================================================================
