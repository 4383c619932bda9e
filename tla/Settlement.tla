----------------------------- MODULE Settlement -----------------------------
(***************************************************************************)
(* The life of one task (design D7, sections 6.3 to 6.5): nodes come and   *)
(* go, are given attempts, report, contradict each other, give up; the     *)
(* task is verified, contested, voted on, sealed when its stage is folded, *)
(* or ended with its execution.                                            *)
(*                                                                         *)
(* One action per event of core `apply` that touches the task.  A handler  *)
(* that ends in `advance` ends here in Dispatch: the same step hands the   *)
(* task to zero, one or two nodes.  How many is a choice, because the      *)
(* other tasks of the stage compete for the same slots.                    *)
(***************************************************************************)
EXTENDS Tasks

VARIABLES
    task,   \* the TaskRecord
    live,   \* ids of the connected nodes
    exec,   \* the task's execution: "running" or "ended"
    sealed  \* the execution has built on the task's result

vars == <<task, live, exec, sealed>>
-----------------------------------------------------------------------------
(* What happens in the tail of a handler. *)

\* What one run of fill can leave of task t with these nodes connected.
Filled(t, nodes) ==
    LET once == {AssignTask(t, n) : n \in {m \in nodes : Wants(t) /\ Eligible(t, m)}}
        twice == UNION {{AssignTask(u, n) : n \in {m \in nodes : Wants(u) /\ Eligible(u, m)}}
                            : u \in once}
        twins == {AssignTask(t, n) : n \in {m \in nodes : Speculatable(t, m)}}
    IN {t} \cup once \cup twice \cup twins

\* advance: only work of the running execution is given out.
Dispatch(t) ==
    task' \in IF exec' = "running" THEN Filled(t, live') ELSE {t}

\* The handler that turned the task into t settled it.
Settled(t) ==
    /\ ~IsOpen(t)
    /\ IsOpen(task) \/ t.contestedRounds # task.contestedRounds

\* afterTaskSettled.  A failed task fails its execution.  A done one is sealed
\* at once if it is a plan task or the last of its stage, which is then folded;
\* or the execution fails: over its compute budget, or two tasks wrote one path.
AfterTaskSettled(t) ==
    IF ~Settled(t) THEN UNCHANGED <<exec, sealed>>
    ELSE \/ t.status = "done" /\ sealed' \in BOOLEAN /\ UNCHANGED exec
         \/ exec' = "ended" /\ UNCHANGED sealed

\* endExecution, for this task.
EndTask(t) == IF IsOpen(t) THEN FailTask(t) ELSE CancelOthers(t)
-----------------------------------------------------------------------------
Init ==
    /\ task \in {NewTask(n) : n \in {1, 2}}
    /\ live \in SUBSET Nodes
    /\ exec = "running"
    /\ sealed = FALSE

\* hello: a node joins under a fresh id.  One with no record in the results
\* stands for every id not handed out yet.
Hello(n) ==
    /\ n \notin live /\ \A r \in task.results : r.node # n
    /\ live' = live \cup {n}
    /\ UNCHANGED <<exec, sealed>>
    /\ Dispatch(task)

\* A node's connection closes, or is refused.  This handler does not advance.
Disconnect(n) ==
    /\ n \in live
    /\ live' = live \ {n}
    /\ task' = LoseNodes(task, {n})
    /\ UNCHANGED <<exec, sealed>>

\* tick: the sweep forgets every silent node, then the work is given out again.
Sweep(silent) ==
    /\ silent # {}
    /\ live' = live \ silent
    /\ UNCHANGED <<exec, sealed>>
    /\ Dispatch(LoseNodes(task, silent))

\* result: n reports this identity for its open attempt (current), or for one
\* that was closed meanwhile or never its own.
Result(n, current, identity) ==
    /\ n \in live
    /\ MayReport(task, n, current)
    /\ UNCHANGED live
    /\ \E t \in IF exec = "running" THEN OnResult(task, n, current, identity, sealed)
              ELSE {CloseReported(task, n, current)} :
          AfterTaskSettled(t) /\ Dispatch(t)

\* result with the RELEASED error: n gives its open attempt up.
Release(n) ==
    /\ n \in live /\ n \in task.open
    /\ UNCHANGED live
    /\ LET t == OnReleased(task, n)
       IN AfterTaskSettled(t) /\ Dispatch(t)

\* Any other event that ends in advance, a tick included: the task is given out.
Advance ==
    /\ UNCHANGED <<live, exec, sealed>>
    /\ Dispatch(task)
    /\ task' # task

\* setRedundancy {on: false}.
RedundancyOff ==
    /\ exec = "running" /\ IsOpen(task)
    /\ UNCHANGED live
    /\ \E t \in SettleExisting(task) : AfterTaskSettled(t) /\ Dispatch(t)

\* foldStage: the last other task of the stage settled.
FoldStage ==
    /\ exec = "running" /\ task.status = "done" /\ ~sealed
    /\ sealed' = TRUE
    /\ UNCHANGED <<task, live, exec>>

\* Another task failed, a control ended the execution, or it finished.
EndExecution ==
    /\ exec = "running"
    /\ exec' = "ended"
    /\ task' = EndTask(task)
    /\ UNCHANGED <<live, sealed>>

\* A successor adopts the ledger: every node is gone, every attempt lost.
Adopt ==
    /\ live # {}
    /\ live' = {}
    /\ task' = LoseNodes(task, live)
    /\ UNCHANGED <<exec, sealed>>

Next ==
    \/ \E n \in Nodes : Hello(n) \/ Disconnect(n) \/ Release(n)
    \/ \E silent \in SUBSET live : Sweep(silent)
    \/ \E n \in Nodes, current \in BOOLEAN, i \in Identities : Result(n, current, i)
    \/ Advance
    \/ RedundancyOff
    \/ FoldStage
    \/ EndExecution
    \/ Adopt

Spec == Init /\ [][Next]_vars

\* The node holding an open attempt reports, gives it up at its deadline, or
\* is declared gone after four silent seconds.
AttemptEnds(n) ==
    \/ \E i \in Identities : Result(n, TRUE, i)
    \/ Release(n)
    \/ n \in task.open /\ (Disconnect(n) \/ \E silent \in SUBSET live : n \in silent /\ Sweep(silent))

\* The next advance gives the task out.  A node that takes it when every other
\* is idle takes it when some are busy, as soon as it has a free slot itself.
GivenOut ==
    /\ Wants(task) /\ \E n \in live : Willing(task, n, live)
    /\ Advance

\* The process ticks for ever, and every tick ends in advance.
FairSpec == Spec /\ WF_vars(GivenOut) /\ \A n \in Nodes : WF_vars(AttemptEnds(n))
-----------------------------------------------------------------------------
(* Properties. *)

TypeOK ==
    /\ task \in Task
    /\ live \in SUBSET Nodes
    /\ exec \in {"running", "ended"}
    /\ sealed \in BOOLEAN

\* At most two attempts are open, and only on connected nodes (design 6.10).
OpenAttempts == Cardinality(task.open) =< 2 /\ task.open \subseteq live

\* A task is never stranded: an open one whose attempts all ended wants a new
\* one, so fill will hand it out, and a settled one keeps no node busy.
NeverStranded ==
    IF IsOpen(task) THEN task.open = {} => Wants(task) ELSE task.open = {}

\* With redundancy on, a task is done only when two different nodes reported
\* the accepted identity since it was last contested, unless a vote chose it.
AgreedIn(t) ==
    t.status = "done" /\ t.requiredAgreement = 2 /\ ~t.resolvedByVote =>
        \E r, s \in Round(t) :
            /\ r.node # s.node
            /\ r.identity = t.accepted
            /\ s.identity = t.accepted

Agreement == AgreedIn(task)

\* The identity a vote elects has as many nodes behind it as any other, over
\* all rounds, and more than any other before the round cap.
ElectedIn(t) ==
    t.status = "done" /\ t.resolvedByVote /\ Round(t) = {} =>
        \A i \in Reported(t) \ {t.accepted} :
            IF t.contestedRounds < MaxContestedRounds
            THEN Votes(t, i) < Votes(t, t.accepted)
            ELSE Votes(t, i) =< Votes(t, t.accepted)

Elected == ElectedIn(task)

\* No report about an open task is dropped for want of room: the evidence cap
\* binds only once a task is settled for good.
EvidenceFits ==
    /\ Cardinality(task.results) =< ResultsCap
    /\ IsOpen(task) => Cardinality(task.results) < ResultsCap

\* An execution that ended leaves no task open.
EndedIsSettled == exec = "ended" => ~IsOpen(task)

\* The first accepted result is final unless a mismatch invalidates it, and a
\* mismatch retracts nothing once the stage is folded or the plan consumed:
\* a done task changes its result or status only with one more contested round
\* and a report this round that contradicts it (design 6.10).
Finality ==
    [][task.status = "done" /\ (task'.accepted # task.accepted \/ task'.status # "done") =>
        /\ ~sealed
        /\ task'.contestedRounds = task.contestedRounds + 1
        /\ \E r \in task'.results :
              r.round = task.contestedRounds /\ r.identity # task.accepted]_vars

\* Every connected node leaves the task to another.
Deferred ==
    /\ exec = "running" /\ Wants(task)
    /\ \A n \in live : ~Willing(task, n, live)

\* Once nodes stop leaving and as many are connected as the task needs, it is
\* settled and stays so; unless every node leaves it to another.
EventuallySettled ==
    /\ <>[][live \subseteq live']_live
    /\ <>[](Cardinality(live) >= task.requiredAgreement)
    /\ []<>~Deferred
    => <>[]~IsOpen(task)

-----------------------------------------------------------------------------
(* Why the safety properties hold: an invariant every step preserves. *)

\* A contested round that is over holds at most three records: the two that
\* agreed, or the one that waited, and the one that contradicted them.
Evidence(t, isSealed) ==
    /\ IsFiniteSet(t.results) /\ IsFiniteSet(t.open)
    /\ \A r \in t.results : r.round =< t.contestedRounds
    /\ Cardinality(t.results) =< ResultsCap
    /\ IsOpen(t) =>
          /\ t.contestedRounds < MaxContestedRounds
          /\ \/ Round(t) = {}
             \/ /\ t.requiredAgreement = 2
                /\ \E r \in t.results : Round(t) = {r} /\ r.nth = 0
    /\ ~isSealed /\ t.contestedRounds < MaxContestedRounds /\ t.status # "failed" =>
          /\ Cardinality(Round(t)) =< 2
          /\ Cardinality(t.results) =< 3 * t.contestedRounds + Cardinality(Round(t))

\* What every handler keeps of the task, given the nodes and the seal it has.
Sound(t, nodes, isSealed) ==
    /\ t \in Task
    /\ Cardinality(t.open) =< 2 /\ t.open \subseteq nodes
    /\ ~IsOpen(t) => t.open = {}
    /\ isSealed => t.status = "done"
    /\ Evidence(t, isSealed)
    /\ AgreedIn(t)
    /\ ElectedIn(t)

\* The inductive invariant: every part of it is needed to keep another.
IInv == TypeOK /\ Sound(task, live, sealed) /\ EndedIsSettled
=============================================================================
