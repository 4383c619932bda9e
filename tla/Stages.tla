------------------------------- MODULE Stages -------------------------------
(***************************************************************************)
(* One execution from its launch to its end (design sections 5.4 and 6.6,  *)
(* packages/core/src/execution.ts): the inherited filesystem is read back, *)
(* a plan task runs, its spec is fetched, the stage's tasks run, their     *)
(* results are folded into a manifest, the manifest is stored, the next    *)
(* stage is planned.                                                       *)
(*                                                                         *)
(* The store answers requests late, twice, with an error or never, while   *)
(* results are contradicted, people end the execution, the process crashes *)
(* and a successor adopts its ledger.                                      *)
(*                                                                         *)
(* Abstractions.  A task is its accepted result; how it gets one is module *)
(* Settlement.  A filesystem is the base it starts from and the results    *)
(* folded so far, a manifest is the filesystem it lists, and a hash is the *)
(* manifest it names.  Budgets and caps that fail an execution are         *)
(* choices.                                                                *)
(***************************************************************************)
EXTENDS Integers, Sequences

CONSTANTS
    Outputs,          \* results a run task can have
    Nothing,          \* null: no plan task, no root, nothing awaited
    StoreErrorsMax,   \* STORE_ERRORS_MAX
    MaxStages,        \* bound: a planner that got this far says it is done
    MaxTasks,         \* bound: tasks of a stage
    MaxRetractions    \* bound: contested done tasks, over the execution

ASSUME StagesAssumption ==
    /\ StoreErrorsMax \in Nat
    /\ MaxStages \in Nat
    /\ MaxTasks \in Nat \ {0}
    /\ MaxRetractions \in Nat

Open == "open"
Failed == "failed"

ASSUME OutputsAssumption == Outputs \cap {Open, Failed} = {}

VARIABLES
    exec,      \* the ExecutionRecord
    requests,  \* what this process asked of the store and may yet hear about
    origin,    \* the execution it inherits from still has its root
    legacy     \* the snapshots of this process do not say what is awaited

vars == <<exec, requests, origin, legacy>>
-----------------------------------------------------------------------------
(* BlobPurpose *)

InheritRoot == [type |-> "inheritRoot", stage |-> -1]
StageSpec(s) == [type |-> "stageSpec", stage |-> s]
Manifest(s) == [type |-> "manifest", stage |-> s]

Running(e) == e.status = "running"
Awaits(e) == e.awaiting # Nothing
AllDone(e) == e.tasks # <<>> /\ \A i \in DOMAIN e.tasks : e.tasks[i] \in Outputs

\* Any answer of the awaited type counts.
AnsweredBug(e, p) == Running(e) /\ Awaits(e) /\ e.awaiting.purpose.type = p.type

\* Is this the store answer the execution waits for?  Anything else is stale
\* or a repeat.
Answered(e, p) == Running(e) /\ Awaits(e) /\ e.awaiting.purpose = p

\* The filesystem with the results of the current stage.
StageFiles(e) == [e.files EXCEPT !.folded = Append(@, e.tasks)]

\* The manifest a put request carries; a fetch carries nothing.
Request(e, p) ==
    [purpose |-> p,
     bytes |-> CASE p.type # "manifest" -> Nothing
                 [] p = Manifest(-1) -> e.files
                 [] OTHER -> StageFiles(e)]

Await(e, p) ==
    [e EXCEPT !.awaiting =
        [purpose |-> p,
         errors |-> IF Awaits(e) /\ e.awaiting.purpose = p
                    THEN e.awaiting.errors ELSE 0]]

Settle(e) == [e EXCEPT !.awaiting = Nothing]

CreatePlan(e, s) == [e EXCEPT !.plan = [stage |-> s, status |-> Open]]

Bundle == [base |-> "bundle", folded |-> <<>>]
Inherited == [base |-> "inherited", folded |-> <<>>]

\* The inherited root is gone or unreadable: start from the bundle alone.
FromBundle(e) ==
    CreatePlan([Settle(e) EXCEPT !.files = Bundle, !.root = Bundle], 0)

Closed(status) == IF status = Open THEN Failed ELSE status
ClosedPlan(plan) == IF plan = Nothing THEN plan ELSE [plan EXCEPT !.status = Closed(@)]
ClosedTasks(tasks) == [i \in DOMAIN tasks |-> Closed(tasks[i])]

End(e, how) ==
    [Settle(e) EXCEPT !.status = how, !.plan = ClosedPlan(@), !.tasks = ClosedTasks(@)]

\* The store answer the execution needs next, read off its state.
PendingPurpose(e) ==
    CASE e.root = Nothing /\ e.plan = Nothing /\ e.tasks = <<>> -> InheritRoot
      [] e.plan # Nothing ->
            IF e.plan.status = "done" THEN StageSpec(e.plan.stage) ELSE Nothing
      [] e.plan = Nothing /\ AllDone(e) -> Manifest(e.stage)
      [] OTHER -> Nothing
-----------------------------------------------------------------------------
(* Steps of a handler.  pending: the requests still out afterwards. *)

\* issue: ask the store and remember what is awaited.
Issue(e, p, pending) ==
    IF p = InheritRoot /\ ~origin
    THEN exec' = FromBundle(e) /\ requests' = pending
    ELSE exec' = Await(e, p) /\ requests' = pending \cup {Request(e, p)}

Fail(e, pending) == exec' = End(e, "failed") /\ requests' = pending

\* The stage counts as sealed only once its manifest is stored.
FoldBug(e) == Issue(e, Manifest(e.stage), requests)

\* foldStage: two tasks may have written one path differently, or the files
\* outgrown their cap.
Fold(e) ==
    \/ Fail(e, requests)
    \/ Issue([e EXCEPT !.sealedStage = e.stage], Manifest(e.stage), requests)

\* afterTaskSettled for a done task; the execution may be over its compute
\* budget.
AfterTaskDone(e) ==
    IF AllDone(e) THEN Fold(e)
    ELSE \/ exec' = e /\ UNCHANGED requests
         \/ Fail(e, requests)

\* What is left of the requests after an answer to q.  A request stands for
\* every time it was made, so a repeat of the answer may still come.
Rest(q) == {requests, requests \ {q}}
-----------------------------------------------------------------------------
Init ==
    /\ requests = {}
    /\ legacy \in BOOLEAN
    /\ \E inherits \in BOOLEAN :
          /\ origin = inherits
          /\ exec = [status |-> "queued", stage |-> -1, sealedStage |-> -1,
                     root |-> IF inherits THEN Nothing ELSE Bundle,
                     files |-> Bundle, plan |-> Nothing, tasks |-> <<>>,
                     retractions |-> 0, awaiting |-> Nothing]

\* maybeStart takes the execution off the queue.
Start ==
    /\ exec.status = "queued"
    /\ LET e == [exec EXCEPT !.status = "running"]
       IN IF e.root = Nothing THEN Issue(e, InheritRoot, requests)
          ELSE exec' = CreatePlan(e, 0) /\ UNCHANGED requests
    /\ UNCHANGED <<origin, legacy>>

\* The plan task is done: fetch its spec, unless the compute budget is spent.
PlanDone ==
    /\ Running(exec) /\ exec.plan # Nothing /\ exec.plan.status = Open
    /\ LET e == [exec EXCEPT !.plan.status = "done"]
       IN Fail(e, requests) \/ Issue(e, StageSpec(e.plan.stage), requests)
    /\ UNCHANGED <<origin, legacy>>

\* A run task is done, with this result.
TaskDone(i, output) ==
    /\ Running(exec) /\ exec.tasks[i] = Open
    /\ AfterTaskDone([exec EXCEPT !.tasks[i] = output])
    /\ UNCHANGED <<origin, legacy>>

\* A task failed.
TaskFailed ==
    /\ Running(exec)
    /\ \/ exec.plan # Nothing /\ exec.plan.status = Open
       \/ \E i \in DOMAIN exec.tasks : exec.tasks[i] = Open
    /\ Fail(exec, requests)
    /\ UNCHANGED <<origin, legacy>>

\* sealed: is the current stage folded?
IsSealed(e) == e.stage =< e.sealedStage

\* A node contradicts a done task of a stage that is not folded yet.
TaskRetracted(i) ==
    /\ Running(exec) /\ exec.tasks[i] \in Outputs /\ ~IsSealed(exec)
    /\ exec.retractions < MaxRetractions
    /\ exec' = [exec EXCEPT !.tasks[i] = Open, !.retractions = @ + 1]
    /\ UNCHANGED <<requests, origin, legacy>>

\* blobFetched: the spec a plan task wrote.  The blob may be missing, the spec
\* unreadable or over the cap of tasks ("bad").
SpecFetched(q, spec) ==
    /\ q.purpose.type = "stageSpec"
    /\ \E pending \in Rest(q) :
        /\ LET e == Settle(exec)
           IN CASE ~Answered(exec, q.purpose) -> exec' = exec /\ requests' = pending
                [] Answered(exec, q.purpose) /\ spec.kind = "bad" -> Fail(e, pending)
                [] Answered(exec, q.purpose) /\ spec.kind = "done" ->
                      /\ exec' = End([e EXCEPT !.plan = Nothing], "done")
                      /\ requests' = pending
                [] OTHER ->
                      /\ exec' = [e EXCEPT !.plan = Nothing,
                                           !.stage = q.purpose.stage,
                                           !.tasks = [i \in 1..spec.tasks |-> Open]]
                      /\ requests' = pending
    /\ UNCHANGED <<origin, legacy>>

\* What a planner may say at this stage.
Specs(s) ==
    [kind : {"bad", "done"}, tasks : {0}]
        \cup (IF s < MaxStages THEN [kind : {"stage"}, tasks : 1..MaxTasks] ELSE {})

\* blobFetched: the inherited root's manifest, or nothing readable.
RootFetched(q, readable) ==
    /\ q.purpose = InheritRoot
    /\ \E pending \in Rest(q) :
        /\ CASE ~Answered(exec, InheritRoot) -> exec' = exec /\ requests' = pending
             [] Answered(exec, InheritRoot) /\ ~readable ->
                   exec' = FromBundle(exec) /\ requests' = pending
             [] OTHER -> Issue([Settle(exec) EXCEPT !.files = Inherited], Manifest(-1), pending)
    /\ UNCHANGED <<origin, legacy>>

\* One error too many is forgiven.
FetchFailedBug(q) ==
    /\ q.purpose.type # "manifest"
    /\ \E pending \in Rest(q) :
        /\ IF ~Answered(exec, q.purpose) THEN exec' = exec /\ requests' = pending
           ELSE LET e == [exec EXCEPT !.awaiting.errors = @ + 1]
                IN IF exec.awaiting.errors > StoreErrorsMax THEN Fail(e, pending)
                   ELSE exec' = e /\ requests' = pending
    /\ UNCHANGED <<origin, legacy>>

\* blobFetched with an error: counted, and past the maximum the execution fails.
FetchFailed(q) ==
    /\ q.purpose.type # "manifest"
    /\ \E pending \in Rest(q) :
        /\ IF ~Answered(exec, q.purpose) THEN exec' = exec /\ requests' = pending
           ELSE LET e == [exec EXCEPT !.awaiting.errors = @ + 1]
                IN IF e.awaiting.errors > StoreErrorsMax THEN Fail(e, pending)
                   ELSE exec' = e /\ requests' = pending
    /\ UNCHANGED <<origin, legacy>>

\* blobStored: the manifest is in the store, the root moves to it.
ManifestStored(q) ==
    /\ q.purpose.type = "manifest"
    /\ \E pending \in Rest(q) :
        /\ requests' = pending
        /\ LET e == [Settle(exec) EXCEPT !.root = q.bytes]
           IN exec' = CASE ~Answered(exec, q.purpose) -> exec
                        [] Answered(exec, q.purpose) /\ q.purpose.stage = -1 -> CreatePlan(e, 0)
                        [] OTHER -> CreatePlan([e EXCEPT !.files = StageFiles(exec)],
                                               q.purpose.stage + 1)
    /\ UNCHANGED <<origin, legacy>>

\* The put failed: the process logs it and tells the core nothing.
PutFailed(q) ==
    /\ q \in requests /\ q.purpose.type = "manifest"
    /\ requests' = requests \ {q}
    /\ UNCHANGED <<exec, origin, legacy>>

\* The answer never comes.
Lost(q) ==
    /\ q \in requests
    /\ requests' = requests \ {q}
    /\ UNCHANGED <<exec, origin, legacy>>

\* Only fetches are asked again.
RetryBug ==
    /\ Running(exec) /\ Awaits(exec) /\ exec.awaiting.purpose.type # "manifest"
    /\ Issue(exec, exec.awaiting.purpose, requests)
    /\ UNCHANGED <<origin, legacy>>

\* resumePending on a tick, STORE_RETRY_MS after the request: ask again.
Retry ==
    /\ Running(exec) /\ Awaits(exec)
    /\ Issue(exec, exec.awaiting.purpose, requests)
    /\ UNCHANGED <<origin, legacy>>

\* What an adopted execution awaits.  A snapshot of an older control plane
\* says only that something was awaited.
Restored(e) ==
    IF ~legacy \/ ~Awaits(e) THEN e
    ELSE IF PendingPurpose(e) = Nothing THEN Settle(e)
    ELSE [e EXCEPT !.awaiting.purpose = PendingPurpose(e)]

\* The process dies and another adopts the ledger: no answer to the dead one
\* arrives, and what was awaited is asked again.
Adopt ==
    /\ Running(exec)
    /\ LET e == Restored(exec)
       IN IF Awaits(e) THEN Issue(e, e.awaiting.purpose, {})
          ELSE exec' = e /\ requests' = {}
    /\ legacy' = FALSE
    /\ UNCHANGED origin

\* pruneExecutions drops the record of the execution this one inherits from.
OriginPruned ==
    /\ origin /\ origin' = FALSE
    /\ UNCHANGED <<exec, requests, legacy>>

\* A person ends it: restart, skip, stop or kill.
Cancel ==
    /\ exec.status \in {"queued", "running"}
    /\ exec' = End(exec, "cancelled")
    /\ UNCHANGED <<requests, origin, legacy>>

Fetched(q) ==
    \/ \E spec \in Specs(q.purpose.stage) : SpecFetched(q, spec)
    \/ \E readable \in BOOLEAN : RootFetched(q, readable)
    \/ FetchFailed(q)

TaskSettles ==
    PlanDone \/ TaskFailed \/ \E i \in DOMAIN exec.tasks, o \in Outputs : TaskDone(i, o)

Next ==
    \/ Start
    \/ PlanDone
    \/ \E i \in DOMAIN exec.tasks, o \in Outputs : TaskDone(i, o)
    \/ TaskFailed
    \/ \E i \in DOMAIN exec.tasks : TaskRetracted(i)
    \/ \E q \in requests : Fetched(q) \/ ManifestStored(q) \/ PutFailed(q) \/ Lost(q)
    \/ Retry
    \/ Adopt
    \/ OriginPruned
    \/ Cancel

Spec == Init /\ [][Next]_vars

\* The store answers the awaited request, one way or another.
Answers(q) == Answered(exec, q.purpose) /\ (Fetched(q) \/ ManifestStored(q))

\* The machine starts what is queued and ticks for ever; tasks settle (module
\* Settlement).  A request asked again and again is answered some day: with an
\* error, too, where it is a fetch.
FairSpec ==
    /\ Spec
    /\ WF_vars(Start) /\ WF_vars(Retry) /\ WF_vars(TaskSettles)
    /\ SF_vars(\E q \in requests : Answers(q))

-----------------------------------------------------------------------------
(* Properties. *)

Stage == -1..MaxStages
Purpose == [type : {"inheritRoot", "stageSpec", "manifest"}, stage : Stage]
Files == [base : {"bundle", "inherited"}, folded : Seq(Seq(Outputs))]
Plan == [stage : 0..MaxStages, status : {Open, "done", Failed}]
Awaited == [purpose : Purpose, errors : 0..StoreErrorsMax]
Ended == {"done", "failed", "cancelled"}

\* null is none of the records it stands in for.
ASSUME NothingAssumption ==
    Nothing \notin Purpose /\ Nothing \notin Files /\ Nothing \notin Plan /\ Nothing \notin Awaited

Execution ==
    [status : {"queued", "running"} \cup Ended,
     stage : -1..MaxStages - 1,
     sealedStage : -1..MaxStages - 1,
     root : {Nothing} \cup Files,
     files : Files,
     plan : {Nothing} \cup Plan,
     tasks : Seq(Outputs \cup {Open, Failed}),
     retractions : 0..MaxRetractions,
     awaiting : {Nothing} \cup Awaited]

Asked == [purpose : Purpose, bytes : {Nothing} \cup Files]

TypeOK ==
    /\ exec \in Execution
    /\ requests \subseteq Asked
    /\ origin \in BOOLEAN /\ legacy \in BOOLEAN

\* The root is the hash of the manifest of exactly the files the execution
\* records: the results folded again when the answer arrives are those of the
\* manifest that was put, whatever was contradicted or asked again meanwhile.
RootIsFiles == exec.root \in {Nothing, exec.files}

\* Stages follow one another, each begun once, after the one before was folded
\* and its manifest stored, and only by the spec its own plan task wrote: no
\* late or repeated answer begins a stage again or skips one, and no folded
\* result is ever lost.
StagesInOrder ==
    [][\/ exec'.stage # exec.stage
       \/ DOMAIN exec'.tasks # DOMAIN exec.tasks
       \/ IsSealed(exec) /\ exec'.tasks # exec.tasks
       =>
        /\ exec'.stage = exec.stage + 1
        /\ exec.sealedStage = exec.stage
        /\ Len(exec.root.folded) = exec'.stage
        /\ exec.awaiting.purpose = StageSpec(exec'.stage)]_vars

\* Every execution that is launched ends.
EventuallyEnds == <>(exec.status \in {"done", "failed", "cancelled"})
-----------------------------------------------------------------------------
(* The inductive invariant behind RootIsFiles and StagesInOrder, of an       *)
(* execution e and the requests rs still out.                                *)

\* Waiting for the store answer p is all that e does: it reads or stores the
\* inherited files, reads the spec of the next stage, or stores the stage.
Expects(e, p) ==
    \/ /\ e.root = Nothing /\ e.stage = -1 /\ e.plan = Nothing
       /\ p = InheritRoot \/ (p = Manifest(-1) /\ e.files = Inherited)
    \/ /\ e.root # Nothing /\ IsSealed(e) /\ Len(e.files.folded) = e.stage + 1
       /\ e.plan # Nothing /\ e.plan.stage = e.stage + 1 /\ e.plan.status = "done"
       /\ p = StageSpec(e.stage + 1)
    \/ /\ e.root # Nothing /\ IsSealed(e) /\ Len(e.files.folded) = e.stage
       /\ e.stage >= 0 /\ e.plan = Nothing /\ AllDone(e)
       /\ p = Manifest(e.stage)

\* The plan task of the next stage runs, or the tasks of the present one.
TasksRun(e) ==
    /\ e.root # Nothing /\ e.awaiting = Nothing
    /\ \/ /\ IsSealed(e) /\ Len(e.files.folded) = e.stage + 1
          /\ e.plan # Nothing /\ e.plan.stage = e.stage + 1 /\ e.plan.status = Open
       \/ /\ ~IsSealed(e) /\ Len(e.files.folded) = e.stage
          /\ e.plan = Nothing

\* What a running execution is doing; a queued one has done nothing.
Progress(e) ==
    /\ e.status = "queued" =>
          /\ e.stage = -1 /\ e.plan = Nothing /\ e.awaiting = Nothing
          /\ e.files.folded = <<>>
    /\ Running(e) => IF Awaits(e) THEN Expects(e, e.awaiting.purpose) ELSE TasksRun(e)

\* The root follows the files, the folded stages follow the stages begun.
Shape(e) ==
    /\ e.root \in {Nothing, e.files}
    /\ e.sealedStage =< e.stage /\ e.stage =< e.sealedStage + 1
    /\ e.stage = -1 <=> e.tasks = <<>>
    /\ IsSealed(e) => \A i \in DOMAIN e.tasks : e.tasks[i] \in Outputs

\* Every manifest put is of a folded stage, or the inherited one.
PutsFolded(e, rs) ==
    \A q \in rs : q.purpose.type = "manifest" =>
        /\ q.purpose.stage =< e.sealedStage
        /\ q.purpose.stage = -1 => q.bytes = Inherited

\* The manifest awaited is the one the execution would fold again.
PutsMatch(e, rs) ==
    \A q \in rs : q.purpose.type = "manifest" /\ Answered(e, q.purpose) =>
        q.bytes = Request(e, q.purpose).bytes

Sound(e, rs) ==
    /\ e \in Execution /\ rs \subseteq Asked
    /\ Shape(e) /\ Progress(e) /\ PutsFolded(e, rs) /\ PutsMatch(e, rs)

IInv == Sound(exec, requests) /\ origin \in BOOLEAN /\ legacy \in BOOLEAN
=============================================================================
