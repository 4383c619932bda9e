---------------------------- MODULE StagesProofs ----------------------------
(***************************************************************************)
(* Proofs about Stages for any set of outputs, any number of stages, tasks *)
(* and store errors: the root is the manifest of the recorded files, and   *)
(* stages follow one another in order.  The operators of a handler keep    *)
(* `Sound`; then one lemma per action.                                     *)
(***************************************************************************)
EXTENDS Stages, TLAPS

\* The step from e to f neither begins a stage nor loses a folded result.
Keeps(e, f) ==
    /\ f.stage = e.stage /\ DOMAIN f.tasks = DOMAIN e.tasks
    /\ IsSealed(e) => f.tasks = e.tasks

\* The step from e to f may begin the next stage, as StagesInOrder has it.
InOrder(e, f) ==
    \/ Keeps(e, f)
    \/ /\ f.stage = e.stage + 1
       /\ e.sealedStage = e.stage
       /\ Len(e.root.folded) = f.stage
       /\ e.awaiting.purpose = StageSpec(f.stage)

\* Fewer requests are as sound.
LEMMA FewerRequests ==
    ASSUME NEW e, NEW rs, Sound(e, rs), NEW few \in SUBSET rs
    PROVE  Sound(e, few)
BY DEF Sound, PutsFolded, PutsMatch

\* An ended execution is sound wherever it was, and keeps its folded results.
LEMMA EndSound ==
    ASSUME NEW e \in Execution, NEW rs \in SUBSET Asked, NEW how \in Ended,
           Shape(e), PutsFolded(e, rs)
    PROVE  Sound(End(e, how), rs) /\ Keeps(e, End(e, how))
<1> DEFINE f == End(e, how)
           plan == ClosedPlan(e.plan)
           tasks == ClosedTasks(e.tasks)
<1>1. plan \in {Nothing} \cup Plan
  BY DEF Execution, Plan, ClosedPlan, Closed
<1>2. /\ tasks \in Seq(Outputs \cup {Open, Failed}) /\ DOMAIN tasks = DOMAIN e.tasks
      /\ tasks = <<>> <=> e.tasks = <<>>
  <2>1. e.tasks \in Seq(Outputs \cup {Open, Failed})
    BY DEF Execution
  <2>2. tasks \in [1..Len(e.tasks) -> Outputs \cup {Open, Failed}]
    BY <2>1 DEF ClosedTasks, Closed
  <2> QED BY <2>1, <2>2
<1>3. /\ f.status = how /\ f.stage = e.stage /\ f.sealedStage = e.sealedStage
      /\ f.root = e.root /\ f.files = e.files /\ f.tasks = tasks
      /\ f.awaiting = Nothing /\ f.plan = plan /\ f.retractions = e.retractions
  BY DEF End, Settle, Execution
<1>4. f \in Execution
  BY <1>1, <1>2 DEF End, Settle, Execution
<1>5. IsSealed(e) => tasks = e.tasks
  BY OutputsAssumption DEF Shape, Execution, ClosedTasks, Closed
<1> HIDE DEF f, tasks, plan
<1>6. Shape(f)
  BY <1>2, <1>3, <1>5 DEF Shape, IsSealed
<1>7. how \notin {"queued", "running"}
  BY DEF Ended
<1>8. Progress(f) /\ PutsFolded(f, rs) /\ PutsMatch(f, rs)
  BY <1>3, <1>7 DEF Progress, PutsFolded, PutsMatch, Answered, Running
<1>9. Keeps(e, f)
  BY <1>2, <1>3, <1>5 DEF Keeps
<1> QED BY <1>4, <1>6, <1>8, <1>9 DEF Sound, f

\* Without the inherited root the execution starts from the bundle.
LEMMA FromBundleSound ==
    ASSUME NEW e \in Execution, NEW rs \in SUBSET Asked, Running(e),
           Shape(e), PutsFolded(e, rs), e.stage = -1
    PROVE  Sound(FromBundle(e), rs) /\ Keeps(e, FromBundle(e))
<1> DEFINE f == FromBundle(e)
           plan == [stage |-> 0, status |-> Open]
<1> USE StagesAssumption, NothingAssumption
<1>1. Bundle \in Files /\ plan \in Plan
  BY DEF Bundle, Files, Plan
<1>2. /\ f.status = e.status /\ f.stage = e.stage /\ f.sealedStage = e.sealedStage
      /\ f.root = Bundle /\ f.files = Bundle /\ f.tasks = e.tasks
      /\ f.awaiting = Nothing /\ f.plan = plan
  BY DEF FromBundle, CreatePlan, Settle, Execution
<1>3. f \in Execution
  BY <1>1 DEF FromBundle, CreatePlan, Settle, Execution
<1> HIDE DEF f
<1>4. Shape(f)
  BY <1>2 DEF Shape, IsSealed
<1>5. Progress(f)
  <2>1. Len(Bundle.folded) = 0 /\ Bundle # Nothing
    BY <1>1 DEF Bundle
  <2>2. e.sealedStage = -1
    BY DEF Shape, Execution
  <2> QED BY <1>1, <1>2, <2>1, <2>2 DEF Progress, Running, Awaits, TasksRun, IsSealed
<1>6. PutsFolded(f, rs) /\ PutsMatch(f, rs)
  BY <1>2 DEF PutsFolded, PutsMatch, Answered, Awaits
<1>7. Keeps(e, f)
  BY <1>2 DEF Keeps
<1> QED BY <1>3, <1>4, <1>5, <1>6, <1>7 DEF Sound, f

\* The files of a stage whose tasks are all done are files.
LEMMA StageFilesType ==
    ASSUME NEW e \in Execution, AllDone(e)
    PROVE  /\ StageFiles(e) \in Files /\ StageFiles(e).base = e.files.base
           /\ StageFiles(e).folded = Append(e.files.folded, e.tasks)
<1>1. e.tasks \in Seq(Outputs) /\ e.files \in Files
  BY DEF Execution, AllDone
<1>2. Append(e.files.folded, e.tasks) \in Seq(Seq(Outputs))
  BY <1>1 DEF Files
<1> QED BY <1>1, <1>2 DEF StageFiles, Files

\* What a request for an expected purpose carries.
LEMMA RequestType ==
    ASSUME NEW e \in Execution, NEW p \in Purpose, Expects(e, p)
    PROVE  /\ Request(e, p) \in Asked /\ Request(e, p).purpose = p
           /\ p.type = "manifest" =>
                  p.stage =< e.sealedStage /\ (p.stage = -1 => Request(e, p).bytes = Inherited)
<1>1. e.files \in Files /\ e.sealedStage \in -1..MaxStages - 1 /\ e.stage \in -1..MaxStages - 1
  BY DEF Execution
<1>2. CASE p.type # "manifest"
  <2>1. Request(e, p) = [purpose |-> p, bytes |-> Nothing]
    BY <1>2 DEF Request, Manifest
  <2> QED BY <1>2, <2>1 DEF Asked
<1>3. CASE p = Manifest(-1)
  <2>1. e.files = Inherited
    BY <1>1, <1>3 DEF Expects, Manifest, InheritRoot, StageSpec
  <2>2. p.type = "manifest" /\ p.stage = -1
    BY <1>3 DEF Manifest
  <2>3. Request(e, p) = [purpose |-> p, bytes |-> e.files]
    BY <1>3, <2>2 DEF Request
  <2> QED BY <1>1, <2>1, <2>2, <2>3 DEF Asked
<1>4. CASE p.type = "manifest" /\ p # Manifest(-1)
  <2>1. p = Manifest(e.stage) /\ AllDone(e) /\ e.stage >= 0 /\ IsSealed(e)
    BY <1>4 DEF Expects, InheritRoot, StageSpec
  <2>2. Request(e, p) = [purpose |-> p, bytes |-> StageFiles(e)]
    BY <1>4 DEF Request
  <2> QED BY <1>1, <2>1, <2>2, StageFilesType DEF Asked, Manifest, IsSealed
<1> QED BY <1>2, <1>3, <1>4

\* Requests already out for p carry what is asked now.
Agree(e, p, pending) ==
    \A q \in pending : p.type = "manifest" /\ q.purpose = p => q.bytes = Request(e, p).bytes

\* Asking the store for what the execution expects keeps it sound.
LEMMA IssueSound ==
    ASSUME NEW e \in Execution, NEW p \in Purpose, NEW pending \in SUBSET Asked,
           Running(e), Shape(e), PutsFolded(e, pending), Expects(e, p),
           Agree(e, p, pending), Issue(e, p, pending)
    PROVE  Sound(exec', requests') /\ Keeps(e, exec')
<1>1. CASE p = InheritRoot /\ ~origin
  <2>1. e.stage = -1
    BY <1>1 DEF Expects, InheritRoot, StageSpec, Manifest
  <2> QED BY <1>1, <2>1, FromBundleSound DEF Issue
<1>2. CASE ~(p = InheritRoot /\ ~origin)
  <2> DEFINE f == Await(e, p)
             q0 == Request(e, p)
             errors == IF Awaits(e) /\ e.awaiting.purpose = p THEN e.awaiting.errors ELSE 0
  <2>1. exec' = f /\ requests' = pending \cup {q0}
    BY <1>2 DEF Issue
  <2>2. errors \in 0..StoreErrorsMax
    BY StagesAssumption DEF Execution, Awaited, Awaits
  <2>3. [purpose |-> p, errors |-> errors] \in Awaited
    BY <2>2 DEF Awaited
  <2>4. /\ f.status = e.status /\ f.stage = e.stage /\ f.sealedStage = e.sealedStage
        /\ f.root = e.root /\ f.files = e.files /\ f.tasks = e.tasks /\ f.plan = e.plan
        /\ f.awaiting = [purpose |-> p, errors |-> errors]
    BY DEF Await, Execution
  <2>5. f \in Execution
    BY <2>3 DEF Await, Execution
  <2> HIDE DEF f, q0, errors
  <2>6. q0 \in Asked /\ q0.purpose = p
    BY RequestType DEF q0
  <2>7. Shape(f) /\ Keeps(e, f)
    BY <2>4 DEF Shape, IsSealed, Keeps
  <2>8. Progress(f)
    <3>1. Awaits(f) /\ f.awaiting.purpose = p
      BY <2>3, <2>4, NothingAssumption DEF Awaits
    <3>2. Expects(f, p)
      BY <2>4 DEF Expects, IsSealed, AllDone
    <3> QED BY <2>4, <3>1, <3>2 DEF Progress, Running
  <2>9. PutsFolded(f, pending \cup {q0})
    BY <2>4, <2>6, RequestType DEF PutsFolded, q0
  <2>10. PutsMatch(f, pending \cup {q0})
    <3> SUFFICES ASSUME NEW q \in pending \cup {q0}, q.purpose.type = "manifest", q.purpose = p
                 PROVE  q.bytes = Request(f, p).bytes
      BY <2>4 DEF PutsMatch, Answered
    <3>1. Request(f, p) = Request(e, p)
      BY <2>4 DEF Request, StageFiles
    <3> QED BY <3>1 DEF Agree, q0
  <2> QED BY <2>1, <2>5, <2>6, <2>7, <2>8, <2>9, <2>10 DEF Sound
<1> QED BY <1>1, <1>2

\* Folding a stage whose tasks are all done keeps the execution sound.
LEMMA FoldSound ==
    ASSUME NEW e \in Execution, Running(e), Shape(e), requests \subseteq Asked,
           PutsFolded(e, requests), e.root # Nothing, e.plan = Nothing, AllDone(e),
           ~IsSealed(e), Len(e.files.folded) = e.stage, Fold(e)
    PROVE  Sound(exec', requests') /\ Keeps(e, exec')
<1>1. CASE Fail(e, requests)
  BY <1>1, EndSound DEF Fail, Ended
<1>2. CASE Issue([e EXCEPT !.sealedStage = e.stage], Manifest(e.stage), requests)
  <2> DEFINE f == [e EXCEPT !.sealedStage = e.stage]
             p == Manifest(e.stage)
  <2>1. e.stage \in 0..MaxStages - 1 /\ e.sealedStage < e.stage
    BY DEF Execution, IsSealed
  <2>2. /\ f \in Execution /\ f.status = e.status /\ f.stage = e.stage /\ f.sealedStage = e.stage
        /\ f.root = e.root /\ f.files = e.files /\ f.tasks = e.tasks /\ f.plan = e.plan
    BY DEF Execution
  <2>3. Issue(f, p, requests)
    BY <1>2
  <2> HIDE DEF f
  <2>4. p \in Purpose /\ p.type = "manifest" /\ p.stage = e.stage
    BY <2>1, StagesAssumption DEF Manifest, Purpose, Stage
  <2>5. Shape(f) /\ Running(f) /\ Expects(f, p)
    BY <2>1, <2>2 DEF Shape, IsSealed, AllDone, Running, Expects
  <2>6. PutsFolded(f, requests) /\ Agree(f, p, requests)
    <3> SUFFICES ASSUME NEW q \in requests, q.purpose.type = "manifest"
                 PROVE  /\ q.purpose.stage =< e.stage /\ q.purpose # p
                        /\ q.purpose.stage = -1 => q.bytes = Inherited
      BY <2>2 DEF PutsFolded, Agree
    <3>1. q.purpose.stage \in Stage /\ q.purpose.stage =< e.sealedStage
      BY DEF PutsFolded, Asked, Purpose
    <3>2. e.sealedStage \in -1..MaxStages - 1
      BY DEF Execution
    <3> QED BY <2>1, <2>4, <3>1, <3>2, StagesAssumption DEF PutsFolded, Stage
  <2> HIDE DEF p
  <2>7. Sound(exec', requests') /\ Keeps(f, exec')
    BY <2>2, <2>3, <2>4, <2>5, <2>6, IssueSound
  <2> QED BY <2>2, <2>7 DEF Keeps
<1> QED BY <1>1, <1>2 DEF Fold
-----------------------------------------------------------------------------
(* Each action keeps the invariant and the order of the stages. *)

LEMMA StartSound ==
    ASSUME IInv, Start
    PROVE  Sound(exec', requests') /\ InOrder(exec, exec')
<1> DEFINE e == [exec EXCEPT !.status = "running"]
<1>1. /\ exec \in Execution /\ Shape(exec) /\ PutsFolded(exec, requests) /\ requests \subseteq Asked
      /\ exec.stage = -1 /\ exec.plan = Nothing /\ exec.awaiting = Nothing
      /\ exec.files.folded = <<>>
  BY DEF IInv, Sound, Progress, Start
<1>2. /\ e \in Execution /\ e.status = "running" /\ e.stage = exec.stage
      /\ e.sealedStage = exec.sealedStage /\ e.root = exec.root /\ e.files = exec.files
      /\ e.tasks = exec.tasks /\ e.plan = exec.plan /\ e.awaiting = exec.awaiting
  BY <1>1 DEF Execution
<1>3. IF e.root = Nothing THEN Issue(e, InheritRoot, requests)
      ELSE exec' = CreatePlan(e, 0) /\ UNCHANGED requests
  BY DEF Start
<1> HIDE DEF e
<1>4. Shape(e) /\ PutsFolded(e, requests) /\ Running(e)
  BY <1>1, <1>2 DEF Shape, PutsFolded, Running, IsSealed
<1>5. exec.sealedStage = -1
  BY <1>1 DEF Shape, Execution
<1>6. CASE e.root = Nothing
  <2>1. InheritRoot \in Purpose /\ Expects(e, InheritRoot) /\ Agree(e, InheritRoot, requests)
    BY <1>1, <1>2, <1>6, StagesAssumption DEF InheritRoot, Purpose, Stage, Expects, Agree
  <2>2. Sound(exec', requests') /\ Keeps(e, exec')
    BY <1>1, <1>2, <1>3, <1>4, <1>6, <2>1, IssueSound
  <2> QED BY <1>2, <2>2 DEF InOrder, Keeps, IsSealed
<1>7. CASE e.root # Nothing
  <2> DEFINE f == CreatePlan(e, 0)
             plan == [stage |-> 0, status |-> Open]
  <2>1. plan \in Plan
    BY StagesAssumption DEF Plan
  <2>2. /\ f \in Execution /\ f.status = "running" /\ f.stage = -1
        /\ f.sealedStage = e.sealedStage /\ f.root = e.root /\ f.files = e.files
        /\ f.tasks = e.tasks /\ f.plan = plan /\ f.awaiting = Nothing
    BY <1>1, <1>2, <2>1 DEF CreatePlan, Execution
  <2>3. exec' = f /\ requests' = requests
    BY <1>3, <1>7
  <2> HIDE DEF f
  <2>4. Shape(f) /\ PutsFolded(f, requests) /\ PutsMatch(f, requests)
    BY <1>1, <1>2, <1>4, <2>2 DEF Shape, PutsFolded, PutsMatch, Answered, Awaits, IsSealed
  <2>5. Progress(f)
    BY <1>1, <1>2, <1>5, <1>7, <2>1, <2>2, NothingAssumption
       DEF Progress, Running, Awaits, TasksRun, IsSealed
  <2> QED BY <1>1, <1>2, <2>2, <2>3, <2>4, <2>5 DEF Sound, InOrder, Keeps
<1> QED BY <1>6, <1>7

LEMMA PlanDoneSound ==
    ASSUME IInv, PlanDone
    PROVE  Sound(exec', requests') /\ InOrder(exec, exec')
<1> DEFINE e == [exec EXCEPT !.plan.status = "done"]
           p == StageSpec(e.plan.stage)
<1>1. /\ exec \in Execution /\ Shape(exec) /\ PutsFolded(exec, requests) /\ requests \subseteq Asked
      /\ exec.plan \in Plan /\ exec.plan.status = Open /\ exec.plan # Nothing /\ Running(exec)
  BY DEF IInv, Sound, PlanDone, Execution
<1>2. /\ exec.root # Nothing /\ IsSealed(exec) /\ Len(exec.files.folded) = exec.stage + 1
      /\ exec.plan.stage = exec.stage + 1
  BY <1>1 DEF IInv, Sound, Progress, Expects, TasksRun, Open
<1>3. [exec.plan EXCEPT !.status = "done"] \in Plan
  BY <1>1 DEF Plan
<1>4. /\ e \in Execution /\ e.status = exec.status /\ e.stage = exec.stage
      /\ e.sealedStage = exec.sealedStage /\ e.root = exec.root /\ e.files = exec.files
      /\ e.tasks = exec.tasks /\ e.plan = [exec.plan EXCEPT !.status = "done"]
  BY <1>1, <1>3 DEF Execution
<1>5. Fail(e, requests) \/ Issue(e, p, requests)
  BY DEF PlanDone
<1> HIDE DEF e
<1>6. Shape(e) /\ PutsFolded(e, requests) /\ Running(e)
  BY <1>1, <1>4 DEF Shape, PutsFolded, Running, IsSealed
<1>7. e.plan # Nothing /\ e.plan.status = "done" /\ e.plan.stage = exec.stage + 1
  BY <1>1, <1>2, <1>3, <1>4, NothingAssumption DEF Plan
<1>8. p \in Purpose /\ p.type = "stageSpec" /\ p = StageSpec(exec.stage + 1)
  BY <1>1, <1>2, <1>7 DEF StageSpec, Purpose, Stage, Plan
<1>9. Expects(e, p) /\ Agree(e, p, requests)
  BY <1>2, <1>4, <1>7, <1>8 DEF Expects, IsSealed, Agree
<1> HIDE DEF p
<1>10. Sound(exec', requests') /\ Keeps(e, exec')
  BY <1>1, <1>4, <1>5, <1>6, <1>8, <1>9, IssueSound, EndSound DEF Fail, Ended
<1> QED BY <1>4, <1>10 DEF InOrder, Keeps, IsSealed

\* While a task of the present stage is open or can be contradicted, nothing is
\* awaited and the stage is not folded.
LEMMA TaskOpen ==
    ASSUME IInv, Running(exec), NEW i \in DOMAIN exec.tasks,
           exec.tasks[i] = Open \/ ~IsSealed(exec)
    PROVE  /\ exec.root # Nothing /\ exec.awaiting = Nothing /\ exec.plan = Nothing
           /\ ~IsSealed(exec) /\ Len(exec.files.folded) = exec.stage
<1>1. exec.tasks # <<>> /\ exec.stage # -1
  BY DEF IInv, Sound, Shape, Execution
<1>2. ~IsSealed(exec)
  BY OutputsAssumption DEF IInv, Sound, Shape
<1> QED BY <1>1, <1>2 DEF IInv, Sound, Progress, Expects, TasksRun, Awaits

\* e with another value for one task, and this count of retractions.
SetTask(e, i, v, n) == [e EXCEPT !.tasks[i] = v, !.retractions = n]

\* Another value for one task leaves the other fields and the shape.
LEMMA TaskSet ==
    ASSUME NEW e \in Execution, NEW i \in DOMAIN e.tasks, NEW v \in Outputs \cup {Open, Failed},
           NEW n \in 0..MaxRetractions, Shape(e), ~IsSealed(e),
           NEW f, f = SetTask(e, i, v, n)
    PROVE  /\ f \in Execution /\ Shape(f) /\ Keeps(e, f)
           /\ f.status = e.status /\ f.stage = e.stage /\ f.sealedStage = e.sealedStage
           /\ f.root = e.root /\ f.files = e.files /\ f.plan = e.plan /\ f.awaiting = e.awaiting
<1> DEFINE tasks == [e.tasks EXCEPT ![i] = v]
<1>1. e.tasks \in Seq(Outputs \cup {Open, Failed})
  BY DEF Execution
<1>2. tasks \in [1..Len(e.tasks) -> Outputs \cup {Open, Failed}]
  BY <1>1
<1>3. tasks \in Seq(Outputs \cup {Open, Failed}) /\ DOMAIN tasks = DOMAIN e.tasks
  BY <1>1, <1>2
<1>4. tasks # <<>> /\ e.tasks # <<>>
  BY <1>1, <1>3
<1> HIDE DEF tasks
<1>5. /\ f.status = e.status /\ f.stage = e.stage /\ f.sealedStage = e.sealedStage
      /\ f.root = e.root /\ f.files = e.files /\ f.plan = e.plan /\ f.awaiting = e.awaiting
      /\ f.tasks = tasks
  BY DEF Execution, tasks, SetTask
<1>6. f \in Execution
  BY <1>3 DEF Execution, tasks, SetTask
<1>7. Shape(f) /\ Keeps(e, f)
  BY <1>3, <1>4, <1>5 DEF Shape, IsSealed, Keeps
<1> QED BY <1>5, <1>6, <1>7

LEMMA TaskDoneSound ==
    ASSUME IInv, NEW i \in DOMAIN exec.tasks, NEW output \in Outputs, TaskDone(i, output)
    PROVE  Sound(exec', requests') /\ InOrder(exec, exec')
<1> DEFINE e == [exec EXCEPT !.tasks[i] = output]
           f == [exec EXCEPT !.tasks[i] = output, !.retractions = exec.retractions]
<1>1. /\ exec \in Execution /\ Shape(exec) /\ PutsFolded(exec, requests) /\ requests \subseteq Asked
      /\ Running(exec) /\ exec.tasks[i] = Open
  BY DEF IInv, Sound, TaskDone
<1>2. /\ exec.root # Nothing /\ exec.awaiting = Nothing /\ exec.plan = Nothing
      /\ ~IsSealed(exec) /\ Len(exec.files.folded) = exec.stage
  BY <1>1, TaskOpen
<1>3. e = f /\ exec.retractions \in 0..MaxRetractions
  BY <1>1 DEF Execution
<1>4. /\ e \in Execution /\ Shape(e) /\ Keeps(exec, e)
      /\ e.status = exec.status /\ e.stage = exec.stage /\ e.sealedStage = exec.sealedStage
      /\ e.root = exec.root /\ e.files = exec.files /\ e.plan = exec.plan
      /\ e.awaiting = exec.awaiting
    <2>1. e = SetTask(exec, i, output, exec.retractions)
    BY <1>3 DEF SetTask
  <2> HIDE DEF e
  <2> QED BY <1>1, <1>2, <1>3, <2>1, TaskSet
<1>5. AfterTaskDone(e)
  BY DEF TaskDone
<1> HIDE DEF e, f
<1>6. /\ PutsFolded(e, requests) /\ PutsMatch(e, requests) /\ Running(e) /\ ~IsSealed(e)
  BY <1>1, <1>2, <1>4 DEF PutsFolded, PutsMatch, Answered, Awaits, Running, IsSealed
<1>7. Sound(exec', requests') /\ Keeps(e, exec')
  <2>1. CASE AllDone(e)
    BY <1>1, <1>2, <1>4, <1>5, <1>6, <2>1, FoldSound DEF AfterTaskDone
  <2>2. CASE exec' = e /\ requests' = requests
    <3>1. Progress(e)
      BY <1>1, <1>2, <1>4, <1>6 DEF Progress, TasksRun, Running, Awaits
    <3> QED BY <1>1, <1>4, <1>6, <2>2, <3>1 DEF Sound, Keeps
  <2>3. CASE Fail(e, requests)
    BY <1>1, <1>4, <1>6, <2>3, EndSound DEF Fail, Ended
  <2> QED BY <1>5, <2>1, <2>2, <2>3 DEF AfterTaskDone
<1> QED BY <1>2, <1>4, <1>7 DEF InOrder, Keeps

LEMMA TaskRetractedSound ==
    ASSUME IInv, NEW i \in DOMAIN exec.tasks, TaskRetracted(i)
    PROVE  Sound(exec', requests') /\ InOrder(exec, exec')
<1> DEFINE n == exec.retractions + 1
           f == [exec EXCEPT !.tasks[i] = Open, !.retractions = n]
<1>1. /\ exec \in Execution /\ Shape(exec) /\ PutsFolded(exec, requests) /\ requests \subseteq Asked
      /\ Running(exec) /\ ~IsSealed(exec)
  BY DEF IInv, Sound, TaskRetracted
<1>2. /\ exec.root # Nothing /\ exec.awaiting = Nothing /\ exec.plan = Nothing
      /\ Len(exec.files.folded) = exec.stage
  BY <1>1, TaskOpen
<1>3. n \in 0..MaxRetractions
  BY <1>1, StagesAssumption DEF Execution, TaskRetracted
<1>4. exec' = f /\ requests' = requests
  BY DEF TaskRetracted
<1>5. /\ f \in Execution /\ Shape(f) /\ Keeps(exec, f)
      /\ f.status = exec.status /\ f.stage = exec.stage /\ f.sealedStage = exec.sealedStage
      /\ f.root = exec.root /\ f.files = exec.files /\ f.plan = exec.plan
      /\ f.awaiting = exec.awaiting
  <2> HIDE DEF n
  <2>1. Open \in Outputs \cup {Open, Failed} /\ f = SetTask(exec, i, Open, n)
    BY DEF SetTask
  <2> HIDE DEF f
  <2> QED BY <1>1, <1>3, <2>1, TaskSet
<1> HIDE DEF f
<1>6. Progress(f) /\ PutsFolded(f, requests) /\ PutsMatch(f, requests)
  BY <1>1, <1>2, <1>5
     DEF Progress, TasksRun, Running, Awaits, PutsFolded, PutsMatch, Answered, IsSealed
<1> QED BY <1>1, <1>4, <1>5, <1>6 DEF Sound, InOrder

LEMMA TaskFailedSound ==
    ASSUME IInv, TaskFailed
    PROVE  Sound(exec', requests') /\ InOrder(exec, exec')
BY EndSound DEF IInv, Sound, TaskFailed, Fail, Ended, InOrder

LEMMA CancelSound ==
    ASSUME IInv, Cancel
    PROVE  Sound(exec', requests') /\ InOrder(exec, exec')
BY EndSound DEF IInv, Sound, Cancel, Ended, InOrder

\* A lost request or answer, or a failed put, changes nothing else.
LEMMA LostSound ==
    ASSUME IInv, exec' = exec, requests' \in SUBSET requests
    PROVE  Sound(exec', requests') /\ InOrder(exec, exec')
BY FewerRequests DEF IInv, InOrder, Keeps

\* Asking again what is awaited.
LEMMA AskAgain ==
    ASSUME NEW e, NEW pending \in SUBSET Asked, Sound(e, pending), Running(e), Awaits(e),
           Issue(e, e.awaiting.purpose, pending)
    PROVE  Sound(exec', requests') /\ InOrder(e, exec')
<1> DEFINE p == e.awaiting.purpose
<1>1. e \in Execution /\ Shape(e) /\ PutsFolded(e, pending) /\ Expects(e, p)
  BY DEF Sound, Progress
<1>2. p \in Purpose
  BY <1>1 DEF Execution, Awaited, Awaits
<1>3. Agree(e, p, pending)
  BY DEF Sound, PutsMatch, Answered, Agree
<1> QED BY <1>1, <1>2, <1>3, IssueSound DEF InOrder

LEMMA RetrySound ==
    ASSUME IInv, Retry
    PROVE  Sound(exec', requests') /\ InOrder(exec, exec')
BY AskAgain DEF IInv, Sound, Retry

\* What an older snapshot awaited is read off its state, and is what the
\* execution expects.
LEMMA RestoredSound ==
    ASSUME IInv, Running(exec)
    PROVE  /\ Sound(Restored(exec), {}) /\ Keeps(exec, Restored(exec))
           /\ Running(Restored(exec)) /\ Restored(exec).sealedStage = exec.sealedStage
<1> DEFINE p == PendingPurpose(exec)
           f == [exec EXCEPT !.awaiting.purpose = p]
<1>1. exec \in Execution /\ Shape(exec) /\ requests \subseteq Asked
  BY DEF IInv, Sound
<1>2. CASE ~legacy \/ ~Awaits(exec)
  <2>1. Restored(exec) = exec
    BY <1>2 DEF Restored
  <2>2. Sound(exec, {})
    BY FewerRequests DEF IInv
  <2> QED BY <2>1, <2>2 DEF Keeps
<1>3. CASE legacy /\ Awaits(exec)
  <2>1. Expects(exec, exec.awaiting.purpose)
    BY <1>3 DEF IInv, Sound, Progress
  <2>2. p \in {InheritRoot, StageSpec(exec.stage + 1), Manifest(exec.stage)} /\ Expects(exec, p)
    <3>1. CASE exec.root = Nothing
      <4>1. exec.stage = -1 /\ exec.plan = Nothing /\ exec.tasks = <<>>
        BY <1>1, <2>1, <3>1 DEF Expects, Shape
      <4>2. p = InheritRoot
        BY <3>1, <4>1 DEF PendingPurpose, AllDone
      <4> QED BY <3>1, <4>1, <4>2 DEF Expects
    <3>2. CASE exec.root # Nothing /\ exec.plan # Nothing
      <4>1. exec.plan.status = "done" /\ exec.plan.stage = exec.stage + 1
        BY <2>1, <3>2 DEF Expects
      <4>2. p = StageSpec(exec.stage + 1)
        BY <3>2, <4>1 DEF PendingPurpose
      <4> QED BY <2>1, <3>2, <4>2 DEF Expects
    <3>3. CASE exec.root # Nothing /\ exec.plan = Nothing
      <4>1. AllDone(exec)
        BY <2>1, <3>3 DEF Expects
      <4>2. p = Manifest(exec.stage)
        BY <3>3, <4>1 DEF PendingPurpose
      <4> QED BY <2>1, <3>3, <4>2 DEF Expects
    <3> QED BY <3>1, <3>2, <3>3
  <2>3. p \in Purpose
    BY <1>1, <2>2, StagesAssumption
       DEF InheritRoot, StageSpec, Manifest, Purpose, Stage, Execution
  <2>4. exec.awaiting \in Awaited
    BY <1>1, <1>3 DEF Execution, Awaits
  <2>5. [exec.awaiting EXCEPT !.purpose = p] \in Awaited
    BY <2>3, <2>4 DEF Awaited
  <2> HIDE DEF p
  <2>6. p # Nothing
    BY <2>3, NothingAssumption
  <2>7. Restored(exec) = f
    BY <1>3, <2>6 DEF Restored, p
  <2>8. /\ f.status = exec.status /\ f.stage = exec.stage /\ f.sealedStage = exec.sealedStage
        /\ f.root = exec.root /\ f.files = exec.files /\ f.tasks = exec.tasks
        /\ f.plan = exec.plan /\ f.awaiting = [exec.awaiting EXCEPT !.purpose = p]
    BY <1>1 DEF Execution
  <2>9. f \in Execution
    BY <1>1, <2>5 DEF Execution
  <2> HIDE DEF f
  <2>10. Awaits(f) /\ f.awaiting.purpose = p
    BY <2>4, <2>5, <2>8, NothingAssumption DEF Awaits, Awaited
  <2>11. Expects(f, p)
    BY <2>2, <2>8 DEF Expects, IsSealed, AllDone
  <2>12. Shape(f) /\ Progress(f) /\ Keeps(exec, f) /\ Running(f)
    BY <1>1, <2>8, <2>10, <2>11 DEF Shape, Progress, Keeps, Running, IsSealed
  <2> QED BY <2>7, <2>8, <2>9, <2>12 DEF Sound, PutsFolded, PutsMatch
<1> QED BY <1>2, <1>3

LEMMA AdoptSound ==
    ASSUME IInv, Adopt
    PROVE  Sound(exec', requests') /\ InOrder(exec, exec')
<1> DEFINE e == Restored(exec)
<1>1. /\ Running(exec) /\ Sound(e, {}) /\ Keeps(exec, e) /\ Running(e)
      /\ e.sealedStage = exec.sealedStage
  BY RestoredSound DEF Adopt
<1>2. IF Awaits(e) THEN Issue(e, e.awaiting.purpose, {}) ELSE exec' = e /\ requests' = {}
  BY DEF Adopt
<1> HIDE DEF e
<1>3. CASE Awaits(e)
  <2>1. e \in Execution /\ Shape(e) /\ PutsFolded(e, {}) /\ Expects(e, e.awaiting.purpose)
    BY <1>1, <1>3 DEF Sound, Progress
  <2>2. e.awaiting.purpose \in Purpose
    BY <1>3, <2>1 DEF Execution, Awaited, Awaits
  <2>3. Agree(e, e.awaiting.purpose, {}) /\ {} \in SUBSET Asked
    BY DEF Agree
  <2>4. Sound(exec', requests') /\ Keeps(e, exec')
    BY <1>1, <1>2, <1>3, <2>1, <2>2, <2>3, IssueSound
  <2> QED BY <1>1, <2>1, <2>4 DEF InOrder, Keeps, IsSealed, Sound
<1>4. CASE ~Awaits(e)
  BY <1>1, <1>2, <1>4 DEF InOrder
<1> QED BY <1>3, <1>4

\* A late or repeated answer changes nothing but the requests.
LEMMA StaleSound ==
    ASSUME IInv, NEW q \in requests, NEW pending \in Rest(q), exec' = exec, requests' = pending
    PROVE  Sound(exec', requests') /\ InOrder(exec, exec')
<1>1. pending \in SUBSET requests
  BY DEF Rest
<1> QED BY <1>1, LostSound

\* What an execution that waits for the answer to q looks like, before and
\* after it has the answer.
LEMMA AnsweredSound ==
    ASSUME IInv, NEW q \in requests, NEW pending \in Rest(q), Answered(exec, q.purpose)
    PROVE  /\ pending \in SUBSET Asked /\ q.purpose \in Purpose /\ exec \in Execution
           /\ exec.awaiting \in Awaited /\ Awaits(exec) /\ Running(exec)
           /\ Expects(exec, q.purpose) /\ Shape(exec)
           /\ PutsFolded(exec, pending) /\ PutsMatch(exec, pending)
           /\ q.purpose.type = "manifest" => q.bytes = Request(exec, q.purpose).bytes
           /\ LET e == Settle(exec)
              IN /\ e \in Execution /\ Shape(e) /\ Running(e) /\ PutsFolded(e, pending)
                 /\ Keeps(exec, e) /\ e.awaiting = Nothing
                 /\ e.status = exec.status /\ e.stage = exec.stage
                 /\ e.sealedStage = exec.sealedStage /\ e.root = exec.root
                 /\ e.files = exec.files /\ e.tasks = exec.tasks /\ e.plan = exec.plan
<1> DEFINE e == Settle(exec)
<1>1. pending \in SUBSET requests /\ q \in Asked
  BY DEF Rest, IInv, Sound
<1>2. Sound(exec, pending)
  BY <1>1, FewerRequests DEF IInv
<1>3. /\ e.status = exec.status /\ e.stage = exec.stage /\ e.sealedStage = exec.sealedStage
      /\ e.root = exec.root /\ e.files = exec.files /\ e.tasks = exec.tasks
      /\ e.plan = exec.plan /\ e.awaiting = Nothing
  BY <1>2 DEF Settle, Sound, Execution
<1>4. e \in Execution
  BY <1>2 DEF Settle, Sound, Execution
<1>5. /\ exec \in Execution /\ exec.awaiting \in Awaited /\ Awaits(exec) /\ Running(exec)
      /\ Expects(exec, q.purpose) /\ q.purpose \in Purpose
  BY <1>1, <1>2 DEF Sound, Progress, Answered, Awaits, Execution, Asked
<1>6. q.purpose.type = "manifest" => q.bytes = Request(exec, q.purpose).bytes
  BY DEF IInv, Sound, PutsMatch
<1> HIDE DEF e
<1>7. Shape(e) /\ Running(e) /\ PutsFolded(e, pending) /\ Keeps(exec, e)
  BY <1>2, <1>3, <1>5 DEF Sound, Shape, Running, PutsFolded, Keeps, IsSealed
<1> QED BY <1>1, <1>2, <1>3, <1>4, <1>5, <1>6, <1>7 DEF Sound, e

LEMMA SpecFetchedSound ==
    ASSUME IInv, NEW q \in requests, NEW spec \in Specs(q.purpose.stage), SpecFetched(q, spec)
    PROVE  Sound(exec', requests') /\ InOrder(exec, exec')
<1> DEFINE e == Settle(exec)
           s == q.purpose.stage
<1>1. PICK pending \in Rest(q) :
        CASE ~Answered(exec, q.purpose) -> exec' = exec /\ requests' = pending
          [] Answered(exec, q.purpose) /\ spec.kind = "bad" -> Fail(e, pending)
          [] Answered(exec, q.purpose) /\ spec.kind = "done" ->
                /\ exec' = End([e EXCEPT !.plan = Nothing], "done")
                /\ requests' = pending
          [] OTHER ->
                /\ exec' = [e EXCEPT !.plan = Nothing, !.stage = s,
                                     !.tasks = [i \in 1..spec.tasks |-> Open]]
                /\ requests' = pending
  BY DEF SpecFetched
<1>2. CASE ~Answered(exec, q.purpose)
  BY <1>1, <1>2, StaleSound
<1>3. CASE Answered(exec, q.purpose)
  <2>1. /\ pending \in SUBSET Asked /\ q.purpose \in Purpose /\ exec \in Execution /\ Shape(exec)
        /\ Expects(exec, q.purpose)
        /\ e \in Execution /\ Shape(e) /\ Running(e) /\ PutsFolded(e, pending)
        /\ Keeps(exec, e) /\ e.awaiting = Nothing
        /\ e.status = exec.status /\ e.stage = exec.stage /\ e.sealedStage = exec.sealedStage
        /\ e.root = exec.root /\ e.files = exec.files /\ e.tasks = exec.tasks
        /\ e.plan = exec.plan
    BY <1>3, AnsweredSound
  <2>2. q.purpose.type = "stageSpec" /\ exec.awaiting.purpose = q.purpose
    BY <1>3 DEF SpecFetched, Answered
  <2>3. /\ exec.root # Nothing /\ IsSealed(exec) /\ Len(exec.files.folded) = exec.stage + 1
        /\ q.purpose = StageSpec(s) /\ s = exec.stage + 1
    BY <2>1, <2>2 DEF Expects, InheritRoot, Manifest, StageSpec
  <2> HIDE DEF e
  <2>4. CASE spec.kind = "bad"
    <3>1. exec' = End(e, "failed") /\ requests' = pending
      BY <1>1, <1>3, <2>4 DEF Fail
    <3>2. Sound(exec', requests') /\ Keeps(e, exec')
      BY <2>1, <3>1, EndSound DEF Ended
    <3> QED BY <2>1, <3>2 DEF InOrder, Keeps, IsSealed
  <2>5. CASE spec.kind = "done"
    <3> DEFINE f == [e EXCEPT !.plan = Nothing]
    <3>1. exec' = End(f, "done") /\ requests' = pending
      BY <1>1, <1>3, <2>5
    <3>2. /\ f \in Execution /\ f.stage = e.stage /\ f.sealedStage = e.sealedStage
          /\ f.root = e.root /\ f.files = e.files /\ f.tasks = e.tasks
      BY <2>1 DEF Execution
    <3> HIDE DEF f
    <3>3. Shape(f) /\ PutsFolded(f, pending) /\ Keeps(e, f)
      BY <2>1, <3>2 DEF Shape, PutsFolded, Keeps, IsSealed
    <3>4. Sound(exec', requests') /\ Keeps(f, exec')
      BY <2>1, <3>1, <3>2, <3>3, EndSound DEF Ended
    <3> QED BY <2>1, <3>2, <3>4 DEF InOrder, Keeps, IsSealed
  <2>6. CASE spec.kind \notin {"bad", "done"}
    <3> DEFINE tasks == [i \in 1..spec.tasks |-> Open]
               f == [e EXCEPT !.plan = Nothing, !.stage = s, !.tasks = tasks]
    <3>1. exec' = f /\ requests' = pending
      BY <1>1, <1>3, <2>6
    <3>2. spec.tasks \in 1..MaxTasks /\ s < MaxStages /\ MaxTasks \in Nat /\ MaxStages \in Nat
      BY <2>6, StagesAssumption DEF Specs
    <3>3. tasks \in [1..spec.tasks -> Outputs \cup {Open, Failed}]
      OBVIOUS
    <3>4. tasks \in Seq(Outputs \cup {Open, Failed}) /\ tasks # <<>>
      BY <3>2, <3>3
    <3>5. s \in 0..MaxStages - 1 /\ exec.sealedStage = exec.stage
      BY <2>1, <2>3, <3>2 DEF Execution, Shape, IsSealed
    <3> HIDE DEF tasks, s
    <3>6. /\ f \in Execution /\ f.status = e.status /\ f.stage = s
          /\ f.sealedStage = e.sealedStage /\ f.root = e.root /\ f.files = e.files
          /\ f.tasks = tasks /\ f.plan = Nothing /\ f.awaiting = Nothing
      <4>1. e \in Execution /\ e.awaiting = Nothing
        BY <2>1
      <4>2. s \in -1..MaxStages - 1
        BY <3>5, StagesAssumption
      <4> QED BY <3>4, <4>1, <4>2 DEF Execution
    <3> HIDE DEF f
    <3>7. ~IsSealed(f) /\ Len(f.files.folded) = f.stage
      BY <2>1, <2>3, <3>5, <3>6 DEF IsSealed, Execution
    <3>8. Shape(f) /\ Progress(f) /\ PutsFolded(f, pending) /\ PutsMatch(f, pending)
      BY <2>1, <2>3, <3>4, <3>5, <3>6, <3>7
         DEF Shape, Progress, TasksRun, Running, Awaits, PutsFolded, PutsMatch, Answered
    <3>9. InOrder(exec, f)
      BY <2>1, <2>2, <2>3, <3>5, <3>6 DEF InOrder, Shape
    <3> QED BY <2>1, <3>1, <3>6, <3>8, <3>9 DEF Sound
  <2> QED BY <2>4, <2>5, <2>6
<1> QED BY <1>2, <1>3

LEMMA RootFetchedSound ==
    ASSUME IInv, NEW q \in requests, NEW readable \in BOOLEAN, RootFetched(q, readable)
    PROVE  Sound(exec', requests') /\ InOrder(exec, exec')
<1> DEFINE e == [Settle(exec) EXCEPT !.files = Inherited]
           p == Manifest(-1)
<1>1. PICK pending \in Rest(q) :
        CASE ~Answered(exec, InheritRoot) -> exec' = exec /\ requests' = pending
          [] Answered(exec, InheritRoot) /\ ~readable ->
                exec' = FromBundle(exec) /\ requests' = pending
          [] OTHER -> Issue(e, p, pending)
  BY DEF RootFetched
<1>2. q.purpose = InheritRoot
  BY DEF RootFetched
<1>3. CASE ~Answered(exec, InheritRoot)
  BY <1>1, <1>3, StaleSound
<1>4. CASE Answered(exec, InheritRoot)
  <2> DEFINE g == Settle(exec)
  <2>1. /\ pending \in SUBSET Asked /\ exec \in Execution /\ Shape(exec) /\ Running(exec)
        /\ PutsFolded(exec, pending) /\ Expects(exec, InheritRoot)
        /\ g \in Execution /\ Shape(g) /\ Running(g) /\ PutsFolded(g, pending)
        /\ g.status = exec.status /\ g.stage = exec.stage /\ g.sealedStage = exec.sealedStage
        /\ g.root = exec.root /\ g.files = exec.files /\ g.tasks = exec.tasks
        /\ g.plan = exec.plan /\ g.awaiting = Nothing
    BY <1>2, <1>4, AnsweredSound
  <2>2. exec.root = Nothing /\ exec.stage = -1 /\ exec.plan = Nothing
    BY <2>1 DEF Expects, InheritRoot, StageSpec, Manifest
  <2>3. CASE ~readable
    <3>1. exec' = FromBundle(exec) /\ requests' = pending
      BY <1>1, <1>4, <2>3
    <3> QED BY <2>1, <2>2, <3>1, FromBundleSound DEF InOrder
  <2>4. CASE readable
    <3>1. Issue(e, p, pending)
      BY <1>1, <1>4, <2>4
    <3>2. Inherited \in Files
      BY DEF Inherited, Files
    <3> HIDE DEF g
    <3>3. e = [g EXCEPT !.files = Inherited]
      BY DEF g
    <3>4. /\ e \in Execution /\ e.status = exec.status /\ e.stage = exec.stage
          /\ e.sealedStage = exec.sealedStage /\ e.root = exec.root /\ e.files = Inherited
          /\ e.tasks = exec.tasks /\ e.plan = exec.plan
      BY <2>1, <3>2, <3>3 DEF Execution
    <3> HIDE DEF e
    <3>5. p \in Purpose /\ p.type = "manifest" /\ p.stage = -1 /\ p = Manifest(-1)
      BY StagesAssumption DEF Manifest, Purpose, Stage
    <3>6. Shape(e) /\ Running(e) /\ PutsFolded(e, pending) /\ Expects(e, p)
      BY <2>1, <2>2, <3>4 DEF Shape, Running, PutsFolded, Expects, IsSealed
    <3>7. Request(e, p).bytes = Inherited
      BY <3>4, <3>5 DEF Request
    <3>8. Agree(e, p, pending)
      BY <3>5, <3>6, <3>7 DEF Agree, PutsFolded
    <3> HIDE DEF p
    <3>9. Sound(exec', requests') /\ Keeps(e, exec')
      BY <2>1, <3>1, <3>4, <3>5, <3>6, <3>8, IssueSound
    <3> QED BY <3>4, <3>9 DEF InOrder, Keeps, IsSealed
  <2> QED BY <2>3, <2>4
<1> QED BY <1>3, <1>4

LEMMA FetchFailedSound ==
    ASSUME IInv, NEW q \in requests, FetchFailed(q)
    PROVE  Sound(exec', requests') /\ InOrder(exec, exec')
<1> DEFINE f == [exec EXCEPT !.awaiting.errors = @ + 1]
<1>1. PICK pending \in Rest(q) :
        IF ~Answered(exec, q.purpose) THEN exec' = exec /\ requests' = pending
        ELSE IF f.awaiting.errors > StoreErrorsMax THEN Fail(f, pending)
        ELSE exec' = f /\ requests' = pending
  BY DEF FetchFailed
<1>2. CASE ~Answered(exec, q.purpose)
  BY <1>1, <1>2, StaleSound
<1>3. CASE Answered(exec, q.purpose)
  <2>1. /\ pending \in SUBSET Asked /\ exec \in Execution /\ Shape(exec) /\ Running(exec)
        /\ exec.awaiting \in Awaited /\ Expects(exec, q.purpose)
        /\ PutsFolded(exec, pending) /\ PutsMatch(exec, pending)
    BY <1>3, AnsweredSound
  <2>2. /\ f.status = exec.status /\ f.stage = exec.stage /\ f.sealedStage = exec.sealedStage
        /\ f.root = exec.root /\ f.files = exec.files /\ f.tasks = exec.tasks
        /\ f.plan = exec.plan /\ f.retractions = exec.retractions
        /\ f.awaiting = [exec.awaiting EXCEPT !.errors = @ + 1]
    BY <2>1 DEF Execution
  <2>3. /\ f.awaiting.errors = exec.awaiting.errors + 1
        /\ f.awaiting.purpose = exec.awaiting.purpose
    BY <2>1, <2>2 DEF Awaited
  <2>4. CASE f.awaiting.errors > StoreErrorsMax
    <3>1. End(f, "failed") = End(exec, "failed")
      BY <2>1 DEF End, Settle, Execution
    <3>2. exec' = End(exec, "failed") /\ requests' = pending
      BY <1>1, <1>3, <2>4, <3>1 DEF Fail
    <3> QED BY <2>1, <3>2, EndSound DEF Ended, InOrder
  <2>5. CASE ~(f.awaiting.errors > StoreErrorsMax)
    <3>1. exec' = f /\ requests' = pending
      BY <1>1, <1>3, <2>5
    <3>2. [exec.awaiting EXCEPT !.errors = @ + 1] \in Awaited
      BY <2>1, <2>3, <2>5, StagesAssumption DEF Awaited
    <3>3. f \in Execution
      BY <2>1, <3>2 DEF Execution
    <3> HIDE DEF f
    <3>4. Awaits(f) /\ f.awaiting.purpose = q.purpose
      BY <1>3, <2>2, <2>3, <3>2, NothingAssumption DEF Awaits, Answered
    <3>5. Expects(f, q.purpose)
      BY <2>1, <2>2 DEF Expects, IsSealed, AllDone
    <3>6. Shape(f) /\ Progress(f) /\ PutsFolded(f, pending) /\ Keeps(exec, f)
      BY <2>1, <2>2, <3>4, <3>5 DEF Shape, Progress, Running, PutsFolded, Keeps, IsSealed
    <3>7. Request(f, q.purpose) = Request(exec, q.purpose)
      BY <2>2 DEF Request, StageFiles
    <3>8. PutsMatch(f, pending)
      BY <1>3, <2>1, <3>4, <3>7 DEF PutsMatch, Answered
    <3> QED BY <2>1, <3>1, <3>3, <3>6, <3>8 DEF Sound, InOrder
  <2> QED BY <2>4, <2>5
<1> QED BY <1>2, <1>3

LEMMA ManifestStoredSound ==
    ASSUME IInv, NEW q \in requests, ManifestStored(q)
    PROVE  Sound(exec', requests') /\ InOrder(exec, exec')
<1> DEFINE g == Settle(exec)
           e == [g EXCEPT !.root = q.bytes]
           s == q.purpose.stage
<1>1. PICK pending \in Rest(q) :
        /\ requests' = pending
        /\ exec' = CASE ~Answered(exec, q.purpose) -> exec
                     [] Answered(exec, q.purpose) /\ s = -1 -> CreatePlan(e, 0)
                     [] OTHER -> CreatePlan([e EXCEPT !.files = StageFiles(exec)], s + 1)
  BY DEF ManifestStored
<1>2. CASE ~Answered(exec, q.purpose)
  BY <1>1, <1>2, StaleSound
<1>3. CASE Answered(exec, q.purpose)
  <2>1. /\ pending \in SUBSET Asked /\ exec \in Execution /\ Shape(exec) /\ Running(exec)
        /\ Expects(exec, q.purpose) /\ q.purpose \in Purpose
        /\ g \in Execution /\ PutsFolded(g, pending)
        /\ g.status = exec.status /\ g.stage = exec.stage /\ g.sealedStage = exec.sealedStage
        /\ g.files = exec.files /\ g.tasks = exec.tasks /\ g.awaiting = Nothing
    BY <1>3, AnsweredSound
  <2>2. q.purpose.type = "manifest" /\ q.bytes = Request(exec, q.purpose).bytes
    <3>1. q.purpose.type = "manifest"
      BY DEF ManifestStored
    <3> QED BY <1>3, <3>1, AnsweredSound
  <2>3. exec.files \in Files /\ exec.stage \in -1..MaxStages - 1 /\ MaxStages \in Nat
    BY <2>1, StagesAssumption DEF Execution
  <2> HIDE DEF g
  \* The execution after the step: its root is its files, the next stage is
  \* planned, nothing is awaited.
  <2> DEFINE Planned(files) ==
               [g EXCEPT !.root = files, !.files = files,
                         !.plan = [stage |-> exec.stage + 1, status |-> Open]]
  <2>4. ASSUME NEW files \in Files, IsSealed(exec), Len(files.folded) = exec.stage + 1,
               exec' = Planned(files)
        PROVE  Sound(exec', requests') /\ InOrder(exec, exec')
    <3> DEFINE f == Planned(files)
               plan == [stage |-> exec.stage + 1, status |-> Open]
    <3>1. plan \in Plan
      BY <2>3 DEF Plan
    <3>2. /\ f \in Execution /\ f.status = g.status /\ f.stage = g.stage
          /\ f.sealedStage = g.sealedStage /\ f.root = files /\ f.files = files
          /\ f.tasks = g.tasks /\ f.plan = plan /\ f.awaiting = Nothing
      BY <2>1, <3>1 DEF Execution
    <3>3. exec' = f /\ requests' = pending
      BY <1>1, <2>4
    <3> HIDE DEF f
    <3>4. Shape(f) /\ Progress(f) /\ PutsFolded(f, pending) /\ PutsMatch(f, pending)
      BY <2>1, <2>3, <2>4, <3>1, <3>2, NothingAssumption
         DEF Shape, Progress, TasksRun, Running, Awaits, PutsFolded, PutsMatch, Answered, IsSealed
    <3> QED BY <2>1, <3>2, <3>3, <3>4 DEF Sound, InOrder, Keeps
  <2>5. CASE s = -1
    <3>1. q.purpose = Manifest(-1)
      BY <2>1, <2>2, <2>5 DEF Manifest, Purpose
    <3>2. /\ exec.stage = -1 /\ exec.files = Inherited
      BY <2>1, <2>3, <3>1 DEF Expects, Manifest, InheritRoot, StageSpec
    <3>3. q.bytes = exec.files
      BY <2>2, <3>1 DEF Request, Manifest
    <3>4. exec' = CreatePlan(e, 0)
      BY <1>1, <1>3, <2>5
    <3>5. exec' = Planned(exec.files)
      <4>1. exec' = [[g EXCEPT !.root = exec.files] EXCEPT !.plan = [stage |-> 0, status |-> Open]]
        BY <3>3, <3>4 DEF CreatePlan
      <4>2. exec.stage + 1 = 0 /\ g \in Execution /\ g.files = exec.files
        BY <2>1, <3>2
      <4> QED BY <4>1, <4>2 DEF Execution
    <3>6. Len(exec.files.folded) = 0 /\ IsSealed(exec)
      BY <2>1, <3>2 DEF Inherited, IsSealed, Execution
    <3> HIDE DEF Planned
    <3>7. Len(exec.files.folded) = exec.stage + 1
      BY <3>2, <3>6
    <3> QED BY <2>3, <2>4, <3>5, <3>6, <3>7
  <2>6. CASE s # -1
    <3>1. /\ q.purpose = Manifest(exec.stage) /\ s = exec.stage /\ AllDone(exec)
          /\ IsSealed(exec) /\ Len(exec.files.folded) = exec.stage
      BY <2>1, <2>2, <2>6 DEF Expects, Manifest, InheritRoot, StageSpec
    <3>2. q.bytes = StageFiles(exec)
      BY <2>2, <2>6, <3>1 DEF Request, Manifest
    <3>3. exec' = CreatePlan([e EXCEPT !.files = StageFiles(exec)], s + 1)
      BY <1>1, <1>3, <2>6
    <3>4. exec' = Planned(StageFiles(exec))
      <4> HIDE DEF s
      <4> QED BY <2>1, <3>1, <3>2, <3>3 DEF CreatePlan, Execution
    <3>5. StageFiles(exec) \in Files /\ Len(StageFiles(exec).folded) = exec.stage + 1
      <4>1. StageFiles(exec).folded = Append(exec.files.folded, exec.tasks)
        BY <2>1, <3>1, StageFilesType
      <4>2. exec.files.folded \in Seq(Seq(Outputs)) /\ exec.tasks \in Seq(Outputs)
        BY <2>1, <2>3, <3>1 DEF Files, Execution, AllDone
      <4> QED BY <2>1, <3>1, <4>1, <4>2, StageFilesType
    <3> QED BY <2>4, <3>1, <3>4, <3>5
  <2> QED BY <2>5, <2>6
<1> QED BY <1>2, <1>3
-----------------------------------------------------------------------------

LEMMA InitSound == Init => IInv
<1> SUFFICES ASSUME Init PROVE IInv
  OBVIOUS
<1>1. Bundle \in Files /\ Bundle # Nothing /\ Len(Bundle.folded) = 0 /\ Bundle.folded = <<>>
  <2>1. Bundle \in Files
    BY DEF Bundle, Files
  <2> QED BY <2>1, NothingAssumption DEF Bundle
<1>2. PICK inherits \in BOOLEAN :
        exec = [status |-> "queued", stage |-> -1, sealedStage |-> -1,
                root |-> IF inherits THEN Nothing ELSE Bundle,
                files |-> Bundle, plan |-> Nothing, tasks |-> <<>>,
                retractions |-> 0, awaiting |-> Nothing]
  BY DEF Init
<1>3. exec \in Execution
  BY <1>1, <1>2, StagesAssumption DEF Execution
<1>4. Shape(exec) /\ Progress(exec)
  BY <1>1, <1>2 DEF Shape, Progress, Running
<1> QED BY <1>3, <1>4 DEF Init, IInv, Sound, PutsFolded, PutsMatch

\* Every step keeps the invariant and the order of the stages.
LEMMA NextSound ==
    ASSUME IInv, [Next]_vars
    PROVE  IInv' /\ InOrder(exec, exec')
<1>1. Sound(exec', requests') /\ InOrder(exec, exec')
  <2>1. CASE Start
    BY <2>1, StartSound
  <2>2. CASE PlanDone
    BY <2>2, PlanDoneSound
  <2>3. ASSUME NEW i \in DOMAIN exec.tasks, NEW o \in Outputs, TaskDone(i, o)
        PROVE  Sound(exec', requests') /\ InOrder(exec, exec')
    BY <2>3, TaskDoneSound
  <2>4. CASE TaskFailed
    BY <2>4, TaskFailedSound
  <2>5. ASSUME NEW i \in DOMAIN exec.tasks, TaskRetracted(i)
        PROVE  Sound(exec', requests') /\ InOrder(exec, exec')
    BY <2>5, TaskRetractedSound
  <2>6. ASSUME NEW q \in requests, Fetched(q)
        PROVE  Sound(exec', requests') /\ InOrder(exec, exec')
    BY <2>6, SpecFetchedSound, RootFetchedSound, FetchFailedSound DEF Fetched
  <2>7. ASSUME NEW q \in requests, ManifestStored(q)
        PROVE  Sound(exec', requests') /\ InOrder(exec, exec')
    BY <2>7, ManifestStoredSound
  <2>8. ASSUME NEW q \in requests, PutFailed(q) \/ Lost(q)
        PROVE  Sound(exec', requests') /\ InOrder(exec, exec')
    BY <2>8, LostSound DEF PutFailed, Lost
  <2>9. CASE Retry
    BY <2>9, RetrySound
  <2>10. CASE Adopt
    BY <2>10, AdoptSound
  <2>11. CASE OriginPruned
    BY <2>11, LostSound DEF OriginPruned
  <2>12. CASE Cancel
    BY <2>12, CancelSound
  <2>13. CASE UNCHANGED vars
    BY <2>13, LostSound DEF vars
  <2> QED BY <2>1, <2>2, <2>3, <2>4, <2>5, <2>6, <2>7, <2>8, <2>9, <2>10, <2>11, <2>12, <2>13
          DEF Next
<1>2. origin' \in BOOLEAN /\ legacy' \in BOOLEAN
  BY DEF IInv, Next, vars, Start, PlanDone, TaskDone, TaskFailed, TaskRetracted, Fetched,
         SpecFetched, RootFetched, FetchFailed, ManifestStored, PutFailed, Lost, Retry, Adopt,
         OriginPruned, Cancel
<1> QED BY <1>1, <1>2 DEF IInv

LEMMA Invariance == Spec => []IInv
<1>1. Init => IInv
  BY InitSound
<1>2. IInv /\ [Next]_vars => IInv'
  BY NextSound
<1> QED BY <1>1, <1>2, PTL DEF Spec

\* The execution and the requests of a process are always what their types say:
\* no stage number, error count or contradiction count leaves its range, and a
\* folded filesystem holds results only, never an open or failed task.
THEOREM StagesTypes == Spec => []TypeOK
<1>1. IInv => TypeOK
  BY DEF IInv, Sound, TypeOK
<1> QED BY <1>1, Invariance, PTL

\* For any outputs, stages, tasks and store errors: the root an execution names
\* is the manifest of exactly the files it records, although those are folded
\* again when the store answers (execution.ts, blobStored and foldStage).
THEOREM RootNamesFiles == Spec => []RootIsFiles
<1>1. IInv => RootIsFiles
  BY DEF IInv, Sound, Shape, RootIsFiles
<1> QED BY <1>1, Invariance, PTL

\* Late and repeated answers, contradicted results, a crash and an adoption
\* never begin a stage twice, skip one, or change a folded result.
THEOREM StagesNeverSkip == Spec => StagesInOrder
<1> DEFINE Ordered ==
             \/ exec'.stage # exec.stage
             \/ DOMAIN exec'.tasks # DOMAIN exec.tasks
             \/ IsSealed(exec) /\ exec'.tasks # exec.tasks
             =>
              /\ exec'.stage = exec.stage + 1
              /\ exec.sealedStage = exec.stage
              /\ Len(exec.root.folded) = exec'.stage
              /\ exec.awaiting.purpose = StageSpec(exec'.stage)
<1>1. IInv /\ [Next]_vars => [Ordered]_vars
  BY NextSound DEF InOrder, Keeps
<1> QED BY <1>1, Invariance, PTL DEF Spec, StagesInOrder
=============================================================================
