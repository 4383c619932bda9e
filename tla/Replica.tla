------------------------------- MODULE Replica -------------------------------
(* What a dashboard shows of the machine, and why.  The control plane sends a  *)
(* subscriber its ledger in pages, then every change as an event with the next *)
(* sequence number; the page folds them into a copy.  Handlers are functions   *)
(* from ledger to ledger that append what they announce to `out`; a step ends  *)
(* by numbering it and addressing it to the subscriber.  How a task settles is *)
(* Settlement's question: here a report is first, agrees or contradicts.       *)
EXTENDS Integers, FiniteSets, SequencesExt, FiniteSetsExt, Filter

CONSTANTS
    NodeOrder,      \* the nodes, in the order of their ids
    Outputs,        \* what a task may yield
    Trap,           \* a report of an error
    Nothing,
    Slots,          \* attempts a node holds at once (LIMITS.maxInFlight)
    PageRows,       \* task rows of a snapshot page, and of stageStarted
    MaxExecutions, MaxStages, MaxTasks,    \* bounds: executions, stages each, tasks in all
    MaxMissed,      \* bound: handlers that run while a page is between two sockets
    MaxRounds,      \* bound: contradicted rounds of a task
    MaxTrouble      \* bound: losses, releases, twins, contradictions, controls, closes

ASSUME ReplicaAssumption ==
    /\ Nothing \notin Outputs \cup {Trap} /\ Trap \notin Outputs
    /\ NodeOrder \in Seq(ToSet(NodeOrder))
    /\ {PageRows, Slots} \subseteq Nat \ {0}
    /\ {MaxExecutions, MaxStages, MaxTasks, MaxMissed, MaxRounds, MaxTrouble} \subseteq Nat

VARIABLES
    ledger,     \* what the control plane keeps
    memo,       \* the pages made last, while the sequence number is theirs
    page,       \* the dashboard: subscribed, handlers missed, the view
    trouble     \* how much went wrong so far

vars == <<ledger, memo, page, trouble>>

Nodes == ToSet(NodeOrder)
Statuses == {"pending", "assigned", "done", "failed"}

-----------------------------------------------------------------------------
\* The ledger.  Ids of tasks and executions count up from 1; 0 stands for none.

Task(e, stage, index, kind, required) ==
    [exec |-> e, stage |-> stage, index |-> index, kind |-> kind, status |-> "pending",
     required |-> required, open |-> {}, said |-> {}, first |-> Nothing, rounds |-> 0,
     output |-> Nothing]

Say(l, m) == [l EXCEPT !.out = Append(@, m)]
Running(l) == l.execs[l.running]
StageIds(e) == e.from..(e.from + e.count - 1)
Current(e) == StageIds(e) \cup ({e.plan} \ {0})
IsOpen(task) == task.status \in {"pending", "assigned"}
NewTask(l, e, stage, index, kind) ==
    Task(e, stage, index, kind, IF l.redundancy THEN 2 ELSE 1)
CreatePlan(l, e, stage) ==
    [l EXCEPT !.tasks = Append(@, NewTask(l, e, stage, 0, "plan")),
              !.execs[e].plan = Len(l.tasks) + 1]

\* Filling free slots: the first task that wants an attempt, else an overdue
\* one gets a twin.  Round robin, nodes by id.
Wanted(task) ==
    IsOpen(task) /\ Cardinality(task.open) + Cardinality(task.said) < task.required
MayTake(task, n) == n \notin task.open \cup task.said
Picks(l, n, overdue) ==
    LET current == Current(Running(l))
        fillable == {t \in current : Wanted(l.tasks[t]) /\ MayTake(l.tasks[t], n)}
        twins == {t \in current \cap overdue :
                    /\ l.tasks[t].status = "assigned" /\ ~Wanted(l.tasks[t])
                    /\ Cardinality(l.tasks[t].open) = 1 /\ MayTake(l.tasks[t], n)}
    IN  IF fillable # {} THEN fillable ELSE twins

Assign(l, t, n) ==
    Say([l EXCEPT !.tasks[t].status = "assigned", !.tasks[t].open = @ \cup {n}],
        [t |-> "taskAssigned", task |-> t, node |-> n])
FillSlot(l, n, overdue) ==
    IF \/ n \notin l.nodes \/ Picks(l, n, overdue) = {}
       \/ Cardinality({t \in DOMAIN l.tasks : n \in l.tasks[t].open}) >= Slots
    THEN l ELSE Assign(l, Min(Picks(l, n, overdue)), n)
Turns == Slots * Len(NodeOrder)
Turn(i) == NodeOrder[((i - 1) % Len(NodeOrder)) + 1]
Filled(l, overdue) ==
    LET filled[i \in 0..Turns] ==
            IF i = 0 THEN l ELSE FillSlot(filled[i - 1], Turn(i), overdue)
    IN  filled
Fill(l, overdue) == IF l.running = 0 \/ l.paused THEN l ELSE Filled(l, overdue)[Turns]

\* The head of the queue starts when nothing runs; one that inherits waits for
\* its root before it is planned.
MaybeStart(l) ==
    IF l.running # 0 \/ l.paused \/ l.queue = <<>> THEN l
    ELSE LET e == Head(l.queue)
             started == Say([l EXCEPT !.queue = Tail(@), !.running = e,
                                      !.execs[e].status = "running"],
                            [t |-> "executionStarted", exec |-> e])
         IN  IF l.execs[e].awaits = "inherit" THEN started ELSE CreatePlan(started, e, 0)
Advance(l, overdue) == Fill(MaybeStart(l), overdue)

\* The one way an execution ends.
End(l, e, status) ==
    LET ended == IF e # l.running THEN {} ELSE Current(l.execs[e])
        closed == [t \in DOMAIN l.tasks |->
                    IF t \notin ended THEN l.tasks[t]
                    ELSE [l.tasks[t] EXCEPT !.open = {},
                             !.status = IF IsOpen(l.tasks[t]) THEN "failed" ELSE @]]
    IN  Say([l EXCEPT !.tasks = closed, !.ends = @ + 1,
                      !.execs[e] = [@ EXCEPT !.status = status, !.ended = l.ends + 1,
                                             !.awaits = "none"],
                      !.running = IF @ = e THEN 0 ELSE @,
                      !.queue = Without(@, {e})],
            [t |-> "executionEnded", exec |-> e, status |-> status])

AfterSettled(l, t) ==
    LET e == l.tasks[t].exec
        exec == l.execs[e]
    IN  IF l.tasks[t].status = "failed" THEN End(l, e, "failed")
        ELSE IF l.tasks[t].kind = "plan" THEN [l EXCEPT !.execs[e].awaits = "spec"]
        ELSE IF \E u \in StageIds(exec) \cup {t} : l.tasks[u].status # "done" THEN l
        ELSE [l EXCEPT !.execs[e].sealed = exec.stage, !.execs[e].awaits = "manifest"]

\* A result is accepted: the open attempts are cancelled and it is announced.
Accept(l, t, n, o) ==
    LET settled == [l EXCEPT !.tasks[t] = [@ EXCEPT !.open = {}, !.output = o,
                                !.status = IF o = Trap THEN "failed" ELSE "done"]]
    IN  Say(settled, IF o = Trap THEN [t |-> "taskFailed", task |-> t]
                     ELSE [t |-> "taskDone", task |-> t, node |-> n, output |-> o])

Mismatch(t) == [t |-> "taskMismatch", task |-> t]
\* A contradiction withdraws the round; from the second on a vote may decide.
Contest(l, t, n, vote) ==
    LET rounds == l.tasks[t].rounds
        contested == [Say(l, Mismatch(t)) EXCEPT
                        !.tasks[t] = [@ EXCEPT !.status = "pending", !.open = {}, !.said = {},
                                               !.first = Nothing, !.output = Nothing,
                                               !.rounds = IF rounds < 2 THEN rounds + 1 ELSE rounds]]
    IN  IF vote = Nothing THEN contested ELSE AfterSettled(Accept(contested, t, n, vote), t)

IsSealed(l, t) ==
    \/ l.tasks[t].kind = "plan"
    \/ l.tasks[t].stage <= l.execs[l.tasks[t].exec].sealed

Release(l, t, n) ==
    LET freed == [l EXCEPT !.tasks[t].open = @ \ {n}]
        task == freed.tasks[t]
    IN  IF task.status # "assigned" \/ task.open # {} \/ task.said # {} THEN freed
        ELSE Say([freed EXCEPT !.tasks[t].status = "pending"],
                 [t |-> "taskReassigned", task |-> t, node |-> n])
ReleaseHeld(l, t, n) == IF n \in l.tasks[t].open THEN Release(l, t, n) ELSE l
Released(l, n) ==
    LET released[t \in 0..Len(l.tasks)] ==
            IF t = 0 THEN l ELSE ReleaseHeld(released[t - 1], t, n)
    IN  released
ReleaseNode(l, n) == Released(l, n)[Len(l.tasks)]
ReleasedAll(l) ==
    LET released[i \in 0..Len(NodeOrder)] ==
            IF i = 0 THEN l ELSE ReleaseNode(released[i - 1], NodeOrder[i])
    IN  released

-----------------------------------------------------------------------------
\* What is sent: rows and pages of a snapshot, and numbered events.

\* The running execution, or the one that ended last.
Shown(l) ==
    LET over == {e \in DOMAIN l.execs : l.execs[e].ended > 0}
    IN  IF l.running # 0 THEN l.running
        ELSE IF over = {} THEN 0
        ELSE CHOOSE e \in over : \A d \in over : l.execs[e].ended >= l.execs[d].ended

TaskView(l, t) ==
    LET task == l.tasks[t]
    IN  [id |-> t, kind |-> task.kind, stage |-> task.stage, index |-> task.index,
         status |-> task.status, holders |-> task.open,
         output |-> IF task.status = "done" THEN task.output ELSE Nothing]
TaskRows(l) ==
    LET ids == Without([t \in DOMAIN l.tasks |-> t],
                       {t \in DOMAIN l.tasks : l.tasks[t].exec # Shown(l)})
    IN  [i \in DOMAIN ids |-> TaskView(l, ids[i])]
Smaller(a, b) == IF a < b THEN a ELSE b
PagesOf(rows) ==
    LET count == IF rows = <<>> THEN 1 ELSE (Len(rows) + PageRows - 1) \div PageRows
    IN  [p \in 1..count |-> SubSeq(rows, (p - 1) * PageRows + 1, Smaller(p * PageRows, Len(rows)))]

\* The split into pages is kept for the next subscriber, keyed by the sequence
\* number: what is announced makes it stale, and it is gone.
Pages(l) == IF memo # Nothing THEN memo ELSE PagesOf(TaskRows(l))
MemoAfterBug(pages, l) == pages    \* for ever
MemoAfter(pages, l) == IF l.out = <<>> THEN pages ELSE Nothing

ExecutionView(l, e) ==
    [id |-> e, status |-> l.execs[e].status, count |-> l.execs[e].count,
     stage |-> IF l.execs[e].stage < 0 THEN 0 ELSE l.execs[e].stage]
NoView == [id |-> 0, status |-> "none", count |-> 0, stage |-> 0]
SnapshotPages(l) ==
    LET pages == Pages(l)
        cluster == [nodes |-> l.nodes, queue |-> ToSet(l.queue),
                    exec |-> IF Shown(l) = 0 THEN NoView ELSE ExecutionView(l, Shown(l)),
                    paused |-> l.paused, redundancy |-> l.redundancy]
    IN  [p \in DOMAIN pages |->
            [t |-> "snapshot", seq |-> l.seq, first |-> p = 1, left |-> Len(pages) - p,
             rows |-> ToSet(pages[p]), cluster |-> cluster]]

\* A started execution is sent as it is in the end: the event shares its counters.
Event(l, i) ==
    [t |-> "event", seq |-> l.seq + i, told |-> l.out[i],
     view |-> IF l.out[i].t # "executionStarted" THEN Nothing
              ELSE ExecutionView(l, l.out[i].exec)]
Events(l) == [i \in DOMAIN l.out |-> Event(l, i)]
NumberedBug(l) == [l EXCEPT !.seq = @ + 1, !.out = <<>>]    \* one number a handler
Numbered(l) == [l EXCEPT !.seq = @ + Len(l.out), !.out = <<>>]

-----------------------------------------------------------------------------
\* The page: a view, changed by one message at a time.

\* Events must arrive in sequence; a skipped number means a missed event.
Heard(v, m) == [v EXCEPT !.seq = IF m.seq > @ THEN m.seq ELSE @,
                         !.gap = @ \/ m.seq # v.seq + 1]

\* Ids are consecutive in a stage: the base that all rows agree on, or none.
IdBaseBug(rows) == IF rows = {} THEN 0 ELSE Min({r.id : r \in rows}) - 1
IdBase(rows) ==
    LET bases == {r.id - r.index : r \in rows}
    IN  IF Cardinality(bases) = 1 THEN CHOOSE b \in bases : TRUE ELSE 0
IsRunOf(r, stage) == r.stage = stage /\ r.kind = "run"
DoneRows(rows, stage) ==
    Cardinality({t \in DOMAIN rows : IsRunOf(rows[t], stage) /\ rows[t].status = "done"})

Phase(x) == IF x.status \in {"done", "failed"} THEN x.status
            ELSE IF x.count > 0 THEN "running" ELSE "planning"
\* `done` tallies the run tasks done in each stage known so far.
ToExecutionState(x) ==
    [id |-> x.id, phase |-> Phase(x), stage |-> x.stage, count |-> x.count,
     base |-> 0,
     done |-> [i \in 1..(IF x.count > 0 THEN x.stage + 1 ELSE x.stage) |-> 0]]

EmptyView == [seq |-> 0, gap |-> FALSE, refresh |-> FALSE, left |-> 1, nodes |-> {},
              queue |-> {}, exec |-> ToExecutionState(NoView), rows |-> <<>>,
              paused |-> FALSE, redundancy |-> FALSE]

ById(rows) == [t \in {r.id : r \in rows} |-> CHOOSE r \in rows : r.id = t]
ApplySnapshot(v, m) ==
    LET kept == IF m.first THEN <<>> ELSE v.rows
        sent == ById(m.rows)
        rows == [t \in DOMAIN sent \cup DOMAIN kept |->
                    IF t \in DOMAIN sent THEN sent[t] ELSE kept[t]]
        exec == IF m.first THEN ToExecutionState(m.cluster.exec) ELSE v.exec
        current == {rows[t] : t \in {u \in DOMAIN rows : IsRunOf(rows[u], exec.stage)}}
        tallied == IF exec.id = 0 THEN exec
                   ELSE [exec EXCEPT !.base = IdBase(current),
                           !.done = [i \in DOMAIN @ |-> IF i # exec.stage + 1 THEN @[i]
                                                        ELSE DoneRows(rows, exec.stage)]]
        machine == IF m.first THEN m.cluster ELSE v
    IN  [v EXCEPT !.seq = m.seq, !.gap = FALSE, !.refresh = FALSE, !.left = m.left,
                  !.rows = rows, !.exec = tallied, !.nodes = machine.nodes,
                  !.queue = machine.queue, !.paused = machine.paused,
                  !.redundancy = machine.redundancy]

\* A row the page has not seen is placed by its id, or left unplaced.
InferIndex(v, t) ==
    LET index == t - v.exec.base
    IN  IF \/ v.exec.base = 0 \/ index < 0 \/ index >= v.exec.count
           \/ \E u \in DOMAIN v.rows : /\ v.rows[u].stage = v.exec.stage
                                       /\ v.rows[u].index = index
        THEN -1 ELSE index
Placeholder(v, t) ==
    LET running == v.exec.id # 0 /\ v.exec.phase = "running"
    IN  [id |-> t, kind |-> IF running THEN "run" ELSE "plan",
         stage |-> v.exec.stage,
         index |-> IF running THEN InferIndex(v, t) ELSE -1,
         status |-> "pending", holders |-> {}, output |-> Nothing]
EnsureTask(v, t) ==
    IF t \in DOMAIN v.rows THEN v
    ELSE [v EXCEPT !.rows = [u \in DOMAIN @ \cup {t} |-> IF u = t THEN Placeholder(v, t) ELSE @[u]]]

Positive(n) == IF n < 0 THEN 0 ELSE n
BumpStage(v, row, delta) ==
    IF row.kind # "run" \/ row.stage + 1 \notin DOMAIN v.exec.done THEN v
    ELSE [v EXCEPT !.exec.done[row.stage + 1] = Positive(@ + delta)]
ShowAssigned(v, m) ==
    LET row == v.rows[m.task]
        taken == [row EXCEPT !.holders = @ \cup {m.node},
                             !.status = IF @ = "pending" THEN "assigned" ELSE @]
    IN  [v EXCEPT !.rows[m.task] = taken]
ShowDone(v, m) ==
    BumpStage([v EXCEPT !.rows[m.task] = [@ EXCEPT !.status = "done", !.output = m.output,
                                                   !.holders = {}]], v.rows[m.task], 1)
ShowReassigned(v, m) ==
    LET row == v.rows[m.task]
        left == row.holders \ {m.node}
        freed == [row EXCEPT !.holders = left,
                             !.status = IF @ = "assigned" /\ left = {} THEN "pending" ELSE @]
    IN  [v EXCEPT !.rows[m.task] = freed]
\* The accepted result is withdrawn along with the disagreeing one.
ShowMismatch(v, m) ==
    LET row == v.rows[m.task]
        withdrawn == [v EXCEPT !.rows[m.task] = [@ EXCEPT !.status = "pending",
                                                    !.output = Nothing, !.holders = {}]]
    IN  CASE row.status = "failed" -> v
          [] row.status = "done" -> BumpStage(withdrawn, row, -1)
          [] OTHER -> withdrawn
ShowFailed(v, m) ==
    [v EXCEPT !.rows[m.task] = [@ EXCEPT !.status = "failed", !.holders = {}]]

ShowStage(v, m) ==
    LET done == [i \in 1..(m.stage + 1) |->
                    IF i \in DOMAIN v.exec.done /\ i <= m.stage THEN v.exec.done[i] ELSE 0]
    IN  [v EXCEPT !.rows = ById(m.rows),
                  !.exec = [@ EXCEPT !.phase = "running", !.stage = m.stage, !.count = m.count,
                                     !.base = IdBase(m.rows), !.done = done]]
ShowStageDone(v, m) ==
    LET more == IF DoneRows(v.rows, m.stage) > v.exec.done[m.stage + 1]
                THEN DoneRows(v.rows, m.stage) ELSE v.exec.done[m.stage + 1]
    IN  [v EXCEPT !.exec = [@ EXCEPT !.phase = "folding", !.done[m.stage + 1] = more]]

IsShown(v, e) == v.exec.id = e
ShowEndedBug(v, m) == IF IsShown(v, m.exec) THEN [v EXCEPT !.exec.phase = m.status] ELSE v
ShowEnded(v, m) ==
    LET w == IF m.status = "failed" THEN [v EXCEPT !.queue = @ \ {m.exec}] ELSE v
    IN  IF IsShown(v, m.exec) THEN [w EXCEPT !.exec.phase = m.status] ELSE w
ApplyTask(v, m) ==
    LET known == EnsureTask(v, m.task)
    IN  CASE m.t = "taskAssigned" -> ShowAssigned(known, m)
          [] m.t = "taskDone" -> ShowDone(known, m)
          [] m.t = "taskReassigned" -> ShowReassigned(known, m)
          [] m.t = "taskMismatch" -> ShowMismatch(known, m)
          [] m.t = "taskFailed" -> ShowFailed(known, m)
          [] m.t = "taskVerified" -> v
ApplyEvent(v, m, view) ==
    CASE m.t = "nodeJoined" -> [v EXCEPT !.nodes = @ \cup {m.node}]
      [] m.t = "nodeLeft" -> [v EXCEPT !.nodes = @ \ {m.node}]
      [] m.t = "executionQueued" -> [v EXCEPT !.queue = @ \cup {m.exec}]
      [] m.t = "executionStarted" ->
            [v EXCEPT !.exec = ToExecutionState(view), !.rows = <<>>, !.queue = @ \ {m.exec}]
      [] m.t = "stageStarted" -> IF IsShown(v, m.exec) THEN ShowStage(v, m) ELSE v
      [] m.t = "stageDone" -> IF IsShown(v, m.exec) THEN ShowStageDone(v, m) ELSE v
      [] m.t = "executionEnded" -> ShowEnded(v, m)
      [] m.t = "controlApplied" ->
            IF m.op = "setRedundancy" THEN [v EXCEPT !.refresh = TRUE]
            ELSE IF m.op \in {"pause", "resume"} THEN [v EXCEPT !.paused = m.op = "pause"]
            ELSE v
      [] OTHER -> ApplyTask(v, m)
ApplyMessage(v, m) ==
    IF m.t = "snapshot" THEN ApplySnapshot(v, m)
    ELSE ApplyEvent(Heard(v, m), m.told, m.view)

-----------------------------------------------------------------------------
Init ==
    /\ ledger = [seq |-> 0, nodes |-> {}, execs |-> <<>>, queue |-> <<>>, running |-> 0,
                 tasks |-> <<>>, paused |-> FALSE, redundancy |-> FALSE, ends |-> 0,
                 out |-> <<>>]
    /\ memo = Nothing
    /\ page = [subscribed |-> FALSE, missed |-> 0, view |-> EmptyView]
    /\ trouble = 0

Stays == trouble' = trouble
Goes == trouble < MaxTrouble /\ trouble' = trouble + 1

\* The page reads what it is sent, in order: nothing else touches the view, so
\* reading later would show the same.
ReadUpTo(v, messages) ==
    LET read[i \in 0..Len(messages)] ==
            IF i = 0 THEN v ELSE ApplyMessage(read[i - 1], messages[i])
    IN  read
ReadAll(v, messages) == ReadUpTo(v, messages)[Len(messages)]
\* A handler has made `l` of the ledger: what it announced is numbered and sent.
Handle(l) ==
    /\ page.missed < MaxMissed
    /\ ledger' = Numbered(l)
    /\ page' = IF page.subscribed THEN [page EXCEPT !.view = ReadAll(@, Events(l))]
               ELSE IF page.view = EmptyView THEN page ELSE [page EXCEPT !.missed = @ + 1]
    /\ memo' = MemoAfter(memo, l)

Join(n) ==
    /\ n \notin ledger.nodes /\ Stays
    /\ Handle(Advance(Say([ledger EXCEPT !.nodes = @ \cup {n}],
                          [t |-> "nodeJoined", node |-> n]), {}))
Leave(n) ==
    /\ n \in ledger.nodes /\ Goes
    /\ LET gone == Say([ledger EXCEPT !.nodes = @ \ {n}], [t |-> "nodeLeft", node |-> n])
       IN  Handle(Advance(ReleaseNode(gone, n), {}))

\* A person launches an execution, or one that inherits the root of a done one.
Launch(awaits) ==
    /\ Len(ledger.execs) < MaxExecutions /\ Stays
    /\ awaits = "inherit" => \E e \in DOMAIN ledger.execs : ledger.execs[e].status = "done"
    /\ LET e == Len(ledger.execs) + 1
           exec == [status |-> "queued", stage |-> -1, from |-> 1, count |-> 0, plan |-> 0,
                    sealed |-> -1, awaits |-> awaits, ended |-> 0]
           queued == [ledger EXCEPT !.execs = Append(@, exec), !.queue = Append(@, e)]
       IN  Handle(Advance(Say(queued, [t |-> "executionQueued", exec |-> e]), {}))

Awaits(what) == ledger.running # 0 /\ Running(ledger).awaits = what
\* The inherited root is read: the plan task is made, and nobody is told.
RootFetched ==
    /\ Awaits("inherit") /\ Stays
    /\ Handle(Advance(CreatePlan([ledger EXCEPT !.execs[ledger.running].awaits = "none"],
                                 ledger.running, 0), {}))
\* The planner's spec: the tasks of the next stage, or the end.
SpecFetched(count) ==
    /\ Awaits("spec") /\ Stays
    /\ LET e == ledger.running
           stage == ledger.tasks[Running(ledger).plan].stage
           from == Len(ledger.tasks) + 1
           planned == [ledger EXCEPT !.execs[e] =
                         [@ EXCEPT !.awaits = "none", !.plan = 0, !.stage = stage,
                                   !.from = from, !.count = count]]
           made == [planned EXCEPT !.tasks =
                      @ \o [i \in 1..count |-> NewTask(planned, e, stage, i - 1, "run")]]
           sent == {TaskView(made, t) : t \in from..Smaller(from + count - 1, from + PageRows - 1)}
       IN  /\ stage < MaxStages /\ Len(made.tasks) <= MaxTasks
           /\ Handle(Advance(Say(made, [t |-> "stageStarted", exec |-> e, stage |-> stage,
                                        count |-> count, rows |-> sent]), {}))
SpecDone ==
    /\ Awaits("spec") /\ Stays
    /\ LET e == ledger.running
       IN  Handle(Advance(End([ledger EXCEPT !.execs[e].plan = 0], e, "done"), {}))
ManifestStored ==
    /\ Awaits("manifest") /\ Stays
    /\ LET e == ledger.running
           stage == Running(ledger).stage
           told == Say([ledger EXCEPT !.execs[e].awaits = "none"],
                       [t |-> "stageDone", exec |-> e, stage |-> stage])
       IN  Handle(Advance(CreatePlan(told, e, stage + 1), {}))

\* A second contradiction of a task takes no more trouble than the first.
Contradicts(task) == task.rounds < MaxRounds /\ IF task.rounds = 0 THEN Goes ELSE Stays
\* The report of an open attempt.
Report(n, t, o) ==
    /\ ledger.running # 0 /\ n \in ledger.tasks[t].open
    /\ LET task == ledger.tasks[t]
           closed == [ledger EXCEPT !.tasks[t].open = @ \ {n}]
           accepted == Accept(closed, t, n, o)
           verified == Say(accepted, [t |-> "taskVerified", task |-> t])
       IN  IF task.said = {} /\ task.required = 2
           THEN /\ Stays
                /\ Handle(Advance([closed EXCEPT !.tasks[t].said = {n}, !.tasks[t].first = o], {}))
           ELSE IF task.said = {} \/ task.first = o
           THEN /\ Stays
                /\ Handle(Advance(AfterSettled(IF task.said = {} \/ o = Trap THEN accepted
                                               ELSE verified, t), {}))
           ELSE /\ Contradicts(task)
                /\ \E vote \in {Nothing} \cup IF task.rounds > 0 THEN {o, task.first} ELSE {} :
                      Handle(Advance(Contest(closed, t, n, vote), {}))
\* A report about a task that is done: verified, contested, or only announced.
LateReport(n, t, o) ==
    /\ ledger.running = ledger.tasks[t].exec /\ n \in ledger.nodes
    /\ ledger.tasks[t].status = "done"
    /\ IF o = ledger.tasks[t].output \/ IsSealed(ledger, t) THEN Goes
       ELSE Contradicts(ledger.tasks[t])
    /\ IF o = ledger.tasks[t].output
       THEN Handle(Advance(Say(ledger, [t |-> "taskVerified", task |-> t]), {}))
       ELSE IF IsSealed(ledger, t) THEN Handle(Advance(Say(ledger, Mismatch(t)), {}))
       ELSE \E vote \in {Nothing} \cup IF ledger.tasks[t].rounds > 0 THEN {o} ELSE {} :
               Handle(Advance(Contest(ledger, t, n, vote), {}))
GiveUp(n, t) ==
    /\ ledger.running # 0 /\ n \in ledger.tasks[t].open /\ Goes
    /\ Handle(Advance(Release(ledger, t, n), {}))
\* A tick that finds an attempt overdue.
Tick(t) ==
    /\ ledger.running # 0 /\ t \in Current(Running(ledger)) /\ Goes
    /\ Handle(Advance(ledger, {t}))

Applied(l, op) == Say(l, [t |-> "controlApplied", op |-> op])
\* The running execution is killed, or a queued one dropped.
Kill(e) ==
    /\ ledger.execs[e].status \in {"queued", "running"} /\ Goes
    /\ Handle(Advance(Applied(End(ledger, e, "failed"), "killExecution"), {}))
Pause ==
    /\ ~ledger.paused /\ Goes
    /\ Handle(Applied([ledger EXCEPT !.paused = TRUE], "pause"))
Resume ==
    /\ ledger.paused /\ Stays
    /\ Handle(Advance(Applied([ledger EXCEPT !.paused = FALSE], "resume"), {}))
RedundancyOn ==
    /\ ~ledger.redundancy /\ Goes
    /\ Handle(Applied([ledger EXCEPT !.redundancy = TRUE], "setRedundancy"))
\* One report is enough now: a task that holds one settles on it.
SettleExisting(l, t) ==
    LET task == l.tasks[t]
        enough == [l EXCEPT !.tasks[t].required = 1]
    IN  IF ~IsOpen(task) THEN l
        ELSE IF task.said = {} THEN enough
        ELSE AfterSettled(Accept(enough, t, CHOOSE n \in task.said : TRUE, task.first), t)
Settled(l) ==
    LET settled[t \in 0..Len(l.tasks)] ==
            IF t = 0 THEN l ELSE SettleExisting(settled[t - 1], t)
    IN  settled
RedundancyOff ==
    /\ ledger.redundancy /\ Stays
    /\ LET off == Applied([ledger EXCEPT !.redundancy = FALSE], "setRedundancy")
       IN  Handle(Advance(Settled(off)[Len(off.tasks)], {}))

\* A successor adopts the ledger: every node and socket is gone.
Adopt ==
    /\ Goes
    /\ LET alone == ReleasedAll(ledger)[Len(NodeOrder)]
       IN  ledger' = Numbered([alone EXCEPT !.nodes = {}, !.paused = FALSE])
    /\ memo' = Nothing
    /\ page' = [page EXCEPT !.subscribed = FALSE]

\* The page (re)subscribes: pages of the ledger as it is, then what follows.
Subscribe ==
    /\ ~page.subscribed /\ Stays
    /\ LET l == Advance(ledger, {})
       IN  /\ page' = [page EXCEPT !.subscribed = TRUE, !.missed = 0,
                             !.view = ReadAll(@, SnapshotPages(ledger) \o Events(l))]
           /\ memo' = MemoAfter(Pages(ledger), l)
           /\ ledger' = Numbered(l)
\* After a gap or a stale machine view the page closes and asks for a snapshot.
Resubscribe ==
    /\ page.subscribed /\ (page.view.gap \/ page.view.refresh) /\ Stays
    /\ page' = [page EXCEPT !.subscribed = FALSE,
                            !.view.gap = FALSE, !.view.refresh = FALSE]
    /\ UNCHANGED <<ledger, memo>>
Close ==
    /\ page.subscribed /\ Goes
    /\ page' = [page EXCEPT !.subscribed = FALSE]
    /\ UNCHANGED <<ledger, memo>>

Next ==
    \/ \E n \in Nodes : Join(n) \/ Leave(n)
    \/ \E awaits \in {"none", "inherit"} : Launch(awaits)
    \/ RootFetched \/ SpecDone \/ ManifestStored
    \/ \E count \in 1..MaxTasks : SpecFetched(count)
    \/ \E n \in Nodes, t \in DOMAIN ledger.tasks :
          \/ \E o \in Outputs \cup {Trap} : Report(n, t, o) \/ LateReport(n, t, o)
          \/ GiveUp(n, t)
    \/ \E t \in DOMAIN ledger.tasks : Tick(t)
    \/ \E e \in DOMAIN ledger.execs : Kill(e)
    \/ Pause \/ Resume \/ RedundancyOn \/ RedundancyOff
    \/ Adopt \/ Subscribe \/ Resubscribe \/ Close

Spec == Init /\ [][Next]_vars

-----------------------------------------------------------------------------
\* The page is live: it has every page of a snapshot, and asks for no other.
CaughtUp == page.subscribed /\ page.view.left = 0 /\ ~page.view.refresh

ShownRows == {t \in DOMAIN ledger.tasks :
                ledger.running # 0 /\ t \in StageIds(Running(ledger))}
\* A row shows a result exactly if it is accepted now, and an attempt if one is
\* open, and the strip's tally of the stage is the number of rows shown done:
\* whatever was retracted, verified late or taken back, and however old the
\* pages a subscriber was handed.  A disagreement about a result of a folded
\* stage is the exception: it is shown withdrawn.
RowsShown ==
    CaughtUp =>
        /\ \A t \in ShownRows :
            LET task == ledger.tasks[t]
                row == IF t \in DOMAIN page.view.rows THEN page.view.rows[t]
                       ELSE Placeholder(page.view, t)
            IN  /\ row.status = "done" => task.status = "done" /\ row.output = task.output
                /\ task.status = "done" /\ ~IsSealed(ledger, t) => row.status = "done"
                /\ task.status = "assigned" => row.status = "assigned"
        /\ page.view.exec.count > 0 =>
            page.view.exec.done[page.view.exec.stage + 1] =
                DoneRows(page.view.rows, page.view.exec.stage)

\* A run task of the current stage is painted at its own place, though
\* stageStarted carries only the first rows and the others are placed by their
\* ids; and no other row takes a place of the stage.
PlacedRight ==
    CaughtUp /\ ledger.running # 0 => \A t \in DOMAIN page.view.rows :
        LET row == page.view.rows[t]
            isPlaced == IsRunOf(row, Running(ledger).stage) /\ row.index # -1
        IN  IF t \in ShownRows THEN isPlaced /\ row.index = ledger.tasks[t].index
            ELSE ~isPlaced

\* No event is missed while a socket lives, and the page shows the nodes, the
\* queue, the pause and the redundancy there are, and the running execution at
\* its stage.
MachineShown ==
    CaughtUp =>
        /\ ~page.view.gap
        /\ page.view.nodes = ledger.nodes
        /\ page.view.queue = ToSet(ledger.queue)
        /\ page.view.paused = ledger.paused
        /\ page.view.redundancy = ledger.redundancy
        /\ ledger.running # 0 =>
            /\ IsShown(page.view, ledger.running)
            /\ page.view.exec.phase \in {"planning", "running", "folding"}
            /\ page.view.exec.count > 0 => page.view.exec.stage = Running(ledger).stage
-----------------------------------------------------------------------------
\* The inductive invariant, which MachineShown follows from.  Its parts speak of
\* a ledger l in the middle of a handler, or of a view v of it.
Phases == {"planning", "running", "folding"}
Yields == Outputs \cup {Trap, Nothing}
ExecRecs ==
    [status : {"queued", "running", "done", "failed"}, stage : Int, from : Nat, count : Nat,
     plan : Nat, sealed : Int, awaits : {"none", "inherit", "spec", "manifest"}, ended : Nat]
TaskRecs ==
    [exec : Nat, stage : Nat, index : Nat, kind : {"plan", "run"}, status : Statuses,
     required : {1, 2}, open : SUBSET Nodes, said : SUBSET Nodes, first : Yields,
     rounds : Nat, output : Yields]
RowRecs ==
    [id : Nat, kind : {"plan", "run"}, stage : Nat, index : Nat, status : Statuses,
     holders : SUBSET Nodes, output : Yields]
TaskMessages ==
    [t : {"taskAssigned", "taskReassigned"}, task : Nat, node : Nodes]
        \cup [t : {"taskDone"}, task : Nat, node : Nodes, output : Yields]
        \cup [t : {"taskFailed", "taskMismatch", "taskVerified"}, task : Nat]
MachineMessages ==
    [t : {"nodeJoined", "nodeLeft"}, node : Nodes]
        \cup [t : {"executionQueued", "executionStarted"}, exec : Nat]
        \cup [t : {"stageStarted"}, exec : Nat, stage : Nat, count : Nat, rows : SUBSET RowRecs]
        \cup [t : {"stageDone"}, exec : Nat, stage : Int]
        \cup [t : {"executionEnded"}, exec : Nat, status : {"done", "failed"}]
        \cup [t : {"controlApplied"}, op : {"pause", "resume", "setRedundancy", "killExecution"}]
Messages == TaskMessages \cup MachineMessages
Ledgers ==
    [seq : Nat, nodes : SUBSET Nodes, execs : Seq(ExecRecs), queue : Seq(Nat), running : Nat,
     tasks : Seq(TaskRecs), paused : BOOLEAN, redundancy : BOOLEAN, ends : Nat,
     out : Seq(Messages)]

\* One execution runs; the queue holds others, each once and untouched.
Queued(l) ==
    /\ l.running # 0 => l.running \in DOMAIN l.execs /\ l.execs[l.running].status = "running"
    /\ IsInjective(l.queue)
    /\ \A e \in ToSet(l.queue) : e \in DOMAIN l.execs /\ l.execs[e].status = "queued"

\* A stage is planned after the one before is folded: what is awaited says which.
ExecFits(x, e, tasks) ==
    /\ x.count > 0 => x.stage >= 0
    /\ -1 <= x.sealed /\ x.sealed <= x.stage
    /\ x.plan # 0 => /\ x.plan \in DOMAIN tasks /\ tasks[x.plan].stage > x.sealed
                     /\ tasks[x.plan].kind = "plan" /\ tasks[x.plan].exec = e
    /\ x.awaits = "spec" => x.plan # 0 /\ ~IsOpen(tasks[x.plan])
    /\ x.awaits \in {"manifest", "inherit"} => x.plan = 0
    /\ x.status = "queued" => x.awaits \in {"none", "inherit"} /\ x.plan = 0
    /\ x.status = "queued" \/ x.awaits = "inherit" => x.count = 0 /\ x.sealed = -1
\* A result may be accepted for task t of execution x only now.
Live(x, t, task) ==
    IF task.kind = "plan" THEN x.plan = t /\ x.awaits # "spec"
    ELSE /\ t \in StageIds(x) /\ task.stage = x.stage
         /\ x.plan = 0 /\ x.awaits # "manifest"
TaskFits(x, t, task) ==
    /\ task.open # {} => task.status = "assigned"
    /\ task.said # {} => task.first # Nothing
    /\ \/ Live(x, t, task)
       \/ ~IsOpen(task) /\ (task.kind = "run" => task.stage <= x.sealed)
Staged(execs, tasks) ==
    /\ \A e \in DOMAIN execs : ExecFits(execs[e], e, tasks)
    /\ \A t \in DOMAIN tasks :
          tasks[t].exec \in DOMAIN execs /\ TaskFits(execs[tasks[t].exec], t, tasks[t])
Sound(l) == l \in Ledgers /\ Queued(l) /\ Staged(l.execs, l.tasks)

\* What every view is.
Shape(v) ==
    /\ DOMAIN v = DOMAIN EmptyView /\ DOMAIN v.exec = DOMAIN EmptyView.exec
    /\ \A t \in DOMAIN v.rows : /\ DOMAIN v.rows[t] = DOMAIN Placeholder(EmptyView, 0)
                               /\ v.rows[t].status \in Statuses
\* What a view of l is, with all of its messages and all of its events.
Matches(v, l) ==
    /\ v.nodes = l.nodes /\ v.queue = ToSet(l.queue) /\ v.paused = l.paused
    /\ v.redundancy = l.redundancy \/ v.refresh
    /\ l.running # 0 => /\ v.exec.id = l.running /\ v.exec.phase \in Phases
                        /\ v.exec.count > 0 => v.exec.stage = l.execs[l.running].stage
UpToDate(v, l) == Shape(v) /\ v.seq = l.seq /\ ~v.gap /\ v.left = 0 /\ Matches(v, l)

PagesFit(pages) == pages \in Seq(Seq(RowRecs)) /\ pages # <<>>
ReplicaIInv ==
    /\ Sound(ledger) /\ ledger.out = <<>>
    /\ memo = Nothing \/ PagesFit(memo)
    /\ DOMAIN page = {"subscribed", "missed", "view"} /\ page.subscribed \in BOOLEAN
    /\ page.missed \in Nat /\ trouble \in 0..MaxTrouble
    /\ Shape(page.view)
    /\ page.subscribed => UpToDate(page.view, ledger)
=============================================================================
