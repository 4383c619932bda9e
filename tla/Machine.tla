------------------------------- MODULE Machine -------------------------------
(***************************************************************************)
(* The machine's queue and default loop (design section 6.7, D19): people  *)
(* launch, kill, restart, stop, pause; the loop launches frames when it    *)
(* may; one execution runs at a time.  What an execution does while it     *)
(* runs is module Stages.  From packages/core/src: execution.ts, loop.ts,  *)
(* advance.ts, controls.ts, connections.ts, apply.ts.                      *)
(*                                                                         *)
(* A handler is a chain of the operators below, each from ledger to        *)
(* ledger, so that an action is the whole of it.                           *)
(*                                                                         *)
(* Abstractions.  Time is what the code compares it with: whether a        *)
(* backoff holds, and whether anyone touched the page lately.  Every       *)
(* automatic execution is the default loop's; its program is never         *)
(* retired.  A refused launch (rate, cooldown, parameters) is none.        *)
(***************************************************************************)
EXTENDS Naturals, SequencesExt, Filter

CONSTANTS
    Observers,       \* ids of observer connections
    Nobody,          \* null: nobody holds the machine paused
    QueueCap,        \* QUEUE_CAP
    MaxExecutions    \* bound: launches, after which all are refused

ASSUME MachineAssumption ==
    /\ Nobody \notin Observers
    /\ QueueCap \in Nat \ {0}
    /\ MaxExecutions \in Nat

VARIABLE ledger  \* what the core's Ledger says of queue, loop and session

None == 0  \* no execution; their ids count from 1
-----------------------------------------------------------------------------
(* loop.ts *)

IsHuman(l, id) == l.executions[id].human

\* loopMayRun: the gate for automatic work.
LoopMayRun(l) ==
    /\ ~l.loopStopped /\ l.pausedBy = Nobody
    /\ l.loopYielded => l.quiet

\* loopLaunch: the loop's own launch is due.
LoopLaunches(l) ==
    /\ l.running = None /\ l.queue = <<>> /\ l.observers # {}
    /\ LoopMayRun(l) /\ l.awake /\ ~l.held

\* loopContinuation: a frame offers a follow-up, and the loop takes it.
Continues(l, id, followUp) ==
    /\ followUp /\ ~IsHuman(l, id)
    /\ ~l.loopStopped /\ ~l.loopYielded
    /\ l.observers # {}
-----------------------------------------------------------------------------
(* execution.ts, advance.ts *)

\* The gate stops the loop's launches, not what it left in the queue.
MaybeStartGateBug(l) ==
    IF l.running # None \/ l.pausedBy # Nobody \/ l.queue = <<>> THEN l
    ELSE [l EXCEPT !.queue = Tail(@), !.running = Head(l.queue),
                   !.executions[Head(l.queue)].status = "running",
                   !.loopYielded = @ /\ IsHuman(l, Head(l.queue))]

\* Start the head of the queue, unless it is automatic and the gate is shut.
\* An automatic one takes the stage back.
MaybeStart(l) ==
    IF \/ l.running # None \/ l.pausedBy # Nobody \/ l.queue = <<>>
       \/ ~IsHuman(l, Head(l.queue)) /\ (~LoopMayRun(l) \/ l.held)
    THEN l
    ELSE [l EXCEPT !.queue = Tail(@), !.running = Head(l.queue),
                   !.executions[Head(l.queue)].status = "running",
                   !.loopYielded = @ /\ IsHuman(l, Head(l.queue))]

\* One launch more than the queue holds.
RefusedBug(l) == Len(l.queue) > QueueCap \/ Len(l.executions) = MaxExecutions

Refused(l) == Len(l.queue) >= QueueCap \/ Len(l.executions) = MaxExecutions

\* enqueue: human launches go ahead of automatic continuations.
Enqueue(l, human) ==
    LET id == Len(l.executions) + 1
        automatic == {i \in DOMAIN l.queue : ~IsHuman(l, l.queue[i])}
        place == IF human /\ automatic # {} THEN Min(automatic) ELSE Len(l.queue) + 1
    IN IF Refused(l) THEN l
       ELSE MaybeStart([l EXCEPT
                !.executions = Append(@, [human |-> human, status |-> "queued"]),
                !.queue = InsertAt(@, place, id)])

\* advance: the loop's launch if it is due, then the next queued execution.
Advance(l) ==
    MaybeStart(IF LoopLaunches(l)
               THEN Enqueue([l EXCEPT !.loopYielded = FALSE], FALSE) ELSE l)

\* The executions once these have ended.
Closed(l, ids) ==
    [id \in DOMAIN l.executions |->
        [human |-> IsHuman(l, id),
         status |-> IF id \in ids THEN "ended" ELSE l.executions[id].status]]

\* An ended execution stays in the queue if it was there.
EndAllBug(l, ids) ==
    [l EXCEPT
        !.executions = Closed(l, ids),
        !.running = IF @ \in ids THEN None ELSE @,
        !.loopYielded = @ \/ \E id \in ids : IsHuman(l, id)]

\* endExecution of each of these: the loop yields to a person whose launch ended.
EndAll(l, ids) ==
    [l EXCEPT
        !.executions = Closed(l, ids),
        !.queue = Without(@, ids),
        !.running = IF @ \in ids THEN None ELSE @,
        !.loopYielded = @ \/ \E id \in ids : IsHuman(l, id)]

\* endExecution of one: a failed frame starts a backoff.
End(l, id, how) ==
    [EndAll(l, {id}) EXCEPT !.held = @ \/ (how = "failed" /\ ~IsHuman(l, id))]

\* finishExecution
Finish(l, id, followUp) ==
    LET m == End(l, id, "done")
    IN IF Continues(m, id, followUp) THEN Enqueue(m, FALSE) ELSE m

\* cancelExecution of each of these, if it has not ended.
Cancel(l, ids) ==
    EndAll(l, {id \in ids : l.executions[id].status # "ended"})
-----------------------------------------------------------------------------
Init ==
    ledger = [executions |-> <<>>, queue |-> <<>>, running |-> None,
              loopStopped |-> FALSE, loopYielded |-> FALSE, held |-> FALSE,
              quiet |-> FALSE, awake |-> TRUE, pausedBy |-> Nobody, observers |-> {}]

Touched == [ledger EXCEPT !.quiet = FALSE]

\* subscribe
Subscribe(o) ==
    /\ o \notin ledger.observers
    /\ ledger' = Advance([Touched EXCEPT !.observers = @ \cup {o}])

\* removeConnection: the pause holder's socket went away, so the machine
\* resumes, with that observer still counted as watching.
Forget(l, gone) ==
    LET m == IF l.pausedBy \in gone THEN Advance([l EXCEPT !.pausedBy = Nobody]) ELSE l
    IN [m EXCEPT !.observers = @ \ gone]

\* An observer's connection closes.
Leave(o) ==
    /\ o \in ledger.observers
    /\ ledger' = Forget(ledger, {o})

\* tick: silent observers are dropped; the machine sleeps when nobody has been
\* watching, or nobody has touched the page, for long enough; then advance.
Tick(silent, awake) ==
    LET l == Forget(ledger, silent)
    IN /\ awake \/ l.observers = {} \/ l.quiet
       /\ ledger' = Advance([l EXCEPT !.awake = awake])

LaunchHuman(l) == IF Refused(l) THEN l ELSE Advance(Enqueue(l, TRUE))

\* launch or runFollowUp by an observer
Launch == ledger.observers # {} /\ ledger' = LaunchHuman(Touched)

\* The process resolved an uploaded bundle: programAdded, then the launch.  Who
\* uploaded it may be gone.
LaunchUploaded == ledger' = LaunchHuman(Advance(ledger))

\* A control arrives from a subscribed observer.
Control == ledger.observers # {}

\* killHalf, freezeHalf, throttleHalf, resumeAll, setRedundancy, and every
\* control that is refused: somebody touched the page.
Touch == Control /\ ledger' = Touched

\* The relaunch goes to the front of what is still queued.
ToFront(l, id) ==
    IF Contains(l.queue, id)
    THEN [l EXCEPT !.queue = <<id>> \o Without(@, {id})]
    ELSE l

\* restart
Restart ==
    /\ Control /\ ledger.running # None
    /\ LET l == Cancel(Touched, {ledger.running})
           relaunched == Enqueue(l, IsHuman(l, ledger.running))
       IN ledger' = Advance(IF Refused(l) THEN l
                            ELSE ToFront(relaunched, Len(relaunched.executions)))

\* skip
Skip ==
    /\ Control /\ ledger.running # None
    /\ ledger' = Advance(Cancel(Touched, {ledger.running}))

\* killExecution
Kill(id) ==
    /\ Control
    /\ ledger' = Advance(Cancel(Touched, {id}))

\* Only the running execution is ended.
StopBug ==
    /\ Control
    /\ LET l == [Touched EXCEPT !.loopStopped = TRUE]
       IN ledger' = Advance(Cancel(l, {l.running} \ {None}))

\* stop: the running execution and the loop's queued ones end, a person's
\* queued launches stay.
Stop ==
    /\ Control
    /\ LET l == [Touched EXCEPT !.loopStopped = TRUE]
           automatic == {i \in Range(l.queue) : ~IsHuman(l, i)}
       IN ledger' = Advance(Cancel(l, ({l.running} \ {None}) \cup automatic))

\* pause: the latest to ask holds it.
Pause(o) ==
    /\ o \in ledger.observers
    /\ ledger' = [Touched EXCEPT !.pausedBy = o]

\* resume, by anyone
Resume ==
    /\ Control /\ ledger.pausedBy # Nobody
    /\ ledger' = Advance([Touched EXCEPT !.pausedBy = Nobody])

\* start: the loop may run at once.
StartLoop ==
    /\ Control
    /\ ledger' = Advance([Touched EXCEPT !.loopStopped = FALSE, !.loopYielded = FALSE,
                                         !.held = FALSE])

\* The running execution finishes or fails, in a handler that ends in advance.
RunEnds ==
    /\ ledger.running # None
    /\ \/ \E followUp \in BOOLEAN : ledger' = Advance(Finish(ledger, ledger.running, followUp))
       \/ ledger' = Advance(End(ledger, ledger.running, "failed"))

\* YIELD_IDLE_MS pass without a control, a launch or a subscribe.
BecomeQuiet == ~ledger.quiet /\ ledger' = [ledger EXCEPT !.quiet = TRUE]

\* loopPausedUntil passes.
BackoffOver == ledger.held /\ ledger' = [ledger EXCEPT !.held = FALSE]

\* A successor adopts the ledger: no observers, nobody holds it paused.
Adopt == ledger' = [ledger EXCEPT !.observers = {}, !.pausedBy = Nobody]

Next ==
    \/ \E o \in Observers : Subscribe(o) \/ Leave(o) \/ Pause(o)
    \/ \E silent \in SUBSET ledger.observers, awake \in BOOLEAN : Tick(silent, awake)
    \/ Launch \/ LaunchUploaded
    \/ Touch \/ Restart \/ Skip \/ Stop \/ Resume \/ StartLoop
    \/ \E id \in DOMAIN ledger.executions : Kill(id)
    \/ RunEnds
    \/ BecomeQuiet \/ BackoffOver
    \/ Adopt

Spec == Init /\ [][Next]_ledger

\* The process ticks for ever, executions end (module Stages), time passes.
FairSpec ==
    /\ Spec
    /\ WF_ledger(\E silent \in SUBSET ledger.observers, awake \in BOOLEAN : Tick(silent, awake))
    /\ WF_ledger(RunEnds)
    /\ WF_ledger(BackoffOver)
-----------------------------------------------------------------------------
(* Properties. *)

Ids(l) == DOMAIN l.executions

Execution == [human : BOOLEAN, status : {"queued", "running", "ended"}]

Ledger ==
    [executions : Seq(Execution), queue : Seq(Nat), running : Nat,
     loopStopped : BOOLEAN, loopYielded : BOOLEAN, held : BOOLEAN, quiet : BOOLEAN,
     awake : BOOLEAN, pausedBy : Observers \cup {Nobody}, observers : SUBSET Observers]

TypeOK ==
    /\ ledger \in Ledger
    /\ Len(ledger.executions) =< MaxExecutions
    /\ Len(ledger.queue) =< QueueCap
    /\ ledger.running \in Ids(ledger) \cup {None}

\* The queue holds each queued execution once and nothing else, and only the
\* running execution is running (design 6.10).
Sound(l) ==
    /\ IsInjective(l.queue) /\ Range(l.queue) \subseteq Ids(l)
    /\ \A id \in Ids(l) :
          /\ id \in Range(l.queue) <=> l.executions[id].status = "queued"
          /\ id = l.running <=> l.executions[id].status = "running"

QueueSound == Sound(ledger)

\* An execution starts in this step.
Starts(id) == ledger'.running = id /\ ledger.running # id

\* The loop keeps out: no automatic execution, fresh, continued or restarted,
\* starts while the loop is stopped or backs off, or has yielded to a person
\* and somebody touched the page lately.
KeepsOut ==
    \A id \in 1..MaxExecutions :
        Starts(id) /\ ~IsHuman(ledger', id) =>
            /\ ~ledger'.loopStopped /\ ~ledger'.held /\ ~ledger'.loopYielded
            /\ \/ ledger.loopYielded
               \/ ledger.running # None /\ IsHuman(ledger, ledger.running)
               => ledger'.quiet \/ StartLoop

LoopKeepsOut == [][KeepsOut]_ledger

\* No launch is forgotten: once people leave a machine that nobody holds paused
\* alone, every launch of theirs that waits is started or was ended.
EveryLaunchRuns ==
    <>[](ledger.quiet /\ ledger.pausedBy = Nobody) =>
        \A id \in 1..MaxExecutions :
            (id \in Range(ledger.queue) /\ IsHuman(ledger, id)) ~> (id \notin Range(ledger.queue))
=============================================================================
