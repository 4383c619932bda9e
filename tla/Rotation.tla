------------------------------ MODULE Rotation ------------------------------
(***************************************************************************)
(* The rotate function beside the control planes it replaces (design       *)
(* section 9.4; packages/fleet/src).  A run reads the pointer, finishes or *)
(* rolls back what a dead run left, launches the next generation, hands    *)
(* the ledger over, flips the pointer and retires the predecessor.  It may *)
(* die at any line and a second one may overlap it; the operator's up and  *)
(* down write the same pointer.  Nothing compares before it writes: every  *)
(* read and every write is a step, and what was read may be stale.         *)
(*                                                                         *)
(* Abstractions.  Endpoints, image versions and the pin's value are left   *)
(* out (a pin is lost exactly as an `off` is, by a write of what was read  *)
(* before it).  Retries of one call are its repetition.                    *)
(***************************************************************************)
EXTENDS ControlPlane

CONSTANTS
    Runs,         \* invocations of the rotate function
    MaxOverlap,   \* how many of them run at once
    MaxReplays,   \* client tokens a launch tries before it gives up (3 in the code)
    MaxRotations  \* bound: invocations nobody needed (the schedule, an operator)

\* What the SSM parameter holds, and the successor it may name in advance.
Launched == [vm : Vms, gen : Nat, young : BOOLEAN]

Record ==
    [on : BOOLEAN, vm : Vms \cup {None}, gen : Nat, pending : Launched \cup {None},
     retiring : Vms \cup {None}, recent : BOOLEAN]

ASSUME RotationAssumption ==
    /\ None \notin Runs
    /\ None \notin Launched /\ None \notin Record
    /\ {MaxOverlap, MaxReplays, MaxRotations} \subseteq Nat

VARIABLES
    run,     \* the rotate function's invocations
    op,      \* the operator's script
    rule,    \* the schedule is enabled
    rotations, \* how many rotations nobody needed were asked for
    lost,    \* control planes whose launcher died, or whose terminate failed
    undone   \* a write has undone one made since its writer last looked

vars == <<cpVars, run, op, rule, rotations, lost, undone>>
-----------------------------------------------------------------------------
NoRun ==
    [pc |-> "idle", scheduled |-> FALSE, base |-> None, vm |-> None, gen |-> 0,
     old |-> None, ledger |-> None, after |-> "end"]

NoOp == [pc |-> "idle", base |-> None]

Pending(v, gen) == [vm |-> v, gen |-> gen, young |-> TRUE]

InFlight == {r \in Runs : run[r].pc # "idle"}

At(r, pc) == run[r].pc = pc
Goto(r, pc) == run' = [run EXCEPT ![r].pc = pc]
End(r) == run' = [run EXCEPT ![r] = NoRun]

\* The platform and the processes stand still.
PlatformStays == UNCHANGED <<vm, cp, latest, jobs>>
OthersStay == UNCHANGED <<op, rule, rotations>>

(* The parameter store has no compare-and-set: a write replaces whatever   *)
(* is there by what its writer made of the record it last saw.             *)
Timeless(p) ==
    <<p.on, p.vm, p.gen, p.retiring,
      IF p.pending = None THEN None ELSE p.pending.vm>>

Write(seen, p) ==
    /\ pointer' = p
    /\ undone' = (undone \/ Timeless(pointer) # Timeless(seen))

Unused == {v \in Vms : vm[v] = "unused"}
NextVm == CHOOSE v \in Unused : \A w \in Unused : v <= w
-----------------------------------------------------------------------------
(* Reading the pointer and standing down. *)

\* Off, or minutes after the last change: the run returns at once.
StandsDown(scheduled) ==
    \/ ~pointer.on
    \/ scheduled /\ pointer.recent

\* Where a run goes with the pointer it has just read: a leftover retire first.
FirstWork(p) ==
    IF p.retiring \notin {None, p.vm} THEN "drain"
    ELSE IF p.pending # None THEN "repair" ELSE "choose"

Starts(r, scheduled) ==
    /\ At(r, "idle")
    /\ Cardinality(InFlight) < MaxOverlap
    /\ ~StandsDown(scheduled)
    /\ run' = [run EXCEPT ![r] =
         [NoRun EXCEPT !.pc = FirstWork(pointer), !.scheduled = scheduled,
            !.base = pointer, !.old = pointer.retiring,
            !.after = IF FirstWork(pointer) = "drain" THEN "reread" ELSE "end"]]

(* EventBridge's hourly run, or an operator's, which takes as much of the  *)
(* bound as two faults.                                                    *)
Invoke(r) ==
    /\ rotations < MaxRotations /\ rotations' = rotations + 1
    /\ \/ rule /\ Starts(r, TRUE) /\ UNCHANGED trouble
       \/ Starts(r, FALSE) /\ Allowed(2) /\ trouble' = trouble + 2
    /\ PlatformStays /\ UNCHANGED <<pointer, undone, op, rule, lost>>

\* The session function heals when the control plane the pointer names serves
\* nobody; a pending one is starting.
NeedsHeal == pointer.vm \notin {v \in Vms : ServingState(v) \/ vm[v] = "pending"}

Unbound == UNCHANGED <<op, rule, rotations, undone, pointer, trouble, lost>>

Heal(r) ==
    /\ NeedsHeal
    /\ Starts(r, FALSE)
    /\ PlatformStays /\ Unbound

\* The next hour's run, when a dead one left its predecessor to retire or its
\* successor pending.
Hourly(r) ==
    /\ rule
    /\ pointer.retiring \notin {None, pointer.vm} \/ pointer.pending # None
    /\ Starts(r, TRUE)
    /\ PlatformStays /\ Unbound

(* The pointer read again, once the leftover is retired. *)
Reread(r) ==
    /\ At(r, "reread")
    /\ run' = [run EXCEPT ![r].base = pointer, ![r].old = None, ![r].after = "end",
                 ![r].pc = IF pointer.pending # None THEN "repair" ELSE "choose"]
    /\ PlatformStays /\ UNCHANGED <<pointer, undone, trouble, lost>> /\ OthersStay
-----------------------------------------------------------------------------
(* repair: the pending successor of a dead run. *)

RepairBug(r) ==    \* whatever is pending is somebody's
    /\ At(r, "repair")
    /\ End(r)
    /\ PlatformStays /\ UNCHANGED <<pointer, undone, trouble, lost>> /\ OthersStay

Repair(r) ==
    LET p == run[r].base
        s == p.pending
    IN  /\ At(r, "repair")
        /\ \/ /\ s.young
              /\ End(r)
           \/ /\ ~s.young /\ ~ServingState(s.vm)
              /\ Goto(r, "forget")
           \/ /\ ~s.young /\ ServingState(s.vm)
              /\ s.gen <= p.gen \/ (p.vm # None /\ ServingState(p.vm))
              /\ Goto(r, "roll back")
           \/ /\ ~s.young /\ ServingState(s.vm)
              /\ s.gen > p.gen /\ ~(p.vm # None /\ ServingState(p.vm))
              /\ run' = [run EXCEPT ![r].pc = "promote", ![r].vm = s.vm, ![r].gen = s.gen,
                           ![r].old = p.vm, ![r].after = "repaired"]
        /\ PlatformStays /\ UNCHANGED <<pointer, undone, trouble, lost>> /\ OthersStay

\* terminateQuietly: the hook runs, the MicroVM goes; or the call fails and
\* only a line in the log says so.
TerminateQuietly(v) ==
    \/ /\ Killed({v})
       /\ latest' \in LatestAfterKill({v})
       /\ UNCHANGED <<trouble, lost>>
    \/ /\ Fault
       /\ lost' = lost \cup {v}
       /\ UNCHANGED <<vm, cp, latest>>

RollBackBug(r) ==    \* it is only forgotten
    /\ At(r, "roll back")
    /\ Goto(r, "forget")
    /\ PlatformStays /\ UNCHANGED <<pointer, undone, trouble, lost>> /\ OthersStay

RollBack(r) ==
    /\ At(r, "roll back")
    /\ TerminateQuietly(run[r].base.pending.vm)
    /\ Goto(r, "forget")
    /\ UNCHANGED <<pointer, undone, jobs>> /\ OthersStay

\* clearPending from the record read at the start.
Forget(r) ==
    /\ At(r, "forget")
    /\ Write(run[r].base, [run[r].base EXCEPT !.pending = None])
    /\ Goto(r, "choose")
    /\ PlatformStays /\ UNCHANGED <<trouble, lost>> /\ OthersStay
-----------------------------------------------------------------------------
(* Heal or rotate. *)

\* skipIfIdle: an idle machine waits for a visitor.
SkipIdle(p) ==
    /\ p.vm # None
    /\ vm[p.vm] = "suspended" \/ (p.pending = None /\ vm[p.vm] = "gone")

Choose(r) ==
    LET p == IF run[r].base.pending # None THEN pointer ELSE run[r].base
        serving == p.vm # None /\ Live(p.vm)
    IN  /\ At(r, "choose")
        /\ IF run[r].scheduled /\ SkipIdle(p) THEN End(r)
           ELSE run' = [run EXCEPT ![r].pc = "launch", ![r].base = p,
                          ![r].gen = p.gen + 1,
                          ![r].old = IF serving THEN p.vm ELSE None]
        /\ PlatformStays /\ UNCHANGED <<pointer, undone, trouble, lost>> /\ OthersStay

\* The MicroVMs a client token of this generation and hour has named.
Replayed(gen) == {v \in Vms : cp[v].token /\ cp[v].gen = gen}

(* RunMicrovm answers a token it knows with the MicroVM it named, so that  *)
(* overlapping runs launch one; after MaxReplays that are gone it gives up. *)
Launch(r) ==
    LET gen == run[r].gen
        alive == {v \in Replayed(gen) : Live(v)}
    IN  /\ At(r, "launch")
        /\ \/ /\ alive # {}
              /\ \E v \in alive : run' = [run EXCEPT ![r].pc = "record", ![r].vm = v]
              /\ UNCHANGED <<vm, cp, trouble>>
           \/ /\ alive = {} /\ Cardinality(Replayed(gen)) < MaxReplays
              /\ Unused # {}
              /\ vm' = [vm EXCEPT ![NextVm] = "pending"]
              /\ cp' = [cp EXCEPT ![NextVm].gen = gen, ![NextVm].token = TRUE]
              /\ run' = [run EXCEPT ![r].pc = "record", ![r].vm = NextVm]
              /\ UNCHANGED trouble
           \/ /\ alive = {} /\ Cardinality(Replayed(gen)) >= MaxReplays
              /\ Goto(r, "unpend")
              /\ UNCHANGED <<vm, cp, trouble>>
           \/ /\ Fault          \* RunMicrovm failed
              /\ End(r)
              /\ UNCHANGED <<vm, cp>>
        /\ UNCHANGED <<pointer, undone, latest, jobs, lost>> /\ OthersStay

\* recordPending: the pointer as it was read, with the successor in it.
RecordedBug(base, v, gen) == [base EXCEPT !.pending = Pending(base.retiring, gen)]

Recorded(base, v, gen) == [base EXCEPT !.pending = Pending(v, gen)]

RecordPending(r) ==
    /\ At(r, "record")
    /\ Write(run[r].base, Recorded(run[r].base, run[r].vm, run[r].gen))
    /\ run' = [run EXCEPT ![r].pc = "wait",
                 ![r].base = Recorded(run[r].base, run[r].vm, run[r].gen)]
    /\ PlatformStays /\ UNCHANGED <<trouble, lost>> /\ OthersStay

\* waitUntilRunning, and the termination of what never came up.
Wait(r) ==
    /\ At(r, "wait")
    /\ \/ /\ vm[run[r].vm] = "running"
          /\ Goto(r, IF run[r].old = None THEN "promote" ELSE "handover")
          /\ UNCHANGED <<vm, cp, latest, trouble, lost>>
       \/ /\ ~Live(run[r].vm)
          /\ Goto(r, "unpend")
          /\ UNCHANGED <<vm, cp, latest, trouble, lost>>
       \/ /\ vm[run[r].vm] = "suspended"        \* the ready timeout
          /\ TerminateQuietly(run[r].vm)
          /\ Goto(r, "unpend")
       \/ /\ vm[run[r].vm] = "pending" /\ Fault   \* it never came up
          /\ \/ Killed({run[r].vm}) /\ UNCHANGED <<latest, lost>>
             \/ lost' = lost \cup {run[r].vm} /\ UNCHANGED <<vm, cp, latest>>
          /\ Goto(r, "unpend")
    /\ UNCHANGED <<pointer, undone, jobs>> /\ OthersStay

\* clearPending, from the pointer as it stands: a read, then a write.
Unpend(r) ==
    /\ At(r, "unpend")
    /\ run' = [run EXCEPT ![r].pc = "unpend write", ![r].base = pointer]
    /\ PlatformStays /\ UNCHANGED <<pointer, undone, trouble, lost>> /\ OthersStay

UnpendWrite(r) ==
    /\ At(r, "unpend write")
    /\ Write(run[r].base, [run[r].base EXCEPT !.pending = None])
    /\ End(r)
    /\ PlatformStays /\ UNCHANGED <<trouble, lost>> /\ OthersStay
-----------------------------------------------------------------------------
(* The two calls of a handover.  A call may be served and its answer lost, *)
(* and is then repeated or given up.                                       *)

CallHandover(r) ==
    LET v == run[r].old
    IN  /\ At(r, "handover")
        /\ MayHandOver(v) /\ Wakes(v)
        /\ cp' = [cp EXCEPT ![v] = HandsOver(@)]
        /\ run' = [run EXCEPT ![r].pc = "handed", ![r].ledger = LedgerOf(v)]
        /\ UNCHANGED <<pointer, undone, latest, jobs, trouble, lost>> /\ OthersStay

\* /handover answers once its snapshot is written.
HandoverAnswered(r) ==
    /\ At(r, "handed")
    /\ ServingState(run[r].old) /\ Idle(run[r].old)
    /\ Goto(r, "adopt")
    /\ PlatformStays /\ UNCHANGED <<pointer, undone, trouble, lost>> /\ OthersStay

CallAdopt(r) ==
    LET v == run[r].vm
    IN  /\ At(r, "adopt")
        /\ Wakes(v)
        /\ cp' = [cp EXCEPT ![v] = Adopts(@, run[r].ledger)]
        /\ Goto(r, "promote")
        /\ UNCHANGED <<pointer, undone, latest, jobs, trouble, lost>> /\ OthersStay

\* The answer to an adopt that was served never came.
AdoptUnanswered(r) ==
    LET v == run[r].vm
    IN  /\ At(r, "adopt")
        /\ Wakes(v) /\ Fault
        /\ cp' = [cp EXCEPT ![v] = Adopts(@, run[r].ledger)]
        /\ UNCHANGED <<pointer, undone, latest, jobs, run, lost>> /\ OthersStay

\* The answer to a handover that was served never came: it is asked again.
HandoverUnanswered(r) ==
    /\ At(r, "handed") /\ Fault
    /\ Goto(r, "handover")
    /\ PlatformStays /\ UNCHANGED <<pointer, undone, lost>> /\ OthersStay

\* Out of retries, or the process is gone or has nothing to hand over: the
\* successor keeps the snapshot it booted from.
GiveUpHandover(r) ==
    /\ \/ At(r, "handover") /\ (~ServingState(run[r].old) \/ ~HasLedger(run[r].old)
                                 \/ cp[run[r].old].phase = "drained") /\ UNCHANGED trouble
       \/ At(r, "handed") /\ ~Live(run[r].old) /\ UNCHANGED trouble
       \/ At(r, "adopt") /\ ~ServingState(run[r].vm) /\ UNCHANGED trouble
       \/ run[r].pc \in {"handover", "handed", "adopt"} /\ Fault
    /\ Goto(r, "promote")
    /\ PlatformStays /\ UNCHANGED <<pointer, undone, lost>> /\ OthersStay
-----------------------------------------------------------------------------
(* promote: a read that lets an `off` win, then the flip. *)

Promote(r) ==
    /\ At(r, "promote")
    /\ IF pointer.on
       THEN Goto(r, "flip") /\ UNCHANGED <<vm, cp, latest, trouble, lost>>
       ELSE TerminateQuietly(run[r].vm) /\ End(r)
    /\ UNCHANGED <<pointer, undone, jobs>> /\ OthersStay

\* The record the run read, with its successor named.  A repair names no
\* predecessor in it, although it retires one.
FlippedBug(p, v, gen, retiring) ==    \* the predecessor is not named
    [p EXCEPT !.on = TRUE, !.vm = v, !.gen = gen, !.recent = TRUE,
              !.pending = None, !.retiring = None]

Flipped(p, v, gen, retiring) ==
    [p EXCEPT !.on = TRUE, !.vm = v, !.gen = gen, !.recent = TRUE,
              !.pending = None, !.retiring = retiring]

Flip(r) ==
    LET q == run[r]
    IN  /\ At(r, "flip")
        /\ Write(q.base, Flipped(q.base, q.vm, q.gen,
                                 IF q.after = "repaired" THEN None ELSE q.old))
        /\ IF q.old \notin {None, q.vm}
           THEN run' = [run EXCEPT ![r].pc = "drain",
                          ![r].after = IF @ = "repaired" THEN "end" ELSE "clear"]
           ELSE End(r)
        /\ PlatformStays /\ UNCHANGED <<trouble, lost>> /\ OthersStay
-----------------------------------------------------------------------------
(* retire, and what follows it: nothing after a repair, the pointer's      *)
(* `retiring` after a rotation, the rest of the run after a leftover.      *)

CallDrain(r) ==
    LET v == run[r].old
    IN  /\ At(r, "drain")
        /\ \/ /\ Wakes(v)
              /\ cp' = [cp EXCEPT ![v] = Drains(@)]
              /\ UNCHANGED trouble
           \/ ~ServingState(v) /\ UNCHANGED <<vm, cp, trouble>>
           \/ Fault /\ UNCHANGED <<vm, cp>>
        /\ Goto(r, "kill")
        /\ UNCHANGED <<pointer, undone, latest, jobs, lost>> /\ OthersStay

Kill(r) ==
    /\ At(r, "kill")
    /\ TerminateQuietly(run[r].old)
    /\ IF run[r].after = "end" THEN End(r) ELSE Goto(r, "clear")
    /\ UNCHANGED <<pointer, undone, jobs>> /\ OthersStay

\* clearRetiring: a read, then a write of what was read.
Clear(r) ==
    /\ At(r, "clear")
    /\ run' = [run EXCEPT ![r].pc = "clear write", ![r].base = pointer]
    /\ PlatformStays /\ UNCHANGED <<pointer, undone, trouble, lost>> /\ OthersStay

ClearWrite(r) ==
    /\ At(r, "clear write")
    /\ Write(run[r].base, [run[r].base EXCEPT !.retiring = None])
    /\ IF run[r].after = "reread" THEN Goto(r, "reread") ELSE End(r)
    /\ PlatformStays /\ UNCHANGED <<trouble, lost>> /\ OthersStay

(* A Lambda can die at any line. *)
Die(r) ==
    /\ run[r].pc # "idle" /\ Fault
    /\ End(r)
    /\ lost' = IF At(r, "record") THEN lost \cup {run[r].vm} ELSE lost
    /\ PlatformStays /\ UNCHANGED <<pointer, undone>> /\ OthersStay
-----------------------------------------------------------------------------
(* The operator's scripts. *)

\* An operation takes as much of the bound as two faults.
Operation ==
    /\ op.pc = "idle"
    /\ Allowed(2)
    /\ trouble' = trouble + 2

UpStart ==
    /\ Operation
    /\ op' = [pc |-> "up", base |-> pointer]
    /\ PlatformStays /\ UNCHANGED <<pointer, undone, run, rule, rotations, lost>>

UpWrite ==
    /\ op.pc = "up"
    /\ Write(op.base, [op.base EXCEPT !.on = TRUE, !.recent = TRUE])
    /\ rule' = TRUE
    /\ op' = NoOp
    /\ PlatformStays /\ UNCHANGED <<trouble, run, rotations, lost>>

DownStart ==
    /\ Operation
    /\ rule' = FALSE
    /\ op' = [pc |-> "down", base |-> pointer]
    /\ PlatformStays /\ UNCHANGED <<pointer, undone, run, rotations, lost>>

DownWrite ==
    /\ op.pc = "down"
    /\ Write(op.base, [op.base EXCEPT !.on = FALSE, !.vm = None, !.recent = TRUE])
    /\ op' = [pc |-> "first pass", base |-> None]
    /\ PlatformStays /\ UNCHANGED <<trouble, run, rule, rotations, lost>>

\* Two passes, for a successor a racing rotation launched after the first.
DownPass ==
    /\ op.pc \in {"first pass", "second pass"}
    /\ Killed(Vms) /\ latest' \in LatestAfterKill(Vms)
    /\ op' = IF op.pc = "first pass" THEN [op EXCEPT !.pc = "second pass"] ELSE NoOp
    /\ UNCHANGED <<pointer, undone, jobs, trouble, run, rule, rotations, lost>>

(* Time: the last pointer change is minutes ago; a pending record is older *)
(* than the run that wrote it can be; a client token's hour is over.       *)
Settle ==
    /\ pointer.recent
    /\ pointer' = [pointer EXCEPT !.recent = FALSE]
    /\ PlatformStays /\ UNCHANGED <<trouble, run, lost, undone>> /\ OthersStay

Age ==
    /\ pointer.pending # None /\ pointer.pending.young
    /\ \A r \in InFlight : run[r].vm # pointer.pending.vm
    /\ vm[pointer.pending.vm] # "pending"
    /\ pointer' = [pointer EXCEPT !.pending.young = FALSE]
    /\ PlatformStays /\ UNCHANGED <<trouble, run, lost, undone>> /\ OthersStay

\* Only a launch looks at the hour.
NextHour ==
    /\ \E r \in Runs : At(r, "launch")
    /\ \E v \in Vms : cp[v].token
    /\ cp' = [v \in Vms |-> [cp[v] EXCEPT !.token = FALSE]]
    /\ UNCHANGED <<pointer, undone, vm, latest, jobs, trouble, run, op, rule, rotations, lost>>
-----------------------------------------------------------------------------
\* A fresh machine after its first rotation: generation 1 is named and acts.
Init ==
    /\ pointer = [on |-> TRUE, vm |-> 1, gen |-> 1, pending |-> None,
                  retiring |-> None, recent |-> FALSE]
    /\ vm = [v \in Vms |-> IF v = 1 THEN "running" ELSE "unused"]
    /\ cp = [v \in Vms |->
               IF v = 1 THEN [NotBooted EXCEPT !.gen = 1, !.boot = "up", !.phase = "active",
                                !.auth = TRUE]
               ELSE NotBooted]
    /\ latest = None
    /\ jobs = 0 /\ trouble = 0
    /\ run = [r \in Runs |-> NoRun]
    /\ op = NoOp
    /\ rule = TRUE
    /\ rotations = 0
    /\ lost = {}
    /\ undone = FALSE

RunStep(r) ==
    \/ Reread(r) \/ Repair(r) \/ RollBack(r) \/ Forget(r) \/ Choose(r) \/ Launch(r)
    \/ RecordPending(r) \/ Wait(r) \/ Unpend(r) \/ UnpendWrite(r)
    \/ CallHandover(r) \/ HandoverAnswered(r) \/ CallAdopt(r) \/ GiveUpHandover(r)
    \/ Promote(r) \/ Flip(r) \/ CallDrain(r) \/ Kill(r) \/ Clear(r) \/ ClearWrite(r)

OperatorStep == UpWrite \/ DownWrite \/ DownPass

Next ==
    \/ ProcessNext /\ UNCHANGED <<run, op, rule, rotations, lost, undone>>
    \/ \E r \in Runs :
        \/ Invoke(r) \/ Heal(r) \/ Hourly(r) \/ RunStep(r)
        \/ HandoverUnanswered(r) \/ AdoptUnanswered(r) \/ Die(r)
    \/ UpStart \/ DownStart \/ OperatorStep
    \/ Settle \/ Age \/ NextHour

Spec == Init /\ [][Next]_vars
-----------------------------------------------------------------------------
Invocation ==
    [pc : {"idle", "drain", "kill", "clear", "clear write", "reread", "repair", "roll back",
           "forget", "choose", "launch", "record", "wait", "unpend", "unpend write",
           "handover", "handed", "adopt", "promote", "flip"},
     scheduled : BOOLEAN, base : Record \cup {None}, vm : Vms \cup {None}, gen : Nat,
     old : Vms \cup {None}, ledger : Ledgers \cup {None},
     after : {"end", "reread", "repaired", "clear"}]

Script ==
    [pc : {"idle", "up", "down", "first pass", "second pass"}, base : Record \cup {None}]

TypeOK ==
    /\ TypeOKcp
    /\ pointer \in Record /\ run \in [Runs -> Invocation] /\ op \in Script
    /\ rule \in BOOLEAN /\ rotations \in 0..MaxRotations
    /\ lost \subseteq Vms /\ undone \in BOOLEAN

(* The pointer names every live control plane, or names it as pending or   *)
(* retiring, or a run still holds it, or `down` is sweeping; or it was     *)
(* lost by a terminate that failed, or by a run that died between          *)
(* launching and recording.  What nothing names costs its ceiling of eight *)
(* hours.  The windows are launchSuccessor's onLaunched, promote's         *)
(* `retiring` and `pending`, and the repair of a run that died in any of   *)
(* them.  Runs that overlap break it, though the per-generation token and  *)
(* the pointer are to make them safe: each writes the pointer from what it *)
(* last read.                                                              *)
EverybodyKnown ==
    \A v \in Vms : Live(v) =>
        \/ v \in {pointer.vm, pointer.retiring} \cup lost
        \/ pointer.pending # None /\ v = pointer.pending.vm
        \/ \E r \in Runs : v \in {run[r].vm, run[r].old}
        \/ op.pc \in {"first pass", "second pass"}

(* A live control plane is never forgotten, unless by a write of the       *)
(* pointer that undid another.                                             *)
NobodyForgotten == ~undone => EverybodyKnown

Acts(v) == ServingState(v) /\ Active(v) /\ cp[v].auth

(* Two control planes act at once when the lease of a handover runs out    *)
(* under a slow rotation, or when the run died before it retired the       *)
(* predecessor; never three.  The one that acts unnamed is then the        *)
(* successor of the one that is named, or its predecessor.                 *)
AtMostTwoAct ==
    ~undone /\ lost = {} =>
        /\ Cardinality({v \in Vms : Acts(v)}) <= 2
        /\ \A v \in Vms :
            Acts(v) /\ pointer.vm \notin {None, v} =>
                \/ v = pointer.retiring
                \/ \E r \in Runs : v \in {run[r].vm, run[r].old}
                \/ pointer.pending # None /\ v = pointer.pending.vm

(* The pointer is only flipped to a successor that knows everything its    *)
(* predecessor knew when it handed over, as long as nothing went wrong:    *)
(* rotateFrom's order of handover, adopt and promote, with the successor's *)
(* own boot from an older snapshot racing the adopt.                       *)
HandoverKeepsWork ==
    [][\A r \in Runs :
        /\ trouble' = 0 /\ At(r, "flip") /\ pointer' # pointer
        /\ pointer'.vm = run[r].vm /\ run[r].ledger # None
        => run[r].ledger.work \subseteq cp'[run[r].vm].work]_pointer

(* The succession the design promises, of which this module is the         *)
(* detail: Succession states it.                                           *)
Stage(v) ==
    CASE vm[v] = "gone" -> "gone"
      [] vm[v] # "gone" /\ cp[v].phase = "neutral" -> "none"
      [] cp[v].phase = "active" -> "ready"
      [] cp[v].phase = "handing-over" -> "handing over"
      [] cp[v].phase = "drained" -> "retired"

S == INSTANCE Succession WITH
        gen <- [v \in Vms |-> cp[v].gen],
        stage <- [v \in Vms |-> Stage(v)],
        right <- {v \in Vms : cp[v].auth},
        given <- {run[r].old : r \in {q \in Runs : run[q].ledger # None}},
        named <- pointer.vm,
        term <- pointer.gen,
        clean <- ~undone

ImplementsSuccession == S!Spec

Serves == pointer.vm # None /\ ServingState(pointer.vm) /\ Active(pointer.vm)

Leftover(v) == v \notin {None, pointer.vm} \cup lost /\ Live(v)

(* However runs die, calls are lost and control planes vanish, a machine   *)
(* that is on is served again, and what a flip superseded is terminated:   *)
(* some run finishes or rolls back what the dead one left, or launches     *)
(* (rotate/index.ts:2) -- unless the model has run out of MicroVMs.        *)
Recovers ==
    []<>(\/ ~pointer.on \/ Unused = {}
         \/ Serves /\ ~Leftover(pointer.retiring))

(* Timers and answers come; the session function keeps asking for a heal   *)
(* while visitors come; EventBridge runs every hour; a Lambda that does    *)
(* not die runs on; hours pass.                                            *)
Processes ==
    \E v \in Vms : ProcessStep(v) /\ UNCHANGED <<run, op, rule, rotations, lost, undone>>
Fleet == OperatorStep \/ \E r \in Runs : Heal(r) \/ Hourly(r) \/ RunStep(r)
Time == Settle \/ Age

FairSpec ==
    /\ Spec
    /\ WF_vars(Processes) /\ WF_vars(Fleet) /\ WF_vars(Time)
    /\ SF_vars(NextHour)
-----------------------------------------------------------------------------
(* The inductive invariant of runs that do not overlap (MaxOverlap = 1),   *)
(* which NobodyForgotten, AtMostTwoAct and the refinement follow from.  Its *)
(* parts speak of a record p of the pointer, a run q, the states m and the *)
(* processes c of the MicroVMs, and those lost, l.                         *)

LiveIn(m, v) == m[v] \notin {"unused", "gone"}

Over(v, m, l) == ~LiveIn(m, v) \/ v \in l

\* p is as somebody once read it: whom it names was launched for the generation
\* it says, and is not booting any more.
Seen(p, m, c) ==
    /\ p.vm # None => c[p.vm].gen = p.gen /\ m[p.vm] \notin {"unused", "pending"}
    /\ p.retiring # None => c[p.retiring].gen < p.gen /\ m[p.retiring] # "unused"
    /\ p.pending # None =>
          /\ c[p.pending.vm].gen = p.pending.gen /\ m[p.pending.vm] # "unused"
          /\ p.pending.young \/ m[p.pending.vm] # "pending"

\* A process that is not there does nothing, and none asks before it has booted.
Quiet(s, d) ==
    /\ s \in {"unused", "gone"} => d.phase = "neutral" /\ ~d.auth /\ ~d.clients
    /\ d.polling => d.phase # "neutral"

\* Where a run is: before its choice, with a successor it has recorded, with one
\* that runs, giving one up, or retiring somebody.
Repairing == {"repair", "roll back", "forget"}
Named == {"wait", "handover", "handed", "adopt", "promote", "flip"}
Raised == Named \ {"wait"}
Giving == {"unpend", "unpend write"}
Retiring == {"drain", "kill", "clear", "clear write"}
Replacing == {"launch", "record"} \cup Named

\* What a run knows, whoever wrote the pointer in the meantime.
Knows(q, m, c, l) ==
    /\ IF q.pc = "idle" THEN q = NoRun ELSE q.base # None /\ Seen(q.base, m, c)
    /\ q.vm # None => m[q.vm] # "unused" /\ c[q.vm].gen = q.gen
    /\ q.pc \in Repairing \cup {"reread", "choose", "launch"} \/ q.after = "reread" =>
          q.vm = None
    /\ q.old # None => m[q.old] # "unused"
    /\ q.pc \in Repairing => q.base.pending # None
    /\ q.pc \in {"roll back", "forget"} => ~q.base.pending.young
    /\ q.pc = "forget" => Over(q.base.pending.vm, m, l)
    /\ q.pc \in Replacing =>
          /\ q.base.gen < q.gen /\ q.old \in {None, q.base.vm}
          /\ q.base.vm # None /\ LiveIn(m, q.base.vm) => q.old = q.base.vm
    /\ q.pc \in {"record"} \cup Named => q.vm # None
    /\ q.pc \in Named => q.base.pending # None /\ q.base.pending.vm = q.vm
    /\ q.pc \in Raised => m[q.vm] # "pending"
    /\ q.pc \in Giving /\ q.vm # None => Over(q.vm, m, l)

\* Whom it replaces, and what it has of them.
Replaces(q, m, c, l) ==
    /\ q.pc \in {"handover", "handed", "drain", "kill", "clear", "clear write"} => q.old # None
    /\ q.pc \in {"handed", "adopt"} => q.ledger # None
    /\ q.ledger # None =>
          /\ q.old # None /\ q.ledger.gen = c[q.old].gen
          /\ q.pc \in Raised \cup Retiring /\ q.after # "reread"
    /\ q.pc \in Retiring /\ q.after = "end" => ~LiveIn(m, q.old) /\ q.pc \in {"drain", "kill"}
    /\ q.pc \in {"clear", "clear write"} => Over(q.old, m, l)
    /\ q.after = "repaired" =>
          q.pc \in {"promote", "flip"} /\ (q.old # None => ~LiveIn(m, q.old))
    /\ q.after = "reread" => q.pc \in Retiring \cup {"reread"}
    /\ q.after = "clear" => q.pc \in Retiring
    /\ q.pc = "reread" => q.after = "reread"

\* What the pointer says while a run is at work on it and no write undid another.
Agrees(q, p, m, l) ==
    /\ q.pc \in Retiring => p.retiring = IF q.after = "end" THEN None ELSE q.old
    /\ q.pc \in Repairing \cup {"choose", "reread"} \cup Replacing \cup Giving =>
          p.retiring = None
    /\ (q.pc \in Repairing \cup Replacing \/ (q.pc = "choose" /\ q.base.pending = None)) =>
          p.gen = q.base.gen /\ p.vm \in {None, q.base.vm}
    /\ q.pc \in Repairing => p.pending # None /\ p.pending.vm = q.base.pending.vm
    /\ q.pc \in {"choose", "launch", "record"} => p.pending = None
    /\ q.pc \in Named => p.pending # None /\ p.pending.vm = q.vm
    /\ q.pc \in Giving /\ p.pending # None => p.pending.vm = q.vm
    /\ q.pc = "flip" => \A v \in Vms : LiveIn(m, v) => v \in l \cup {q.vm, q.old}

\* The one control plane there may be beside the one that is named.
Beside(p, runs) ==
    IF p.retiring # None THEN {p.retiring}
    ELSE IF p.pending # None THEN {p.pending.vm}
    ELSE {runs[r].vm : r \in {s \in Runs : runs[s].pc = "record"}}

Sweeps(o) == o.pc \in {"first pass", "second pass"}

\* x is named, or was until the `down` whose sweep has not come to it; whoever
\* else is live stands beside it, or is lost.
Leads(x, p, o, runs, m, l) ==
    /\ p.vm # None => x = p.vm
    /\ x # None /\ LiveIn(m, x) => x = p.vm \/ (Sweeps(o) /\ ~p.on)
    /\ \A v \in Vms : LiveIn(m, v) => v \in l \cup {x} \cup Beside(p, runs)

Orderly ==
    /\ pointer.retiring = None \/ pointer.pending = None
    /\ \A v \in Vms : cp[v].phase = "drained" => cp[v].gen < pointer.gen
    /\ \A r \in Runs : Agrees(run[r], pointer, vm, lost)
    /\ \E x \in Vms \cup {None} : Leads(x, pointer, op, run, vm, lost)

IInv ==
    /\ TypeOK
    /\ Seen(pointer, vm, cp)
    /\ op.pc \in {"up", "down"} => op.base # None /\ Seen(op.base, vm, cp)
    /\ \A v \in Vms : Quiet(vm[v], cp[v])
    /\ \A r \in Runs : Knows(run[r], vm, cp, lost) /\ Replaces(run[r], vm, cp, lost)
    /\ \A r, s \in InFlight : r = s
    /\ ~undone => Orderly
-----------------------------------------------------------------------------
(* What HandoverKeepsWork follows from, beside IInv: how far a run that     *)
(* nothing has gone wrong for has come with its handover.                  *)

\* The record a run is to write is the one it last saw, but for time.  (It does
\* not write before it reads again where it retires somebody, nor in a choice
\* after a repair.)
Rereads == {"idle", "drain", "kill", "clear", "reread"}
UpToDate(q, p) ==
    q.pc \notin Rereads /\ ~(q.pc = "choose" /\ q.base.pending # None) =>
        Timeless(p) = Timeless(q.base)

\* The successor adopts once, while it serves, what the predecessor gave, and
\* has all of it from then on.
Carries(q, m, c) ==
    /\ q.pc \in {"record", "wait", "handover", "handed", "adopt"} => ~c[q.vm].adopted
    /\ q.pc = "handover" => q.ledger = None
    /\ q.pc \in {"handover", "handed", "adopt"} => m[q.vm] \in {"running", "suspended"}
    /\ q.pc = "handed" => LiveIn(m, q.old)
    /\ q.pc \in {"promote", "flip"} /\ q.ledger # None =>
          /\ LiveIn(m, q.vm) /\ c[q.vm].phase # "neutral"
          /\ q.ledger.work \subseteq c[q.vm].work

Untroubled ==
    trouble = 0 =>
        /\ ~undone /\ op = NoOp /\ lost = {}
        /\ \A v \in Vms : vm[v] = "unused" => ~cp[v].adopted
        /\ \A r \in Runs : UpToDate(run[r], pointer) /\ Carries(run[r], vm, cp)

\* All of it: the inductive invariant of runs that do not overlap.
Inductive == IInv /\ Untroubled
=============================================================================
