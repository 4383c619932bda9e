---------------------------- MODULE ControlPlane ----------------------------
(***************************************************************************)
(* The control-plane processes of the fleet, one per MicroVM (design       *)
(* sections 9.2 - 9.4; packages/control-plane/src and core/src/handover.ts,*)
(* apply.ts, snapshot.ts).  A process is handed a generation by /run,      *)
(* restores the newest snapshot, waits for the pointer to name it, acts,   *)
(* hands its ledger over, and lets its clients go.  Its timers, its        *)
(* snapshot writes and its questions to the pointer interleave with the    *)
(* fleet function, which Rotation adds.                                    *)
(*                                                                         *)
(* Abstractions.  A ledger is the generation that wrote it and the set of  *)
(* jobs it knows.  A clock is a nondeterministic expiry.  The platform     *)
(* (Lambda MicroVMs, S3, SSM) is external: a MicroVM is pending until its  *)
(* run hook was called, sleeps when nobody talks to it, and may be lost.   *)
(***************************************************************************)
EXTENDS Naturals, FiniteSets

CONSTANTS
    Vms,        \* MicroVM ids, in the order the platform hands them out
    None,       \* null
    MaxTrouble  \* bound: crashes, lost calls, failed calls and jobs in all

ASSUME ControlPlaneAssumption ==
    /\ IsFiniteSet(Vms) /\ Vms = 1..Cardinality(Vms) /\ Vms # {}
    /\ None \notin Vms
    /\ MaxTrouble \in Nat
    /\ None \notin [gen : Nat, work : SUBSET (1..MaxTrouble)]

VARIABLES
    pointer,  \* the SSM parameter
    vm,       \* the platform's state of each MicroVM
    cp,       \* the process inside it
    latest,   \* the snapshot bucket's `latest`
    jobs,     \* how many jobs the clients brought
    trouble   \* how much went wrong

cpVars == <<pointer, vm, cp, latest, jobs, trouble>>
-----------------------------------------------------------------------------
Ledger(gen, work) == [gen |-> gen, work |-> work]

NotBooted ==
    [gen |-> 0, token |-> FALSE, boot |-> "no", phase |-> "neutral", work |-> {},
     auth |-> FALSE, polling |-> FALSE, adopted |-> FALSE, asked |-> FALSE,
     clients |-> FALSE, writing |-> None, written |-> None, read |-> None]

\* What is left of a process whose MicroVM is gone: its launch.
Ended(c) == [NotBooted EXCEPT !.gen = c.gen, !.token = c.token]

\* SERVING_STATES: auto-resume wakes a suspended MicroVM.
ServingState(v) == vm[v] \in {"running", "suspended"}
Live(v) == vm[v] \notin {"unused", "gone"}

\* state.ledger: a process without one is neutral, whatever its identity.
HasLedger(v) == cp[v].phase # "neutral"
Active(v) == cp[v].phase = "active"

LedgerOf(v) == Ledger(cp[v].gen, cp[v].work)

\* The bound on what the environment does: a job takes as much of it as two
\* faults.
Allowed(n) == trouble + 2 * jobs + n <= MaxTrouble

Fault ==
    /\ Allowed(1)
    /\ trouble' = trouble + 1

\* mayWriteSnapshot of the hooks; the timer also asks for authority.
HookMayWrite(v) == vm[v] = "running" /\ Active(v)

\* What TerminateMicrovm leaves in the bucket: a running process gets its
\* terminate hook, and that one writes while the process is active.
LatestAfterKill(S) ==
    LET writers == {v \in S : HookMayWrite(v)}
    IN  IF writers = {} THEN {latest} ELSE {LedgerOf(v) : v \in writers}

Killed(S) ==
    /\ vm' = [v \in Vms |-> IF v \in S /\ Live(v) THEN "gone" ELSE vm[v]]
    /\ cp' = [v \in Vms |-> IF v \in S /\ Live(v) THEN Ended(cp[v]) ELSE cp[v]]
-----------------------------------------------------------------------------
(* The run hook. *)

\* A fleet call or a client's socket reaches v, and wakes it if it sleeps.
Wakes(v) ==
    /\ ServingState(v)
    /\ vm' = [vm EXCEPT ![v] = "running"]

(* onRun takes the identity and asks for the snapshot the payload names,   *)
(* which is always `latest`.                                               *)
Run(v) ==
    /\ vm[v] = "pending" /\ cp[v].boot = "no"
    /\ cp' = [cp EXCEPT ![v].boot = "reading", ![v].read = latest]
    /\ UNCHANGED <<pointer, vm, latest, jobs, trouble>>

Running(v) ==
    /\ vm[v] = "pending" /\ cp[v].boot # "no"
    /\ vm' = [vm EXCEPT ![v] = "running"]
    /\ UNCHANGED <<pointer, cp, latest, jobs, trouble>>

\* becomeControlPlane: adoptLedger or createLedger, at the process's own generation.
Becomes(c, work) == [c EXCEPT !.phase = "active", !.work = work]

(* The snapshot has been read, or was unreadable and the ledger starts     *)
(* fresh; an adopt that landed meanwhile stands.                           *)
Boot(v) ==
    /\ Live(v) /\ cp[v].boot = "reading"
    /\ \E readable \in BOOLEAN :
        LET c == [cp[v] EXCEPT !.boot = "up", !.read = None]
            work == IF readable /\ cp[v].read # None THEN cp[v].read.work ELSE {}
        IN  /\ cp' = [cp EXCEPT ![v] =
                 IF HasLedger(v) THEN c
                 ELSE [Becomes(c, work) EXCEPT !.polling = TRUE]]
            /\ IF readable THEN UNCHANGED trouble ELSE Fault
    /\ UNCHANGED <<pointer, vm, latest, jobs>>
-----------------------------------------------------------------------------
(* Authority: a standby asks the pointer whether it is named. *)

Granted(c) == [c EXCEPT !.auth = TRUE, !.polling = FALSE]

PollBug(v) ==    \* whoever the pointer names
    /\ vm[v] = "running" /\ cp[v].polling
    /\ pointer.vm # None
    /\ cp' = [cp EXCEPT ![v] = Granted(@)]
    /\ UNCHANGED <<pointer, vm, latest, jobs, trouble>>

Poll(v) ==
    /\ vm[v] = "running" /\ cp[v].polling
    /\ pointer.vm = v
    /\ cp' = [cp EXCEPT ![v] = Granted(@)]
    /\ UNCHANGED <<pointer, vm, latest, jobs, trouble>>
-----------------------------------------------------------------------------
(* Clients: the session function sends them to the control plane the       *)
(* pointer names, and the gateway takes them while it is active.           *)

Connect(v) ==
    /\ pointer.on /\ pointer.vm = v
    /\ Active(v) /\ ~cp[v].clients
    /\ Wakes(v)
    /\ cp' = [cp EXCEPT ![v].clients = TRUE]
    /\ UNCHANGED <<pointer, latest, jobs, trouble>>

Leave(v) ==
    /\ cp[v].clients
    /\ cp' = [cp EXCEPT ![v].clients = FALSE]
    /\ UNCHANGED <<pointer, vm, latest, jobs, trouble>>

\* Something a client sent changed the ledger.  Assigning stops at the
\* handover; what is already out still comes in, until the drain.
Job(v) ==
    /\ vm[v] = "running" /\ cp[v].clients /\ Allowed(2)
    /\ cp[v].phase \in {"active", "handing-over"}
    /\ jobs' = jobs + 1
    /\ cp' = [cp EXCEPT ![v].work = @ \cup {jobs + 1}]
    /\ UNCHANGED <<pointer, vm, latest, trouble>>
-----------------------------------------------------------------------------
(* Snapshots: one write at a time, its key first and `latest` second. *)

Idle(v) == cp[v].writing = None

\* allowed("timer") and Snapshotter.write: nothing when nothing changed.
TimerMayWrite(v) == Active(v) /\ cp[v].auth

SnapshotTimer(v) ==
    /\ vm[v] = "running" /\ Idle(v)
    /\ TimerMayWrite(v)
    /\ LedgerOf(v) # cp[v].written
    /\ cp' = [cp EXCEPT ![v].writing = LedgerOf(v)]
    /\ UNCHANGED <<pointer, vm, latest, jobs, trouble>>

WriteLatest(v) ==
    /\ vm[v] = "running" /\ ~Idle(v)
    /\ latest' = cp[v].writing
    /\ cp' = [cp EXCEPT ![v].writing = None, ![v].written = cp[v].writing]
    /\ UNCHANGED <<pointer, vm, jobs, trouble>>

WriteFails(v) ==
    /\ vm[v] = "running" /\ ~Idle(v)
    /\ Fault
    /\ cp' = [cp EXCEPT ![v].writing = None]
    /\ UNCHANGED <<pointer, vm, latest, jobs>>

(* The platform suspends a control plane nobody talked to for fifteen      *)
(* minutes; its hook writes.  By then a handover's lease is over.          *)
Suspend(v) ==
    /\ vm[v] = "running" /\ cp[v].boot = "up"
    /\ ~cp[v].clients /\ Idle(v)
    /\ cp[v].phase # "handing-over" /\ ~cp[v].asked
    /\ vm' = [vm EXCEPT ![v] = "suspended"]
    /\ IF HookMayWrite(v)
       THEN /\ latest' = LedgerOf(v)
            /\ cp' = [cp EXCEPT ![v].written = LedgerOf(v)]
       ELSE UNCHANGED <<latest, cp>>
    /\ UNCHANGED <<pointer, jobs, trouble>>

(* A MicroVM is lost: the host died, or its ceiling came. *)
Lost(v) ==
    /\ Live(v)
    /\ Fault
    /\ Killed({v})
    /\ UNCHANGED <<pointer, latest, jobs>>
-----------------------------------------------------------------------------
(* Handover: what the private port does.  Each handler is one step; the    *)
(* fleet's side of the call is Rotation's.                                 *)

\* beginHandover; the snapshot it writes is answered with.
HandsOver(c) ==
    [c EXCEPT !.phase = "handing-over", !.writing = Ledger(c.gen, c.work)]

MayHandOver(v) == HasLedger(v) /\ cp[v].phase # "drained" /\ Idle(v)

\* A ledger of a later generation is refused, and a second one is not taken.
AdoptRefused(c, ledger) == ledger.gen > c.gen
AdoptRepeated(c) == c.phase # "neutral" /\ c.adopted

AdoptsBug(c, ledger) ==    \* refused by whoever has booted a snapshot
    IF AdoptRefused(c, ledger) \/ c.phase # "neutral" THEN c
    ELSE [Granted(Becomes(c, ledger.work)) EXCEPT !.adopted = TRUE, !.clients = FALSE]

Adopts(c, ledger) ==
    IF AdoptRefused(c, ledger) \/ AdoptRepeated(c) THEN c
    ELSE [Granted(Becomes(c, ledger.work)) EXCEPT !.adopted = TRUE, !.clients = FALSE]

\* drain, then every socket closed.
Drains(c) ==
    IF c.phase = "neutral" THEN c
    ELSE [c EXCEPT !.phase = "drained", !.clients = FALSE]
-----------------------------------------------------------------------------
(* The lease: a handover nobody finished. *)

\* The tick that finds the lease over carries on, and asks the pointer.
LeaseOver(v) ==
    /\ vm[v] = "running" /\ cp[v].phase = "handing-over"
    /\ cp' = [cp EXCEPT ![v].phase = "active", ![v].asked = TRUE]
    /\ UNCHANGED <<pointer, vm, latest, jobs, trouble>>

Superseded(v) ==
    /\ pointer.vm \notin {None, v}
    /\ pointer.gen > cp[v].gen

(* leaseExpired: the answer is used in the phase it finds.  A pointer that *)
(* could not be read re-arms the lease; a newer control plane ends this    *)
(* one: it lets its clients go and terminates itself, if that succeeds.    *)
LeaseAnswer(v) ==
    /\ vm[v] = "running" /\ cp[v].asked
    /\ LET c == [cp[v] EXCEPT !.asked = FALSE]
       IN  \/ /\ Fault
              /\ cp' = [cp EXCEPT ![v] =
                   IF Active(v) THEN [c EXCEPT !.phase = "handing-over"] ELSE c]
              /\ UNCHANGED vm
           \/ /\ Superseded(v) /\ Active(v)
              /\ \/ Killed({v}) /\ UNCHANGED trouble
                 \/ Fault /\ cp' = [cp EXCEPT ![v] = Drains(c)] /\ UNCHANGED vm
           \/ /\ ~(Superseded(v) /\ Active(v))
              /\ cp' = [cp EXCEPT ![v] = c]
              /\ UNCHANGED <<vm, trouble>>
    /\ UNCHANGED <<pointer, latest, jobs>>
-----------------------------------------------------------------------------
ProcessStep(v) ==
    \/ Run(v) \/ Running(v) \/ Boot(v) \/ Poll(v)
    \/ SnapshotTimer(v) \/ WriteLatest(v) \/ LeaseOver(v) \/ LeaseAnswer(v)

ProcessNext ==
    \E v \in Vms :
        \/ ProcessStep(v)
        \/ Connect(v) \/ Leave(v) \/ Job(v)
        \/ WriteFails(v) \/ Suspend(v) \/ Lost(v)

Ledgers == [gen : Nat, work : SUBSET (1..MaxTrouble)]

Process ==
    [gen : Nat, token : BOOLEAN, boot : {"no", "reading", "up"},
     phase : {"neutral", "active", "handing-over", "drained"},
     work : SUBSET (1..MaxTrouble), auth : BOOLEAN, polling : BOOLEAN, adopted : BOOLEAN,
     asked : BOOLEAN, clients : BOOLEAN,
     writing : Ledgers \cup {None}, written : Ledgers \cup {None}, read : Ledgers \cup {None}]

TypeOKcp ==
    /\ vm \in [Vms -> {"unused", "pending", "running", "suspended", "gone"}]
    /\ cp \in [Vms -> Process]
    /\ latest \in Ledgers \cup {None}
    /\ jobs \in 0..MaxTrouble /\ trouble \in 0..MaxTrouble
=============================================================================
