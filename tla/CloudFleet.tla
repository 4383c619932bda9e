----------------------------- MODULE CloudFleet -----------------------------
(***************************************************************************)
(* The cloud cores of an awake machine (design section 6.8): the policy in *)
(* core/src/fleet.ts that decides on every tick how many there should be,  *)
(* and the effects of control-plane/src that ask the platform for them.    *)
(* Launches, terminations and the reaper's polls are calls in flight: they *)
(* are answered late, fail, or are answered to a control plane that has    *)
(* handed its ledger over, crashed, or fallen asleep meanwhile.            *)
(*                                                                         *)
(* Abstractions.  A clock is a nondeterministic expiry: of a launch nobody *)
(* acknowledged, of a core without a node, of a core near its ceiling, of  *)
(* the dashboards' attention.  A token is its core.                           *)
(***************************************************************************)
EXTENDS Naturals, FiniteSets, Functions, Filter

CONSTANTS
    Cores,      \* MicroVM ids of cloud cores
    Desired,    \* DESIRED_CLOUD_CORES
    None,       \* null
    MaxTrouble  \* bound: failed and slow calls, crashes, handovers, lost sockets, kills in all

ASSUME CloudFleetAssumption ==
    /\ Cores \subseteq Nat /\ IsFiniteSet(Cores)
    /\ {Desired, MaxTrouble} \subseteq Nat
    /\ None \notin [cores : Seq(Cores), asked : Nat]

VARIABLES
    ledger,   \* what the control plane knows of its cores
    drowsy,   \* sleepReason: nobody watches, or nobody touches
    auth,     \* the pointer names this control plane
    vm,       \* the platform's state of each core
    calls,    \* RunMicrovm calls of this process in flight, by the core they create
    late,     \* the same of a predecessor that handed over
    kills,    \* TerminateMicrovm calls in flight
    found,    \* the reaper's answers, not yet dispatched
    handed,   \* the ledger on its way to a successor
    saved,    \* the newest snapshot
    trouble,  \* how much went wrong
    lost      \* cores a fault, or the reaper, has hidden from every control plane

vars == <<ledger, drowsy, auth, vm, calls, late, kills, found, handed, saved, trouble, lost>>
-----------------------------------------------------------------------------
(* The ledger: the records in the order they were acknowledged, those with *)
(* a node, those whose grace or age is over, those no tick has seen yet,   *)
(* and the launches asked for and counted.                                 *)
Known == Range(ledger.cores)
Linked == ledger.linked
Live(c) == vm[c] \in {"pending", "running"}

\* forgetCloudCore: the record goes, and a terminate is asked for.
ForgottenBug(l, S) == [l EXCEPT !.cores = Without(@, S)]    \* its link stays

Forgotten(l, S) ==
    [l EXCEPT !.cores = Without(@, S), !.linked = @ \ S, !.overdue = @ \ S, !.fresh = @ \ S]

Copy(l) == [cores |-> l.cores, asked |-> l.asked]
CopyCores(s) == IF s = None THEN {} ELSE Range(s.cores)

\* adoptLedger: the cores keep running, their links are gone, their grace starts now.
Adopted(s) ==
    [cores |-> s.cores, asked |-> s.asked, linked |-> {}, overdue |-> {},
     fresh |-> CopyCores(s), phase |-> "active"]

FreshLedger ==
    [cores |-> <<>>, asked |-> 0, linked |-> {}, overdue |-> {}, fresh |-> {},
     phase |-> "active"]

Fault == trouble < MaxTrouble /\ trouble' = trouble + 1

Free == {c \in Cores : vm[c] = "unused"}
NextCore == CHOOSE c \in Free : \A d \in Free : c <= d
-----------------------------------------------------------------------------
(* fleetTick. *)

SleepsBug ==    \* only the cores that have a node
    /\ drowsy
    /\ ledger' = Forgotten(ledger, Linked)
    /\ kills' = kills \cup Linked
    /\ UNCHANGED <<vm, calls, trouble>>

\* Asleep: every core goes.
Sleeps ==
    /\ drowsy
    /\ ledger' = Forgotten(ledger, Known)
    /\ kills' = kills \cup Known
    /\ UNCHANGED <<vm, calls, trouble>>

\* Launches in flight beyond those still counted: each took longer than its
\* acknowledgement may.
Uncounted(n) == IF Cardinality(calls) > n THEN Cardinality(calls) - n ELSE 0

\* The youngest cores without a node beyond the desired number.
Surplus(cores) ==
    LET extra == IF Len(cores) > Desired THEN Len(cores) - Desired ELSE 0
        unlinked == Without(cores, Linked)
    IN  {unlinked[i] : i \in {j \in DOMAIN unlinked : j > Len(unlinked) - extra}}

Missing(cores, asked) == Len(cores) + asked < Desired

\* The launches asked for that are still within their minute: how many is the
\* clock's choice.
CountedBug(asked) == {asked}    \* for ever
Counted(asked) == 0..asked

\* effects.ts: a standby's launch is dropped, and still counted for its minute.
LaunchCore ==
    IF ~auth THEN UNCHANGED <<vm, calls>>
    ELSE IF Free = {} THEN UNCHANGED <<vm, calls>>      \* RunMicrovm fails: the quota
    ELSE vm' = [vm EXCEPT ![NextCore] = "pending"] /\ calls' = calls \cup {NextCore}

(* Awake: overdue cores go, launches past their minute stop counting, one  *)
(* more is asked for (a second after the last), and surplus cores go.      *)
KeepsCores(gap) ==
    /\ ~drowsy
    /\ \E asked \in Counted(ledger.asked) :
        LET kept == Without(ledger.cores, ledger.overdue)
            launch == ~gap /\ Missing(kept, asked)
            gone == ledger.overdue \cup Surplus(kept)
        IN  /\ trouble' = trouble + Uncounted(asked) - Uncounted(ledger.asked)
            /\ trouble' <= MaxTrouble
            /\ IF launch THEN LaunchCore ELSE UNCHANGED <<vm, calls>>
            /\ ledger' = [Forgotten(ledger, gone) EXCEPT
                            !.fresh = {}, !.asked = IF launch THEN asked + 1 ELSE asked]
            /\ kills' = kills \cup gone

Tick(gap) ==
    /\ ledger.phase = "active"
    /\ Sleeps \/ KeepsCores(gap)
    /\ UNCHANGED <<drowsy, auth, late, found, handed, saved, lost>>
-----------------------------------------------------------------------------
(* The answers to a launch. *)

\* cloudCoreLaunched: the oldest launch asked for is the one answered.
Recorded(l, c) ==
    [l EXCEPT !.asked = IF @ = 0 THEN 0 ELSE @ - 1,
              !.cores = Append(@, c), !.fresh = @ \cup {c}]

AckBug(c) ==    \* taken in whatever the phase
    /\ c \in calls
    /\ calls' = calls \ {c}
    /\ ledger' = Recorded(ledger, c) /\ UNCHANGED kills
    /\ UNCHANGED <<drowsy, auth, vm, late, found, handed, saved, trouble, lost>>

\* After a handover no surviving ledger would know this core.
Ack(c) ==
    /\ c \in calls
    /\ calls' = calls \ {c}
    /\ IF ledger.phase = "active"
       THEN ledger' = Recorded(ledger, c) /\ UNCHANGED kills
       ELSE kills' = kills \cup {c} /\ UNCHANGED ledger
    /\ UNCHANGED <<drowsy, auth, vm, late, found, handed, saved, trouble, lost>>

\* The predecessor's, which is drained by now.
AckLate(c) ==
    /\ c \in late
    /\ late' = late \ {c} /\ kills' = kills \cup {c}
    /\ UNCHANGED <<ledger, drowsy, auth, vm, calls, found, handed, saved, trouble, lost>>

\* RunMicrovm failed: nothing was created, or its answer was lost.
LaunchFails(c) ==
    /\ c \in calls \cup late
    /\ Fault
    /\ calls' = calls \ {c} /\ late' = late \ {c}
    /\ \/ vm' = [vm EXCEPT ![c] = "gone"] /\ UNCHANGED lost
       \/ lost' = lost \cup {c} /\ UNCHANGED vm
    /\ UNCHANGED <<ledger, drowsy, auth, kills, found, handed, saved>>
-----------------------------------------------------------------------------
(* The answers to a termination: one that failed is only logged. *)

Gone(c) == vm' = [vm EXCEPT ![c] = "gone"]

Terminated(c) ==
    /\ c \in kills
    /\ Gone(c)
    /\ kills' = kills \ {c} /\ lost' = lost \ {c}
    /\ UNCHANGED <<ledger, drowsy, auth, calls, late, found, handed, saved, trouble>>

TerminateFails(c) ==
    /\ c \in kills /\ Live(c)
    /\ Fault
    /\ kills' = kills \ {c} /\ lost' = lost \cup {c}
    /\ UNCHANGED <<ledger, drowsy, auth, vm, calls, late, found, handed, saved>>
-----------------------------------------------------------------------------
(* The reaper asks for the state of every core it has a record of, and     *)
(* forgets the ones that do not serve.  A core that is still booting does  *)
(* not serve either: its record goes, and nothing terminates it.           *)
Serving(c) == vm[c] = "running"

ReapRead ==
    /\ found = {}
    /\ found' = {c \in Known : ~Serving(c)}
    /\ UNCHANGED <<ledger, drowsy, auth, vm, calls, late, kills, handed, saved, trouble, lost>>

Hides(S) == lost' = lost \cup {c \in S : Live(c)}

Reaped == ledger' = Forgotten(ledger, found)

Reap ==
    /\ found # {}
    /\ Reaped
    /\ Hides(found \cap Known)
    /\ found' = {}
    /\ UNCHANGED <<drowsy, auth, vm, calls, late, kills, handed, saved, trouble>>
-----------------------------------------------------------------------------
(* The cores themselves. *)

Boots(c) ==
    /\ vm[c] = "pending"
    /\ vm' = [vm EXCEPT ![c] = "running"]
    /\ UNCHANGED <<ledger, drowsy, auth, calls, late, kills, found, handed, saved, trouble, lost>>

(* onHello: a core links only a record the control plane has, and is       *)
(* refused without one.  It boots, or comes back, in seconds: a tick has   *)
(* seen its record.                                                        *)
Hello(c) ==
    /\ vm[c] = "running" /\ ledger.phase = "active"
    /\ c \in Known \ (Linked \cup ledger.fresh)
    /\ ledger' = [ledger EXCEPT !.linked = @ \cup {c}]
    /\ UNCHANGED <<drowsy, auth, vm, calls, late, kills, found, handed, saved, trouble, lost>>

\* unlinkCloudCore: the socket of a core that is gone closes; any may.
Disconnect(c) ==
    /\ c \in Linked
    /\ IF Live(c) THEN Fault ELSE UNCHANGED trouble
    /\ ledger' = [ledger EXCEPT !.linked = @ \ {c}]
    /\ UNCHANGED <<drowsy, auth, vm, calls, late, kills, found, handed, saved, lost>>

\* CLOUD_CORE_LINK_TIMEOUT: the grace of a core without a node is over.
LinkTimeout(c) ==
    /\ c \in Known \ (Linked \cup ledger.fresh \cup ledger.overdue)
    /\ IF Live(c) THEN Fault ELSE UNCHANGED trouble
    /\ ledger' = [ledger EXCEPT !.overdue = @ \cup {c}]
    /\ UNCHANGED <<drowsy, auth, vm, calls, late, kills, found, handed, saved, lost>>

\* CLOUD_CORE_MAX_AGE: a core near its ceiling.
Ages(c) ==
    /\ c \in Known \ (ledger.fresh \cup ledger.overdue)
    /\ Fault
    /\ ledger' = [ledger EXCEPT !.overdue = @ \cup {c}]
    /\ UNCHANGED <<drowsy, auth, vm, calls, late, kills, found, handed, saved, lost>>

\* Kill half, freeze half: a core is forgotten and terminated.
Command(c) ==
    /\ c \in Linked
    /\ Fault
    /\ ledger' = Forgotten(ledger, {c}) /\ kills' = kills \cup {c}
    /\ UNCHANGED <<drowsy, auth, vm, calls, late, found, handed, saved, lost>>

\* A core nobody knows ends at its ceiling of four hours.
Dies(c) ==
    /\ Live(c)
    /\ IF c \in lost THEN UNCHANGED trouble ELSE Fault
    /\ Gone(c)
    /\ lost' = lost \ {c}
    /\ UNCHANGED <<ledger, drowsy, auth, calls, late, kills, found, handed, saved>>
-----------------------------------------------------------------------------
(* The people, and the control plane's own life. *)

Visit ==
    /\ drowsy /\ drowsy' = FALSE
    /\ UNCHANGED <<ledger, auth, vm, calls, late, kills, found, handed, saved, trouble, lost>>

Drowse ==
    /\ ~drowsy /\ drowsy' = TRUE
    /\ UNCHANGED <<ledger, auth, vm, calls, late, kills, found, handed, saved, trouble, lost>>

Named ==
    /\ ~auth /\ auth' = TRUE
    /\ UNCHANGED <<ledger, drowsy, vm, calls, late, kills, found, handed, saved, trouble, lost>>

(* The last snapshot a control plane writes before it is lost. *)
LastSnapshot ==
    /\ ledger.phase = "active" /\ auth /\ saved = None
    /\ Fault
    /\ saved' = Copy(ledger)
    /\ UNCHANGED <<ledger, drowsy, auth, vm, calls, late, kills, found, handed, lost>>

HandOver ==
    /\ ledger.phase = "active" /\ auth
    /\ Fault
    /\ ledger' = [ledger EXCEPT !.phase = "handing-over"]
    /\ handed' = Copy(ledger)
    /\ UNCHANGED <<drowsy, auth, vm, calls, late, kills, found, saved, lost>>

\* The successor has the ledger; the predecessor's answers find it drained.
Adopt ==
    /\ handed # None
    /\ ledger' = Adopted(handed)
    /\ handed' = None
    /\ calls' = {} /\ late' = late \cup calls /\ found' = {}
    /\ lost' = lost \ CopyCores(handed)
    /\ UNCHANGED <<drowsy, auth, vm, kills, saved, trouble>>

\* The rotation died: the lease brings this one back.
LeaseOver ==
    /\ ledger.phase = "handing-over"
    /\ ledger' = [ledger EXCEPT !.phase = "active"]
    /\ handed' = None
    /\ UNCHANGED <<drowsy, auth, vm, calls, late, kills, found, saved, trouble, lost>>

(* A control plane is lost with everything it had in flight; a standby     *)
(* boots from the newest snapshot.                                         *)
Crash ==
    /\ IF saved = None THEN Fault ELSE UNCHANGED trouble
    /\ ledger' = IF saved = None THEN FreshLedger ELSE Adopted(saved)
    /\ auth' = FALSE
    /\ calls' = {} /\ late' = {} /\ kills' = {} /\ found' = {}
    /\ handed' = None /\ saved' = None
    /\ lost' = {c \in Cores : Live(c)} \ CopyCores(saved)
    /\ UNCHANGED <<drowsy, vm>>
-----------------------------------------------------------------------------
Init ==
    /\ ledger = FreshLedger
    /\ drowsy = FALSE
    /\ auth = TRUE
    /\ vm = [c \in Cores |-> "unused"]
    /\ calls = {} /\ late = {} /\ kills = {} /\ found = {}
    /\ handed = None /\ saved = None
    /\ trouble = 0
    /\ lost = {}

Platform(c) == Ack(c) \/ AckLate(c) \/ Terminated(c) \/ Boots(c)
Nodes(c) == Hello(c) \/ (~Live(c) /\ (Disconnect(c) \/ LinkTimeout(c)))
Process == Named \/ LeaseOver

Next ==
    \/ \E gap \in BOOLEAN : Tick(gap)
    \/ \E c \in Cores :
        \/ Platform(c) \/ LaunchFails(c) \/ TerminateFails(c)
        \/ Hello(c) \/ Disconnect(c) \/ LinkTimeout(c) \/ Ages(c) \/ Command(c) \/ Dies(c)
    \/ ReapRead \/ Reap
    \/ Visit \/ Drowse \/ Process \/ LastSnapshot \/ HandOver \/ Adopt \/ Crash

Spec == Init /\ [][Next]_vars

(* Ticks and the reaper's polls come, calls that do not fail are answered, *)
(* MicroVMs boot and say hello, the sockets of dead ones close, the pointer *)
(* comes to name the control plane that serves.                            *)
FairSpec ==
    /\ Spec
    /\ WF_vars(Tick(FALSE)) /\ WF_vars(Process) /\ WF_vars(ReapRead) /\ WF_vars(Reap)
    /\ \A c \in Cores : WF_vars(Platform(c)) /\ WF_vars(Nodes(c))
-----------------------------------------------------------------------------
(* A ledger, and the copy of it that a snapshot or a handover carries.     *)
Ledger == [cores : Seq(Cores), asked : Nat, linked : SUBSET Cores, overdue : SUBSET Cores,
           fresh : SUBSET Cores, phase : {"active", "handing-over"}]
Carried == [cores : Seq(Cores), asked : Nat]

(* The state has its types: a record is in the ledger once, and links,     *)
(* graces and ages are those of records.                                   *)
TypeOK ==
    /\ ledger \in Ledger /\ IsInjective(ledger.cores)
    /\ Linked \cup ledger.overdue \cup ledger.fresh \subseteq Known
    /\ drowsy \in BOOLEAN /\ auth \in BOOLEAN
    /\ vm \in [Cores -> {"unused", "pending", "running", "gone"}]
    /\ {calls, late, kills, found, lost} \subseteq SUBSET Cores
    /\ \A s \in {handed, saved} : s = None \/ (s \in Carried /\ IsInjective(s.cores))
    /\ trouble \in 0..MaxTrouble

(* What a ledger, a copy of one or a launch in flight names is no id a     *)
(* later launch could get, and a launch in flight is not recorded yet: an  *)
(* answer records a core once.                                             *)
LaunchedOnce ==
    /\ \A c \in Known \cup calls \cup CopyCores(handed) \cup CopyCores(saved) : vm[c] # "unused"
    /\ Known \cap calls = {}

(* Between the hand-over and the adoption the predecessor only forgets:    *)
(* what the successor gets is all it still knows.                          *)
HandedIsAll ==
    handed # None => ledger.phase = "handing-over" /\ Known \subseteq CopyCores(handed)

(* The inductive invariant.                                                *)
IInv == TypeOK /\ LaunchedOnce /\ HandedIsAll

(* A core that runs is known to somebody who will end it: the ledger has   *)
(* its record, or a launch or a termination of it is in flight.  The       *)
(* windows are an acknowledgement after a handover or a sleep, a surplus   *)
(* core, and a retired one (effects.ts, fleet.ts).  Only a call that       *)
(* failed, a crash or the reaper's answer about a booting core hides one.  *)
NoOrphan ==
    \A c \in Cores : Live(c) =>
        c \in Known \cup calls \cup late \cup kills \cup lost

(* Cores enough are left that can still be launched or already run.        *)
Enough == Cardinality({c \in Cores \ (lost \cup kills) : vm[c] # "gone"}) >= Desired

(* An awake machine has its cores again and again, linked and computing,   *)
(* whatever dies, is killed, never boots or is never acknowledged: dead    *)
(* records are reaped or time out, launches nobody answered stop counting, *)
(* a standby's dropped launches too (unless the model ran out of ids).     *)
Staffed ==
    []<>(drowsy \/ ~Enough \/ Cardinality({c \in Linked : Live(c)}) >= Desired)

(* A machine that stays asleep comes to have no core running at all, even  *)
(* those whose launch is answered after it fell asleep, but for the hidden *)
(* ones.                                                                   *)
Rests == []<>(~drowsy \/ \A c \in Cores : Live(c) => c \in lost)

(* fleet.ts:132: coreGone is for "a core's MicroVM [that] is gone".  A core *)
(* leaves the ledger only when it is gone or is being terminated.          *)
ForgottenIsGone == [][\A c \in Known \ Known' : Live(c) => c \in kills']_ledger
=============================================================================
