--------------------------- MODULE RotationProofs ---------------------------
(***************************************************************************)
(* What is proved of Rotation, for any number of MicroVMs, invocations,    *)
(* faults, replays and rotations nobody needed, as long as one invocation  *)
(* runs at a time (MaxOverlap = 1).                                        *)
(***************************************************************************)
EXTENDS Rotation, FilterProofs, FiniteSetTheorems

States == {"unused", "pending", "running", "suspended", "gone"}

\* From m and c to n and d nobody is launched twice or comes back.
Forward(m, c, n, d) ==
    \A v \in Vms :
        /\ m[v] # "unused" => n[v] # "unused" /\ d[v].gen = c[v].gen
        /\ m[v] \notin {"unused", "pending"} => n[v] \notin {"unused", "pending"}
        /\ m[v] = "gone" => n[v] = "gone"

\* Nobody is launched.
NoBirth(m, n) == \A v \in Vms : LiveIn(n, v) => LiveIn(m, v)

\* A step of the MicroVMs and their processes.
Moves ==
    /\ vm' \in [Vms -> States] /\ cp' \in [Vms -> Process]
    /\ Forward(vm, cp, vm', cp') /\ NoBirth(vm, vm')
    /\ \A v \in Vms : Quiet(vm'[v], cp'[v])
    /\ ~undone => \A v \in Vms : cp'[v].phase = "drained" => cp'[v].gen < pointer.gen

Alone(r) == \A s \in Runs : s # r => run[s] = NoRun

\* The pointer is as it was seen, but for time.
LEMMA Alike ==
    ASSUME NEW p \in Record, NEW s \in Record, Timeless(p) = Timeless(s)
    PROVE  /\ p.on = s.on /\ p.vm = s.vm /\ p.gen = s.gen /\ p.retiring = s.retiring
           /\ p.pending = None <=> s.pending = None
           /\ p.pending # None => p.pending.vm = s.pending.vm
<1>1. None \notin Vms
  BY ControlPlaneAssumption
<1>2. /\ p.pending # None => p.pending.vm \in Vms
      /\ s.pending # None => s.pending.vm \in Vms
  BY DEF Record, Launched
<1> QED BY <1>1, <1>2 DEF Timeless

LEMMA SeenStays ==
    ASSUME NEW p \in Record, NEW m, NEW c, NEW n, NEW d, Forward(m, c, n, d), Seen(p, m, c)
    PROVE  Seen(p, n, d)
<1>1. /\ p.vm # None => p.vm \in Vms
      /\ p.retiring # None => p.retiring \in Vms
      /\ p.pending # None => p.pending.vm \in Vms
  BY DEF Record, Launched
<1> QED BY <1>1 DEF Seen, Forward

LEMMA OverStays ==
    ASSUME NEW v \in Vms, NEW m, NEW c, NEW n, NEW d, NEW l, NEW k,
           Forward(m, c, n, d), l \subseteq k, m[v] # "unused", Over(v, m, l)
    PROVE  Over(v, n, k)
BY DEF Over, LiveIn, Forward

LEMMA KnowsStays ==
    ASSUME NEW q \in Invocation, NEW m, NEW c, NEW n, NEW d, NEW l, NEW k,
           Forward(m, c, n, d), l \subseteq k, Knows(q, m, c, l)
    PROVE  Knows(q, n, d, k)
<1>1. /\ q.vm # None => q.vm \in Vms
      /\ q.old # None => q.old \in Vms
      /\ q.base # None => q.base \in Record
  BY DEF Invocation
<1>2. q.base # None => /\ q.base.vm # None => q.base.vm \in Vms
                       /\ q.base.pending # None => q.base.pending.vm \in Vms
  BY <1>1 DEF Record, Launched
<1>3. q.pc # "idle" => q.base # None /\ Seen(q.base, n, d) /\ Seen(q.base, m, c)
  BY <1>1, SeenStays DEF Knows
<1>4. /\ q.vm # None => n[q.vm] # "unused" /\ d[q.vm].gen = q.gen
      /\ q.old # None => n[q.old] # "unused"
      /\ q.pc \in Raised => n[q.vm] # "pending"
  BY <1>1 DEF Knows, Forward, Raised, Named
<1>5. q.pc = "forget" => Over(q.base.pending.vm, n, k)
  <2> SUFFICES ASSUME q.pc = "forget" PROVE Over(q.base.pending.vm, n, k)
    OBVIOUS
  <2>1. q.base # None /\ q.base.pending # None /\ Over(q.base.pending.vm, m, l)
    BY DEF Knows, Repairing
  <2>2. q.base.pending.vm \in Vms /\ m[q.base.pending.vm] # "unused"
    BY <1>2, <1>3, <2>1 DEF Seen
  <2> QED BY <2>1, <2>2, OverStays
<1>6. q.pc \in Giving /\ q.vm # None => Over(q.vm, n, k)
  BY <1>1, OverStays DEF Knows
<1>7. q.pc \in Replacing => (q.base.vm # None /\ LiveIn(n, q.base.vm) => q.old = q.base.vm)
  <2> SUFFICES ASSUME q.pc \in Replacing, q.base.vm # None, LiveIn(n, q.base.vm)
               PROVE  q.old = q.base.vm
    OBVIOUS
  <2>1. q.pc # "idle"
    BY DEF Replacing, Named
  <2>2. q.base.vm \in Vms /\ m[q.base.vm] # "unused"
    BY <1>2, <1>3, <2>1 DEF Seen
  <2>3. LiveIn(m, q.base.vm)
    BY <2>2 DEF LiveIn, Forward
  <2> QED BY <2>3 DEF Knows
<1> QED BY <1>3, <1>4, <1>5, <1>6, <1>7 DEF Knows

LEMMA ReplacesStays ==
    ASSUME NEW q \in Invocation, NEW m, NEW c, NEW n, NEW d, NEW l, NEW k,
           Forward(m, c, n, d), l \subseteq k, Knows(q, m, c, l), Replaces(q, m, c, l)
    PROVE  Replaces(q, n, d, k)
<1>1. q.old # None => q.old \in Vms /\ m[q.old] # "unused"
  BY DEF Invocation, Knows
<1>2. q.old # None => /\ d[q.old].gen = c[q.old].gen
                      /\ ~LiveIn(m, q.old) => ~LiveIn(n, q.old)
                      /\ Over(q.old, m, l) => Over(q.old, n, k)
  BY <1>1, OverStays DEF Forward, LiveIn
<1>3. q.pc \in Retiring => q.old # None
  BY DEF Replaces, Retiring
<1> QED BY <1>2, <1>3 DEF Replaces

LEMMA AgreesStays ==
    ASSUME NEW q \in Invocation, NEW p, NEW m, NEW n, NEW l, NEW k,
           NoBirth(m, n), l \subseteq k, Agrees(q, p, m, l)
    PROVE  Agrees(q, p, n, k)
BY DEF Agrees, NoBirth

\* A run that does not run says nothing.
LEMMA IdleHolds ==
    /\ NoRun \in Invocation
    /\ \A m, c, l : Knows(NoRun, m, c, l) /\ Replaces(NoRun, m, c, l)
    /\ \A p, m, l : Agrees(NoRun, p, m, l)
<1>1. NoRun \in Invocation
  BY DEF NoRun, Invocation
<1>2. ASSUME NEW m, NEW c, NEW l PROVE Knows(NoRun, m, c, l) /\ Replaces(NoRun, m, c, l)
  BY DEF NoRun, Knows, Replaces, Repairing, Replacing, Named, Raised, Giving, Retiring
<1>3. ASSUME NEW p, NEW m, NEW l PROVE Agrees(NoRun, p, m, l)
  BY DEF NoRun, Agrees, Repairing, Replacing, Named, Raised, Giving, Retiring
<1> QED BY <1>1, <1>2, <1>3
-----------------------------------------------------------------------------
(* Steps of the MicroVMs and their processes. *)

LEMMA TypesAre ==
    ASSUME TypeOK
    PROVE  /\ vm \in [Vms -> States] /\ cp \in [Vms -> Process] /\ pointer \in Record
           /\ run \in [Runs -> Invocation] /\ op \in Script /\ latest \in Ledgers \cup {None}
           /\ lost \subseteq Vms /\ undone \in BOOLEAN
           /\ None \notin Vms /\ None \notin Ledgers
BY ControlPlaneAssumption DEF TypeOK, TypeOKcp, States, Ledgers

LEMMA StaysMoves ==
    ASSUME IInv, UNCHANGED <<vm, cp>>
    PROVE  Moves
<1>1. vm \in [Vms -> States] /\ cp \in [Vms -> Process]
  BY TypesAre DEF IInv
<1>2. Forward(vm, cp, vm, cp) /\ NoBirth(vm, vm)
  BY DEF Forward, NoBirth
<1>3. vm' = vm /\ cp' = cp
  OBVIOUS
<1> QED BY <1>1, <1>2, <1>3 DEF Moves, IInv, Orderly

\* What a step makes of one process.
Fits(v, s, d) ==
    /\ s \in States /\ d \in Process /\ d.gen = cp[v].gen
    /\ vm[v] # "unused" /\ s # "unused"
    /\ vm[v] # "pending" => s # "pending"
    /\ vm[v] = "gone" => s = "gone"
    /\ Quiet(s, d)
    /\ d.phase = "drained" => cp[v].phase = "drained" \/ undone \/ cp[v].gen < pointer.gen

LEMMA OneMoves ==
    ASSUME IInv, NEW v \in Vms, NEW s, NEW d, Fits(v, s, d),
           vm' = [vm EXCEPT ![v] = s], cp' = [cp EXCEPT ![v] = d]
    PROVE  Moves
<1>1. vm \in [Vms -> States] /\ cp \in [Vms -> Process] /\ undone \in BOOLEAN
  BY TypesAre DEF IInv
<1>2. vm' \in [Vms -> States] /\ cp' \in [Vms -> Process]
  BY <1>1 DEF Fits
<1>3. Forward(vm, cp, vm', cp') /\ NoBirth(vm, vm')
  BY <1>1 DEF Fits, Forward, NoBirth, LiveIn, States
<1>4. \A w \in Vms : Quiet(vm'[w], cp'[w])
  BY <1>1 DEF Fits, IInv
<1>5. ASSUME ~undone, NEW w \in Vms, cp'[w].phase = "drained" PROVE cp'[w].gen < pointer.gen
  BY <1>1, <1>5 DEF Fits, IInv, Orderly
<1> QED BY <1>2, <1>3, <1>4, <1>5 DEF Moves

LEMMA KilledMoves ==
    ASSUME IInv, NEW K, Killed(K)
    PROVE  /\ Moves
           /\ \A v \in K \cap Vms : ~LiveIn(vm', v)
<1>1. vm \in [Vms -> States] /\ cp \in [Vms -> Process] /\ undone \in BOOLEAN
  BY TypesAre DEF IInv
<1>2. ASSUME NEW v \in Vms
      PROVE  /\ Ended(cp[v]) \in Process
             /\ Ended(cp[v]).gen = cp[v].gen /\ Ended(cp[v]).phase = "neutral"
             /\ Quiet("gone", Ended(cp[v]))
  BY <1>1, <1>2 DEF Ended, NotBooted, Process, Quiet
<1>3. vm' \in [Vms -> States] /\ cp' \in [Vms -> Process]
  BY <1>1, <1>2 DEF Killed, States
<1>4. ASSUME NEW v \in Vms
      PROVE  \/ vm'[v] = vm[v] /\ cp'[v] = cp[v] /\ (v \in K => ~Live(v))
             \/ Live(v) /\ vm'[v] = "gone" /\ cp'[v] = Ended(cp[v])
  BY DEF Killed
<1>5. Forward(vm, cp, vm', cp') /\ NoBirth(vm, vm')
  BY <1>1, <1>2, <1>4 DEF Forward, NoBirth, LiveIn, Live
<1>6. \A w \in Vms : Quiet(vm'[w], cp'[w])
  BY <1>2, <1>4 DEF IInv
<1>7. ASSUME ~undone, NEW w \in Vms, cp'[w].phase = "drained" PROVE cp'[w].gen < pointer.gen
  BY <1>2, <1>4, <1>7 DEF IInv, Orderly
<1>8. \A v \in K \cap Vms : ~LiveIn(vm', v)
  BY <1>4 DEF LiveIn, Live
<1> QED BY <1>3, <1>5, <1>6, <1>7, <1>8 DEF Moves
-----------------------------------------------------------------------------
(* Steps beside the runs and the scripts. *)

LEMMA LeadsStays ==
    ASSUME NEW x \in Vms \cup {None}, NEW p, NEW t, NEW o, NEW rs, NEW ss,
           NEW m, NEW n, NEW l, NEW k,
           Leads(x, p, o, rs, m, l), NoBirth(m, n), l \subseteq k,
           t.on = p.on, t.vm = p.vm,
           \A v \in Beside(p, rs) : v \in Beside(t, ss) \/ Over(v, n, k)
    PROVE  Leads(x, t, o, ss, n, k)
BY DEF Leads, NoBirth, Over

\* The pointer, the runs and the scripts stand still.
LEMMA PlatformHolds ==
    ASSUME IInv, Moves, TypeOK', UNCHANGED <<pointer, run, op, undone, lost>>
    PROVE  IInv'
<1>1. /\ run \in [Runs -> Invocation] /\ pointer \in Record /\ op \in Script
  BY TypesAre DEF IInv
<1>2. Forward(vm, cp, vm', cp') /\ NoBirth(vm, vm') /\ lost \subseteq lost'
  BY DEF Moves
<1>3. Seen(pointer, vm', cp')
  BY <1>1, <1>2, SeenStays DEF IInv
<1>4. op.pc \in {"up", "down"} => op.base # None /\ Seen(op.base, vm', cp')
  <2> SUFFICES ASSUME op.pc \in {"up", "down"} PROVE op.base # None /\ Seen(op.base, vm', cp')
    OBVIOUS
  <2>1. op.base # None /\ op.base \in Record /\ Seen(op.base, vm, cp)
    BY <1>1 DEF IInv, Script
  <2> QED BY <1>2, <2>1, SeenStays
<1>5. ASSUME NEW r \in Runs
      PROVE  Knows(run[r], vm', cp', lost') /\ Replaces(run[r], vm', cp', lost')
  <2>1. run[r] \in Invocation /\ Knows(run[r], vm, cp, lost) /\ Replaces(run[r], vm, cp, lost)
    BY <1>1 DEF IInv
  <2> QED BY <1>2, <2>1, KnowsStays, ReplacesStays
<1>6. ASSUME ~undone PROVE Orderly'
  <2>1. Orderly
    BY <1>6 DEF IInv
  <2>2. ASSUME NEW r \in Runs PROVE Agrees(run[r], pointer, vm', lost')
    BY <1>1, <1>2, <2>1, AgreesStays DEF Orderly
  <2>3. PICK x \in Vms \cup {None} : Leads(x, pointer, op, run, vm, lost)
    BY <2>1 DEF Orderly
  <2>4. Leads(x, pointer, op, run, vm', lost')
    BY <1>2, <2>3, LeadsStays
  <2>5. \A v \in Vms : cp'[v].phase = "drained" => cp'[v].gen < pointer.gen
    BY <1>6 DEF Moves
  <2> QED BY <2>1, <2>2, <2>4, <2>5 DEF Orderly
<1>7. \A v \in Vms : Quiet(vm'[v], cp'[v])
  BY DEF Moves
<1>8. \A r, s \in InFlight' : r = s
  BY DEF IInv, InFlight
<1> QED BY <1>3, <1>4, <1>5, <1>6, <1>7, <1>8 DEF IInv

LEMMA FaultTyped ==
    ASSUME TypeOK, Fault
    PROVE  trouble' \in 0..MaxTrouble
<1>1. trouble \in Nat /\ jobs \in Nat /\ MaxTrouble \in Nat
  BY ControlPlaneAssumption DEF TypeOK, TypeOKcp
<1> QED BY <1>1 DEF Fault, Allowed

\* A step of the processes that leaves the fleet alone.
LEMMA ProcessTyped ==
    ASSUME IInv, Moves, UNCHANGED <<pointer, run, op, rule, rotations, lost, undone>>,
           latest' \in Ledgers \cup {None}, jobs' \in 0..MaxTrouble,
           UNCHANGED trouble \/ Fault
    PROVE  IInv'
<1>1. trouble' \in 0..MaxTrouble
  BY FaultTyped DEF IInv, TypeOK, TypeOKcp
<1>2. TypeOK'
  BY <1>1 DEF Moves, States, IInv, TypeOK, TypeOKcp
<1> QED BY <1>2, PlatformHolds

LEMMA ProcessIs ==
    ASSUME IInv, NEW v \in Vms
    PROVE  /\ vm \in [Vms -> States] /\ cp \in [Vms -> Process]
           /\ vm[v] \in States /\ cp[v] \in Process /\ Quiet(vm[v], cp[v])
           /\ LedgerOf(v) \in Ledgers
           /\ latest \in Ledgers \cup {None} /\ jobs \in 0..MaxTrouble
           /\ undone \in BOOLEAN
<1>1. vm \in [Vms -> States] /\ cp \in [Vms -> Process]
  BY TypesAre DEF IInv
<1>2. cp[v] \in Process
  BY <1>1
<1>3. LedgerOf(v) \in Ledgers
  BY <1>2 DEF LedgerOf, Ledger, Ledgers, Process
<1> QED BY <1>1, <1>3 DEF IInv, TypeOK, TypeOKcp

\* The one fact of these that is enough for what a process becomes.
LEMMA IsProcess ==
    ASSUME IInv, NEW v \in Vms
    PROVE  cp[v] \in Process
BY ProcessIs

\* A process is left as d, its MicroVM in state s.
LEMMA OneHolds ==
    ASSUME IInv, NEW v \in Vms, NEW s, NEW d, Fits(v, s, d),
           vm' = [vm EXCEPT ![v] = s], cp' = [cp EXCEPT ![v] = d],
           UNCHANGED <<pointer, run, op, rule, rotations, lost, undone>>,
           latest' \in Ledgers \cup {None}, jobs' \in 0..MaxTrouble,
           UNCHANGED trouble \/ Fault
    PROVE  IInv'
BY OneMoves, ProcessTyped

FleetStays == UNCHANGED <<run, op, rule, rotations, lost, undone>>

LEMMA RunHolds ==
    ASSUME IInv, FleetStays, NEW v \in Vms, Run(v)
    PROVE  IInv'
<1> DEFINE d == [cp[v] EXCEPT !.boot = "reading", !.read = latest]
<1>1. cp' = [cp EXCEPT ![v] = d]
  BY ProcessIs, Zenon DEF Run
<1>1a. vm' = [vm EXCEPT ![v] = vm[v]]
  BY ProcessIs DEF Run
<1>2. d \in Process /\ d.gen = cp[v].gen /\ d.phase = cp[v].phase
  BY ProcessIs, ZenonT(50) DEF Process
<1>2a. d.auth = cp[v].auth /\ d.clients = cp[v].clients /\ d.polling = cp[v].polling
  BY ProcessIs DEF Process
<1> HIDE DEF d
<1>2b. Quiet(vm[v], d)
  BY <1>2, <1>2a, ProcessIs DEF Quiet
<1>3. Fits(v, vm[v], d)
  BY <1>2, <1>2b, ProcessIs DEF Fits, Run
<1> HIDE DEF d
<1> QED BY <1>1, <1>1a, <1>3, OneHolds, ProcessIs DEF Run, FleetStays

LEMMA RunningHolds ==
    ASSUME IInv, FleetStays, NEW v \in Vms, Running(v)
    PROVE  IInv'
<1>1. cp' = [cp EXCEPT ![v] = cp[v]] /\ vm' = [vm EXCEPT ![v] = "running"]
  BY ProcessIs DEF Running
<1>2. Fits(v, "running", cp[v])
  BY ProcessIs DEF Fits, Running, Quiet, States
<1> QED BY <1>1, <1>2, OneHolds, ProcessIs DEF Running, FleetStays

LEMMA BootHolds ==
    ASSUME IInv, FleetStays, NEW v \in Vms, Boot(v)
    PROVE  IInv'
<1>1. PICK readable \in BOOLEAN :
        LET c == [cp[v] EXCEPT !.boot = "up", !.read = None]
            work == IF readable /\ cp[v].read # None THEN cp[v].read.work ELSE {}
        IN  /\ cp' = [cp EXCEPT ![v] =
                 IF HasLedger(v) THEN c
                 ELSE [Becomes(c, work) EXCEPT !.polling = TRUE]]
            /\ IF readable THEN UNCHANGED trouble ELSE Fault
  BY DEF Boot
<1> DEFINE c == [cp[v] EXCEPT !.boot = "up", !.read = None]
           work == IF readable /\ cp[v].read # None THEN cp[v].read.work ELSE {}
           d == IF HasLedger(v) THEN c ELSE [Becomes(c, work) EXCEPT !.polling = TRUE]
<1>2. cp' = [cp EXCEPT ![v] = d] /\ vm' = [vm EXCEPT ![v] = vm[v]] /\ Live(v)
  BY <1>1, ProcessIs DEF Boot
<1>3. work \in SUBSET (1..MaxTrouble)
  BY ProcessIs DEF Process, Ledgers
<1> HIDE DEF work
<1>4. d \in Process /\ d.gen = cp[v].gen /\ d.phase \in {"active", cp[v].phase}
  BY <1>3, IsProcess, ZenonT(50) DEF Process, Becomes
<1>5. Quiet(vm[v], d)
  BY <1>2, ProcessIs DEF Quiet, Live, HasLedger, Becomes, Process
<1>6. Fits(v, vm[v], d)
  BY <1>2, <1>4, <1>5, ProcessIs DEF Fits, Live
<1> HIDE DEF d
<1> QED BY <1>1, <1>2, <1>6, OneHolds, ProcessIs DEF Boot, FleetStays

LEMMA PollHolds ==
    ASSUME IInv, FleetStays, NEW v \in Vms, Poll(v)
    PROVE  IInv'
<1> DEFINE d == Granted(cp[v])
<1>1. cp' = [cp EXCEPT ![v] = d] /\ vm' = [vm EXCEPT ![v] = vm[v]] /\ vm[v] = "running"
  BY ProcessIs DEF Poll
<1>2. d \in Process /\ d.gen = cp[v].gen /\ d.phase = cp[v].phase /\ ~d.polling
  BY IsProcess, ZenonT(50) DEF Process, Granted
<1>3. Fits(v, vm[v], d)
  BY <1>1, <1>2, ProcessIs DEF Fits, Quiet
<1> HIDE DEF d
<1> QED BY <1>1, <1>3, OneHolds, ProcessIs DEF Poll, FleetStays

\* A process that is up stays up, and does what it did.
LEMMA UpFits ==
    ASSUME IInv, NEW v \in Vms, NEW s, NEW d,
           vm[v] \in {"running", "suspended"}, s \in {"running", "suspended"},
           d \in Process, d.gen = cp[v].gen, d.polling => d.phase # "neutral",
           d.phase = "drained" => cp[v].phase = "drained" \/ undone \/ cp[v].gen < pointer.gen
    PROVE  Fits(v, s, d)
BY DEF Fits, States, Quiet

LEMMA SamePhase ==
    ASSUME IInv, NEW v \in Vms, NEW d, d.phase = cp[v].phase, d.polling = cp[v].polling
    PROVE  d.polling => d.phase # "neutral"
BY ProcessIs DEF Quiet

LEMMA ConnectHolds ==
    ASSUME IInv, FleetStays, NEW v \in Vms, Connect(v)
    PROVE  IInv'
<1> DEFINE d == [cp[v] EXCEPT !.clients = TRUE]
<1>1. cp' = [cp EXCEPT ![v] = d]
  BY ProcessIs, Zenon DEF Connect
<1>2. d \in Process /\ d.gen = cp[v].gen /\ d.phase = cp[v].phase /\ d.polling = cp[v].polling
  BY IsProcess DEF Process
<1> HIDE DEF d
<1>3. Fits(v, "running", d)
  BY <1>2, UpFits, SamePhase DEF Connect, Wakes, ServingState
<1> QED BY <1>1, <1>3, OneHolds, ProcessIs DEF Connect, Wakes, FleetStays

LEMMA LeaveHolds ==
    ASSUME IInv, FleetStays, NEW v \in Vms, Leave(v)
    PROVE  IInv'
<1> DEFINE d == [cp[v] EXCEPT !.clients = FALSE]
<1>1. cp' = [cp EXCEPT ![v] = d]
  BY ProcessIs, Zenon DEF Leave
<1>1a. vm' = [vm EXCEPT ![v] = vm[v]] /\ vm[v] \notin {"unused", "gone"}
  BY ProcessIs DEF Leave, Quiet
<1>2. /\ d \in Process /\ d.gen = cp[v].gen /\ d.phase = cp[v].phase
      /\ d.polling = cp[v].polling
  BY IsProcess DEF Process
<1> HIDE DEF d
<1>3. Fits(v, vm[v], d)
  BY <1>1a, <1>2, SamePhase, ProcessIs DEF Fits, Quiet
<1> QED BY <1>1, <1>1a, <1>3, OneHolds, ProcessIs DEF Leave, FleetStays

LEMMA JobHolds ==
    ASSUME IInv, FleetStays, NEW v \in Vms, Job(v)
    PROVE  IInv'
<1> DEFINE w == cp[v].work \cup {jobs + 1}
           d == [cp[v] EXCEPT !.work = w]
<1>1. cp' = [cp EXCEPT ![v] = d]
  BY ProcessIs, Zenon DEF Job
<1>1a. vm' = [vm EXCEPT ![v] = vm[v]] /\ vm[v] = "running"
  BY ProcessIs DEF Job
<1>1b. jobs + 1 \in 1..MaxTrouble /\ jobs' \in 0..MaxTrouble
  <2>1. MaxTrouble \in Nat /\ jobs \in Nat /\ trouble \in Nat
    BY ControlPlaneAssumption DEF IInv, TypeOK, TypeOKcp
  <2> QED BY <2>1 DEF Job, Allowed
<1>1c. w \in SUBSET (1..MaxTrouble)
  BY <1>1b, ProcessIs DEF Process
<1> HIDE DEF w
<1>2. /\ d \in Process /\ d.gen = cp[v].gen /\ d.phase = cp[v].phase
      /\ d.polling = cp[v].polling
  BY <1>1c, ProcessIs DEF Process
<1> HIDE DEF d
<1>3. Fits(v, vm[v], d)
  BY <1>1a, <1>2, UpFits, SamePhase
<1> QED BY <1>1, <1>1a, <1>1b, <1>3, OneHolds, ProcessIs DEF Job, FleetStays

LEMMA SnapshotTimerHolds ==
    ASSUME IInv, FleetStays, NEW v \in Vms, SnapshotTimer(v)
    PROVE  IInv'
<1> DEFINE d == [cp[v] EXCEPT !.writing = LedgerOf(v)]
<1>1. cp' = [cp EXCEPT ![v] = d]
  BY ProcessIs, Zenon DEF SnapshotTimer
<1>1a. vm' = [vm EXCEPT ![v] = vm[v]] /\ vm[v] = "running"
  BY ProcessIs DEF SnapshotTimer
<1>2. /\ d \in Process /\ d.gen = cp[v].gen /\ d.phase = cp[v].phase
      /\ d.polling = cp[v].polling
  BY ProcessIs DEF Process
<1> HIDE DEF d
<1>3. Fits(v, vm[v], d)
  BY <1>1a, <1>2, UpFits, SamePhase
<1> QED BY <1>1, <1>1a, <1>3, OneHolds, ProcessIs DEF SnapshotTimer, FleetStays

LEMMA WriteLatestHolds ==
    ASSUME IInv, FleetStays, NEW v \in Vms, WriteLatest(v)
    PROVE  IInv'
<1> DEFINE d == [cp[v] EXCEPT !.writing = None, !.written = cp[v].writing]
<1>1. cp' = [cp EXCEPT ![v] = d]
  BY ProcessIs, Zenon DEF WriteLatest
<1>1a. vm' = [vm EXCEPT ![v] = vm[v]] /\ vm[v] = "running"
  BY ProcessIs DEF WriteLatest
<1>2. /\ d \in Process /\ d.gen = cp[v].gen /\ d.phase = cp[v].phase
      /\ d.polling = cp[v].polling
  BY IsProcess, ZenonT(50) DEF Process
<1>2a. latest' \in Ledgers \cup {None}
  BY ProcessIs DEF Process, WriteLatest
<1> HIDE DEF d
<1>3. Fits(v, vm[v], d)
  BY <1>1a, <1>2, UpFits, SamePhase
<1> QED BY <1>1, <1>1a, <1>2a, <1>3, OneHolds, ProcessIs DEF WriteLatest, FleetStays

LEMMA WriteFailsHolds ==
    ASSUME IInv, FleetStays, NEW v \in Vms, WriteFails(v)
    PROVE  IInv'
<1> DEFINE d == [cp[v] EXCEPT !.writing = None]
<1>1. cp' = [cp EXCEPT ![v] = d]
  BY ProcessIs, Zenon DEF WriteFails
<1>1a. vm' = [vm EXCEPT ![v] = vm[v]] /\ vm[v] = "running"
  BY ProcessIs DEF WriteFails
<1>2. /\ d \in Process /\ d.gen = cp[v].gen /\ d.phase = cp[v].phase
      /\ d.polling = cp[v].polling
  BY ProcessIs DEF Process
<1> HIDE DEF d
<1>3. Fits(v, vm[v], d)
  BY <1>1a, <1>2, UpFits, SamePhase
<1> QED BY <1>1, <1>1a, <1>3, OneHolds, ProcessIs DEF WriteFails, FleetStays

LEMMA SuspendHolds ==
    ASSUME IInv, FleetStays, NEW v \in Vms, Suspend(v)
    PROVE  IInv'
<1> DEFINE d == IF HookMayWrite(v) THEN [cp[v] EXCEPT !.written = LedgerOf(v)] ELSE cp[v]
<1>1. cp' = [cp EXCEPT ![v] = d]
  <2>1. CASE HookMayWrite(v)
    BY <2>1, ProcessIs, Zenon DEF Suspend
  <2>2. CASE ~HookMayWrite(v)
    <3>1. cp' = cp /\ d = cp[v]
      BY <2>2 DEF Suspend
    <3> HIDE DEF d
    <3> QED BY <3>1, ProcessIs
  <2> QED BY <2>1, <2>2
<1>1a. vm' = [vm EXCEPT ![v] = "suspended"] /\ vm[v] = "running"
  BY DEF Suspend
<1>1b. latest' \in Ledgers \cup {None}
  BY ProcessIs DEF Suspend
<1>2. /\ d \in Process /\ d.gen = cp[v].gen /\ d.phase = cp[v].phase
      /\ d.polling = cp[v].polling
  BY ProcessIs DEF Process
<1> HIDE DEF d
<1>3. Fits(v, "suspended", d)
  BY <1>1a, <1>2, UpFits, SamePhase
<1> QED BY <1>1, <1>1a, <1>1b, <1>3, OneHolds, ProcessIs DEF Suspend, FleetStays

LEMMA LostHolds ==
    ASSUME IInv, FleetStays, NEW v \in Vms, Lost(v)
    PROVE  IInv'
<1>1. Moves
  BY KilledMoves DEF Lost
<1> QED BY <1>1, ProcessTyped, ProcessIs DEF Lost, FleetStays

LEMMA LeaseOverHolds ==
    ASSUME IInv, FleetStays, NEW v \in Vms, LeaseOver(v)
    PROVE  IInv'
<1> DEFINE d == [cp[v] EXCEPT !.phase = "active", !.asked = TRUE]
<1>1. cp' = [cp EXCEPT ![v] = d]
  BY ProcessIs, Zenon DEF LeaseOver
<1>1a. vm' = [vm EXCEPT ![v] = vm[v]] /\ vm[v] = "running"
  BY ProcessIs DEF LeaseOver
<1>2. d \in Process /\ d.gen = cp[v].gen /\ d.phase = "active"
  BY IsProcess, ZenonT(50) DEF Process
<1> HIDE DEF d
<1>3. Fits(v, vm[v], d)
  BY <1>1a, <1>2, UpFits
<1> QED BY <1>1, <1>1a, <1>3, OneHolds, ProcessIs DEF LeaseOver, FleetStays

LEMMA LeaseAnswerHolds ==
    ASSUME IInv, FleetStays, NEW v \in Vms, LeaseAnswer(v)
    PROVE  IInv'
<1> DEFINE c == [cp[v] EXCEPT !.asked = FALSE]
           e == [c EXCEPT !.phase = "handing-over"]
           f == [c EXCEPT !.phase = "drained", !.clients = FALSE]
<1>1. vm[v] = "running" /\ FleetStays /\ UNCHANGED <<pointer, latest, jobs>>
  BY DEF LeaseAnswer
<1>2. /\ c \in Process /\ c.gen = cp[v].gen /\ c.phase = cp[v].phase
      /\ c.polling = cp[v].polling
  BY IsProcess, ZenonT(50) DEF Process
<1>3. e \in Process /\ e.gen = cp[v].gen /\ e.phase = "handing-over"
  BY IsProcess, ZenonT(50) DEF Process
<1>4. f \in Process /\ f.gen = cp[v].gen /\ f.phase = "drained"
  BY IsProcess, ZenonT(50) DEF Process
<1>5. \/ /\ Fault /\ UNCHANGED vm
         /\ cp' = [cp EXCEPT ![v] = IF Active(v) THEN e ELSE c]
      \/ Killed({v}) /\ UNCHANGED trouble
      \/ /\ Superseded(v) /\ Active(v) /\ Fault /\ UNCHANGED vm
         /\ cp' = [cp EXCEPT ![v] = Drains(c)]
      \/ cp' = [cp EXCEPT ![v] = c] /\ UNCHANGED <<vm, trouble>>
  BY Zenon DEF LeaseAnswer
<1>6. Active(v) => Drains(c) = f
  BY <1>2 DEF Active, Drains
<1> HIDE DEF c, e, f
<1>7. Fits(v, vm[v], c) /\ Fits(v, vm[v], e)
  BY <1>1, <1>2, <1>3, UpFits, SamePhase
<1>8. Superseded(v) => Fits(v, vm[v], f)
  <2>1. pointer.gen \in Nat /\ cp[v].gen \in Nat
    BY ProcessIs, TypesAre DEF IInv, Record, Process
  <2> QED BY <1>1, <1>4, <2>1, UpFits DEF Superseded
<1>9. UNCHANGED vm => vm' = [vm EXCEPT ![v] = vm[v]]
  BY ProcessIs
<1>10. CASE Killed({v}) /\ UNCHANGED trouble
  <2>1. Moves
    BY <1>10, KilledMoves
  <2> QED BY <1>1, <1>10, <2>1, ProcessTyped, ProcessIs DEF FleetStays
<1>11. CASE /\ Fault /\ UNCHANGED vm
            /\ cp' = [cp EXCEPT ![v] = IF Active(v) THEN e ELSE c]
  BY <1>1, <1>7, <1>9, <1>11, OneHolds, ProcessIs DEF FleetStays
<1>12. CASE /\ Superseded(v) /\ Active(v) /\ Fault /\ UNCHANGED vm
            /\ cp' = [cp EXCEPT ![v] = Drains(c)]
  BY <1>1, <1>6, <1>8, <1>9, <1>12, OneHolds, ProcessIs DEF FleetStays
<1>13. CASE cp' = [cp EXCEPT ![v] = c] /\ UNCHANGED <<vm, trouble>>
  BY <1>1, <1>7, <1>9, <1>13, OneHolds, ProcessIs DEF FleetStays
<1> QED BY <1>5, <1>10, <1>11, <1>12, <1>13

\* Whatever the processes do by themselves.
LEMMA ProcessHolds ==
    ASSUME IInv, FleetStays, ProcessNext
    PROVE  IInv'
<1>1. PICK v \in Vms :
        \/ ProcessStep(v)
        \/ Connect(v) \/ Leave(v) \/ Job(v)
        \/ WriteFails(v) \/ Suspend(v) \/ Lost(v)
  BY DEF ProcessNext
<1> QED BY <1>1, RunHolds, RunningHolds, BootHolds, PollHolds, SnapshotTimerHolds,
           WriteLatestHolds, LeaseOverHolds, LeaseAnswerHolds, ConnectHolds, LeaveHolds,
           JobHolds, WriteFailsHolds, SuspendHolds, LostHolds DEF ProcessStep
-----------------------------------------------------------------------------
(* Steps of a run. *)

LEMMA AloneIs ==
    ASSUME IInv, NEW r \in Runs, run[r].pc # "idle"
    PROVE  Alone(r)
<1> SUFFICES ASSUME NEW s \in Runs, s # r PROVE run[s] = NoRun
  BY DEF Alone
<1>1. run[s].pc = "idle"
  BY DEF IInv, InFlight
<1> QED BY <1>1 DEF IInv, Knows

\* What a run makes of itself and of the pointer.
LEMMA RunMoves ==
    ASSUME IInv, NEW r \in Runs, Alone(r),
           NEW q \in Invocation, run' = [run EXCEPT ![r] = q],
           TypeOKcp', Forward(vm, cp, vm', cp'), \A v \in Vms : Quiet(vm'[v], cp'[v]),
           UNCHANGED op, rule' \in BOOLEAN, rotations' \in 0..MaxRotations,
           lost \subseteq lost', lost' \subseteq Vms, undone' \in BOOLEAN,
           pointer' \in Record, Seen(pointer', vm', cp'),
           Knows(q, vm', cp', lost'), Replaces(q, vm', cp', lost'),
           ~undone' =>
              /\ pointer'.retiring = None \/ pointer'.pending = None
              /\ \A v \in Vms : cp'[v].phase = "drained" => cp'[v].gen < pointer'.gen
              /\ Agrees(q, pointer', vm', lost')
              /\ \E x \in Vms \cup {None} : Leads(x, pointer', op, run', vm', lost')
    PROVE  IInv'
<1>1. run \in [Runs -> Invocation] /\ op \in Script
  BY TypesAre DEF IInv
<1>2. run' \in [Runs -> Invocation] /\ \A s \in Runs : run'[s] = IF s = r THEN q ELSE NoRun
  BY <1>1 DEF Alone
<1>3. TypeOK'
  BY <1>1, <1>2 DEF TypeOK
<1>4. op.pc \in {"up", "down"} => op.base # None /\ Seen(op.base, vm', cp')
  <2> SUFFICES ASSUME op.pc \in {"up", "down"} PROVE op.base # None /\ Seen(op.base, vm', cp')
    OBVIOUS
  <2>1. op.base # None /\ op.base \in Record /\ Seen(op.base, vm, cp)
    BY <1>1 DEF IInv, Script
  <2> QED BY <2>1, SeenStays
<1>5. \A s \in Runs : Knows(run'[s], vm', cp', lost') /\ Replaces(run'[s], vm', cp', lost')
  BY <1>2, IdleHolds
<1>6. \A s, t \in InFlight' : s = t
  <2>1. InFlight' \subseteq {r}
    BY <1>2 DEF InFlight, NoRun
  <2> QED BY <2>1
<1>7. ASSUME ~undone' PROVE Orderly'
  <2>1. \A s \in Runs : Agrees(run'[s], pointer', vm', lost')
    BY <1>2, <1>7, IdleHolds
  <2>2. \E x \in Vms \cup {None} : Leads(x, pointer', op', run', vm', lost')
    BY <1>7
  <2> QED BY <1>7, <2>1, <2>2 DEF Orderly
<1>8. op'.pc \in {"up", "down"} => op'.base # None /\ Seen(op'.base, vm', cp')
  BY <1>4
<1> QED BY <1>3, <1>5, <1>6, <1>7, <1>8 DEF IInv

LEMMA BesideStays ==
    ASSUME TypeOK, NEW r \in Runs, NEW q, run' = [run EXCEPT ![r] = q], NEW p,
           run[r].pc # "record", q.pc # "record"
    PROVE  Beside(p, run') = Beside(p, run)
<1>1. \A s \in Runs : run'[s].pc = "record" <=> run[s].pc = "record"
  BY TypesAre
<1>2. \A s \in Runs : run[s].pc = "record" => run'[s] = run[s]
  BY TypesAre
<1>3. {run'[s].vm : s \in {t \in Runs : run'[t].pc = "record"}}
        = {run[s].vm : s \in {t \in Runs : run[t].pc = "record"}}
  BY <1>1, <1>2
<1> QED BY <1>3 DEF Beside

\* A run goes on and leaves the pointer as it is.
LEMMA RunStays ==
    ASSUME IInv, NEW r \in Runs, Alone(r), run[r].pc # "record",
           NEW q \in Invocation, q.pc # "record", run' = [run EXCEPT ![r] = q],
           Moves, UNCHANGED <<pointer, undone, op, jobs>>,
           rule' \in BOOLEAN, rotations' \in 0..MaxRotations,
           latest' \in Ledgers \cup {None}, trouble' \in 0..MaxTrouble,
           lost \subseteq lost', lost' \subseteq Vms,
           Knows(q, vm', cp', lost'), Replaces(q, vm', cp', lost'),
           ~undone => Agrees(q, pointer, vm', lost')
    PROVE  IInv'
<1>1. TypeOKcp' /\ Forward(vm, cp, vm', cp') /\ \A v \in Vms : Quiet(vm'[v], cp'[v])
  BY DEF Moves, States, IInv, TypeOK, TypeOKcp
<1>2. pointer \in Record /\ undone \in BOOLEAN
  BY TypesAre DEF IInv
<1>3. Seen(pointer', vm', cp')
  BY <1>1, <1>2, SeenStays DEF IInv
<1>4. ASSUME ~undone'
      PROVE  /\ pointer'.retiring = None \/ pointer'.pending = None
             /\ \A v \in Vms : cp'[v].phase = "drained" => cp'[v].gen < pointer'.gen
             /\ Agrees(q, pointer', vm', lost')
             /\ \E x \in Vms \cup {None} : Leads(x, pointer', op, run', vm', lost')
  <2>1. ~undone /\ Orderly
    BY <1>4 DEF IInv
  <2>2. PICK x \in Vms \cup {None} : Leads(x, pointer, op, run, vm, lost)
    BY <2>1 DEF Orderly
  <2>3. Beside(pointer, run') = Beside(pointer, run)
    BY BesideStays DEF IInv
  <2>4. Leads(x, pointer, op, run', vm', lost')
    BY <2>2, <2>3, LeadsStays DEF Moves
  <2> QED BY <2>1, <2>4 DEF Orderly, Moves
<1> QED BY <1>1, <1>2, <1>3, <1>4, RunMoves

LEMMA Terminated ==
    ASSUME IInv, NEW v \in Vms, TerminateQuietly(v)
    PROVE  /\ Moves /\ lost \subseteq lost' /\ lost' \subseteq Vms
           /\ latest' \in Ledgers \cup {None} /\ trouble' \in 0..MaxTrouble
           /\ Over(v, vm', lost')
<1>1. CASE Killed({v}) /\ latest' \in LatestAfterKill({v}) /\ UNCHANGED <<trouble, lost>>
  <2>1. latest' \in Ledgers \cup {None}
    BY <1>1, ProcessIs DEF LatestAfterKill
  <2> QED BY <1>1, <2>1, KilledMoves, TypesAre DEF Over, IInv, TypeOK, TypeOKcp
<1>2. CASE Fault /\ lost' = lost \cup {v} /\ UNCHANGED <<vm, cp, latest>>
  BY <1>2, StaysMoves, FaultTyped, TypesAre DEF Over, IInv
<1> QED BY <1>1, <1>2 DEF TerminateQuietly

LEMMA RunIs ==
    ASSUME IInv, NEW r \in Runs
    PROVE  /\ run \in [Runs -> Invocation] /\ run[r] \in Invocation
           /\ Knows(run[r], vm, cp, lost) /\ Replaces(run[r], vm, cp, lost)
           /\ ~undone => Agrees(run[r], pointer, vm, lost)
           /\ run[r].base # None => run[r].base \in Record
           /\ run[r].vm # None => run[r].vm \in Vms
           /\ run[r].old # None => run[r].old \in Vms
           /\ rule \in BOOLEAN /\ rotations \in 0..MaxRotations /\ lost \subseteq Vms
           /\ trouble \in 0..MaxTrouble /\ latest \in Ledgers \cup {None}
<1>1. run \in [Runs -> Invocation]
  BY TypesAre DEF IInv
<1>2. run[r] \in Invocation
  BY <1>1
<1> QED BY <1>1, <1>2 DEF IInv, Orderly, Invocation, TypeOK, TypeOKcp

\* The one fact of these that is enough for what a run becomes,
LEMMA IsRun ==
    ASSUME IInv, NEW r \in Runs
    PROVE  run[r] \in Invocation
BY RunIs

\* and the ones that are for what it knows.
LEMMA RunKnows ==
    ASSUME IInv, NEW r \in Runs
    PROVE  /\ Knows(run[r], vm, cp, lost)
           /\ run[r].base # None => run[r].base \in Record
           /\ run[r].vm # None => run[r].vm \in Vms
           /\ run[r].old # None => run[r].old \in Vms
BY RunIs

\* A run goes on; nothing else does.
LEMMA RunGoes ==
    ASSUME IInv, NEW r \in Runs, Alone(r), run[r].pc # "record",
           NEW q \in Invocation, q.pc # "record", run' = [run EXCEPT ![r] = q],
           PlatformStays, UNCHANGED <<pointer, undone, op, lost>>,
           rule' \in BOOLEAN, rotations' \in 0..MaxRotations, trouble' \in 0..MaxTrouble,
           Knows(q, vm, cp, lost), Replaces(q, vm, cp, lost),
           ~undone => Agrees(q, pointer, vm, lost)
    PROVE  IInv'
<1>1. Moves /\ latest' \in Ledgers \cup {None} /\ lost \subseteq lost' /\ lost' \subseteq Vms
  BY StaysMoves, RunIs DEF PlatformStays
<1> QED BY <1>1, RunStays DEF PlatformStays

LEMMA NobodyRuns ==
    ASSUME IInv, MaxOverlap = 1, NEW r \in Runs, Cardinality(InFlight) < MaxOverlap
    PROVE  Alone(r) /\ run[r] = NoRun
<1>1. InFlight = {}
  <2> SUFFICES ASSUME NEW s \in InFlight PROVE FALSE
    OBVIOUS
  <2>1. InFlight = {s}
    BY DEF IInv
  <2>2. Cardinality({s}) = 1
    BY FS_Singleton
  <2> QED BY <2>1, <2>2
<1>2. \A s \in Runs : run[s] = NoRun
  BY <1>1 DEF InFlight, IInv, Knows
<1> QED BY <1>2 DEF Alone

LEMMA StartsHolds ==
    ASSUME IInv, MaxOverlap = 1, NEW r \in Runs, NEW scheduled \in BOOLEAN,
           Starts(r, scheduled), PlatformStays, UNCHANGED <<pointer, undone, op, lost>>,
           rule' \in BOOLEAN, rotations' \in 0..MaxRotations, trouble' \in 0..MaxTrouble
    PROVE  IInv'
<1> DEFINE w == FirstWork(pointer)
           q == [NoRun EXCEPT !.pc = w, !.scheduled = scheduled,
                   !.base = pointer, !.old = pointer.retiring,
                   !.after = IF w = "drain" THEN "reread" ELSE "end"]
<1>1. Alone(r) /\ run[r].pc # "record" /\ run' = [run EXCEPT ![r] = q]
  BY NobodyRuns, Zenon DEF Starts, At, NoRun
<1>2. /\ pointer \in Record /\ Seen(pointer, vm, cp) /\ None \notin Record
      /\ pointer.retiring \in Vms \cup {None} /\ pointer.gen \in Nat
      /\ pointer.vm \in Vms \cup {None}
  <2>1. pointer \in Record /\ None \notin Record
    BY TypesAre, RotationAssumption DEF IInv
  <2> QED BY <2>1 DEF IInv, Record
<1>3. w \in {"drain", "repair", "choose"} /\ (w = "drain" => pointer.retiring # None)
      /\ (w = "repair" => pointer.pending # None)
      /\ (w = "choose" => pointer.pending = None)
      /\ (w # "drain" => pointer.retiring = None)
  <2>1. pointer.retiring # None /\ pointer.vm # None => pointer.retiring # pointer.vm
    BY <1>2 DEF Seen
  <2> QED BY <2>1 DEF FirstWork
<1> HIDE DEF w
<1>4. /\ q.pc = w /\ q.base = pointer /\ q.old = pointer.retiring /\ q.vm = None
      /\ q.ledger = None /\ q.after = IF w = "drain" THEN "reread" ELSE "end"
  BY DEF NoRun
<1>5. q \in Invocation
  BY <1>2, <1>3 DEF NoRun, Invocation
<1> HIDE DEF q
<1>6. Knows(q, vm, cp, lost)
  BY <1>2, <1>3, <1>4 DEF Knows, Seen, Repairing, Replacing, Named, Raised, Giving
<1>7. Replaces(q, vm, cp, lost)
  BY <1>3, <1>4 DEF Replaces, Named, Raised, Retiring
<1>8. Agrees(q, pointer, vm, lost)
  BY <1>3, <1>4 DEF Agrees, Repairing, Replacing, Named, Raised, Giving, Retiring
<1> QED BY <1>1, <1>3, <1>4, <1>5, <1>6, <1>7, <1>8, RunGoes

LEMMA AllowedTyped ==
    ASSUME IInv, NEW n \in Nat, Allowed(n), trouble' = trouble + n
    PROVE  trouble' \in 0..MaxTrouble
<1>1. trouble \in Nat /\ jobs \in Nat /\ MaxTrouble \in Nat
  BY ControlPlaneAssumption DEF IInv, TypeOK, TypeOKcp
<1> QED BY <1>1 DEF Allowed

LEMMA InvokeHolds ==
    ASSUME IInv, MaxOverlap = 1, NEW r \in Runs, Invoke(r)
    PROVE  IInv'
<1>1. PICK scheduled \in BOOLEAN : Starts(r, scheduled)
  BY DEF Invoke
<1>2. trouble' \in 0..MaxTrouble
  BY AllowedTyped, RunIs DEF Invoke
<1>3. rotations' \in 0..MaxRotations
  BY RunIs, RotationAssumption DEF Invoke
<1>4. rule' \in BOOLEAN /\ PlatformStays /\ UNCHANGED <<pointer, undone, op, lost>>
  BY RunIs DEF Invoke
<1> QED BY <1>1, <1>2, <1>3, <1>4, StartsHolds

LEMMA HealHolds ==
    ASSUME IInv, MaxOverlap = 1, NEW r \in Runs, Heal(r) \/ Hourly(r)
    PROVE  IInv'
<1>1. PICK scheduled \in BOOLEAN : Starts(r, scheduled)
  BY DEF Heal, Hourly
<1>2. /\ trouble' \in 0..MaxTrouble /\ rotations' \in 0..MaxRotations /\ rule' \in BOOLEAN
      /\ PlatformStays /\ UNCHANGED <<pointer, undone, op, lost>>
  BY RunIs DEF Heal, Hourly, Unbound
<1> QED BY <1>1, <1>2, StartsHolds

Lines ==
    {"idle", "drain", "kill", "clear", "clear write", "reread", "repair", "roll back",
     "forget", "choose", "launch", "record", "wait", "unpend", "unpend write",
     "handover", "handed", "adopt", "promote", "flip"}

\* A run at another line, and what that leaves of it.
AtLine(r, pc) == [run[r] EXCEPT !.pc = pc]

Same(q, r, pc) ==
    /\ q.pc = pc /\ q.base = run[r].base /\ q.old = run[r].old /\ q.after = run[r].after
    /\ q.vm = run[r].vm /\ q.gen = run[r].gen /\ q.ledger = run[r].ledger

LEMMA GotoFacts ==
    ASSUME IInv, NEW r \in Runs, NEW pc \in Lines, Goto(r, pc)
    PROVE  /\ AtLine(r, pc) \in Invocation /\ Same(AtLine(r, pc), r, pc)
           /\ run' = [run EXCEPT ![r] = AtLine(r, pc)]
<1>1. AtLine(r, pc) \in Invocation
  BY IsRun, ZenonT(50) DEF Invocation, AtLine, Lines
<1>2. run' = [run EXCEPT ![r] = AtLine(r, pc)]
  BY RunIs, Zenon DEF Goto, AtLine
<1>3. Same(AtLine(r, pc), r, pc)
  BY RunIs DEF Invocation, AtLine, Same
<1> QED BY <1>1, <1>2, <1>3

\* A run goes on to another line, and nothing else happens.
LEMMA GotoHolds ==
    ASSUME IInv, NEW r \in Runs, Alone(r), run[r].pc # "record",
           NEW q \in Invocation, q.pc # "record", run' = [run EXCEPT ![r] = q],
           PlatformStays, UNCHANGED <<pointer, undone, lost>>, OthersStay,
           UNCHANGED trouble \/ Fault,
           Knows(q, vm, cp, lost), Replaces(q, vm, cp, lost),
           ~undone => Agrees(q, pointer, vm, lost)
    PROVE  IInv'
<1>1. rule' \in BOOLEAN /\ rotations' \in 0..MaxRotations /\ trouble' \in 0..MaxTrouble
  BY RunIs, FaultTyped DEF OthersStay, IInv
<1> QED BY <1>1, RunGoes DEF OthersStay

LEMMA EndHolds ==
    ASSUME IInv, NEW r \in Runs, Alone(r), run[r].pc # "record", End(r),
           PlatformStays, UNCHANGED <<pointer, undone, lost>>, OthersStay,
           UNCHANGED trouble \/ Fault
    PROVE  IInv'
<1>1. rule' \in BOOLEAN /\ rotations' \in 0..MaxRotations /\ trouble' \in 0..MaxTrouble
  BY RunIs, FaultTyped DEF OthersStay, IInv
<1>2. NoRun.pc # "record"
  BY DEF NoRun
<1>3. run' = [run EXCEPT ![r] = NoRun]
  BY DEF End
<1> QED BY <1>1, <1>2, <1>3, RunGoes, IdleHolds DEF OthersStay

LEMMA RereadHolds ==
    ASSUME IInv, NEW r \in Runs, Reread(r)
    PROVE  IInv'
<1> DEFINE w == IF pointer.pending # None THEN "repair" ELSE "choose"
           q == [run[r] EXCEPT !.base = pointer, !.old = None, !.after = "end", !.pc = w]
<1>1. Alone(r) /\ run[r].pc = "reread"
  BY AloneIs DEF Reread, At
<1>2. run' = [run EXCEPT ![r] = q]
  BY RunIs, Zenon DEF Reread
<1>3. pointer \in Record /\ pointer # None /\ Seen(pointer, vm, cp)
  BY TypesAre, RotationAssumption DEF IInv
<1>4. /\ q.pc = w /\ q.base = pointer /\ q.old = None /\ q.after = "end"
      /\ q.vm = run[r].vm /\ q.gen = run[r].gen /\ q.ledger = run[r].ledger
      /\ q \in Invocation
  <2>1. run[r] \in Invocation
    BY RunIs
  <2>2. w \in {"repair", "choose"}
    OBVIOUS
  <2> HIDE DEF w
  <2> QED BY <1>3, <2>1, <2>2 DEF Invocation
<1> HIDE DEF q
<1>5. Knows(q, vm, cp, lost)
  BY <1>1, <1>3, <1>4, RunIs DEF Knows, Repairing, Replacing, Named, Raised, Giving
<1>6. Replaces(q, vm, cp, lost)
  BY <1>1, <1>4, RunIs DEF Replaces, Named, Raised, Retiring
<1>7. ~undone => Agrees(q, pointer, vm, lost)
  BY <1>1, <1>4, RunIs DEF Agrees, Repairing, Replacing, Named, Raised, Giving, Retiring
<1> QED BY <1>1, <1>2, <1>4, <1>5, <1>6, <1>7, RunGoes, RunIs DEF Reread, OthersStay

LEMMA RepairHolds ==
    ASSUME IInv, NEW r \in Runs, Repair(r)
    PROVE  IInv'
<1> DEFINE p == run[r].base
           s == p.pending
<1>1. Alone(r) /\ run[r].pc = "repair"
  BY AloneIs DEF Repair, At
<1>2. /\ p \in Record /\ p # None /\ Seen(p, vm, cp)
      /\ s # None /\ s \in Launched /\ s.vm \in Vms
  <2>1. p \in Record /\ p # None /\ Seen(p, vm, cp) /\ s # None
    BY <1>1, RunIs DEF Knows, Repairing
  <2> QED BY <2>1 DEF Record, Launched
<1>3. PlatformStays /\ UNCHANGED <<pointer, undone, trouble, lost>> /\ OthersStay
  BY DEF Repair
<1>4. CASE End(r)
  BY <1>1, <1>3, <1>4, EndHolds
<1>5. CASE ~s.young /\ ~ServingState(s.vm) /\ Goto(r, "forget")
  <2> DEFINE q == AtLine(r, "forget")
  <2>1. q \in Invocation /\ Same(q, r, "forget") /\ run' = [run EXCEPT ![r] = q]
    BY <1>5, GotoFacts DEF Lines
  <2> HIDE DEF q
  <2>2. Over(s.vm, vm, lost)
    BY <1>2, <1>5, TypesAre DEF Seen, Over, LiveIn, ServingState, IInv, States
  <2>3. Knows(q, vm, cp, lost)
    BY <1>1, <1>2, <1>5, <2>1, <2>2, RunIs
       DEF Same, Knows, Repairing, Replacing, Named, Raised, Giving
  <2>4. Replaces(q, vm, cp, lost)
    BY <1>1, <2>1, RunIs DEF Same, Replaces, Named, Raised, Retiring
  <2>5. ~undone => Agrees(q, pointer, vm, lost)
    BY <1>1, <2>1, RunIs DEF Same, Agrees, Repairing, Replacing, Named, Raised, Giving, Retiring
  <2> QED BY <1>1, <1>3, <1>5, <2>1, <2>3, <2>4, <2>5, GotoHolds DEF Same
<1>6. CASE ~s.young /\ Goto(r, "roll back")
  <2> DEFINE q == AtLine(r, "roll back")
  <2>1. q \in Invocation /\ Same(q, r, "roll back") /\ run' = [run EXCEPT ![r] = q]
    BY <1>6, GotoFacts DEF Lines
  <2> HIDE DEF q
  <2>3. Knows(q, vm, cp, lost)
    BY <1>1, <1>2, <1>6, <2>1, RunIs DEF Same, Knows, Repairing, Replacing, Named, Raised, Giving
  <2>4. Replaces(q, vm, cp, lost)
    BY <1>1, <2>1, RunIs DEF Same, Replaces, Named, Raised, Retiring
  <2>5. ~undone => Agrees(q, pointer, vm, lost)
    BY <1>1, <2>1, RunIs DEF Same, Agrees, Repairing, Replacing, Named, Raised, Giving, Retiring
  <2> QED BY <1>1, <1>3, <1>6, <2>1, <2>3, <2>4, <2>5, GotoHolds DEF Same
<1>7. CASE /\ ServingState(s.vm) /\ s.gen > p.gen /\ ~(p.vm # None /\ ServingState(p.vm))
           /\ run' = [run EXCEPT ![r].pc = "promote", ![r].vm = s.vm, ![r].gen = s.gen,
                        ![r].old = p.vm, ![r].after = "repaired"]
  <2> DEFINE q == [run[r] EXCEPT !.pc = "promote", !.vm = s.vm, !.gen = s.gen,
                     !.old = p.vm, !.after = "repaired"]
  <2>1. run' = [run EXCEPT ![r] = q]
    BY <1>7, RunIs, Zenon
  <2>1a. p.vm \in Vms \cup {None} /\ s.vm \in Vms /\ s.gen \in Nat
    BY <1>2 DEF Record, Launched
  <2>2. /\ q.pc = "promote" /\ q.base = p /\ q.old = p.vm /\ q.after = "repaired"
        /\ q.vm = s.vm /\ q.gen = s.gen /\ q.ledger = run[r].ledger
    BY IsRun DEF Invocation
  <2>2a. q \in Invocation
    BY <2>1a, IsRun, ZenonT(50) DEF Invocation
  <2> HIDE DEF q
  <2>3. p.vm # None => ~LiveIn(vm, p.vm) /\ vm[p.vm] # "unused" /\ p.vm \in Vms
    <3>1. p.vm # None => p.vm \in Vms /\ vm[p.vm] \in States /\ ~ServingState(p.vm)
      BY <1>2, <1>7, TypesAre DEF Record, IInv
    <3>2. p.vm # None => vm[p.vm] \notin {"unused", "pending"}
      BY <1>2 DEF Seen
    <3> QED BY <3>1, <3>2 DEF LiveIn, ServingState, States
  <2>3a. /\ vm[s.vm] # "unused" /\ cp[s.vm].gen = s.gen /\ s.vm # None
         /\ vm[s.vm] # "pending" /\ p.gen < s.gen
    <3>1. p.gen \in Nat /\ s.gen \in Nat
      BY <1>2 DEF Record, Launched
    <3> QED BY <1>2, <1>7, <3>1, TypesAre DEF Seen, ServingState, IInv
  <2>4. Knows(q, vm, cp, lost)
    BY <1>1, <1>2, <2>2, <2>3, <2>3a
       DEF Knows, Repairing, Replacing, Named, Raised, Giving
  <2>5. Replaces(q, vm, cp, lost)
    BY <1>1, <2>2, <2>3, RunIs DEF Replaces, Named, Raised, Retiring, Repairing
  <2>6. ~undone => Agrees(q, pointer, vm, lost)
    BY <1>1, <2>2, RunIs DEF Agrees, Repairing, Replacing, Named, Raised, Giving, Retiring
  <2> QED BY <1>1, <1>3, <2>1, <2>2, <2>2a, <2>4, <2>5, <2>6, RunGoes, RunIs DEF OthersStay
<1> QED BY <1>4, <1>5, <1>6, <1>7, Zenon DEF Repair

\* What a run knew and the pointer said still stands.
LEMMA RunStillIs ==
    ASSUME IInv, NEW r \in Runs, Moves, lost \subseteq lost'
    PROVE  /\ Knows(run[r], vm', cp', lost') /\ Replaces(run[r], vm', cp', lost')
           /\ ~undone => Agrees(run[r], pointer, vm', lost')
BY RunIs, KnowsStays, ReplacesStays, AgreesStays DEF Moves

\* A run goes on, having terminated somebody.
LEMMA KillsHolds ==
    ASSUME IInv, NEW r \in Runs, Alone(r), run[r].pc # "record",
           NEW v \in Vms, TerminateQuietly(v), UNCHANGED <<pointer, undone, jobs>>, OthersStay,
           NEW q \in Invocation, q.pc # "record", run' = [run EXCEPT ![r] = q],
           Knows(q, vm', cp', lost'), Replaces(q, vm', cp', lost'),
           ~undone => Agrees(q, pointer, vm', lost')
    PROVE  IInv'
<1>1. /\ Moves /\ lost \subseteq lost' /\ lost' \subseteq Vms
      /\ latest' \in Ledgers \cup {None} /\ trouble' \in 0..MaxTrouble
  BY Terminated
<1>2. rule' \in BOOLEAN /\ rotations' \in 0..MaxRotations /\ UNCHANGED <<op, jobs>>
  BY RunIs DEF OthersStay
<1> QED BY <1>1, <1>2, RunStays

LEMMA RollBackHolds ==
    ASSUME IInv, NEW r \in Runs, RollBack(r)
    PROVE  IInv'
<1> DEFINE q == AtLine(r, "forget")
           v == run[r].base.pending.vm
<1>1. Alone(r) /\ run[r].pc = "roll back" /\ run[r] \in Invocation
  BY AloneIs, RunIs DEF RollBack, At
<1>2. q \in Invocation /\ Same(q, r, "forget") /\ run' = [run EXCEPT ![r] = q]
  BY GotoFacts DEF RollBack, Lines
<1> HIDE DEF q
<1>4. v \in Vms
  <2>1. run[r].base \in Record /\ run[r].base.pending # None
    BY <1>1, RunIs DEF Knows, Repairing
  <2> QED BY <2>1 DEF Record, Launched
<1>5. TerminateQuietly(v) /\ UNCHANGED <<pointer, undone, jobs>> /\ OthersStay
  BY DEF RollBack
<1>6. /\ Knows(run[r], vm', cp', lost') /\ Replaces(run[r], vm', cp', lost')
      /\ ~undone => Agrees(run[r], pointer, vm', lost')
      /\ Over(v, vm', lost')
  BY <1>4, <1>5, Terminated, RunStillIs
<1>7. Knows(q, vm', cp', lost')
  BY <1>1, <1>2, <1>6 DEF Same, Knows, Repairing, Replacing, Named, Raised, Giving
<1>8. Replaces(q, vm', cp', lost')
  BY <1>1, <1>2, <1>6 DEF Same, Replaces, Named, Raised, Retiring
<1>9. ~undone => Agrees(q, pointer, vm', lost')
  BY <1>1, <1>2, <1>6 DEF Same, Agrees, Repairing, Replacing, Named, Raised, Giving, Retiring
<1> QED BY <1>1, <1>2, <1>4, <1>5, <1>7, <1>8, <1>9, KillsHolds DEF Same

LEMMA ChooseHolds ==
    ASSUME IInv, NEW r \in Runs, Choose(r)
    PROVE  IInv'
<1> DEFINE p == IF run[r].base.pending # None THEN pointer ELSE run[r].base
           s == IF p.vm # None /\ Live(p.vm) THEN p.vm ELSE None
           q == [run[r] EXCEPT !.pc = "launch", !.base = p, !.gen = p.gen + 1, !.old = s]
<1>1. Alone(r) /\ run[r].pc = "choose" /\ run[r] \in Invocation
  BY AloneIs, RunIs DEF Choose, At
<1>2. PlatformStays /\ UNCHANGED <<pointer, undone, trouble, lost>> /\ OthersStay
  BY DEF Choose
<1>3. CASE End(r)
  BY <1>1, <1>2, <1>3, EndHolds
<1>4. CASE run' = [run EXCEPT ![r].pc = "launch", ![r].base = p,
                     ![r].gen = p.gen + 1,
                     ![r].old = IF p.vm # None /\ Live(p.vm) THEN p.vm ELSE None]
  <2>1. run' = [run EXCEPT ![r] = q]
    BY <1>4, RunIs, Zenon
  <2>2. p \in Record /\ p # None /\ Seen(p, vm, cp)
    BY <1>1, RunIs, TypesAre, RotationAssumption DEF IInv, Knows
  <2>2a. ~undone => /\ pointer.retiring = None /\ pointer.pending = None
                    /\ pointer.gen = p.gen /\ pointer.vm \in {None, p.vm}
    BY <1>1, RunIs DEF Agrees
  <2> HIDE DEF p
  <2>3. p.gen \in Nat /\ p.vm \in Vms \cup {None} /\ p.gen < p.gen + 1
    BY <2>2 DEF Record
  <2>4. s \in {None, p.vm} /\ (p.vm # None /\ LiveIn(vm, p.vm) => s = p.vm)
        /\ (s # None => vm[s] # "unused")
    BY DEF Live, LiveIn
  <2> HIDE DEF s
  <2>5. /\ q.pc = "launch" /\ q.base = p /\ q.gen = p.gen + 1 /\ q.old = s
        /\ q.vm = run[r].vm /\ q.after = run[r].after /\ q.ledger = run[r].ledger
        /\ q \in Invocation
    <3>1. s \in Vms \cup {None} /\ p.gen + 1 \in Nat /\ p \in Record \cup {None}
      BY <2>2, <2>3, <2>4
    <3> QED BY <1>1, <3>1 DEF Invocation
  <2> HIDE DEF q
  <2>6. Knows(q, vm, cp, lost)
    BY <1>1, <2>2, <2>3, <2>4, <2>5, RunIs
       DEF Knows, Repairing, Replacing, Named, Raised, Giving
  <2>7. Replaces(q, vm, cp, lost)
    BY <1>1, <2>5, RunIs DEF Replaces, Named, Raised, Retiring
  <2>8. ~undone => Agrees(q, pointer, vm, lost)
    BY <2>2a, <2>5 DEF Agrees, Repairing, Replacing, Named, Raised, Giving, Retiring
  <2> QED BY <1>1, <1>2, <2>1, <2>5, <2>6, <2>7, <2>8, RunGoes, RunIs DEF OthersStay
<1> QED BY <1>3, <1>4 DEF Choose

\* The calls of a handover but for what they do to the processes.
LEMMA CallsHold ==
    ASSUME IInv, NEW r \in Runs, run[r].pc \in {"handover", "handed", "adopt"},
           NEW pc \in {"handover", "adopt", "promote"}, Goto(r, pc),
           pc # "promote" => run[r].pc = "handed",
           PlatformStays, UNCHANGED <<pointer, undone, lost>>, OthersStay,
           UNCHANGED trouble \/ Fault
    PROVE  IInv'
<1>1. Alone(r)
  BY AloneIs
<1> DEFINE q == AtLine(r, pc)
<1>2. q \in Invocation /\ Same(q, r, pc) /\ run' = [run EXCEPT ![r] = q]
  BY GotoFacts, ZenonT(50) DEF Lines
<1> HIDE DEF q
<1>3. Knows(q, vm, cp, lost)
  BY <1>2, RunKnows, ZenonT(50) DEF Same, Knows, Repairing, Replacing, Named, Raised, Giving
<1>4. Replaces(q, vm, cp, lost)
  BY <1>2, RunIs DEF Same, Replaces, Named, Raised, Retiring
<1>5. ~undone => Agrees(q, pointer, vm, lost)
  BY <1>2, RunIs DEF Same, Agrees, Repairing, Replacing, Named, Raised, Giving, Retiring
<1> QED BY <1>1, <1>2, <1>3, <1>4, <1>5, GotoHolds DEF Same

LEMMA HandoverCallsHold ==
    ASSUME IInv, NEW r \in Runs,
           HandoverAnswered(r) \/ HandoverUnanswered(r) \/ GiveUpHandover(r)
    PROVE  IInv'
<1>1. CASE HandoverAnswered(r)
  BY <1>1, CallsHold DEF HandoverAnswered, At
<1>2. CASE HandoverUnanswered(r)
  BY <1>2, CallsHold DEF HandoverUnanswered, At
<1>3. CASE GiveUpHandover(r)
  BY <1>3, CallsHold DEF GiveUpHandover, At
<1> QED BY <1>1, <1>2, <1>3

\* The pointer is read again, before clearing what it says.
LEMMA RereadsHolds ==
    ASSUME IInv, NEW r \in Runs, Unpend(r) \/ Clear(r)
    PROVE  IInv'
<1> DEFINE pc == IF run[r].pc = "unpend" THEN "unpend write" ELSE "clear write"
           q == [run[r] EXCEPT !.pc = pc, !.base = pointer]
<1>1. /\ Alone(r) /\ run[r].pc \in {"unpend", "clear"}
      /\ PlatformStays /\ UNCHANGED <<pointer, undone, trouble, lost>> /\ OthersStay
  BY AloneIs DEF Unpend, Clear, At
<1>2. run' = [run EXCEPT ![r] = q]
  <2>1. CASE Unpend(r)
    <3>1. pc = "unpend write"
      BY <2>1 DEF Unpend, At
    <3> HIDE DEF pc
    <3> QED BY <2>1, <3>1, RunIs, Zenon DEF Unpend
  <2>2. CASE Clear(r)
    <3>1. pc = "clear write"
      BY <2>2 DEF Clear, At
    <3> HIDE DEF pc
    <3> QED BY <2>2, <3>1, RunIs, Zenon DEF Clear
  <2> QED BY <2>1, <2>2
<1>3. pointer \in Record /\ pointer # None /\ Seen(pointer, vm, cp)
  BY TypesAre, RotationAssumption DEF IInv
<1>4. pc \in {"unpend write", "clear write"} /\ (run[r].pc = "clear" <=> pc = "clear write")
  BY <1>1
<1> HIDE DEF pc
<1>5. /\ q.pc = pc /\ q.base = pointer /\ q.old = run[r].old /\ q.after = run[r].after
      /\ q.vm = run[r].vm /\ q.gen = run[r].gen /\ q.ledger = run[r].ledger
      /\ q \in Invocation
  BY <1>3, <1>4, IsRun, ZenonT(50) DEF Invocation
<1> HIDE DEF q
<1>6. Knows(q, vm, cp, lost)
  BY <1>1, <1>3, <1>4, <1>5, RunIs DEF Knows, Repairing, Replacing, Named, Raised, Giving
<1>7. Replaces(q, vm, cp, lost)
  BY <1>1, <1>4, <1>5, RunIs DEF Replaces, Named, Raised, Retiring
<1>8. ~undone => Agrees(q, pointer, vm, lost)
  BY <1>1, <1>4, <1>5, RunIs DEF Agrees, Repairing, Replacing, Named, Raised, Giving, Retiring
<1> QED BY <1>1, <1>2, <1>4, <1>5, <1>6, <1>7, <1>8, RunGoes, RunIs DEF OthersStay

LEMMA WaitHolds ==
    ASSUME IInv, NEW r \in Runs, Wait(r)
    PROVE  IInv'
<1>1. /\ Alone(r) /\ run[r].pc = "wait" /\ run[r].vm # None /\ run[r].vm \in Vms
      /\ vm[run[r].vm] # "unused"
      /\ UNCHANGED <<pointer, undone, jobs>> /\ OthersStay
  BY AloneIs, RunIs DEF Wait, At, Knows, Named
<1>2. CASE /\ vm[run[r].vm] = "running" /\ UNCHANGED <<vm, cp, latest, trouble, lost>>
           /\ Goto(r, IF run[r].old = None THEN "promote" ELSE "handover")
  <2> DEFINE pc == IF run[r].old = None THEN "promote" ELSE "handover"
  <2>1. pc \in {"promote", "handover"} /\ (pc = "handover" => run[r].old # None) /\ Goto(r, pc)
    BY <1>2
  <2> HIDE DEF pc
  <2> DEFINE q == AtLine(r, pc)
  <2>2. q \in Invocation /\ Same(q, r, pc) /\ run' = [run EXCEPT ![r] = q]
    BY <2>1, GotoFacts DEF Lines
  <2> HIDE DEF q
  <2>3. Knows(q, vm, cp, lost)
    BY <1>1, <1>2, <2>1, <2>2, RunKnows, ZenonT(50)
       DEF Same, Knows, Repairing, Replacing, Named, Raised, Giving
  <2>4. Replaces(q, vm, cp, lost)
    BY <1>1, <2>1, <2>2, RunIs DEF Same, Replaces, Named, Raised, Retiring
  <2>5. ~undone => Agrees(q, pointer, vm, lost)
    BY <1>1, <2>1, <2>2, RunIs
       DEF Same, Agrees, Repairing, Replacing, Named, Raised, Giving, Retiring
  <2> QED BY <1>1, <1>2, <2>1, <2>2, <2>3, <2>4, <2>5, GotoHolds DEF PlatformStays, Same
<1>3. ASSUME Goto(r, "unpend"), Moves, Over(run[r].vm, vm', lost'),
             lost \subseteq lost', lost' \subseteq Vms,
             trouble' \in 0..MaxTrouble, latest' \in Ledgers \cup {None}
      PROVE  IInv'
  <2> DEFINE q == AtLine(r, "unpend")
  <2>1. q \in Invocation /\ Same(q, r, "unpend") /\ run' = [run EXCEPT ![r] = q]
    BY <1>3, GotoFacts DEF Lines
  <2> HIDE DEF q
  <2>2. /\ Knows(run[r], vm', cp', lost') /\ Replaces(run[r], vm', cp', lost')
        /\ ~undone => Agrees(run[r], pointer, vm', lost')
    BY <1>3, RunStillIs
  <2>3. Knows(q, vm', cp', lost')
    BY <1>1, <1>3, <2>1, <2>2 DEF Same, Knows, Repairing, Replacing, Named, Raised, Giving
  <2>4. Replaces(q, vm', cp', lost')
    BY <1>1, <2>1, <2>2 DEF Same, Replaces, Named, Raised, Retiring
  <2>5. ~undone => Agrees(q, pointer, vm', lost')
    BY <1>1, <2>1, <2>2 DEF Same, Agrees, Repairing, Replacing, Named, Raised, Giving, Retiring
  <2> QED BY <1>1, <1>3, <2>1, <2>3, <2>4, <2>5, RunStays, RunIs DEF OthersStay, Same
<1>4. CASE /\ ~Live(run[r].vm) /\ Goto(r, "unpend")
           /\ UNCHANGED <<vm, cp, latest, trouble, lost>>
  <2>1. Over(run[r].vm, vm', lost')
    BY <1>4 DEF Over, Live, LiveIn
  <2> QED BY <1>3, <1>4, <2>1, StaysMoves, RunIs
<1>5. CASE TerminateQuietly(run[r].vm) /\ Goto(r, "unpend")
  BY <1>1, <1>3, <1>5, Terminated
<1>6. CASE /\ Fault /\ Killed({run[r].vm}) /\ UNCHANGED <<latest, lost>> /\ Goto(r, "unpend")
  <2>1. Moves /\ Over(run[r].vm, vm', lost')
    BY <1>1, <1>6, KilledMoves DEF Over
  <2>2. trouble' \in 0..MaxTrouble
    BY <1>6, FaultTyped DEF IInv
  <2> QED BY <1>3, <1>6, <2>1, <2>2, RunIs
<1>7. CASE /\ Fault /\ lost' = lost \cup {run[r].vm} /\ UNCHANGED <<vm, cp, latest>>
           /\ Goto(r, "unpend")
  <2>1. trouble' \in 0..MaxTrouble
    BY <1>7, FaultTyped DEF IInv
  <2>2. Over(run[r].vm, vm', lost') /\ lost \subseteq lost' /\ lost' \subseteq Vms
    BY <1>1, <1>7, RunIs DEF Over
  <2> QED BY <1>3, <1>7, <2>1, <2>2, StaysMoves, RunIs
<1> QED BY <1>2, <1>4, <1>5, <1>6, <1>7 DEF Wait

LEMMA PromoteHolds ==
    ASSUME IInv, NEW r \in Runs, Promote(r)
    PROVE  IInv'
<1>1. /\ Alone(r) /\ run[r].pc = "promote" /\ run[r].vm # None /\ run[r].vm \in Vms
      /\ UNCHANGED <<pointer, undone, jobs>> /\ OthersStay
  BY AloneIs, RunIs DEF Promote, At, Knows, Named
<1>2. CASE pointer.on
  <2>1. Goto(r, "flip") /\ UNCHANGED <<vm, cp, latest, trouble, lost>>
    BY <1>2 DEF Promote
  <2> DEFINE q == AtLine(r, "flip")
  <2>2. q \in Invocation /\ Same(q, r, "flip") /\ run' = [run EXCEPT ![r] = q]
    BY <2>1, GotoFacts DEF Lines
  <2> HIDE DEF q
  <2>3. Knows(q, vm, cp, lost)
    BY <1>1, <2>2, RunKnows, ZenonT(50)
       DEF Same, Knows, Repairing, Replacing, Named, Raised, Giving
  <2>4. Replaces(q, vm, cp, lost)
    BY <1>1, <2>2, RunIs DEF Same, Replaces, Named, Raised, Retiring
  <2>5. ASSUME ~undone PROVE Agrees(q, pointer, vm, lost)
    <3>1. Agrees(run[r], pointer, vm, lost) /\ Orderly
      BY <2>5, RunIs DEF IInv
    <3>2. PICK x \in Vms \cup {None} : Leads(x, pointer, op, run, vm, lost)
      BY <3>1 DEF Orderly
    <3>3. Beside(pointer, run) = {run[r].vm}
      BY <1>1, <3>1 DEF Agrees, Beside, Replacing, Named
    <3>4. x # None /\ LiveIn(vm, x) => x = run[r].old
      <4>1. x # None /\ LiveIn(vm, x) => x = pointer.vm
        BY <1>2, <3>2 DEF Leads
      <4>2. pointer.vm \in {None, run[r].base.vm}
        BY <1>1, <3>1 DEF Agrees, Replacing, Named
      <4> QED BY <1>1, <4>1, <4>2, RunIs DEF Knows, Replacing, Named
    <3>5. \A v \in Vms : LiveIn(vm, v) => v \in lost \cup {run[r].vm, run[r].old}
      BY <3>2, <3>3, <3>4, ControlPlaneAssumption DEF Leads
    <3> QED BY <1>1, <2>2, <3>1, <3>5
            DEF Same, Agrees, Repairing, Replacing, Named, Raised, Giving, Retiring
  <2> QED BY <1>1, <2>1, <2>2, <2>3, <2>4, <2>5, GotoHolds DEF PlatformStays, Same
<1>3. CASE ~pointer.on
  <2>1. TerminateQuietly(run[r].vm) /\ run' = [run EXCEPT ![r] = NoRun]
    BY <1>3 DEF Promote, End
  <2>2. NoRun.pc # "record"
    BY DEF NoRun
  <2> QED BY <1>1, <2>1, <2>2, IdleHolds, KillsHolds
<1> QED BY <1>2, <1>3

LEMMA CallHandoverHolds ==
    ASSUME IInv, NEW r \in Runs, CallHandover(r)
    PROVE  IInv'
<1> DEFINE v == run[r].old
           d == HandsOver(cp[v])
           q == [run[r] EXCEPT !.pc = "handed", !.ledger = LedgerOf(v)]
<1>1. /\ Alone(r) /\ run[r].pc = "handover" /\ v \in Vms /\ v # None
  BY AloneIs, RunIs DEF CallHandover, At, Replaces
<1>2. /\ UNCHANGED <<pointer, undone, latest, jobs, trouble, lost>> /\ OthersStay
      /\ vm' = [vm EXCEPT ![v] = "running"] /\ vm[v] \in {"running", "suspended"}
  BY DEF CallHandover, Wakes, ServingState
<1>3. cp' = [cp EXCEPT ![v] = d]
  BY <1>1, ProcessIs DEF CallHandover
<1>4. d \in Process /\ d.gen = cp[v].gen /\ d.phase = "handing-over"
  BY <1>1, ProcessIs, ZenonT(50) DEF Process, HandsOver, LedgerOf
<1> HIDE DEF d
<1>5. Moves
  <2>1. Fits(v, "running", d)
    BY <1>1, <1>2, <1>4, UpFits
  <2> QED BY <1>1, <1>2, <1>3, <2>1, OneMoves
<1>6. run' = [run EXCEPT ![r] = q]
  BY RunIs, Zenon DEF CallHandover
<1>6a. LedgerOf(v) \in Ledgers /\ LedgerOf(v) # None /\ LedgerOf(v).gen = cp[v].gen
  <2>1. LedgerOf(v) \in Ledgers /\ None \notin Ledgers
    BY <1>1, ProcessIs, TypesAre DEF IInv
  <2> QED BY <2>1 DEF LedgerOf, Ledger
<1>7. /\ q.pc = "handed" /\ q.base = run[r].base /\ q.old = v /\ q.after = run[r].after
      /\ q.vm = run[r].vm /\ q.gen = run[r].gen /\ q.ledger = LedgerOf(v)
      /\ q \in Invocation
  BY <1>6a, IsRun, ZenonT(50) DEF Invocation
<1> HIDE DEF q
<1>8. /\ Knows(run[r], vm', cp', lost') /\ Replaces(run[r], vm', cp', lost')
      /\ ~undone => Agrees(run[r], pointer, vm', lost')
  BY <1>2, <1>5, RunStillIs
<1>9. Knows(q, vm', cp', lost')
  BY <1>1, <1>7, <1>8 DEF Knows, Repairing, Replacing, Named, Raised, Giving
<1>10. Replaces(q, vm', cp', lost')
  <2>1. q.ledger.gen = cp'[q.old].gen
    BY <1>1, <1>3, <1>4, <1>6a, <1>7, ProcessIs
  <2> QED BY <1>1, <1>6a, <1>7, <1>8, <2>1 DEF Replaces, Named, Raised, Retiring
<1>11. ~undone => Agrees(q, pointer, vm', lost')
  BY <1>1, <1>7, <1>8 DEF Agrees, Repairing, Replacing, Named, Raised, Giving, Retiring
<1> QED BY <1>1, <1>2, <1>5, <1>6, <1>7, <1>9, <1>10, <1>11, RunStays, RunIs DEF OthersStay

LEMMA AdoptFits ==
    ASSUME IInv, NEW r \in Runs, run[r].pc = "adopt", ServingState(run[r].vm)
    PROVE  /\ run[r].vm \in Vms
           /\ Fits(run[r].vm, "running", Adopts(cp[run[r].vm], run[r].ledger))
<1> DEFINE v == run[r].vm
           l == run[r].ledger
           d == [Granted(Becomes(cp[v], l.work)) EXCEPT !.adopted = TRUE, !.clients = FALSE]
<1>1. v \in Vms /\ l \in Ledgers
  BY RunIs DEF Knows, Named, Replaces, Invocation
<1>2. d \in Process /\ d.gen = cp[v].gen /\ d.phase = "active"
  <2>1. l.work \in SUBSET (1..MaxTrouble) /\ cp[v] \in Process
    BY <1>1, ProcessIs DEF Ledgers
  <2> HIDE DEF v, l
  <2> QED BY <2>1 DEF Process, Granted, Becomes
<1>3. Adopts(cp[v], l) \in {cp[v], d}
  BY DEF Adopts
<1> HIDE DEF d
<1>4. vm[v] \in {"running", "suspended"}
  BY DEF ServingState
<1>5. Fits(v, "running", d)
  BY <1>1, <1>2, <1>4, UpFits
<1>6. Fits(v, "running", cp[v])
  BY <1>1, <1>4, ProcessIs, UpFits, SamePhase
<1> QED BY <1>1, <1>3, <1>5, <1>6

LEMMA CallAdoptHolds ==
    ASSUME IInv, NEW r \in Runs, CallAdopt(r)
    PROVE  IInv'
<1> DEFINE v == run[r].vm
           d == Adopts(cp[v], run[r].ledger)
           q == AtLine(r, "promote")
<1>1. Alone(r) /\ run[r].pc = "adopt" /\ v \in Vms /\ Fits(v, "running", d)
  BY AloneIs, AdoptFits DEF CallAdopt, At, Wakes
<1>2. /\ UNCHANGED <<pointer, undone, latest, jobs, trouble, lost>> /\ OthersStay
      /\ vm' = [vm EXCEPT ![v] = "running"]
  BY DEF CallAdopt, Wakes
<1>3. cp' = [cp EXCEPT ![v] = d]
  BY <1>1, ProcessIs DEF CallAdopt
<1> HIDE DEF d
<1>4. Moves
  BY <1>1, <1>2, <1>3, OneMoves
<1>5. q \in Invocation /\ Same(q, r, "promote") /\ run' = [run EXCEPT ![r] = q]
  BY GotoFacts DEF CallAdopt, Lines
<1> HIDE DEF q
<1>6. /\ Knows(run[r], vm', cp', lost') /\ Replaces(run[r], vm', cp', lost')
      /\ ~undone => Agrees(run[r], pointer, vm', lost')
  BY <1>2, <1>4, RunStillIs
<1>7. Knows(q, vm', cp', lost')
  BY <1>1, <1>5, <1>6 DEF Same, Knows, Repairing, Replacing, Named, Raised, Giving
<1>8. Replaces(q, vm', cp', lost')
  BY <1>1, <1>5, <1>6 DEF Same, Replaces, Named, Raised, Retiring
<1>9. ~undone => Agrees(q, pointer, vm', lost')
  BY <1>1, <1>5, <1>6 DEF Same, Agrees, Repairing, Replacing, Named, Raised, Giving, Retiring
<1> QED BY <1>1, <1>2, <1>4, <1>5, <1>7, <1>8, <1>9, RunStays, RunIs DEF OthersStay, Same

LEMMA AdoptUnansweredHolds ==
    ASSUME IInv, NEW r \in Runs, AdoptUnanswered(r)
    PROVE  IInv'
<1> DEFINE v == run[r].vm
           d == Adopts(cp[v], run[r].ledger)
<1>1. v \in Vms /\ Fits(v, "running", d)
  BY AdoptFits DEF AdoptUnanswered, At, Wakes
<1>2. cp' = [cp EXCEPT ![v] = d] /\ vm' = [vm EXCEPT ![v] = "running"]
  BY <1>1, ProcessIs DEF AdoptUnanswered, Wakes
<1> HIDE DEF d
<1> QED BY <1>1, <1>2, OneHolds, ProcessIs DEF AdoptUnanswered, OthersStay

LEMMA CallDrainHolds ==
    ASSUME IInv, NEW r \in Runs, CallDrain(r)
    PROVE  IInv'
<1> DEFINE v == run[r].old
           q == AtLine(r, "kill")
<1>1. /\ Alone(r) /\ run[r].pc = "drain" /\ v \in Vms /\ v # None
      /\ UNCHANGED <<pointer, undone, latest, jobs, lost>> /\ OthersStay
  BY AloneIs, RunIs DEF CallDrain, At, Replaces
<1>2. Moves /\ trouble' \in 0..MaxTrouble
  <2>1. CASE Wakes(v) /\ cp' = [cp EXCEPT ![v] = Drains(@)] /\ UNCHANGED trouble
    <3> DEFINE d == Drains(cp[v])
    <3>1. cp' = [cp EXCEPT ![v] = d]
      BY <2>1, ProcessIs, <1>1
    <3>2. vm' = [vm EXCEPT ![v] = "running"] /\ vm[v] \in {"running", "suspended"}
      BY <2>1 DEF Wakes, ServingState
    <3>3. d \in Process /\ d.gen = cp[v].gen /\ (d.polling => d.phase # "neutral")
      BY <1>1, ProcessIs, ZenonT(50) DEF Process, Drains, Quiet
    <3> HIDE DEF d
    <3>4. undone \/ cp[v].gen < pointer.gen
      <4> SUFFICES ASSUME ~undone PROVE cp[v].gen < pointer.gen
        OBVIOUS
      <4>1. pointer.retiring = IF run[r].after = "end" THEN None ELSE v
        BY <1>1, RunIs DEF Agrees, Retiring
      <4>2. run[r].after # "end"
        BY <1>1, <3>2, RunIs DEF Replaces, Retiring, LiveIn
      <4> QED BY <1>1, <4>1, <4>2 DEF IInv, Seen
    <3>5. Fits(v, "running", d)
      BY <1>1, <3>2, <3>3, <3>4, UpFits
    <3> QED BY <1>1, <2>1, <3>1, <3>2, <3>5, OneMoves, RunIs
  <2>2. CASE UNCHANGED <<vm, cp, trouble>>
    BY <2>2, StaysMoves, RunIs
  <2>3. CASE Fault /\ UNCHANGED <<vm, cp>>
    BY <2>3, StaysMoves, FaultTyped DEF IInv
  <2> QED BY <2>1, <2>2, <2>3 DEF CallDrain
<1>3. q \in Invocation /\ Same(q, r, "kill") /\ run' = [run EXCEPT ![r] = q]
  BY GotoFacts DEF CallDrain, Lines
<1> HIDE DEF q
<1>4. /\ Knows(run[r], vm', cp', lost') /\ Replaces(run[r], vm', cp', lost')
      /\ ~undone => Agrees(run[r], pointer, vm', lost')
  BY <1>1, <1>2, RunStillIs
<1>5. Knows(q, vm', cp', lost')
  BY <1>1, <1>3, <1>4 DEF Same, Knows, Repairing, Replacing, Named, Raised, Giving
<1>6. Replaces(q, vm', cp', lost')
  BY <1>1, <1>3, <1>4 DEF Same, Replaces, Named, Raised, Retiring
<1>7. ~undone => Agrees(q, pointer, vm', lost')
  BY <1>1, <1>3, <1>4 DEF Same, Agrees, Repairing, Replacing, Named, Raised, Giving, Retiring
<1> QED BY <1>1, <1>2, <1>3, <1>5, <1>6, <1>7, RunStays, RunIs DEF OthersStay, Same

LEMMA KillHolds ==
    ASSUME IInv, NEW r \in Runs, Kill(r)
    PROVE  IInv'
<1> DEFINE v == run[r].old
           q == AtLine(r, "clear")
<1>1. /\ Alone(r) /\ run[r].pc = "kill" /\ v \in Vms
      /\ TerminateQuietly(v) /\ UNCHANGED <<pointer, undone, jobs>> /\ OthersStay
  BY AloneIs, RunIs DEF Kill, At, Replaces
<1>2. CASE run[r].after = "end"
  <2>1. run' = [run EXCEPT ![r] = NoRun] /\ NoRun.pc # "record"
    BY <1>2 DEF Kill, End, NoRun
  <2> QED BY <1>1, <2>1, IdleHolds, KillsHolds
<1>3. CASE run[r].after # "end"
  <2>1. q \in Invocation /\ Same(q, r, "clear") /\ run' = [run EXCEPT ![r] = q]
    BY <1>3, GotoFacts DEF Kill, Lines
  <2> HIDE DEF q
  <2>2. /\ Knows(run[r], vm', cp', lost') /\ Replaces(run[r], vm', cp', lost')
        /\ ~undone => Agrees(run[r], pointer, vm', lost')
        /\ Over(v, vm', lost')
    BY <1>1, Terminated, RunStillIs
  <2>3. Knows(q, vm', cp', lost')
    BY <1>1, <2>1, <2>2 DEF Same, Knows, Repairing, Replacing, Named, Raised, Giving
  <2>4. Replaces(q, vm', cp', lost')
    BY <1>1, <1>3, <2>1, <2>2 DEF Same, Replaces, Named, Raised, Retiring
  <2>5. ~undone => Agrees(q, pointer, vm', lost')
    BY <1>1, <2>1, <2>2
       DEF Same, Agrees, Repairing, Replacing, Named, Raised, Giving, Retiring
  <2> QED BY <1>1, <2>1, <2>3, <2>4, <2>5, KillsHolds DEF Same
<1> QED BY <1>2, <1>3

LEMMA DieHolds ==
    ASSUME IInv, NEW r \in Runs, Die(r)
    PROVE  IInv'
<1>1. /\ Alone(r) /\ Fault /\ End(r) /\ PlatformStays /\ UNCHANGED <<pointer, undone>>
      /\ OthersStay /\ trouble' \in 0..MaxTrouble
  BY AloneIs, FaultTyped DEF Die, IInv
<1>2. CASE run[r].pc # "record"
  BY <1>1, <1>2, EndHolds DEF Die, At
<1>3. CASE run[r].pc = "record"
  <2>1. /\ run' = [run EXCEPT ![r] = NoRun] /\ run[r].vm # None /\ run[r].vm \in Vms
        /\ lost' = lost \cup {run[r].vm} /\ lost \subseteq lost' /\ lost' \subseteq Vms
        /\ NoRun.pc # "record"
    BY <1>1, <1>3, RunIs DEF Die, End, At, Knows, NoRun
  <2>2. /\ Moves /\ Forward(vm, cp, vm', cp') /\ NoBirth(vm, vm')
        /\ \A v \in Vms : Quiet(vm'[v], cp'[v])
    BY <1>1, StaysMoves DEF PlatformStays, Moves
  <2>3. TypeOKcp' /\ rule' \in BOOLEAN /\ rotations' \in 0..MaxRotations /\ undone' \in BOOLEAN
    BY <1>1, <2>2, TypesAre, RunIs
       DEF Moves, States, IInv, TypeOK, TypeOKcp, PlatformStays, OthersStay
  <2>4. pointer \in Record /\ Seen(pointer, vm', cp')
    BY <2>2, TypesAre, SeenStays DEF IInv
  <2>5. ASSUME ~undone'
        PROVE  /\ pointer'.retiring = None \/ pointer'.pending = None
               /\ \A v \in Vms : cp'[v].phase = "drained" => cp'[v].gen < pointer'.gen
               /\ Agrees(NoRun, pointer', vm', lost')
               /\ \E x \in Vms \cup {None} : Leads(x, pointer', op, run', vm', lost')
    <3>1. ~undone /\ Orderly /\ Agrees(run[r], pointer, vm, lost)
      BY <1>1, <2>5, RunIs DEF IInv
    <3>2. PICK x \in Vms \cup {None} : Leads(x, pointer, op, run, vm, lost)
      BY <3>1 DEF Orderly
    <3>3. \A v \in Beside(pointer, run) : Over(v, vm', lost')
      <4>1. pointer.retiring = None /\ pointer.pending = None
        BY <1>3, <3>1 DEF Agrees, Replacing
      <4>2. Beside(pointer, run) \subseteq {run[r].vm}
        BY <1>1, <4>1 DEF Beside, Alone, NoRun
      <4> QED BY <2>1, <4>2 DEF Over
    <3>4. Leads(x, pointer', op, run', vm', lost')
      BY <1>1, <2>1, <2>2, <3>2, <3>3, LeadsStays
    <3> QED BY <1>1, <2>2, <3>1, <3>4, IdleHolds DEF Orderly, Moves
  <2> QED BY <1>1, <2>1, <2>2, <2>3, <2>4, <2>5, RunMoves, IdleHolds DEF OthersStay
<1> QED BY <1>2, <1>3
-----------------------------------------------------------------------------
(* Writes of the pointer. *)

LEMMA WriteIs ==
    ASSUME IInv, NEW s \in Record, NEW p, Write(s, p)
    PROVE  /\ pointer' = p /\ undone' \in BOOLEAN
           /\ ~undone' =>
                /\ ~undone /\ Orderly
                /\ pointer.on = s.on /\ pointer.vm = s.vm /\ pointer.gen = s.gen
                /\ pointer.retiring = s.retiring
                /\ pointer.pending = None <=> s.pending = None
                /\ pointer.pending # None => pointer.pending.vm = s.pending.vm
<1>1. pointer \in Record /\ undone \in BOOLEAN
  BY TypesAre DEF IInv
<1>2. pointer' = p /\ undone' = (undone \/ Timeless(pointer) # Timeless(s))
  BY DEF Write
<1>3. undone' \in BOOLEAN /\ (~undone' => ~undone /\ Timeless(pointer) = Timeless(s))
  BY <1>1, <1>2
<1> QED BY <1>1, <1>2, <1>3, Alike DEF IInv

\* A run writes the pointer, from what it read.
LEMMA RunWrites ==
    ASSUME IInv, NEW r \in Runs, Alone(r),
           NEW q \in Invocation, run' = [run EXCEPT ![r] = q],
           PlatformStays, UNCHANGED <<trouble, lost>>, OthersStay,
           pointer' \in Record, undone' \in BOOLEAN, Seen(pointer', vm, cp),
           Knows(q, vm, cp, lost), Replaces(q, vm, cp, lost),
           ~undone' =>
              /\ ~undone /\ Orderly
              /\ pointer'.retiring = None \/ pointer'.pending = None
              /\ pointer.gen <= pointer'.gen
              /\ Agrees(q, pointer', vm, lost)
              /\ \E x \in Vms \cup {None} : Leads(x, pointer', op, run', vm, lost)
    PROVE  IInv'
<1>1. /\ Moves /\ Forward(vm, cp, vm', cp') /\ vm' = vm /\ cp' = cp /\ lost' = lost
      /\ \A v \in Vms : Quiet(vm'[v], cp'[v])
  BY StaysMoves DEF PlatformStays, Moves
<1>2. TypeOKcp' /\ rule' \in BOOLEAN /\ rotations' \in 0..MaxRotations /\ lost' \subseteq Vms
  BY <1>1, RunIs DEF IInv, TypeOK, TypeOKcp, PlatformStays, OthersStay
<1>3. ~undone' => \A v \in Vms : cp'[v].phase = "drained" => cp'[v].gen < pointer'.gen
  <2>1. pointer.gen \in Nat /\ pointer'.gen \in Nat /\ \A v \in Vms : cp[v].gen \in Nat
    BY TypesAre DEF IInv, Record, Process
  <2> QED BY <1>1, <2>1 DEF Orderly
<1> QED BY <1>1, <1>2, <1>3, RunMoves DEF OthersStay

LEMMA RecordPendingHolds ==
    ASSUME IInv, NEW r \in Runs, RecordPending(r)
    PROVE  IInv'
<1> DEFINE b == run[r].base
           v == run[r].vm
           p == Recorded(b, v, run[r].gen)
           q == [run[r] EXCEPT !.pc = "wait", !.base = p]
<1>1. /\ Alone(r) /\ run[r].pc = "record" /\ PlatformStays /\ UNCHANGED <<trouble, lost>>
      /\ OthersStay /\ Write(b, p)
  BY AloneIs DEF RecordPending, At
<1>2. /\ b \in Record /\ Seen(b, vm, cp) /\ v # None /\ v \in Vms /\ run[r].gen \in Nat
      /\ vm[v] # "unused" /\ cp[v].gen = run[r].gen
  BY <1>1, RunIs DEF Knows, Replacing, Named, Invocation
<1>3. run' = [run EXCEPT ![r] = q]
  BY RunIs, Zenon DEF RecordPending
<1>4. /\ p \in Record /\ p.on = b.on /\ p.vm = b.vm /\ p.gen = b.gen /\ p.retiring = b.retiring
      /\ p.pending.vm = v /\ p.pending.gen = run[r].gen /\ p.pending.young
      /\ p.pending \in Launched
  <2>1. Pending(v, run[r].gen) \in Launched
    BY <1>2 DEF Pending, Launched
  <2> QED BY <1>2, <2>1 DEF Recorded, Record, Pending
<1>5. p # None /\ p.pending # None /\ p.gen \in Nat
  BY <1>4, RotationAssumption DEF Record
<1> HIDE DEF p
<1>6. /\ q.pc = "wait" /\ q.base = p /\ q.old = run[r].old /\ q.after = run[r].after
      /\ q.vm = v /\ q.gen = run[r].gen /\ q.ledger = run[r].ledger
      /\ q \in Invocation
  <2>1. p \in Record /\ run[r] \in Invocation
    BY <1>4, RunIs
  <2> QED BY <2>1 DEF Invocation
<1> HIDE DEF q
<1>7. pointer' = p /\ undone' \in BOOLEAN
  BY <1>1, <1>2, WriteIs
<1>8. Seen(p, vm, cp)
  BY <1>2, <1>4 DEF Seen
<1>9. Knows(q, vm, cp, lost)
  BY <1>1, <1>2, <1>4, <1>5, <1>6, <1>8, RunKnows, ZenonT(50)
     DEF Knows, Repairing, Replacing, Named, Raised, Giving
<1>10. Replaces(q, vm, cp, lost)
  BY <1>1, <1>6, RunIs DEF Replaces, Named, Raised, Retiring
<1>11. ASSUME ~undone'
       PROVE  /\ ~undone /\ Orderly
              /\ p.retiring = None \/ p.pending = None
              /\ pointer.gen <= p.gen
              /\ Agrees(q, p, vm, lost)
              /\ \E x \in Vms \cup {None} : Leads(x, p, op, run', vm, lost)
  <2>1. /\ ~undone /\ Orderly /\ Agrees(run[r], pointer, vm, lost)
        /\ pointer.on = b.on /\ pointer.vm = b.vm /\ pointer.gen = b.gen
        /\ pointer.retiring = b.retiring
    BY <1>1, <1>2, <1>11, WriteIs, RunIs
  <2>2. pointer.retiring = None /\ pointer.pending = None
    BY <1>1, <2>1 DEF Agrees, Replacing
  <2>3. Agrees(q, p, vm, lost)
    BY <1>4, <1>5, <1>6, <2>1, <2>2
       DEF Agrees, Repairing, Replacing, Named, Raised, Giving, Retiring
  <2>4. PICK x \in Vms \cup {None} : Leads(x, pointer, op, run, vm, lost)
    BY <2>1 DEF Orderly
  <2>5. Beside(pointer, run) \subseteq {v} /\ Beside(p, run') = {v}
    <3>1. Beside(pointer, run) \subseteq {v}
      BY <1>1, <2>2 DEF Beside, Alone, NoRun
    <3> QED BY <1>4, <1>5, <2>1, <2>2, <3>1 DEF Beside
  <2>6. NoBirth(vm, vm)
    BY DEF NoBirth
  <2>7. Leads(x, p, op, run', vm, lost)
    BY <1>4, <2>1, <2>4, <2>5, <2>6, LeadsStays
  <2> QED BY <1>4, <1>5, <2>1, <2>2, <2>3, <2>7
<1> QED BY <1>1, <1>3, <1>4, <1>6, <1>7, <1>8, <1>9, <1>10, <1>11, RunWrites

LEMMA ForgetHolds ==
    ASSUME IInv, NEW r \in Runs, Forget(r)
    PROVE  IInv'
<1> DEFINE b == run[r].base
           p == [b EXCEPT !.pending = None]
           q == AtLine(r, "choose")
<1>1. /\ Alone(r) /\ run[r].pc = "forget" /\ PlatformStays /\ UNCHANGED <<trouble, lost>>
      /\ OthersStay /\ Write(b, p)
  BY AloneIs DEF Forget, At
<1>2. b \in Record /\ Seen(b, vm, cp) /\ b.pending # None /\ Over(b.pending.vm, vm, lost)
  BY <1>1, RunIs DEF Knows, Repairing
<1>3. q \in Invocation /\ Same(q, r, "choose") /\ run' = [run EXCEPT ![r] = q]
  BY GotoFacts DEF Forget, Lines
<1>4. /\ p \in Record /\ p.on = b.on /\ p.vm = b.vm /\ p.gen = b.gen /\ p.retiring = b.retiring
      /\ p.pending = None /\ p.gen \in Nat
  BY <1>2 DEF Record
<1> HIDE DEF p, q
<1>5. pointer' = p /\ undone' \in BOOLEAN
  BY <1>1, <1>2, WriteIs
<1>6. Seen(p, vm, cp)
  BY <1>2, <1>4 DEF Seen
<1>7. Knows(q, vm, cp, lost)
  BY <1>1, <1>2, <1>3, RunIs DEF Same, Knows, Repairing, Replacing, Named, Raised, Giving
<1>8. Replaces(q, vm, cp, lost)
  BY <1>1, <1>3, RunIs DEF Same, Replaces, Named, Raised, Retiring
<1>9. ASSUME ~undone'
      PROVE  /\ ~undone /\ Orderly
             /\ p.retiring = None \/ p.pending = None
             /\ pointer.gen <= p.gen
             /\ Agrees(q, p, vm, lost)
             /\ \E x \in Vms \cup {None} : Leads(x, p, op, run', vm, lost)
  <2>1. /\ ~undone /\ Orderly /\ Agrees(run[r], pointer, vm, lost)
        /\ pointer.on = b.on /\ pointer.vm = b.vm /\ pointer.gen = b.gen
        /\ pointer.retiring = b.retiring
        /\ pointer.pending # None /\ pointer.pending.vm = b.pending.vm
    BY <1>1, <1>2, <1>9, WriteIs, RunIs
  <2>2. pointer.retiring = None
    BY <1>1, <2>1 DEF Agrees, Repairing
  <2>3. Agrees(q, p, vm, lost)
    BY <1>2, <1>3, <1>4, <2>1, <2>2
       DEF Same, Agrees, Repairing, Replacing, Named, Raised, Giving, Retiring
  <2>4. PICK x \in Vms \cup {None} : Leads(x, pointer, op, run, vm, lost)
    BY <2>1 DEF Orderly
  <2>5. Beside(pointer, run) = {b.pending.vm} /\ NoBirth(vm, vm)
    BY <2>1, <2>2 DEF Beside, NoBirth
  <2>6. Leads(x, p, op, run', vm, lost)
    BY <1>2, <1>4, <2>1, <2>4, <2>5, LeadsStays
  <2> QED BY <1>4, <2>1, <2>3, <2>6
<1> QED BY <1>1, <1>3, <1>4, <1>5, <1>6, <1>7, <1>8, <1>9, RunWrites

LEMMA UnpendWriteHolds ==
    ASSUME IInv, NEW r \in Runs, UnpendWrite(r)
    PROVE  IInv'
<1> DEFINE b == run[r].base
           p == [b EXCEPT !.pending = None]
<1>1. /\ Alone(r) /\ run[r].pc = "unpend write" /\ PlatformStays
      /\ UNCHANGED <<trouble, lost>> /\ OthersStay /\ Write(b, p)
  BY AloneIs DEF UnpendWrite, At
<1>2. b \in Record /\ Seen(b, vm, cp)
  BY <1>1, RunIs DEF Knows
<1>3. run' = [run EXCEPT ![r] = NoRun] /\ NoRun \in Invocation
  BY IdleHolds DEF UnpendWrite, End
<1>4. /\ p \in Record /\ p.on = b.on /\ p.vm = b.vm /\ p.gen = b.gen /\ p.retiring = b.retiring
      /\ p.pending = None /\ p.gen \in Nat
  BY <1>2 DEF Record
<1> HIDE DEF p
<1>5. pointer' = p /\ undone' \in BOOLEAN
  BY <1>1, <1>2, WriteIs
<1>6. Seen(p, vm, cp)
  BY <1>2, <1>4 DEF Seen
<1>7. ASSUME ~undone'
      PROVE  /\ ~undone /\ Orderly
             /\ p.retiring = None \/ p.pending = None
             /\ pointer.gen <= p.gen
             /\ \E x \in Vms \cup {None} : Leads(x, p, op, run', vm, lost)
  <2>1. /\ ~undone /\ Orderly /\ Agrees(run[r], pointer, vm, lost)
        /\ pointer.on = b.on /\ pointer.vm = b.vm /\ pointer.gen = b.gen
    BY <1>1, <1>2, <1>7, WriteIs, RunIs
  <2>2. /\ pointer.retiring = None
        /\ pointer.pending # None => /\ pointer.pending.vm = run[r].vm
                                     /\ pointer.pending.vm # None
    <3>1. pointer.pending # None => pointer.pending.vm # None
      BY TypesAre, ControlPlaneAssumption DEF IInv, Record, Launched
    <3> QED BY <1>1, <2>1, <3>1 DEF Agrees, Giving
  <2>3. \A v \in Beside(pointer, run) : Over(v, vm, lost)
    <3>1. CASE pointer.pending # None
      BY <1>1, <2>2, <3>1, RunIs, ZenonT(50) DEF Beside, Knows, Giving
    <3>2. CASE pointer.pending = None
      <4>1. \A s \in Runs : run[s].pc # "record"
        <5>1. NoRun.pc = "idle"
          BY DEF NoRun
        <5> QED BY <1>1, <5>1 DEF Alone
      <4>2. Beside(pointer, run) = {}
        BY <2>2, <3>2, <4>1 DEF Beside
      <4> QED BY <4>2
    <3> QED BY <3>1, <3>2
  <2>4. PICK x \in Vms \cup {None} : Leads(x, pointer, op, run, vm, lost)
    BY <2>1 DEF Orderly
  <2>5. NoBirth(vm, vm)
    BY DEF NoBirth
  <2>6. Leads(x, p, op, run', vm, lost)
    BY <1>4, <2>1, <2>3, <2>4, <2>5, LeadsStays
  <2> QED BY <1>4, <2>1, <2>6
<1> QED BY <1>1, <1>3, <1>4, <1>5, <1>6, <1>7, RunWrites, IdleHolds

LEMMA ClearWriteHolds ==
    ASSUME IInv, NEW r \in Runs, ClearWrite(r)
    PROVE  IInv'
<1> DEFINE b == run[r].base
           p == [b EXCEPT !.retiring = None]
           q == IF run[r].after = "reread" THEN AtLine(r, "reread") ELSE NoRun
<1>1. /\ Alone(r) /\ run[r].pc = "clear write" /\ PlatformStays
      /\ UNCHANGED <<trouble, lost>> /\ OthersStay /\ Write(b, p)
      /\ run[r].after # "end" /\ run[r].old # None /\ Over(run[r].old, vm, lost)
  BY AloneIs, RunIs DEF ClearWrite, At, Replaces, Retiring
<1>2. b \in Record /\ Seen(b, vm, cp)
  BY <1>1, RunIs DEF Knows
<1>3. q \in Invocation /\ run' = [run EXCEPT ![r] = q]
  BY GotoFacts, IdleHolds DEF ClearWrite, Lines, End
<1>3a. run[r].after = "reread" => Same(q, r, "reread")
  BY GotoFacts DEF ClearWrite, Lines
<1>3b. run[r].after # "reread" => q = NoRun
  OBVIOUS
<1>4. /\ p \in Record /\ p.on = b.on /\ p.vm = b.vm /\ p.gen = b.gen /\ p.pending = b.pending
      /\ p.retiring = None /\ p.gen \in Nat
  BY <1>2 DEF Record
<1> HIDE DEF p, q
<1>5. pointer' = p /\ undone' \in BOOLEAN
  BY <1>1, <1>2, WriteIs
<1>6. Seen(p, vm, cp)
  BY <1>2, <1>4 DEF Seen
<1>7. Knows(q, vm, cp, lost)
  <2>1. CASE run[r].after = "reread"
    BY <1>1, <1>2, <1>3a, <2>1, RunIs
       DEF Same, Knows, Repairing, Replacing, Named, Raised, Giving
  <2> QED BY <1>3b, <2>1, IdleHolds
<1>8. Replaces(q, vm, cp, lost)
  <2>1. CASE run[r].after = "reread"
    BY <1>1, <1>3a, <2>1, RunIs DEF Same, Replaces, Named, Raised, Retiring
  <2> QED BY <1>3b, <2>1, IdleHolds
<1>9. ASSUME ~undone'
      PROVE  /\ ~undone /\ Orderly
             /\ p.retiring = None \/ p.pending = None
             /\ pointer.gen <= p.gen
             /\ Agrees(q, p, vm, lost)
             /\ \E x \in Vms \cup {None} : Leads(x, p, op, run', vm, lost)
  <2>1. /\ ~undone /\ Orderly /\ Agrees(run[r], pointer, vm, lost)
        /\ pointer.on = b.on /\ pointer.vm = b.vm /\ pointer.gen = b.gen
        /\ pointer.pending = None <=> b.pending = None
    BY <1>1, <1>2, <1>9, WriteIs, RunIs
  <2>2. pointer.retiring = run[r].old /\ pointer.pending = None /\ p.pending = None
    BY <1>1, <1>4, <2>1 DEF Agrees, Retiring, Orderly
  <2>3. Agrees(q, p, vm, lost)
    <3>1. CASE run[r].after = "reread"
      BY <1>1, <1>3a, <1>4, <2>1, <2>2, <3>1
         DEF Same, Agrees, Repairing, Replacing, Named, Raised, Giving, Retiring
    <3> QED BY <1>3b, <3>1, IdleHolds
  <2>4. PICK x \in Vms \cup {None} : Leads(x, pointer, op, run, vm, lost)
    BY <2>1 DEF Orderly
  <2>5. \A v \in Beside(pointer, run) : Over(v, vm, lost)
    BY <1>1, <2>2 DEF Beside
  <2>6. NoBirth(vm, vm)
    BY DEF NoBirth
  <2>7. Leads(x, p, op, run', vm, lost)
    BY <1>4, <2>1, <2>4, <2>5, <2>6, LeadsStays
  <2> QED BY <1>4, <2>1, <2>2, <2>3, <2>7
<1> QED BY <1>1, <1>3, <1>4, <1>5, <1>6, <1>7, <1>8, <1>9, RunWrites

LEMMA FlipHolds ==
    ASSUME IInv, NEW r \in Runs, Flip(r)
    PROVE  IInv'
<1> DEFINE b == run[r].base
           v == run[r].vm
           o == run[r].old
           ret == IF run[r].after = "repaired" THEN None ELSE o
           p == Flipped(b, v, run[r].gen, ret)
           then == IF run[r].after = "repaired" THEN "end" ELSE "clear"
           q == IF o # None THEN [run[r] EXCEPT !.pc = "drain", !.after = then] ELSE NoRun
<1>1. /\ Alone(r) /\ run[r].pc = "flip" /\ PlatformStays /\ UNCHANGED <<trouble, lost>>
      /\ OthersStay /\ Write(b, p)
  BY AloneIs DEF Flip, At
<1>2. /\ b \in Record /\ Seen(b, vm, cp) /\ v # None /\ v \in Vms /\ run[r].gen \in Nat
      /\ vm[v] \notin {"unused", "pending"} /\ cp[v].gen = run[r].gen
      /\ o \in {None, b.vm} /\ b.gen < run[r].gen /\ b.gen \in Nat /\ b # None
  <2>1. /\ b \in Record /\ b # None /\ Seen(b, vm, cp) /\ v # None /\ v \in Vms
        /\ run[r].gen \in Nat
        /\ vm[v] \notin {"unused", "pending"} /\ cp[v].gen = run[r].gen
        /\ o \in {None, b.vm} /\ b.gen < run[r].gen
    BY <1>1, RunIs DEF Knows, Replacing, Raised, Named, Invocation
  <2> QED BY <2>1 DEF Record
<1>2a. o # None => /\ o \in Vms /\ cp[o].gen = b.gen /\ vm[o] # "unused" /\ o # v
  BY <1>2, RunIs DEF Seen
<1>3. run' = [run EXCEPT ![r] = q]
  <2>1. CASE o # None
    <3>1. run' = [run EXCEPT ![r].pc = "drain",
                    ![r].after = IF @ = "repaired" THEN "end" ELSE "clear"]
      BY <1>2a, <2>1 DEF Flip
    <3> QED BY <2>1, <3>1, RunIs, Zenon
  <2>2. CASE o = None
    BY <2>2 DEF Flip, End
  <2> QED BY <2>1, <2>2
<1>3a. then \in {"end", "clear"} /\ (then = "end" <=> run[r].after = "repaired")
  OBVIOUS
<1> HIDE DEF then
<1>3b. o # None => /\ q.pc = "drain" /\ q.after = then /\ q.base = b /\ q.old = o /\ q.vm = v
                   /\ q.gen = run[r].gen /\ q.ledger = run[r].ledger /\ q \in Invocation
  BY <1>3a, IsRun, ZenonT(50) DEF Invocation
<1>3c. o = None => q = NoRun
  OBVIOUS
<1>3d. q \in Invocation
  BY <1>3b, <1>3c, IdleHolds
<1>3e. ret \in Vms \cup {None} /\ ret \in {None, o} /\ (ret = None <=> o = None \/ then = "end")
  BY <1>2a, <1>3a
<1> HIDE DEF q, ret
<1>4. /\ p \in Record /\ p.on /\ p.vm = v /\ p.gen = run[r].gen /\ p.retiring = ret
      /\ p.pending = None
  BY <1>2, <1>3e DEF Flipped, Record
<1> HIDE DEF p
<1>5. pointer' = p /\ undone' \in BOOLEAN
  BY <1>1, <1>2, WriteIs
<1>6. Seen(p, vm, cp)
  BY <1>2, <1>2a, <1>3e, <1>4 DEF Seen
<1>7. Knows(q, vm, cp, lost)
  <2>1. CASE o # None
    BY <1>1, <1>2, <1>2a, <1>3a, <1>3b, <2>1
       DEF Knows, Repairing, Replacing, Named, Raised, Giving
  <2> QED BY <1>3c, <2>1, IdleHolds
<1>8. Replaces(q, vm, cp, lost)
  <2>1. CASE o # None
    BY <1>1, <1>3a, <1>3b, <2>1, RunIs DEF Replaces, Named, Raised, Retiring
  <2> QED BY <1>3c, <2>1, IdleHolds
<1>9. ASSUME ~undone'
      PROVE  /\ ~undone /\ Orderly
             /\ p.retiring = None \/ p.pending = None
             /\ pointer.gen <= p.gen
             /\ Agrees(q, p, vm, lost)
             /\ \E x \in Vms \cup {None} : Leads(x, p, op, run', vm, lost)
  <2>1. /\ ~undone /\ Orderly /\ Agrees(run[r], pointer, vm, lost) /\ pointer.gen = b.gen
    BY <1>1, <1>2, <1>9, WriteIs, RunIs
  <2>3. Agrees(q, p, vm, lost)
    <3>1. CASE o # None
      BY <1>3a, <1>3b, <1>3e, <1>4, <3>1
         DEF Agrees, Repairing, Replacing, Named, Raised, Giving, Retiring
    <3> QED BY <1>3c, <3>1, IdleHolds
  <2>4. \A w \in Vms : LiveIn(vm, w) => w \in lost \cup {v, o}
    BY <1>1, <2>1 DEF Agrees
  <2>5. ASSUME NEW w \in Vms, LiveIn(vm, w) PROVE w \in lost \cup {v} \cup Beside(p, run')
    <3>1. CASE w = o
      <4>1. o # None /\ then # "end"
        BY <1>3a, <2>5, <3>1, ControlPlaneAssumption, <1>1, RunIs DEF Replaces
      <4> QED BY <1>3e, <1>4, <3>1, <4>1 DEF Beside
    <3> QED BY <2>4, <2>5, <3>1
  <2>6. Leads(v, p, op, run', vm, lost)
    BY <1>4, <2>5 DEF Leads
  <2> QED BY <1>2, <1>4, <2>1, <2>3, <2>6
<1> QED BY <1>1, <1>3, <1>3d, <1>4, <1>5, <1>6, <1>7, <1>8, <1>9, RunWrites

\* The platform hands out the ids in their order.
LEMMA NextIs ==
    ASSUME Unused # {}
    PROVE  NextVm \in Vms /\ vm[NextVm] = "unused"
<1>1. Cardinality(Vms) \in Nat
  BY ControlPlaneAssumption, FS_CardinalityType
<1>2. Vms \subseteq Nat
  BY <1>1, ControlPlaneAssumption
<1>3. Unused \in SUBSET Nat
  BY <1>2 DEF Unused
<1>4. \E v \in Unused : \A w \in Unused : v <= w
  BY <1>3, Least
<1>5. NextVm \in Unused
  BY <1>4 DEF NextVm
<1> QED BY <1>5 DEF Unused

\* A launch is recorded before anything else, whether the platform named a MicroVM of
\* an earlier try (n = vm, d = cp) or started one.
LEMMA LaunchHolds ==
    ASSUME IInv, NEW r \in Runs, Launch(r)
    PROVE  IInv'
<1> DEFINE gen == run[r].gen
           alive == {v \in Replayed(gen) : Live(v)}
<1>1. /\ Alone(r) /\ run[r].pc = "launch" /\ run[r].vm = None /\ gen \in Nat
      /\ UNCHANGED <<pointer, undone, latest, jobs, lost>> /\ OthersStay
  BY AloneIs, RunIs DEF Launch, At, Knows, Invocation
<1>2. ASSUME NEW v \in Vms, run' = [run EXCEPT ![r].pc = "record", ![r].vm = v],
             UNCHANGED trouble,
             vm' \in [Vms -> States], cp' \in [Vms -> Process],
             Forward(vm, cp, vm', cp'), \A w \in Vms : Quiet(vm'[w], cp'[w]),
             vm'[v] # "unused", cp'[v].gen = gen,
             \A w \in Vms \ {v} : LiveIn(vm', w) => LiveIn(vm, w),
             \A w \in Vms : cp'[w].phase = "drained" =>
                               cp[w].phase = "drained" /\ cp'[w].gen = cp[w].gen
      PROVE  IInv'
  <2> DEFINE q == [run[r] EXCEPT !.pc = "record", !.vm = v]
  <2>1. run' = [run EXCEPT ![r] = q]
    BY <1>2, RunIs, Zenon
  <2>2. /\ q.pc = "record" /\ q.base = run[r].base /\ q.old = run[r].old
        /\ q.after = run[r].after /\ q.vm = v /\ q.gen = gen /\ q.ledger = run[r].ledger
        /\ q \in Invocation
    <3>1. run[r] \in Invocation /\ v \in Vms
      BY RunIs
    <3> QED BY <3>1 DEF Invocation
  <2> HIDE DEF q
  <2>3. Knows(run[r], vm', cp', lost') /\ Replaces(run[r], vm', cp', lost') /\ lost' = lost
    BY <1>1, <1>2, RunIs, KnowsStays, ReplacesStays
  <2>4. Knows(q, vm', cp', lost')
    <3>1. v # None
      BY ControlPlaneAssumption
    <3>2. run[r].after # "reread"
      BY <1>1, <2>3 DEF Replaces, Retiring
    <3> QED BY <1>1, <1>2, <2>2, <2>3, <3>1, <3>2
            DEF Knows, Repairing, Replacing, Named, Raised, Giving
  <2>5. Replaces(q, vm', cp', lost')
    BY <1>1, <2>2, <2>3 DEF Replaces, Named, Raised, Retiring
  <2>6. TypeOKcp' /\ rule' \in BOOLEAN /\ rotations' \in 0..MaxRotations /\ undone' \in BOOLEAN
        /\ lost' \subseteq Vms
    BY <1>1, <1>2, RunIs, TypesAre DEF States, IInv, TypeOK, TypeOKcp, OthersStay
  <2>7. pointer' \in Record /\ Seen(pointer', vm', cp') /\ pointer' = pointer
    BY <1>1, <1>2, TypesAre, SeenStays DEF IInv
  <2>8. ASSUME ~undone'
        PROVE  /\ pointer'.retiring = None \/ pointer'.pending = None
               /\ \A w \in Vms : cp'[w].phase = "drained" => cp'[w].gen < pointer'.gen
               /\ Agrees(q, pointer', vm', lost')
               /\ \E x \in Vms \cup {None} : Leads(x, pointer', op, run', vm', lost')
    <3>1. ~undone /\ Orderly /\ Agrees(run[r], pointer, vm, lost)
      BY <1>1, <2>8, RunIs DEF IInv
    <3>2. pointer.retiring = None /\ pointer.pending = None
      BY <1>1, <3>1 DEF Agrees, Replacing
    <3>3. Agrees(q, pointer', vm', lost')
      BY <1>1, <2>2, <2>7, <3>1
         DEF Agrees, Repairing, Replacing, Named, Raised, Giving, Retiring
    <3>4. PICK x \in Vms \cup {None} : Leads(x, pointer, op, run, vm, lost)
      BY <3>1 DEF Orderly
    <3>5. Beside(pointer, run) = {}
      <4>1. NoRun.pc = "idle"
        BY DEF NoRun
      <4>2. \A s \in Runs : run[s].pc # "record"
        BY <1>1, <4>1 DEF Alone
      <4> QED BY <3>2, <4>2 DEF Beside
    <3>6. v \in Beside(pointer, run')
      <4>1. run'[r].pc = "record" /\ run'[r].vm = v
        BY <2>1, <2>2, RunIs
      <4> QED BY <3>2, <4>1 DEF Beside
    <3>7. CASE x = v /\ pointer.vm = None
      <4>1. Leads(None, pointer, op, run', vm', lost)
        BY <1>2, <3>4, <3>5, <3>6, <3>7 DEF Leads
      <4> QED BY <1>1, <2>7, <2>3, <3>1, <3>3, <4>1, <1>2 DEF Orderly
    <3>8. CASE ~(x = v /\ pointer.vm = None)
      <4>1. Leads(x, pointer, op, run', vm', lost)
        BY <1>2, <3>4, <3>5, <3>6, <3>8 DEF Leads
      <4> QED BY <1>1, <2>7, <2>3, <3>1, <3>3, <4>1, <1>2 DEF Orderly
    <3> QED BY <3>7, <3>8
  <2> QED BY <1>1, <1>2, <2>1, <2>2, <2>3, <2>4, <2>5, <2>6, <2>7, <2>8, RunMoves
          DEF OthersStay
<1>3. CASE /\ alive # {} /\ UNCHANGED <<vm, cp, trouble>>
           /\ \E v \in alive : run' = [run EXCEPT ![r].pc = "record", ![r].vm = v]
  <2>1. PICK v \in alive : run' = [run EXCEPT ![r].pc = "record", ![r].vm = v]
    BY <1>3
  <2>2. v \in Vms /\ vm[v] # "unused" /\ cp[v].gen = gen
    BY DEF Replayed, Live
  <2>3. /\ Moves /\ Forward(vm, cp, vm', cp')
        /\ vm' \in [Vms -> States] /\ cp' \in [Vms -> Process]
        /\ \A w \in Vms : Quiet(vm'[w], cp'[w])
    BY <1>3, StaysMoves DEF Moves
  <2> QED BY <1>2, <1>3, <2>1, <2>2, <2>3
<1>4. CASE /\ Unused # {} /\ UNCHANGED trouble
           /\ vm' = [vm EXCEPT ![NextVm] = "pending"]
           /\ cp' = [cp EXCEPT ![NextVm].gen = gen, ![NextVm].token = TRUE]
           /\ run' = [run EXCEPT ![r].pc = "record", ![r].vm = NextVm]
  <2> DEFINE v == NextVm
             d == [cp[v] EXCEPT !.gen = gen, !.token = TRUE]
  <2>1. v \in Vms /\ vm[v] = "unused"
    BY <1>4, NextIs
  <2> HIDE DEF v
  <2>2. vm' = [vm EXCEPT ![v] = "pending"] /\ run' = [run EXCEPT ![r].pc = "record", ![r].vm = v]
    BY <1>4 DEF v
  <2>3. cp' = [cp EXCEPT ![v] = d]
    <3>1. cp' = [cp EXCEPT ![v].gen = gen, ![v].token = TRUE]
      BY <1>4 DEF v
    <3> QED BY <2>1, <3>1, ProcessIs, Zenon
  <2>4. /\ d \in Process /\ d.gen = gen /\ d.phase = cp[v].phase /\ d.polling = cp[v].polling
        /\ d.phase = "neutral" /\ ~d.polling
    <3>1. cp[v] \in Process /\ cp[v].phase = "neutral" /\ ~cp[v].polling
      BY <2>1, ProcessIs DEF Quiet
    <3> QED BY <1>1, <3>1 DEF Process
  <2> HIDE DEF d
  <2>5. vm' \in [Vms -> States] /\ cp' \in [Vms -> Process]
    BY <2>1, <2>2, <2>3, <2>4, ProcessIs DEF States
  <2>6. Forward(vm, cp, vm', cp')
    BY <2>1, <2>2, <2>3, ProcessIs DEF Forward
  <2>7. \A w \in Vms : Quiet(vm'[w], cp'[w])
    BY <2>1, <2>2, <2>3, <2>4, ProcessIs DEF Quiet
  <2>8. /\ vm'[v] # "unused" /\ cp'[v].gen = gen
        /\ \A w \in Vms \ {v} : LiveIn(vm', w) => LiveIn(vm, w)
        /\ \A w \in Vms : cp'[w].phase = "drained" =>
                               cp[w].phase = "drained" /\ cp'[w].gen = cp[w].gen
    BY <2>1, <2>2, <2>3, <2>4, ProcessIs DEF LiveIn
  <2> QED BY <1>2, <1>4, <2>1, <2>2, <2>5, <2>6, <2>7, <2>8
<1>5. CASE Goto(r, "unpend") /\ UNCHANGED <<vm, cp, trouble>>
  <2> DEFINE q == AtLine(r, "unpend")
  <2>1. q \in Invocation /\ Same(q, r, "unpend") /\ run' = [run EXCEPT ![r] = q]
    BY <1>5, GotoFacts DEF Lines
  <2> HIDE DEF q
  <2>2. Knows(q, vm, cp, lost)
    BY <1>1, <2>1, RunIs DEF Same, Knows, Repairing, Replacing, Named, Raised, Giving
  <2>3. Replaces(q, vm, cp, lost)
    BY <1>1, <2>1, RunIs DEF Same, Replaces, Named, Raised, Retiring
  <2>4. ~undone => Agrees(q, pointer, vm, lost)
    BY <1>1, <2>1, RunIs
       DEF Same, Agrees, Repairing, Replacing, Named, Raised, Giving, Retiring
  <2> QED BY <1>1, <1>5, <2>1, <2>2, <2>3, <2>4, GotoHolds DEF PlatformStays, Same
<1>6. CASE Fault /\ End(r) /\ UNCHANGED <<vm, cp>>
  BY <1>1, <1>6, EndHolds DEF PlatformStays
<1> QED BY <1>3, <1>4, <1>5, <1>6 DEF Launch
-----------------------------------------------------------------------------
(* The operator's scripts, and time. *)

LEMMA AgreesAlike ==
    ASSUME NEW q, NEW p, NEW t, NEW m, NEW l, Agrees(q, p, m, l),
           t.retiring = p.retiring, t.gen = p.gen, t.vm \in {None, p.vm},
           t.pending = None <=> p.pending = None,
           p.pending # None => t.pending.vm = p.pending.vm
    PROVE  Agrees(q, t, m, l)
BY DEF Agrees

LEMMA BesideAlike ==
    ASSUME NEW p, NEW t, NEW rs,
           t.retiring = p.retiring, t.pending = None <=> p.pending = None,
           p.pending # None => t.pending.vm = p.pending.vm
    PROVE  Beside(t, rs) = Beside(p, rs)
BY DEF Beside

\* The pointer or a script changes, and the runs stand still.
LEMMA OperatorHolds ==
    ASSUME IInv, Moves, TypeOKcp', UNCHANGED <<run, lost>>,
           rule' \in BOOLEAN, rotations' \in 0..MaxRotations, op' \in Script,
           pointer' \in Record, undone' \in BOOLEAN, Seen(pointer', vm', cp'),
           op'.pc \in {"up", "down"} => op'.base # None /\ Seen(op'.base, vm', cp'),
           ~undone' =>
              /\ ~undone
              /\ pointer'.retiring = pointer.retiring /\ pointer'.gen = pointer.gen
              /\ pointer'.vm \in {None, pointer.vm}
              /\ pointer'.pending = None <=> pointer.pending = None
              /\ pointer.pending # None => pointer'.pending.vm = pointer.pending.vm
              /\ \A x \in Vms \cup {None} :
                    Leads(x, pointer, op, run, vm, lost) =>
                       (x # None /\ LiveIn(vm', x) =>
                          x = pointer'.vm \/ (Sweeps(op') /\ ~pointer'.on))
    PROVE  IInv'
<1>1. Forward(vm, cp, vm', cp') /\ NoBirth(vm, vm') /\ run' = run /\ lost' = lost
  BY DEF Moves
<1>2. TypeOK'
  BY <1>1, TypesAre DEF TypeOK, IInv
<1>3. ASSUME NEW r \in Runs
      PROVE  Knows(run[r], vm', cp', lost') /\ Replaces(run[r], vm', cp', lost')
  BY <1>1, RunStillIs
<1>4. ASSUME ~undone' PROVE Orderly'
  <2>1. ~undone /\ Orderly
    BY <1>4 DEF IInv
  <2>2. ASSUME NEW r \in Runs PROVE Agrees(run[r], pointer', vm', lost')
    <3>1. Agrees(run[r], pointer, vm', lost')
      BY <1>1, <2>1, RunStillIs
    <3> QED BY <1>4, <3>1, AgreesAlike
  <2>3. PICK x \in Vms \cup {None} : Leads(x, pointer, op, run, vm, lost)
    BY <2>1 DEF Orderly
  <2>4. Leads(x, pointer', op', run, vm', lost')
    <3>1. Beside(pointer', run) = Beside(pointer, run)
      BY <1>4, BesideAlike
    <3>2. pointer'.vm # None => x = pointer'.vm
      BY <1>4, <2>3 DEF Leads
    <3>3. x # None /\ LiveIn(vm', x) => x = pointer'.vm \/ (Sweeps(op') /\ ~pointer'.on)
      BY <1>4, <2>3
    <3>4. \A v \in Vms : LiveIn(vm', v) => v \in lost' \cup {x} \cup Beside(pointer', run)
      BY <1>1, <2>3, <3>1 DEF Leads, NoBirth
    <3> QED BY <3>2, <3>3, <3>4 DEF Leads
  <2>5. \A v \in Vms : cp'[v].phase = "drained" => cp'[v].gen < pointer'.gen
    BY <1>4, <2>1 DEF Moves
  <2>6. pointer'.retiring = None \/ pointer'.pending = None
    BY <1>4, <2>1 DEF Orderly
  <2>7. \A r \in Runs : Agrees(run'[r], pointer', vm', lost')
    BY <1>1, <2>2
  <2>8. \E y \in Vms \cup {None} : Leads(y, pointer', op', run', vm', lost')
    BY <1>1, <2>4
  <2> QED BY <2>5, <2>6, <2>7, <2>8 DEF Orderly
<1>5. \A r, s \in InFlight' : r = s
  BY <1>1 DEF IInv, InFlight
<1>6. \A v \in Vms : Quiet(vm'[v], cp'[v])
  BY DEF Moves
<1>7. \A r \in Runs : Knows(run'[r], vm', cp', lost') /\ Replaces(run'[r], vm', cp', lost')
  BY <1>1, <1>3
<1> QED BY <1>2, <1>4, <1>5, <1>6, <1>7 DEF IInv

LEMMA StartHolds ==
    ASSUME IInv, UpStart \/ DownStart
    PROVE  IInv'
<1>1. /\ op.pc = "idle" /\ PlatformStays /\ UNCHANGED <<pointer, undone, run, rotations, lost>>
      /\ rule' \in BOOLEAN
      /\ \E pc \in {"up", "down"} : op' = [pc |-> pc, base |-> pointer]
  <2>1. rule \in BOOLEAN
    BY DEF IInv, TypeOK
  <2> QED BY <2>1 DEF UpStart, DownStart, Operation
<1>1a. PICK pc \in {"up", "down"} : op' = [pc |-> pc, base |-> pointer]
  BY <1>1
<1>1b. op'.base = pointer /\ op'.pc \in {"up", "down"}
  BY <1>1a
<1>2. trouble' \in 0..MaxTrouble
  BY AllowedTyped DEF UpStart, DownStart, Operation
<1>3. Moves /\ vm' = vm /\ cp' = cp
  BY <1>1, StaysMoves DEF PlatformStays
<1>4. TypeOKcp' /\ rotations' \in 0..MaxRotations
  BY <1>1, <1>2, <1>3 DEF IInv, TypeOK, TypeOKcp, PlatformStays
<1>5. pointer \in Record /\ pointer # None /\ undone \in BOOLEAN /\ Seen(pointer, vm, cp)
  BY TypesAre, RotationAssumption DEF IInv
<1>6. op' \in Script
  BY <1>1a, <1>5 DEF Script
<1>7. ASSUME NEW x \in Vms \cup {None}, Leads(x, pointer, op, run, vm, lost),
             x # None, LiveIn(vm, x)
      PROVE  x = pointer.vm
  BY <1>1, <1>7 DEF Leads, Sweeps
<1> QED BY <1>1, <1>1b, <1>3, <1>4, <1>5, <1>6, <1>7, OperatorHolds

LEMMA UpWriteHolds ==
    ASSUME IInv, UpWrite
    PROVE  IInv'
<1> DEFINE b == op.base
           p == [b EXCEPT !.on = TRUE, !.recent = TRUE]
<1>1. /\ op.pc = "up" /\ PlatformStays /\ UNCHANGED <<trouble, run, rotations, lost>>
      /\ op' = NoOp /\ rule' = TRUE /\ Write(b, p)
  BY DEF UpWrite
<1>2. b \in Record /\ Seen(b, vm, cp)
  BY <1>1, TypesAre DEF IInv, Script
<1>3. Moves /\ vm' = vm /\ cp' = cp
  BY <1>1, StaysMoves DEF PlatformStays
<1>4. TypeOKcp' /\ rotations' \in 0..MaxRotations
  BY <1>1, <1>3 DEF IInv, TypeOK, TypeOKcp, PlatformStays
<1>5. /\ p \in Record /\ p.vm = b.vm /\ p.gen = b.gen /\ p.retiring = b.retiring
      /\ p.pending = b.pending
  BY <1>2 DEF Record
<1> HIDE DEF p
<1>6. pointer' = p /\ undone' \in BOOLEAN
  BY <1>1, <1>2, WriteIs
<1>7. Seen(p, vm, cp)
  BY <1>2, <1>5 DEF Seen
<1>8. op' \in Script /\ op'.pc = "idle"
  BY <1>1 DEF NoOp, Script
<1>9. ASSUME ~undone'
      PROVE  /\ ~undone
             /\ p.retiring = pointer.retiring /\ p.gen = pointer.gen /\ p.vm = pointer.vm
             /\ p.pending = None <=> pointer.pending = None
             /\ pointer.pending # None => p.pending.vm = pointer.pending.vm
  BY <1>1, <1>2, <1>5, <1>9, WriteIs
<1>10. ASSUME NEW x \in Vms \cup {None}, Leads(x, pointer, op, run, vm, lost),
              x # None, LiveIn(vm, x)
       PROVE  x = pointer.vm
  BY <1>1, <1>10 DEF Leads, Sweeps
<1> QED BY <1>1, <1>3, <1>4, <1>5, <1>6, <1>7, <1>8, <1>9, <1>10, OperatorHolds

LEMMA DownWriteHolds ==
    ASSUME IInv, DownWrite
    PROVE  IInv'
<1> DEFINE b == op.base
           p == [b EXCEPT !.on = FALSE, !.vm = None, !.recent = TRUE]
<1>1. /\ op.pc = "down" /\ PlatformStays /\ UNCHANGED <<trouble, run, rule, rotations, lost>>
      /\ op' = [pc |-> "first pass", base |-> None] /\ Write(b, p)
  BY DEF DownWrite
<1>2. b \in Record /\ Seen(b, vm, cp)
  BY <1>1, TypesAre DEF IInv, Script
<1>3. Moves /\ vm' = vm /\ cp' = cp
  BY <1>1, StaysMoves DEF PlatformStays
<1>4. TypeOKcp' /\ rotations' \in 0..MaxRotations /\ rule' \in BOOLEAN
  BY <1>1, <1>3 DEF IInv, TypeOK, TypeOKcp, PlatformStays
<1>5. /\ p \in Record /\ p.vm = None /\ p.gen = b.gen /\ p.retiring = b.retiring
      /\ p.pending = b.pending /\ ~p.on
  BY <1>2 DEF Record
<1> HIDE DEF p
<1>6. pointer' = p /\ undone' \in BOOLEAN
  BY <1>1, <1>2, WriteIs
<1>7. Seen(p, vm, cp)
  BY <1>2, <1>5 DEF Seen
<1>8. op' \in Script /\ Sweeps(op') /\ op'.pc \notin {"up", "down"}
  BY <1>1 DEF Script, Sweeps
<1>9. ASSUME ~undone'
      PROVE  /\ ~undone
             /\ p.retiring = pointer.retiring /\ p.gen = pointer.gen
             /\ p.pending = None <=> pointer.pending = None
             /\ pointer.pending # None => p.pending.vm = pointer.pending.vm
  BY <1>1, <1>2, <1>5, <1>9, WriteIs
<1> QED BY <1>1, <1>3, <1>4, <1>5, <1>6, <1>7, <1>8, <1>9, OperatorHolds

LEMMA DownPassHolds ==
    ASSUME IInv, DownPass
    PROVE  IInv'
<1>1. /\ Killed(Vms) /\ latest' \in LatestAfterKill(Vms)
      /\ UNCHANGED <<pointer, undone, jobs, trouble, run, rule, rotations, lost>>
      /\ op' \in Script /\ op'.pc \notin {"up", "down"}
  BY TypesAre DEF DownPass, NoOp, Script, IInv
<1>2. Moves /\ \A v \in Vms : ~LiveIn(vm', v)
  BY <1>1, KilledMoves
<1>3. latest' \in Ledgers \cup {None}
  BY <1>1, ProcessIs, TypesAre DEF LatestAfterKill, IInv
<1>4. TypeOKcp' /\ rotations' \in 0..MaxRotations /\ rule' \in BOOLEAN
  BY <1>1, <1>2, <1>3 DEF Moves, States, IInv, TypeOK, TypeOKcp
<1>5. pointer \in Record /\ undone \in BOOLEAN /\ Seen(pointer, vm', cp')
  BY <1>2, TypesAre, SeenStays DEF IInv, Moves
<1> QED BY <1>1, <1>2, <1>4, <1>5, OperatorHolds

LEMMA TimeHolds ==
    ASSUME IInv, Settle \/ Age
    PROVE  IInv'
<1>1. /\ PlatformStays /\ UNCHANGED <<trouble, run, lost, undone>> /\ OthersStay
  BY DEF Settle, Age
<1>2. Moves /\ vm' = vm /\ cp' = cp
  BY <1>1, StaysMoves DEF PlatformStays
<1>3. TypeOKcp' /\ rotations' \in 0..MaxRotations /\ rule' \in BOOLEAN
  BY <1>1, <1>2 DEF IInv, TypeOK, TypeOKcp, PlatformStays, OthersStay
<1>4. pointer \in Record /\ undone \in BOOLEAN /\ Seen(pointer, vm, cp) /\ op \in Script
  BY TypesAre DEF IInv
<1>5. /\ pointer' \in Record /\ Seen(pointer', vm, cp)
      /\ pointer'.on = pointer.on /\ pointer'.vm = pointer.vm /\ pointer'.gen = pointer.gen
      /\ pointer'.retiring = pointer.retiring
      /\ pointer'.pending = None <=> pointer.pending = None
      /\ pointer.pending # None => pointer'.pending.vm = pointer.pending.vm
  <2>1. CASE Settle
    <3>1. pointer' = [pointer EXCEPT !.recent = FALSE]
      BY <2>1 DEF Settle
    <3>2. /\ pointer' \in Record
          /\ pointer'.on = pointer.on /\ pointer'.vm = pointer.vm /\ pointer'.gen = pointer.gen
          /\ pointer'.retiring = pointer.retiring /\ pointer'.pending = pointer.pending
      BY <1>4, <3>1 DEF Record
    <3> QED BY <1>4, <3>2 DEF Seen
  <2>2. CASE Age
    <3> DEFINE d == [pointer.pending EXCEPT !.young = FALSE]
    <3>1. /\ pointer' = [pointer EXCEPT !.pending = d] /\ pointer.pending # None
          /\ vm[pointer.pending.vm] # "pending"
      BY <1>4, <2>2, Zenon DEF Age
    <3>2. pointer.pending \in Launched
      BY <1>4, <3>1 DEF Record
    <3>3. d \in Launched /\ d.vm = pointer.pending.vm /\ d.gen = pointer.pending.gen
      BY <3>2 DEF Launched
    <3>4. d # None
      BY <3>3, RotationAssumption
    <3> HIDE DEF d
    <3>5. /\ pointer' \in Record
          /\ pointer'.on = pointer.on /\ pointer'.vm = pointer.vm /\ pointer'.gen = pointer.gen
          /\ pointer'.retiring = pointer.retiring /\ pointer'.pending = d
      BY <1>4, <3>1, <3>3 DEF Record
    <3> QED BY <1>4, <3>1, <3>3, <3>4, <3>5 DEF Seen
  <2> QED BY <2>1, <2>2
<1>6. ASSUME NEW x \in Vms \cup {None}, Leads(x, pointer, op, run, vm, lost),
             x # None, LiveIn(vm, x)
      PROVE  x = pointer.vm \/ (Sweeps(op) /\ ~pointer.on)
  BY <1>6 DEF Leads
<1>7. op.pc \in {"up", "down"} => op.base # None /\ Seen(op.base, vm, cp)
  BY DEF IInv
<1> QED BY <1>1, <1>2, <1>3, <1>4, <1>5, <1>6, <1>7, OperatorHolds DEF OthersStay

LEMMA NextHourHolds ==
    ASSUME IInv, NextHour
    PROVE  IInv'
<1>1. /\ cp' = [v \in Vms |-> [cp[v] EXCEPT !.token = FALSE]]
      /\ UNCHANGED <<pointer, undone, vm, latest, jobs, trouble, run, op, rule, rotations, lost>>
  BY DEF NextHour
<1>2. ASSUME NEW v \in Vms
      PROVE  /\ cp'[v] \in Process /\ cp'[v].gen = cp[v].gen
             /\ cp'[v].phase = cp[v].phase /\ cp'[v].auth = cp[v].auth
             /\ cp'[v].clients = cp[v].clients /\ cp'[v].polling = cp[v].polling
  <2>1. cp'[v] = [cp[v] EXCEPT !.token = FALSE] /\ cp[v] \in Process
    BY <1>1, ProcessIs
  <2> QED BY <2>1 DEF Process
<1>3. vm' \in [Vms -> States] /\ cp' \in [Vms -> Process]
  BY <1>1, <1>2, TypesAre DEF IInv
<1>4. Forward(vm, cp, vm', cp') /\ NoBirth(vm, vm')
  BY <1>1, <1>2 DEF Forward, NoBirth
<1>5. \A v \in Vms : Quiet(vm'[v], cp'[v])
  BY <1>1, <1>2 DEF IInv, Quiet
<1>6. ~undone => \A v \in Vms : cp'[v].phase = "drained" => cp'[v].gen < pointer.gen
  BY <1>2 DEF IInv, Orderly
<1>7. Moves
  BY <1>3, <1>4, <1>5, <1>6 DEF Moves
<1> QED BY <1>1, <1>7, ProcessTyped, TypesAre DEF IInv, TypeOK, TypeOKcp
-----------------------------------------------------------------------------
(* The invariant. *)

LEMMA FirstIs == 1 \in Vms /\ Cardinality(Vms) \in Nat
<1>1. Cardinality(Vms) \in Nat
  BY ControlPlaneAssumption, FS_CardinalityType
<1>2. Vms = 1..Cardinality(Vms) /\ Vms # {}
  BY ControlPlaneAssumption
<1> QED BY <1>1, <1>2

LEMMA InitHolds ==
    ASSUME Init
    PROVE  IInv
<1>1. 1 \in Vms /\ None \notin Vms /\ None # 1
  BY FirstIs, ControlPlaneAssumption
<1>2. /\ pointer \in Record /\ pointer.vm = 1 /\ pointer.gen = 1 /\ pointer.pending = None
      /\ pointer.retiring = None
  BY <1>1 DEF Init, Record
<1> DEFINE up == [NotBooted EXCEPT !.gen = 1, !.boot = "up", !.phase = "active", !.auth = TRUE]
<1>3. NotBooted \in Process /\ up \in Process
  BY DEF NotBooted, Process
<1>4. /\ up.gen = 1 /\ up.phase = "active" /\ ~up.polling
      /\ NotBooted.phase = "neutral" /\ ~NotBooted.polling /\ ~NotBooted.auth
      /\ ~NotBooted.clients
  BY DEF NotBooted
<1> HIDE DEF up
<1>5. cp = [v \in Vms |-> IF v = 1 THEN up ELSE NotBooted]
  BY DEF Init, up
<1>6. vm = [v \in Vms |-> IF v = 1 THEN "running" ELSE "unused"]
  BY DEF Init
<1>7. cp \in [Vms -> Process] /\ vm \in [Vms -> States]
  BY <1>3, <1>5, <1>6 DEF States
<1>8. TypeOKcp
  BY <1>7, ControlPlaneAssumption DEF Init, TypeOKcp, States
<1>9. /\ run = [r \in Runs |-> NoRun] /\ op = NoOp /\ rule = TRUE /\ rotations = 0
      /\ lost = {} /\ undone = FALSE
  BY DEF Init
<1>10. op \in Script /\ op.pc = "idle"
  BY <1>9 DEF NoOp, Script
<1>11. TypeOK
  <2>1. MaxRotations \in Nat
    BY RotationAssumption
  <2>2. run \in [Runs -> Invocation] /\ rotations \in 0..MaxRotations
    BY <1>9, <2>1, IdleHolds
  <2> QED BY <1>2, <1>8, <1>9, <1>10, <2>2 DEF TypeOK
<1>12. Seen(pointer, vm, cp)
  BY <1>1, <1>2, <1>4, <1>5, <1>6 DEF Seen
<1>13. \A v \in Vms : Quiet(vm[v], cp[v])
  BY <1>4, <1>5, <1>6 DEF Quiet
<1>14. \A r, s \in InFlight : r = s
  <2>1. NoRun.pc = "idle"
    BY DEF NoRun
  <2> QED BY <1>9, <2>1 DEF InFlight
<1>15. Orderly
  <2>1. \A v \in Vms : cp[v].phase # "drained"
    BY <1>4, <1>5
  <2>2. \A r \in Runs : Agrees(run[r], pointer, vm, lost)
    BY <1>9, IdleHolds
  <2>3. Leads(1, pointer, op, run, vm, lost)
    BY <1>1, <1>2, <1>6 DEF Leads, LiveIn
  <2> QED BY <1>1, <1>2, <2>1, <2>2, <2>3 DEF Orderly
<1>16. \A r \in Runs : Knows(run[r], vm, cp, lost) /\ Replaces(run[r], vm, cp, lost)
  BY <1>9, IdleHolds
<1> QED BY <1>10, <1>11, <1>12, <1>13, <1>14, <1>15, <1>16 DEF IInv

LEMMA RunStepHolds ==
    ASSUME IInv, NEW r \in Runs, RunStep(r)
    PROVE  IInv'
BY RereadHolds, RepairHolds, RollBackHolds, ForgetHolds, ChooseHolds, LaunchHolds,
   RecordPendingHolds, WaitHolds, RereadsHolds, UnpendWriteHolds, CallHandoverHolds,
   HandoverCallsHold, CallAdoptHolds, PromoteHolds, FlipHolds, CallDrainHolds, KillHolds,
   ClearWriteHolds DEF RunStep

LEMMA StutterHolds ==
    ASSUME IInv, UNCHANGED vars
    PROVE  IInv'
<1>1. UNCHANGED <<pointer, vm, cp, latest, jobs, trouble>>
  BY DEF vars, cpVars
<1>2. Moves
  BY <1>1, StaysMoves
<1>3. UNCHANGED <<run, op, rule, rotations, lost, undone>>
  BY DEF vars
<1> QED BY <1>1, <1>2, <1>3, ProcessTyped, TypesAre DEF IInv, TypeOK, TypeOKcp

LEMMA NextHolds ==
    ASSUME IInv, MaxOverlap = 1, [Next]_vars
    PROVE  IInv'
<1>1. CASE ProcessNext /\ UNCHANGED <<run, op, rule, rotations, lost, undone>>
  BY <1>1, ProcessHolds DEF FleetStays
<1>2. ASSUME NEW r \in Runs,
             \/ Invoke(r) \/ Heal(r) \/ Hourly(r) \/ RunStep(r)
             \/ HandoverUnanswered(r) \/ AdoptUnanswered(r) \/ Die(r)
      PROVE  IInv'
  BY <1>2, InvokeHolds, HealHolds, RunStepHolds, HandoverCallsHold, AdoptUnansweredHolds,
     DieHolds
<1>3. CASE UpStart \/ DownStart
  BY <1>3, StartHolds
<1>4. CASE OperatorStep
  BY <1>4, UpWriteHolds, DownWriteHolds, DownPassHolds DEF OperatorStep
<1>5. CASE Settle \/ Age
  BY <1>5, TimeHolds
<1>6. CASE NextHour
  BY <1>6, NextHourHolds
<1>7. CASE UNCHANGED vars
  BY <1>7, StutterHolds
<1> QED BY <1>1, <1>2, <1>3, <1>4, <1>5, <1>6, <1>7 DEF Next

(* The inductive invariant holds throughout while runs do not overlap.     *)
THEOREM Invariance ==
    ASSUME MaxOverlap = 1
    PROVE  Spec => []IInv
<1>1. Init => IInv
  BY InitHolds
<1>2. IInv /\ [Next]_vars => IInv'
  BY NextHolds
<1> QED BY <1>1, <1>2, PTL DEF Spec

(* Every record, run and process has the shape the code gives it.          *)
THEOREM TypesHold ==
    ASSUME MaxOverlap = 1
    PROVE  Spec => []TypeOK
<1>1. IInv => TypeOK
  BY DEF IInv
<1> QED BY <1>1, Invariance, PTL

LEMMA NobodyForgottenIs ==
    ASSUME IInv
    PROVE  NobodyForgotten
<1> SUFFICES ASSUME ~undone, NEW v \in Vms, Live(v)
             PROVE  \/ v \in {pointer.vm, pointer.retiring} \cup lost
                    \/ pointer.pending # None /\ v = pointer.pending.vm
                    \/ \E r \in Runs : v \in {run[r].vm, run[r].old}
                    \/ op.pc \in {"first pass", "second pass"}
  BY DEF NobodyForgotten, EverybodyKnown
<1>1. PICK x \in Vms \cup {None} : Leads(x, pointer, op, run, vm, lost)
  BY DEF IInv, Orderly
<1>2. LiveIn(vm, v) /\ v # None
  BY ControlPlaneAssumption DEF Live, LiveIn
<1>3. CASE v = x
  BY <1>1, <1>2, <1>3 DEF Leads, Sweeps
<1>4. CASE v \in Beside(pointer, run)
  BY <1>4 DEF Beside
<1> QED BY <1>1, <1>2, <1>3, <1>4 DEF Leads

(* A live control plane is never forgotten (NobodyForgotten), at whatever  *)
(* line the run that launched, repairs or replaces it dies.                *)
THEOREM NothingLeftRunning ==
    ASSUME MaxOverlap = 1
    PROVE  Spec => []NobodyForgotten
BY Invariance, NobodyForgottenIs, PTL

LEMMA AtMostTwoActIs ==
    ASSUME IInv
    PROVE  AtMostTwoAct
<1> SUFFICES ASSUME ~undone, lost = {}
             PROVE  /\ Cardinality({v \in Vms : Acts(v)}) <= 2
                    /\ \A v \in Vms :
                        Acts(v) /\ pointer.vm \notin {None, v} =>
                            \/ v = pointer.retiring
                            \/ \E r \in Runs : v \in {run[r].vm, run[r].old}
                            \/ pointer.pending # None /\ v = pointer.pending.vm
  BY DEF AtMostTwoAct
<1>1. PICK x \in Vms \cup {None} : Leads(x, pointer, op, run, vm, lost)
  BY DEF IInv, Orderly
<1>2. ASSUME NEW v \in Vms, Acts(v) PROVE v = x \/ v \in Beside(pointer, run)
  <2>1. LiveIn(vm, v)
    BY <1>2 DEF Acts, ServingState, LiveIn
  <2> QED BY <1>1, <2>1 DEF Leads
<1>3. \E y : Beside(pointer, run) \subseteq {y}
  <2>1. CASE pointer.retiring # None \/ pointer.pending # None
    BY <2>1 DEF Beside
  <2>2. CASE pointer.retiring = None /\ pointer.pending = None
    <3>1. Beside(pointer, run) = {run[r].vm : r \in {s \in Runs : run[s].pc = "record"}}
      BY <2>2 DEF Beside
    <3>2. CASE \E r \in Runs : run[r].pc = "record"
      <4>1. PICK r \in Runs : run[r].pc = "record"
        BY <3>2
      <4>2. \A s \in Runs : run[s].pc = "record" => s = r
        BY <4>1 DEF IInv, InFlight
      <4> QED BY <3>1, <4>1, <4>2
    <3>3. CASE ~\E r \in Runs : run[r].pc = "record"
      BY <3>1, <3>3
    <3> QED BY <3>2, <3>3
  <2> QED BY <2>1, <2>2
<1>4. Cardinality({v \in Vms : Acts(v)}) <= 2
  <2>1. PICK y : Beside(pointer, run) \subseteq {y}
    BY <1>3
  <2>2. {v \in Vms : Acts(v)} \subseteq {x} \cup {y}
    BY <1>2, <2>1
  <2>3. IsFiniteSet({x}) /\ Cardinality({x}) = 1
    BY FS_Singleton
  <2>4. IsFiniteSet({x} \cup {y}) /\ Cardinality({x} \cup {y}) <= 2
    BY <2>3, FS_AddElement
  <2>5. /\ Cardinality({v \in Vms : Acts(v)}) <= Cardinality({x} \cup {y})
        /\ Cardinality({v \in Vms : Acts(v)}) \in Nat /\ Cardinality({x} \cup {y}) \in Nat
    BY <2>2, <2>4, FS_Subset, FS_CardinalityType
  <2> QED BY <2>4, <2>5
<1>5. ASSUME NEW v \in Vms, Acts(v), pointer.vm \notin {None, v}
      PROVE  \/ v = pointer.retiring
             \/ \E r \in Runs : v \in {run[r].vm, run[r].old}
             \/ pointer.pending # None /\ v = pointer.pending.vm
  <2>1. v \in Beside(pointer, run)
    BY <1>1, <1>2, <1>5 DEF Leads
  <2> QED BY <2>1 DEF Beside
<1> QED BY <1>4, <1>5

(* Two control planes at most act at once (AtMostTwoAct), and the one that *)
(* acts unnamed is the successor or the predecessor of the one named.      *)
THEOREM TwoAct ==
    ASSUME MaxOverlap = 1
    PROVE  Spec => []AtMostTwoAct
BY Invariance, AtMostTwoActIs, PTL
-----------------------------------------------------------------------------
(* What the succession promises.                                           *)

Lives == {"none", "ready", "handing over", "retired", "gone"}

Gens == [v \in Vms |-> cp[v].gen]
Ages == [v \in Vms |-> Stage(v)]

\* Once a write was undone nothing is said of the pointer any more.
CleanTyped == ~undone => pointer.gen \in Nat /\ Gens \in [Vms -> Nat] /\ Ages \in [Vms -> Lives]

Promised == CleanTyped /\ S!NamedNotRetired

\* Whoever takes a step: the step, with the given ledgers left out.
StepOf(v) ==
    \/ S!Launches(v) \/ S!StandsBy(v) \/ S!Entitled(v) \/ S!Succeeds(v)
    \/ S!HandsOver(v) \/ S!CarriesOn(v) \/ S!Retires(v)

\* A step of the succession is a step of one control plane, a sweep, or a move of the
\* pointer.
LEMMA StepCases ==
    ASSUME S!Next
    PROVE  (\E v \in Vms : StepOf(v)) \/ S!Vanish \/ S!PointerMoves
BY DEF S!Next, StepOf

\* But for those moves the pointer stays.
LEMMA StepLeaves ==
    ASSUME (\E v \in Vms : StepOf(v)) \/ S!Vanish
    PROVE  S!PointerStays
BY DEF StepOf, S!Launches, S!StandsBy, S!Entitled, S!Succeeds, S!HandsOver, S!CarriesOn,
       S!Retires, S!Vanish

LEMMA CleanStays ==
    ASSUME [S!Next]_(S!succession), ~undone'
    PROVE  ~undone
<1>1. CASE S!Next
  <2>1. CASE S!PointerStays
    <3>1. (~undone)' = ~undone
      BY <2>1 DEF S!PointerStays
    <3> QED BY <3>1
  <2>2. CASE S!PointerMoves
    BY <2>2 DEF S!PointerMoves
  <2> QED BY <1>1, <2>1, <2>2, StepCases, StepLeaves
<1>2. CASE UNCHANGED S!succession
  BY <1>2 DEF S!succession
<1> QED BY <1>1, <1>2

LEMMA InitPromised ==
    ASSUME S!Init
    PROVE  Promised
<1>1. /\ pointer.gen \in Nat \ {0} /\ pointer.vm \in Vms
      /\ Ages = [v \in Vms |-> IF v = pointer.vm THEN "ready" ELSE "none"]
      /\ Gens = [v \in Vms |-> IF v = pointer.vm THEN pointer.gen ELSE 0]
  BY Zenon DEF S!Init, Gens, Ages
<1>2. Ages \in [Vms -> Lives] /\ Gens \in [Vms -> Nat] /\ Ages[pointer.vm] = "ready"
  BY <1>1 DEF Lives
<1> QED BY <1>1, <1>2 DEF Promised, CleanTyped, S!NamedNotRetired, Ages

\* One control plane's step: only its own stage or generation changes, and the named one
\* does not retire.
LEMMA StepPromised ==
    ASSUME Promised, NEW v \in Vms, StepOf(v), ~undone'
    PROVE  Promised'
<1>0. S!PointerStays /\ ~undone /\ pointer.vm' = pointer.vm /\ pointer.gen' = pointer.gen
  <2>1. S!PointerStays
    BY StepLeaves
  <2>2. (~undone)' = ~undone
    BY <2>1 DEF S!PointerStays
  <2> QED BY <2>1, <2>2 DEF S!PointerStays
<1>a. /\ pointer.gen \in Nat /\ Gens \in [Vms -> Nat] /\ Ages \in [Vms -> Lives]
      /\ pointer.vm \in Vms \ {None} => Ages[pointer.vm] # "retired"
  BY <1>0 DEF Promised, CleanTyped, S!NamedNotRetired, Ages
<1>b. ASSUME /\ Gens' \in [Vms -> Nat] /\ Ages' \in [Vms -> Lives]
             /\ pointer.vm \in Vms \ {None} => Ages'[pointer.vm] # "retired"
      PROVE  Promised'
  BY <1>0, <1>a, <1>b DEF Promised, CleanTyped, S!NamedNotRetired, Ages
<1>1. CASE S!Launches(v)
  <2>1. Gens' = [Gens EXCEPT ![v] = Gens'[v]] /\ Gens'[v] \in Nat /\ Ages' = Ages
    BY <1>1, Zenon DEF S!Launches, Gens, Ages
  <2> QED BY <1>a, <1>b, <2>1
<1>2. CASE S!Entitled(v)
  <2>1. Gens' = Gens /\ Ages' = Ages
    BY <1>2, Zenon DEF S!Entitled, Gens, Ages
  <2> QED BY <1>a, <1>b, <2>1
<1>3. CASE S!Retires(v)
  <2>1. Gens' = Gens /\ Ages' = [Ages EXCEPT ![v] = "retired"] /\ (~undone => v # pointer.vm)
    BY <1>3, Zenon DEF S!Retires, S!Becomes, Gens, Ages
  <2> QED BY <1>0, <1>a, <1>b, <2>1 DEF Lives
<1>4. CASE S!StandsBy(v) \/ S!Succeeds(v) \/ S!HandsOver(v) \/ S!CarriesOn(v)
  <2>1. /\ Gens' = Gens
        /\ \/ Ages' = [Ages EXCEPT ![v] = "ready"]
           \/ Ages' = [Ages EXCEPT ![v] = "handing over"]
    BY <1>4, Zenon DEF S!StandsBy, S!Succeeds, S!HandsOver, S!CarriesOn, S!Becomes, Gens, Ages
  <2> QED BY <1>0, <1>a, <1>b, <2>1 DEF Lives
<1> QED BY <1>1, <1>2, <1>3, <1>4 DEF StepOf

LEMMA NextPromised ==
    ASSUME Promised, [S!Next]_(S!succession)
    PROVE  Promised'
<1>1. CASE undone'
  BY <1>1 DEF Promised, CleanTyped, S!NamedNotRetired
<1>2. CASE ~undone' /\ UNCHANGED S!succession
  <2>1. /\ Gens' = Gens /\ Ages' = Ages /\ ~undone
        /\ pointer.vm' = pointer.vm /\ pointer.gen' = pointer.gen
    BY <1>2, CleanStays DEF S!succession, Gens, Ages
  <2> QED BY <2>1 DEF Promised, CleanTyped, S!NamedNotRetired, Ages
<1>3. CASE ~undone' /\ S!Next
  <2>0. ~undone /\ pointer.gen \in Nat /\ Gens \in [Vms -> Nat] /\ Ages \in [Vms -> Lives]
        /\ (pointer.vm \in Vms \ {None} => Ages[pointer.vm] # "retired")
    BY <1>3, CleanStays DEF Promised, CleanTyped, S!NamedNotRetired, Ages
  <2>1. CASE \E v \in Vms : StepOf(v)
    BY <1>3, <2>1, StepPromised
  <2>2. CASE S!Vanish
    <3>1. /\ Gens' = Gens /\ pointer.vm' = pointer.vm /\ pointer.gen' = pointer.gen
          /\ Ages' = [v \in Vms |-> IF v \in {w \in Vms : Ages'[w] = "gone"} THEN "gone"
                                   ELSE Ages[v]]
      BY <2>2, Zenon DEF S!Vanish, S!PointerStays, Gens, Ages
    <3>2. Ages' \in [Vms -> Lives]
          /\ (pointer.vm \in Vms \ {None} => Ages'[pointer.vm] # "retired")
      BY <2>0, <3>1 DEF Lives
    <3> QED BY <2>0, <3>1, <3>2 DEF Promised, CleanTyped, S!NamedNotRetired, Ages
  <2>3. CASE S!PointerMoves
    <3>1. /\ Gens' = Gens /\ Ages' = Ages
          /\ \/ pointer.vm' = None /\ pointer.gen' = pointer.gen
             \/ /\ pointer.vm' \in Vms /\ Ages[pointer.vm'] # "retired"
                /\ pointer.gen' = Gens[pointer.vm'] /\ pointer.gen' > pointer.gen
      BY <1>3, <2>3 DEF S!PointerMoves, Gens, Ages
    <3> QED BY <2>0, <3>1 DEF Promised, CleanTyped, S!NamedNotRetired, Ages
  <2> QED BY <1>3, <2>1, <2>2, <2>3, StepCases
<1> QED BY <1>1, <1>2, <1>3

(* Of the succession alone: while no write undid another, the control      *)
(* plane the pointer names has not let its clients go for good.            *)
THEOREM NamedServes == S!Spec => []S!NamedNotRetired
<1>1. Promised => S!NamedNotRetired
  BY DEF Promised
<1> QED BY InitPromised, NextPromised, <1>1, PTL DEF S!Spec

\* A step that may not take the generation back does not.
LEMMA StepGrows ==
    ASSUME Promised, [S!Next]_(S!succession), ~undone'
    PROVE  pointer'.gen >= pointer.gen
<1>0. ~undone /\ pointer.gen \in Nat /\ Gens \in [Vms -> Nat]
  BY CleanStays DEF Promised, CleanTyped
<1>1. CASE UNCHANGED S!succession
  BY <1>0, <1>1 DEF S!succession
<1>2. CASE S!PointerStays
  BY <1>0, <1>2 DEF S!PointerStays
<1>3. CASE S!PointerMoves
  <2>1. \/ pointer.gen' = pointer.gen
        \/ /\ pointer.vm' \in Vms
           /\ pointer.gen' = Gens[pointer.vm'] /\ pointer.gen' > pointer.gen
    BY <1>3 DEF S!PointerMoves, Gens
  <2> QED BY <1>0, <2>1
<1> QED BY <1>1, <1>2, <1>3, StepCases, StepLeaves

(* Of the succession alone: the generation the pointer names never goes    *)
(* back while no write undid another.                                      *)
THEOREM GenerationGrows == S!Spec => S!TermGrows
<1>1. Promised /\ [S!Next]_(S!succession) => [(~undone)' => (pointer.gen)' >= pointer.gen]_(S!succession)
  BY StepGrows
<1> QED BY InitPromised, NextPromised, <1>1, PTL DEF S!Spec, S!TermGrows
-----------------------------------------------------------------------------
(* Rotation implements the succession: each of its steps is one of         *)
(* Succession's, or none.                                                  *)

\* What a step that shows nothing may do to v: nothing, or end it.
Fading(v) ==
    /\ cp'[v].gen = cp[v].gen
    /\ \/ Stage(v)' = Stage(v) /\ cp'[v].auth = cp[v].auth
       \/ vm'[v] = "gone"

\* No ledger is given that was not.
Keeps ==
    \A r \in Runs :
        run'[r].ledger # None => run[r].ledger # None /\ run'[r].old = run[r].old

Given == {run[r].old : r \in {q \in Runs : run[q].ledger # None}}

LEMMA GivenKept ==
    ASSUME Keeps
    PROVE  Given' \subseteq Given
BY DEF Keeps, Given

LEMMA StageIs ==
    ASSUME IInv, NEW v \in Vms
    PROVE  /\ vm[v] = "gone" => Stage(v) = "gone" /\ ~cp[v].auth
           /\ vm[v] # "gone" /\ cp[v].phase = "neutral" => Stage(v) = "none"
           /\ vm[v] # "gone" /\ cp[v].phase = "active" => Stage(v) = "ready"
           /\ vm[v] # "gone" /\ cp[v].phase = "handing-over" => Stage(v) = "handing over"
           /\ vm[v] # "gone" /\ cp[v].phase = "drained" => Stage(v) = "retired"
           /\ Stage(v) = "gone" => vm[v] = "gone"
<1>1. cp[v].phase \in {"neutral", "active", "handing-over", "drained"}
  BY ProcessIs DEF Process
<1>2. vm[v] = "gone" => cp[v].phase = "neutral" /\ ~cp[v].auth
  BY ProcessIs DEF Quiet
<1> QED BY <1>1, <1>2 DEF Stage

LEMMA StageWas ==
    ASSUME IInv', NEW v \in Vms
    PROVE  /\ vm'[v] = "gone" => Ages'[v] = "gone" /\ ~cp'[v].auth
           /\ vm'[v] # "gone" /\ cp'[v].phase = "neutral" => Ages'[v] = "none"
           /\ vm'[v] # "gone" /\ cp'[v].phase = "active" => Ages'[v] = "ready"
           /\ vm'[v] # "gone" /\ cp'[v].phase = "handing-over" => Ages'[v] = "handing over"
           /\ vm'[v] # "gone" /\ cp'[v].phase = "drained" => Ages'[v] = "retired"
           /\ Ages'[v] = "gone" => vm'[v] = "gone"
<1>1. cp'[v].phase \in {"neutral", "active", "handing-over", "drained"}
  BY DEF IInv, TypeOK, TypeOKcp, Process
<1>2. vm'[v] = "gone" => cp'[v].phase = "neutral" /\ ~cp'[v].auth
  BY DEF IInv, Quiet
<1>3. Ages'[v] = Stage(v)'
  BY DEF Ages
<1> QED BY <1>1, <1>2, <1>3 DEF Stage

Shown == UNCHANGED <<pointer.vm, pointer.gen, undone>>

LEMMA ShownStays ==
    ASSUME Shown
    PROVE  S!PointerStays
BY DEF Shown, S!PointerStays

LEMMA Fades ==
    ASSUME IInv', \A v \in Vms : Fading(v), Keeps, Shown
    PROVE  S!Next
<1> DEFINE gone == {v \in Vms : Ages'[v] = "gone"}
<1>1. \A v \in Vms : Ages'[v] = Stage(v)' /\ Ages[v] = Stage(v)
  BY DEF Ages
<1>2. Ages' = [v \in Vms |-> IF v \in gone THEN "gone" ELSE Ages[v]]
  <2>1. \A v \in Vms : Ages'[v] = IF v \in gone THEN "gone" ELSE Ages[v]
    BY <1>1, StageWas DEF Fading
  <2>2. Ages' = [v \in Vms |-> Ages'[v]]
    BY DEF Ages
  <2> HIDE DEF gone
  <2> QED BY <2>1, <2>2
<1>3. Gens' = Gens
  BY DEF Fading, Gens
<1>4. {v \in Vms : cp[v].auth}' = {v \in Vms : cp[v].auth} \ gone
  <2>1. ASSUME NEW v \in Vms PROVE cp'[v].auth <=> cp[v].auth /\ v \notin gone
    <3>1. Ages'[v] = "gone" <=> vm'[v] = "gone"
      BY <1>1, StageWas
    <3> QED BY <3>1, StageWas DEF Fading
  <2> HIDE DEF gone
  <2> QED BY <2>1
<1>5. S!Vanish
  BY <1>2, <1>3, <1>4, ShownStays, Zenon DEF S!Vanish, Ages, Gens
<1>6. Given' \subseteq Given
  BY GivenKept
<1> QED BY <1>5, <1>6, Zenon DEF S!Next, Given

LEMMA StillFades ==
    ASSUME UNCHANGED <<vm, cp>>
    PROVE  \A v \in Vms : Fading(v)
BY DEF Fading, Stage

LEMMA KilledFades ==
    ASSUME IInv, NEW T, Killed(T)
    PROVE  \A v \in Vms : Fading(v)
<1> SUFFICES ASSUME NEW v \in Vms PROVE Fading(v)
  OBVIOUS
<1>1. CASE vm'[v] = vm[v] /\ cp'[v] = cp[v]
  BY <1>1 DEF Fading, Stage
<1>2. CASE vm'[v] = "gone" /\ cp'[v] = Ended(cp[v])
  BY <1>2 DEF Fading, Ended, NotBooted
<1>3. \/ vm'[v] = vm[v] /\ cp'[v] = cp[v]
      \/ vm'[v] = "gone" /\ cp'[v] = Ended(cp[v])
  BY DEF Killed
<1> QED BY <1>1, <1>2, <1>3

LEMMA TerminatedFades ==
    ASSUME IInv, NEW w, TerminateQuietly(w)
    PROVE  \A v \in Vms : Fading(v)
BY KilledFades, StillFades DEF TerminateQuietly

\* A process that goes on as it was.
LEMMA OneFades ==
    ASSUME IInv, NEW w \in Vms, NEW s, NEW d, s # "gone", vm[w] # "gone",
           vm' = [vm EXCEPT ![w] = s], cp' = [cp EXCEPT ![w] = d],
           d.gen = cp[w].gen, d.phase = cp[w].phase, d.auth = cp[w].auth
    PROVE  \A v \in Vms : Fading(v)
<1> SUFFICES ASSUME NEW v \in Vms PROVE Fading(v)
  OBVIOUS
<1>1. CASE v # w
  <2>1. vm'[v] = vm[v] /\ cp'[v] = cp[v]
    BY <1>1, ProcessIs
  <2> QED BY <2>1 DEF Fading, Stage
<1>2. CASE v = w
  <2>1. vm'[v] = s /\ cp'[v] = d
    BY <1>2, ProcessIs
  <2>2. Stage(v)' = Stage(v)
    BY <1>2, <2>1 DEF Stage
  <2> QED BY <1>2, <2>1, <2>2 DEF Fading
<1> QED BY <1>1, <1>2
\* A step that leaves the platform and what is shown of the pointer alone.
LEMMA RunFades ==
    ASSUME IInv', UNCHANGED <<vm, cp>>, Keeps, Shown
    PROVE  S!Next
BY StillFades, Fades

Rights == {v \in Vms : cp[v].auth}

LEMMA OneAges ==
    ASSUME IInv, NEW w \in Vms, NEW s, NEW d,
           vm' = [vm EXCEPT ![w] = s], cp' = [cp EXCEPT ![w] = d]
    PROVE  /\ Ages' = [Ages EXCEPT ![w] = Ages'[w]]
           /\ d.auth => Rights' = Rights \cup {w}
           /\ d.auth = cp[w].auth => Rights' = Rights
<1>1. /\ \A v \in Vms : v # w => vm'[v] = vm[v] /\ cp'[v] = cp[v]
      /\ vm'[w] = s /\ cp'[w] = d
  BY ProcessIs
<1>2. \A v \in Vms : v # w => Stage(v)' = Stage(v)
  BY <1>1 DEF Stage
<1>3. Ages' = [Ages EXCEPT ![w] = Ages'[w]]
  <2>1. \A v \in Vms : Ages'[v] = Stage(v)' /\ Ages[v] = Stage(v)
    BY DEF Ages
  <2>2. Ages' = [v \in Vms |-> Ages'[v]] /\ Ages = [v \in Vms |-> Ages[v]]
    BY DEF Ages
  <2> QED BY <1>2, <2>1, <2>2
<1>4. \A v \in Vms : v \in Rights' <=> IF v = w THEN d.auth ELSE v \in Rights
  BY <1>1 DEF Rights
<1>5. Rights' \subseteq Vms /\ Rights \subseteq Vms /\ (w \in Rights <=> cp[w].auth)
  BY DEF Rights
<1> QED BY <1>3, <1>4, <1>5

LEMMA OneShows ==
    ASSUME IInv, NEW w \in Vms, NEW s, NEW d, d.gen = cp[w].gen,
           vm' = [vm EXCEPT ![w] = s], cp' = [cp EXCEPT ![w] = d]
    PROVE  /\ Gens' = Gens /\ Ages' = [Ages EXCEPT ![w] = Ages'[w]]
           /\ d.auth => Rights' = Rights \cup {w}
           /\ d.auth = cp[w].auth => Rights' = Rights
<1>1. \A v \in Vms : cp'[v].gen = cp[v].gen
  BY ProcessIs
<1>2. Gens' = Gens
  BY <1>1 DEF Gens
<1> QED BY <1>2, OneAges

\* What the processes do by themselves.
Same3(d, c) == d.gen = c.gen /\ d.phase = c.phase /\ d.auth = c.auth

LEMMA ProcessFades ==
    ASSUME IInv, IInv', FleetStays, pointer' = pointer, NEW w \in Vms, NEW s, NEW d,
           s # "gone", vm[w] # "gone",
           vm' = [vm EXCEPT ![w] = s], cp' = [cp EXCEPT ![w] = d], Same3(d, cp[w])
    PROVE  S!Next
<1>1. Keeps /\ Shown
  BY DEF FleetStays, Keeps, Shown
<1>2. \A v \in Vms : Fading(v)
  BY OneFades DEF Same3
<1> QED BY <1>1, <1>2, Fades

LEMMA QuietFades ==
    ASSUME IInv, IInv', FleetStays, NEW v \in Vms,
           \/ Run(v) \/ Running(v) \/ Connect(v) \/ Leave(v) \/ Job(v) \/ SnapshotTimer(v)
           \/ WriteLatest(v) \/ WriteFails(v) \/ Suspend(v)
    PROVE  S!Next
<1>0. pointer' = pointer
  BY DEF Run, Running, Connect, Leave, Job, SnapshotTimer, WriteLatest, WriteFails, Suspend
<1>1. CASE Run(v)
  <2> DEFINE d == [cp[v] EXCEPT !.boot = "reading", !.read = latest]
  <2>1. cp' = [cp EXCEPT ![v] = d] /\ vm' = [vm EXCEPT ![v] = vm[v]] /\ vm[v] = "pending"
    BY <1>1, ProcessIs, Zenon DEF Run
  <2>2. Same3(d, cp[v])
    BY ProcessIs DEF Same3, Process
  <2> HIDE DEF d
  <2> QED BY <1>0, <2>1, <2>2, ProcessFades
<1>2. CASE Running(v)
  <2>1. cp' = [cp EXCEPT ![v] = cp[v]] /\ vm' = [vm EXCEPT ![v] = "running"]
        /\ vm[v] = "pending"
    BY <1>2, ProcessIs DEF Running
  <2>2. Same3(cp[v], cp[v])
    BY DEF Same3
  <2> QED BY <1>0, <2>1, <2>2, ProcessFades
<1>3. CASE Connect(v)
  <2> DEFINE d == [cp[v] EXCEPT !.clients = TRUE]
  <2>1. cp' = [cp EXCEPT ![v] = d]
    BY <1>3, ProcessIs, Zenon DEF Connect
  <2>2. vm' = [vm EXCEPT ![v] = "running"] /\ vm[v] # "gone"
    BY <1>3 DEF Connect, Wakes, ServingState
  <2>3. Same3(d, cp[v])
    BY ProcessIs DEF Same3, Process
  <2> HIDE DEF d
  <2> QED BY <1>0, <2>1, <2>2, <2>3, ProcessFades
<1>4. CASE Leave(v)
  <2> DEFINE d == [cp[v] EXCEPT !.clients = FALSE]
  <2>1. cp' = [cp EXCEPT ![v] = d]
    BY <1>4, ProcessIs, Zenon DEF Leave
  <2>2. vm' = [vm EXCEPT ![v] = vm[v]] /\ vm[v] # "gone"
    BY <1>4, ProcessIs DEF Leave, Quiet
  <2>3. Same3(d, cp[v])
    BY ProcessIs DEF Same3, Process
  <2> HIDE DEF d
  <2> QED BY <1>0, <2>1, <2>2, <2>3, ProcessFades
<1>5. ASSUME vm[v] = "running", vm' = vm,
             NEW d, cp' = [cp EXCEPT ![v] = d], Same3(d, cp[v])
      PROVE  S!Next
  <2>1. vm' = [vm EXCEPT ![v] = vm[v]]
    BY <1>5, ProcessIs
  <2> QED BY <1>0, <1>5, <2>1, ProcessFades
<1>6. CASE Job(v)
  <2> DEFINE w == cp[v].work \cup {jobs + 1}
             d == [cp[v] EXCEPT !.work = w]
  <2>1. cp' = [cp EXCEPT ![v] = d] /\ vm' = vm /\ vm[v] = "running"
    BY <1>6, ProcessIs, Zenon DEF Job
  <2> HIDE DEF w
  <2>2. Same3(d, cp[v])
    BY ProcessIs DEF Same3, Process
  <2> HIDE DEF d
  <2> QED BY <1>5, <2>1, <2>2
<1>7. CASE SnapshotTimer(v)
  <2> DEFINE d == [cp[v] EXCEPT !.writing = LedgerOf(v)]
  <2>1. cp' = [cp EXCEPT ![v] = d] /\ vm' = vm /\ vm[v] = "running"
    BY <1>7, ProcessIs, Zenon DEF SnapshotTimer
  <2>2. Same3(d, cp[v])
    BY ProcessIs DEF Same3, Process
  <2> HIDE DEF d
  <2> QED BY <1>5, <2>1, <2>2
<1>8. CASE WriteLatest(v)
  <2> DEFINE d == [cp[v] EXCEPT !.writing = None, !.written = cp[v].writing]
  <2>1. cp' = [cp EXCEPT ![v] = d] /\ vm' = vm /\ vm[v] = "running"
    BY <1>8, ProcessIs, Zenon DEF WriteLatest
  <2>2. Same3(d, cp[v])
    BY ProcessIs DEF Same3, Process
  <2> HIDE DEF d
  <2> QED BY <1>5, <2>1, <2>2
<1>9. CASE WriteFails(v)
  <2> DEFINE d == [cp[v] EXCEPT !.writing = None]
  <2>1. cp' = [cp EXCEPT ![v] = d] /\ vm' = vm /\ vm[v] = "running"
    BY <1>9, ProcessIs, Zenon DEF WriteFails
  <2>2. Same3(d, cp[v])
    BY ProcessIs DEF Same3, Process
  <2> HIDE DEF d
  <2> QED BY <1>5, <2>1, <2>2
<1>10. CASE Suspend(v)
  <2>1. vm' = [vm EXCEPT ![v] = "suspended"] /\ vm[v] = "running"
    BY <1>10 DEF Suspend
  <2>2. CASE HookMayWrite(v)
    <3> DEFINE d == [cp[v] EXCEPT !.written = LedgerOf(v)]
    <3>1. cp' = [cp EXCEPT ![v] = d]
      BY <1>10, <2>2, ProcessIs, Zenon DEF Suspend
    <3>2. Same3(d, cp[v])
      BY ProcessIs DEF Same3, Process
    <3> HIDE DEF d
    <3> QED BY <1>0, <2>1, <3>1, <3>2, ProcessFades
  <2>3. CASE ~HookMayWrite(v)
    <3>1. cp' = [cp EXCEPT ![v] = cp[v]] /\ Same3(cp[v], cp[v])
      BY <1>10, <2>3, ProcessIs DEF Suspend, Same3
    <3> QED BY <1>0, <2>1, <3>1, ProcessFades
  <2> QED BY <2>2, <2>3
<1> QED BY <1>1, <1>2, <1>3, <1>4, <1>6, <1>7, <1>8, <1>9, <1>10

\* A step of the succession taken by one control plane, no ledger given.
LEMMA StepNext ==
    ASSUME NEW v \in Vms, Given' \subseteq Given,
           \/ S!Launches(v) \/ S!StandsBy(v) \/ S!Entitled(v) \/ S!Succeeds(v)
           \/ S!CarriesOn(v) \/ S!Retires(v)
    PROVE  S!Next
BY Zenon DEF S!Next, Given

LEMMA FleetKeeps ==
    ASSUME FleetStays, pointer' = pointer
    PROVE  Keeps /\ Shown /\ S!PointerStays /\ Given' \subseteq Given
<1>1. Keeps /\ Shown
  BY DEF FleetStays, Keeps, Shown
<1> QED BY <1>1, GivenKept, ShownStays

LEMMA BootShows ==
    ASSUME IInv, IInv', FleetStays, NEW v \in Vms, Boot(v)
    PROVE  S!Next
<1>1. PICK readable \in BOOLEAN :
        LET c == [cp[v] EXCEPT !.boot = "up", !.read = None]
            work == IF readable /\ cp[v].read # None THEN cp[v].read.work ELSE {}
        IN  /\ cp' = [cp EXCEPT ![v] =
                 IF HasLedger(v) THEN c
                 ELSE [Becomes(c, work) EXCEPT !.polling = TRUE]]
            /\ IF readable THEN UNCHANGED trouble ELSE Fault
  BY DEF Boot
<1> DEFINE c == [cp[v] EXCEPT !.boot = "up", !.read = None]
           work == IF readable /\ cp[v].read # None THEN cp[v].read.work ELSE {}
           d == [Becomes(c, work) EXCEPT !.polling = TRUE]
<1>2. vm' = [vm EXCEPT ![v] = vm[v]] /\ vm[v] \notin {"unused", "gone"} /\ pointer' = pointer
  BY ProcessIs DEF Boot, Live
<1>3. cp' = [cp EXCEPT ![v] = IF HasLedger(v) THEN c ELSE d]
  BY <1>1
<1> HIDE DEF work
<1>4. d.gen = cp[v].gen /\ d.phase = "active" /\ d.auth = cp[v].auth /\ Same3(c, cp[v])
  BY ProcessIs DEF Process, Becomes, Same3
<1> HIDE DEF c, d
<1>5. CASE HasLedger(v)
  <2>1. cp' = [cp EXCEPT ![v] = c]
    BY <1>3, <1>5
  <2> QED BY <1>2, <1>4, <2>1, ProcessFades
<1>6. CASE ~HasLedger(v)
  <2>1. cp' = [cp EXCEPT ![v] = d]
    BY <1>3, <1>6
  <2>2. Gens' = Gens /\ Ages' = [Ages EXCEPT ![v] = Ages'[v]] /\ Rights' = Rights
    BY <1>2, <1>4, <2>1, OneShows
  <2>3. Ages[v] = "none" /\ Ages'[v] = "ready"
    <3>1. cp'[v] = d /\ vm'[v] = vm[v]
      BY <1>2, <2>1, ProcessIs
    <3> QED BY <1>2, <1>4, <1>6, <3>1, StageIs, StageWas DEF HasLedger, Ages
  <2>4. S!StandsBy(v)
    BY <1>2, <2>2, <2>3, FleetKeeps, Zenon DEF S!StandsBy, S!Becomes, Gens, Ages, Rights
  <2> QED BY <1>2, <2>4, FleetKeeps, StepNext
<1> QED BY <1>5, <1>6

LEMMA PollShows ==
    ASSUME IInv, IInv', FleetStays, NEW v \in Vms, Poll(v)
    PROVE  S!Next
<1> DEFINE d == Granted(cp[v])
<1>1. /\ cp' = [cp EXCEPT ![v] = d] /\ vm' = [vm EXCEPT ![v] = vm[v]] /\ vm[v] = "running"
      /\ pointer' = pointer /\ pointer.vm = v /\ cp[v].phase # "neutral"
  BY ProcessIs DEF Poll, Quiet
<1>2. d.gen = cp[v].gen /\ d.phase = cp[v].phase /\ d.auth
  BY ProcessIs DEF Process, Granted
<1> HIDE DEF d
<1>3. Gens' = Gens /\ Ages' = [Ages EXCEPT ![v] = Ages'[v]] /\ Rights' = Rights \cup {v}
  BY <1>1, <1>2, OneShows
<1>4. Ages' = Ages /\ Ages[v] # "none"
  <2>1. cp'[v] = d /\ vm'[v] = vm[v]
    BY <1>1, ProcessIs
  <2>2. Stage(v)' = Stage(v)
    BY <1>2, <2>1 DEF Stage
  <2>3. Ages'[v] = Stage(v)' /\ Ages[v] = Stage(v) /\ Ages = [w \in Vms |-> Ages[w]]
    BY DEF Ages
  <2>4. Stage(v) # "none"
    BY <1>1, StageIs, ProcessIs DEF Process
  <2> QED BY <1>3, <2>2, <2>3, <2>4
<1>5. S!Entitled(v)
  BY <1>1, <1>3, <1>4, FleetKeeps, Zenon DEF S!Entitled, Gens, Ages, Rights
<1> QED BY <1>1, <1>5, FleetKeeps, StepNext

LEMMA LeaseOverShows ==
    ASSUME IInv, IInv', FleetStays, NEW v \in Vms, LeaseOver(v)
    PROVE  S!Next
<1> DEFINE d == [cp[v] EXCEPT !.phase = "active", !.asked = TRUE]
<1>1. cp' = [cp EXCEPT ![v] = d]
  BY ProcessIs, Zenon DEF LeaseOver
<1>2. /\ vm' = [vm EXCEPT ![v] = vm[v]] /\ vm[v] = "running" /\ pointer' = pointer
      /\ cp[v].phase = "handing-over"
  BY ProcessIs DEF LeaseOver
<1>3. d.gen = cp[v].gen /\ d.phase = "active" /\ d.auth = cp[v].auth
  BY ProcessIs DEF Process
<1> HIDE DEF d
<1>4. Gens' = Gens /\ Ages' = [Ages EXCEPT ![v] = Ages'[v]] /\ Rights' = Rights
  BY <1>1, <1>2, <1>3, OneShows
<1>5. Ages[v] = "handing over" /\ Ages'[v] = "ready"
  <2>1. cp'[v] = d /\ vm'[v] = vm[v]
    BY <1>1, <1>2, ProcessIs
  <2> QED BY <1>2, <1>3, <2>1, StageIs, StageWas DEF Ages
<1>6. S!CarriesOn(v)
  BY <1>2, <1>4, <1>5, FleetKeeps, Zenon DEF S!CarriesOn, S!Becomes, Gens, Ages, Rights
<1> QED BY <1>2, <1>6, FleetKeeps, StepNext

LEMMA LeaseAnswerShows ==
    ASSUME IInv, IInv', FleetStays, NEW v \in Vms, LeaseAnswer(v)
    PROVE  S!Next
<1> DEFINE c == [cp[v] EXCEPT !.asked = FALSE]
           e == [c EXCEPT !.phase = "handing-over"]
           f == [c EXCEPT !.phase = "drained", !.clients = FALSE]
<1>1. vm[v] = "running" /\ pointer' = pointer
  BY DEF LeaseAnswer
<1>2. Same3(c, cp[v])
  BY ProcessIs DEF Process, Same3
<1>3. e.gen = cp[v].gen /\ e.phase = "handing-over" /\ e.auth = cp[v].auth
  BY ProcessIs DEF Process
<1>4. f.gen = cp[v].gen /\ f.phase = "drained" /\ f.auth = cp[v].auth
  BY ProcessIs DEF Process
<1>5. \/ /\ UNCHANGED vm
         /\ cp' = [cp EXCEPT ![v] = IF Active(v) THEN e ELSE c]
      \/ Killed({v})
      \/ /\ Superseded(v) /\ Active(v) /\ UNCHANGED vm
         /\ cp' = [cp EXCEPT ![v] = Drains(c)]
      \/ cp' = [cp EXCEPT ![v] = c] /\ UNCHANGED vm
  BY Zenon DEF LeaseAnswer
<1>6. Active(v) => Drains(c) = f
  BY <1>2 DEF Active, Drains, Same3
<1> HIDE DEF c, e, f
<1>7. UNCHANGED vm => vm' = [vm EXCEPT ![v] = vm[v]]
  BY ProcessIs
<1>8. CASE Killed({v})
  BY <1>1, <1>8, KilledFades, FleetKeeps, Fades
<1>9. CASE cp' = [cp EXCEPT ![v] = c] /\ UNCHANGED vm
  BY <1>1, <1>2, <1>7, <1>9, ProcessFades
<1>10. CASE Active(v) /\ UNCHANGED vm /\ cp' = [cp EXCEPT ![v] = e]
  <2>1. Gens' = Gens /\ Ages' = [Ages EXCEPT ![v] = Ages'[v]] /\ Rights' = Rights
    BY <1>3, <1>7, <1>10, OneShows
  <2>2. Ages[v] = "ready" /\ Ages'[v] = "handing over"
    <3>1. cp'[v] = e /\ vm'[v] = vm[v]
      BY <1>10, ProcessIs
    <3> QED BY <1>1, <1>3, <1>10, <3>1, StageIs, StageWas DEF Ages, Active
  <2>3. S!HandsOver(v)
    BY <1>1, <2>1, <2>2, FleetKeeps, Zenon DEF S!HandsOver, S!Becomes, Gens, Ages, Rights
  <2>4. Given' \subseteq Given \cup {v}
    BY <1>1, FleetKeeps
  <2> QED BY <2>3, <2>4, Zenon DEF S!Next, Given
<1>11. CASE /\ Superseded(v) /\ Active(v) /\ UNCHANGED vm
            /\ cp' = [cp EXCEPT ![v] = Drains(c)]
  <2>0. cp' = [cp EXCEPT ![v] = f]
    BY <1>6, <1>11
  <2>1. Gens' = Gens /\ Ages' = [Ages EXCEPT ![v] = Ages'[v]] /\ Rights' = Rights
    BY <1>4, <1>7, <1>11, <2>0, OneShows
  <2>2. Ages'[v] = "retired" /\ v # pointer.vm
    <3>1. cp'[v] = f /\ vm'[v] = vm[v]
      BY <1>11, <2>0, ProcessIs
    <3> QED BY <1>1, <1>4, <1>11, <3>1, StageWas DEF Superseded
  <2>3. S!Retires(v)
    BY <1>1, <2>1, <2>2, FleetKeeps, Zenon DEF S!Retires, S!Becomes, Gens, Ages, Rights
  <2> QED BY <1>1, <2>3, FleetKeeps, StepNext
<1>12. CASE UNCHANGED vm /\ cp' = [cp EXCEPT ![v] = IF Active(v) THEN e ELSE c]
  <2>1. CASE Active(v)
    BY <1>10, <1>12, <2>1
  <2>2. CASE ~Active(v)
    BY <1>9, <1>12, <2>2
  <2> QED BY <2>1, <2>2
<1> QED BY <1>5, <1>8, <1>9, <1>11, <1>12

LEMMA ProcessShows ==
    ASSUME IInv, IInv', FleetStays, ProcessNext
    PROVE  S!Next
<1>1. PICK v \in Vms :
        \/ ProcessStep(v)
        \/ Connect(v) \/ Leave(v) \/ Job(v)
        \/ WriteFails(v) \/ Suspend(v) \/ Lost(v)
  BY DEF ProcessNext
<1>2. CASE Lost(v)
  <2>1. pointer' = pointer /\ Killed({v})
    BY <1>2 DEF Lost
  <2> QED BY <2>1, KilledFades, FleetKeeps, Fades
<1> QED BY <1>1, <1>2, QuietFades, BootShows, PollShows, LeaseOverShows, LeaseAnswerShows
        DEF ProcessStep

\* What the runs do that nobody sees.
LEMMA RunKeeps ==
    ASSUME IInv, NEW r \in Runs, NEW q, run' = [run EXCEPT ![r] = q],
           q.ledger # None => run[r].ledger # None /\ q.old = run[r].old
    PROVE  Keeps
BY RunIs DEF Keeps

LEMMA GotoKeeps ==
    ASSUME IInv, NEW r \in Runs, NEW pc \in Lines, Goto(r, pc)
    PROVE  Keeps
<1>1. Same(AtLine(r, pc), r, pc) /\ run' = [run EXCEPT ![r] = AtLine(r, pc)]
  BY GotoFacts
<1> QED BY <1>1, RunKeeps DEF Same

LEMMA EndKeeps ==
    ASSUME IInv, NEW r \in Runs, End(r)
    PROVE  Keeps
<1>1. run' = [run EXCEPT ![r] = NoRun] /\ NoRun.ledger = None
  BY DEF End, NoRun
<1> QED BY <1>1, RunKeeps

LEMMA PointerShown ==
    ASSUME UNCHANGED <<pointer, undone>>
    PROVE  Shown
BY DEF Shown

LEMMA StartsFades ==
    ASSUME IInv, IInv', NEW r \in Runs, Invoke(r) \/ Heal(r) \/ Hourly(r)
    PROVE  S!Next
<1>1. PICK scheduled \in BOOLEAN : Starts(r, scheduled)
  BY DEF Invoke, Heal, Hourly
<1>2. UNCHANGED <<vm, cp>> /\ UNCHANGED <<pointer, undone>>
  BY DEF Invoke, Heal, Hourly, PlatformStays, Unbound
<1> DEFINE q == [NoRun EXCEPT !.pc = FirstWork(pointer), !.scheduled = scheduled,
                   !.base = pointer, !.old = pointer.retiring,
                   !.after = IF FirstWork(pointer) = "drain" THEN "reread" ELSE "end"]
<1>3. run' = [run EXCEPT ![r] = q]
  BY <1>1, Zenon DEF Starts
<1>4. q.ledger = None
  BY DEF NoRun
<1> HIDE DEF q
<1> QED BY <1>2, <1>3, <1>4, RunKeeps, PointerShown, RunFades

\* A run that has no ledger yet, or drops none.
LEMMA RereadFades ==
    ASSUME IInv, IInv', NEW r \in Runs, Reread(r)
    PROVE  S!Next
<1> DEFINE q == [run[r] EXCEPT !.base = pointer, !.old = None, !.after = "end",
                   !.pc = IF pointer.pending # None THEN "repair" ELSE "choose"]
<1>1. run' = [run EXCEPT ![r] = q]
  BY RunIs, Zenon DEF Reread
<1>2. q.ledger = run[r].ledger
  BY RunIs DEF Invocation
<1> HIDE DEF q
<1>3. run[r].ledger = None
  BY RunIs DEF Reread, At, Replaces, Raised, Named, Retiring
<1> QED BY <1>1, <1>2, <1>3, RunKeeps, PointerShown, RunFades DEF Reread, PlatformStays

LEMMA RepairFades ==
    ASSUME IInv, IInv', NEW r \in Runs, Repair(r)
    PROVE  S!Next
<1> DEFINE p == run[r].base
           s == p.pending
           q == [run[r] EXCEPT !.pc = "promote", !.vm = s.vm, !.gen = s.gen,
                   !.old = p.vm, !.after = "repaired"]
<1>1. \/ End(r)
      \/ \E pc \in Lines : Goto(r, pc)
      \/ run' = [run EXCEPT ![r].pc = "promote", ![r].vm = s.vm, ![r].gen = s.gen,
                   ![r].old = p.vm, ![r].after = "repaired"]
  BY Zenon DEF Repair, Lines
<1>2. CASE run' = [run EXCEPT ![r].pc = "promote", ![r].vm = s.vm, ![r].gen = s.gen,
                     ![r].old = p.vm, ![r].after = "repaired"]
  <2>1. run' = [run EXCEPT ![r] = q]
    BY <1>2, RunIs, Zenon
  <2>2. q.ledger = run[r].ledger
    BY RunIs DEF Invocation
  <2> HIDE DEF q
  <2>3. run[r].ledger = None
    BY RunIs DEF Repair, At, Replaces, Raised, Named, Retiring
  <2>4. Keeps
    BY <2>1, <2>2, <2>3, RunKeeps
  <2> QED BY <2>4, PointerShown, RunFades DEF Repair, PlatformStays
<1>3. CASE End(r) \/ \E pc \in Lines : Goto(r, pc)
  <2>1. Keeps
    BY <1>3, EndKeeps, GotoKeeps
  <2> QED BY <2>1, PointerShown, RunFades DEF Repair, PlatformStays
<1> QED BY <1>1, <1>2, <1>3

LEMMA ChooseFades ==
    ASSUME IInv, IInv', NEW r \in Runs, Choose(r)
    PROVE  S!Next
<1> DEFINE p == IF run[r].base.pending # None THEN pointer ELSE run[r].base
           s == IF p.vm # None /\ Live(p.vm) THEN p.vm ELSE None
           q == [run[r] EXCEPT !.pc = "launch", !.base = p, !.gen = p.gen + 1, !.old = s]
<1>1. CASE End(r)
  BY <1>1, EndKeeps, PointerShown, RunFades DEF Choose, PlatformStays
<1>2. CASE run' = [run EXCEPT ![r].pc = "launch", ![r].base = p,
                     ![r].gen = p.gen + 1,
                     ![r].old = IF p.vm # None /\ Live(p.vm) THEN p.vm ELSE None]
  <2>1. run' = [run EXCEPT ![r] = q]
    BY <1>2, RunIs, Zenon
  <2> HIDE DEF p, s
  <2>2. q.ledger = run[r].ledger
    BY RunIs DEF Invocation
  <2> HIDE DEF q
  <2>3. run[r].ledger = None
    BY RunIs DEF Choose, At, Replaces, Raised, Named, Retiring
  <2> QED BY <2>1, <2>2, <2>3, RunKeeps, PointerShown, RunFades DEF Choose, PlatformStays
<1> QED BY <1>1, <1>2 DEF Choose

LEMMA RereadsFades ==
    ASSUME IInv, IInv', NEW r \in Runs, Unpend(r) \/ Clear(r)
    PROVE  S!Next
<1>1. PICK pc \in Lines : run' = [run EXCEPT ![r].pc = pc, ![r].base = pointer]
  BY DEF Unpend, Clear, Lines
<1> DEFINE q == [run[r] EXCEPT !.pc = pc, !.base = pointer]
<1>2. run' = [run EXCEPT ![r] = q]
  BY <1>1, RunIs, Zenon
<1>3. q.ledger = run[r].ledger /\ q.old = run[r].old
  BY RunIs DEF Invocation
<1> HIDE DEF q
<1>4. Keeps
  BY <1>2, <1>3, RunKeeps
<1> QED BY <1>4, PointerShown, RunFades DEF Unpend, Clear, PlatformStays

LEMMA CallsFade ==
    ASSUME IInv, IInv', NEW r \in Runs,
           HandoverAnswered(r) \/ HandoverUnanswered(r) \/ GiveUpHandover(r) \/ Die(r)
    PROVE  S!Next
<1>1. End(r) \/ \E pc \in Lines : Goto(r, pc)
  BY DEF HandoverAnswered, HandoverUnanswered, GiveUpHandover, Die, Lines
<1>2. Keeps
  BY <1>1, EndKeeps, GotoKeeps
<1>3. UNCHANGED <<vm, cp>> /\ UNCHANGED <<pointer, undone>>
  BY DEF HandoverAnswered, HandoverUnanswered, GiveUpHandover, Die, PlatformStays
<1> QED BY <1>2, <1>3, PointerShown, RunFades

\* Somebody is terminated, or the call fails.
LEMMA KillsFade ==
    ASSUME IInv, IInv', NEW r \in Runs, RollBack(r) \/ Wait(r) \/ Promote(r) \/ Kill(r)
    PROVE  S!Next
<1>1. End(r) \/ \E pc \in Lines : Goto(r, pc)
  <2>1. Wait(r) => Goto(r, IF run[r].old = None THEN "promote" ELSE "handover")
                   \/ Goto(r, "unpend")
    BY DEF Wait
  <2> QED BY <2>1 DEF RollBack, Promote, Kill, Lines
<1>2. Keeps
  BY <1>1, EndKeeps, GotoKeeps
<1>3. \/ UNCHANGED <<vm, cp>>
      \/ \E w : TerminateQuietly(w)
      \/ \E w : Killed({w})
  BY DEF RollBack, Wait, Promote, Kill
<1>4. \A v \in Vms : Fading(v)
  BY <1>3, StillFades, TerminatedFades, KilledFades
<1>5. UNCHANGED <<pointer, undone>>
  BY DEF RollBack, Wait, Promote, Kill
<1> QED BY <1>2, <1>4, <1>5, PointerShown, Fades

LEMMA DownPassFades ==
    ASSUME IInv, IInv', DownPass
    PROVE  S!Next
<1>1. Killed(Vms) /\ UNCHANGED <<pointer, undone>> /\ run' = run
  BY DEF DownPass
<1>2. Keeps
  BY <1>1 DEF Keeps
<1> QED BY <1>1, <1>2, KilledFades, PointerShown, Fades

LEMMA TimeFades ==
    ASSUME IInv, IInv', UpStart \/ DownStart \/ Settle \/ Age
    PROVE  S!Next
<1>1. UNCHANGED <<vm, cp>> /\ run' = run /\ undone' = undone
  BY DEF UpStart, DownStart, Settle, Age, PlatformStays, Operation
<1>2. pointer \in Record
  BY TypesAre DEF IInv
<1>3. pointer'.vm = pointer.vm /\ pointer'.gen = pointer.gen
  <2>1. CASE Settle
    <3>1. pointer' = [pointer EXCEPT !.recent = FALSE]
      BY <2>1 DEF Settle
    <3> QED BY <1>2, <3>1 DEF Record
  <2>2. CASE Age
    <3> DEFINE d == [pointer.pending EXCEPT !.young = FALSE]
    <3>1. pointer' = [pointer EXCEPT !.pending = d]
      BY <1>2, <2>2, Zenon DEF Age
    <3> HIDE DEF d
    <3> QED BY <1>2, <3>1 DEF Record
  <2>3. CASE UpStart \/ DownStart
    BY <2>3 DEF UpStart, DownStart
  <2> QED BY <2>1, <2>2, <2>3
<1>4. Keeps /\ Shown
  BY <1>1, <1>3 DEF Keeps, Shown
<1> QED BY <1>1, <1>4, RunFades

LEMMA NextHourFades ==
    ASSUME IInv, IInv', NextHour
    PROVE  S!Next
<1>1. /\ cp' = [v \in Vms |-> [cp[v] EXCEPT !.token = FALSE]] /\ vm' = vm /\ run' = run
      /\ UNCHANGED <<pointer, undone>>
  BY DEF NextHour
<1>2. ASSUME NEW v \in Vms PROVE Fading(v)
  <2>1. cp'[v] = [cp[v] EXCEPT !.token = FALSE] /\ cp[v] \in Process
    BY <1>1, ProcessIs
  <2>2. cp'[v].gen = cp[v].gen /\ cp'[v].phase = cp[v].phase /\ cp'[v].auth = cp[v].auth
    BY <2>1 DEF Process
  <2>3. Stage(v)' = Stage(v)
    BY <1>1, <2>2 DEF Stage
  <2> QED BY <2>2, <2>3 DEF Fading
<1>3. Keeps
  BY <1>1 DEF Keeps
<1> QED BY <1>1, <1>2, <1>3, PointerShown, Fades

\* The calls of a rotation.
LEMMA CallHandoverShows ==
    ASSUME IInv, IInv', NEW r \in Runs, CallHandover(r)
    PROVE  S!Next
<1> DEFINE v == run[r].old
           d == HandsOver(cp[v])
           q == [run[r] EXCEPT !.pc = "handed", !.ledger = LedgerOf(v)]
<1>1. v \in Vms
  BY RunIs DEF CallHandover, At, Replaces
<1>2. /\ UNCHANGED <<pointer, undone>> /\ MayHandOver(v)
      /\ vm' = [vm EXCEPT ![v] = "running"] /\ vm[v] \in {"running", "suspended"}
  BY DEF CallHandover, Wakes, ServingState
<1>3. cp' = [cp EXCEPT ![v] = d]
  BY <1>1, ProcessIs DEF CallHandover
<1>4. d.gen = cp[v].gen /\ d.phase = "handing-over" /\ d.auth = cp[v].auth
  BY <1>1, ProcessIs DEF Process, HandsOver
<1>5. run' = [run EXCEPT ![r] = q]
  BY RunIs, Zenon DEF CallHandover
<1>6. q.old = v
  BY RunIs DEF Invocation
<1> HIDE DEF d, q
<1>7. Given' \subseteq Given \cup {v}
  <2>1. \A s \in Runs : run'[s] = IF s = r THEN q ELSE run[s]
    BY <1>5, RunIs
  <2> QED BY <1>6, <2>1 DEF Given
<1> HIDE DEF v
<1>8. Gens' = Gens /\ Ages' = [Ages EXCEPT ![v] = Ages'[v]] /\ Rights' = Rights
  BY <1>1, <1>2, <1>3, <1>4, OneShows
<1>9. Ages[v] \in {"ready", "handing over"} /\ Ages'[v] = "handing over"
  <2>1. cp'[v] = d /\ vm'[v] = "running"
    BY <1>1, <1>2, <1>3, ProcessIs
  <2>2. cp[v].phase \in {"active", "handing-over"}
    BY <1>1, <1>2, ProcessIs DEF MayHandOver, HasLedger, Process
  <2> QED BY <1>1, <1>2, <1>4, <2>1, <2>2, StageIs, StageWas DEF Ages
<1>10. S!HandsOver(v)
  BY <1>2, <1>8, <1>9, PointerShown, ShownStays, Zenon
     DEF S!HandsOver, S!Becomes, Gens, Ages, Rights
<1> QED BY <1>1, <1>7, <1>10, Zenon DEF S!Next, Given

LEMMA AdoptShows ==
    ASSUME IInv, IInv', NEW r \in Runs, run[r].pc = "adopt",
           NEW v \in Vms, v = run[r].vm, Wakes(v), Keeps,
           cp' = [cp EXCEPT ![v] = Adopts(@, run[r].ledger)],
           UNCHANGED <<pointer, undone>>
    PROVE  S!Next
<1> DEFINE l == run[r].ledger
           d == [Granted(Becomes(cp[v], l.work)) EXCEPT !.adopted = TRUE, !.clients = FALSE]
<1>1. /\ l # None /\ run[r].old \in Vms /\ l.gen = cp[run[r].old].gen
      /\ run[r].base \in Record /\ run[r].base.gen < run[r].gen /\ cp[v].gen = run[r].gen
      /\ ~undone => pointer.gen = run[r].base.gen
  BY RunIs DEF Knows, Named, Replaces, Replacing, Agrees
<1>2. vm' = [vm EXCEPT ![v] = "running"] /\ vm[v] \in {"running", "suspended"}
  BY DEF Wakes, ServingState
<1>3. cp' = [cp EXCEPT ![v] = Adopts(cp[v], l)]
  BY <1>1, ProcessIs
<1>4. CASE AdoptRefused(cp[v], l) \/ AdoptRepeated(cp[v])
  <2>1. cp' = [cp EXCEPT ![v] = cp[v]]
    BY <1>3, <1>4 DEF Adopts
  <2>2. \A w \in Vms : Fading(w)
    BY <1>1, <1>2, <2>1, OneFades
  <2> QED BY <2>2, PointerShown, Fades
<1>5. CASE ~(AdoptRefused(cp[v], l) \/ AdoptRepeated(cp[v]))
  <2>1. cp' = [cp EXCEPT ![v] = d]
    BY <1>3, <1>5 DEF Adopts
  <2>2. d.gen = cp[v].gen /\ d.phase = "active" /\ d.auth
    BY <1>1, ProcessIs DEF Process, Granted, Becomes
  <2> HIDE DEF d
  <2>3. Gens' = Gens /\ Ages' = [Ages EXCEPT ![v] = Ages'[v]] /\ Rights' = Rights \cup {v}
    BY <1>1, <1>2, <2>1, <2>2, OneShows
  <2>4. Ages'[v] = "ready"
    <3>1. cp'[v] = d /\ vm'[v] = "running"
      BY <1>1, <1>2, <2>1, ProcessIs
    <3> QED BY <1>1, <2>2, <3>1, StageWas
  <2>5. \E u \in Given : Gens[u] <= Gens[v]
    <3>1. run[r].old \in Given
      BY <1>1 DEF Given
    <3>2. Gens[run[r].old] = l.gen /\ Gens[v] = cp[v].gen
      BY <1>1 DEF Gens
    <3>3. l.gen \in Nat /\ cp[v].gen \in Nat
      BY <1>1, ProcessIs DEF Process
    <3> QED BY <1>5, <3>1, <3>2, <3>3 DEF AdoptRefused
  <2>6. ~undone => Ages[v] # "retired"
    <3> SUFFICES ASSUME ~undone, Ages[v] = "retired" PROVE FALSE
      OBVIOUS
    <3>1. cp[v].phase = "drained"
      BY <1>1, StageIs, ProcessIs DEF Ages, Process
    <3>2. cp[v].gen < pointer.gen
      BY <1>1, <3>1 DEF IInv, Orderly
    <3>3. cp[v].gen \in Nat /\ pointer.gen \in Nat
      BY <1>1, ProcessIs, TypesAre DEF Process, IInv, Record
    <3> QED BY <1>1, <3>2, <3>3
  <2>7. S!Succeeds(v)
    BY <2>3, <2>4, <2>5, <2>6, PointerShown, ShownStays, Zenon
       DEF S!Succeeds, S!Becomes, Gens, Ages, Rights, Given
  <2> QED BY <1>1, <2>7, GivenKept, StepNext
<1> QED BY <1>4, <1>5

LEMMA AdoptsShow ==
    ASSUME IInv, IInv', NEW r \in Runs, CallAdopt(r) \/ AdoptUnanswered(r)
    PROVE  S!Next
<1>1. Keeps
  <2>1. CASE CallAdopt(r)
    BY <2>1, GotoKeeps DEF CallAdopt, Lines
  <2>2. CASE AdoptUnanswered(r)
    BY <2>2 DEF AdoptUnanswered, Keeps
  <2> QED BY <2>1, <2>2
<1>2. /\ run[r].pc = "adopt" /\ Wakes(run[r].vm) /\ UNCHANGED <<pointer, undone>>
      /\ cp' = [cp EXCEPT ![run[r].vm] = Adopts(@, run[r].ledger)]
  BY DEF CallAdopt, AdoptUnanswered, At
<1>3. PICK v \in Vms : v = run[r].vm
  BY <1>2, RunIs DEF Knows, Named
<1> QED BY <1>1, <1>2, <1>3, AdoptShows

LEMMA CallDrainShows ==
    ASSUME IInv, IInv', NEW r \in Runs, CallDrain(r)
    PROVE  S!Next
<1> DEFINE v == run[r].old
<1>1. v \in Vms /\ run[r].pc = "drain" /\ UNCHANGED <<pointer, undone>>
  BY RunIs DEF CallDrain, At, Replaces
<1>2. Keeps
  BY GotoKeeps DEF CallDrain, Lines
<1>3. CASE UNCHANGED <<vm, cp>>
  BY <1>1, <1>2, <1>3, PointerShown, RunFades
<1>4. CASE Wakes(v) /\ cp' = [cp EXCEPT ![v] = Drains(@)]
  <2>1. vm' = [vm EXCEPT ![v] = "running"] /\ vm[v] \in {"running", "suspended"}
    BY <1>4 DEF Wakes, ServingState
  <2>2. cp' = [cp EXCEPT ![v] = Drains(cp[v])]
    BY <1>1, <1>4, ProcessIs
  <2>3. CASE cp[v].phase = "neutral"
    <3>1. cp' = [cp EXCEPT ![v] = cp[v]]
      BY <2>2, <2>3 DEF Drains
    <3>2. \A w \in Vms : Fading(w)
      BY <1>1, <2>1, <3>1, OneFades
    <3> QED BY <1>1, <1>2, <3>2, PointerShown, Fades
  <2>4. CASE cp[v].phase # "neutral"
    <3> DEFINE d == [cp[v] EXCEPT !.phase = "drained", !.clients = FALSE]
    <3>1. cp' = [cp EXCEPT ![v] = d]
      BY <2>2, <2>4 DEF Drains
    <3>2. d.gen = cp[v].gen /\ d.phase = "drained" /\ d.auth = cp[v].auth
      BY <1>1, ProcessIs DEF Process
    <3> HIDE DEF d
    <3>3. Gens' = Gens /\ Ages' = [Ages EXCEPT ![v] = Ages'[v]] /\ Rights' = Rights
      BY <1>1, <2>1, <3>1, <3>2, OneShows
    <3>4. Ages'[v] = "retired"
      <4>1. cp'[v] = d /\ vm'[v] = "running"
        BY <1>1, <2>1, <3>1, ProcessIs
      <4> QED BY <1>1, <3>2, <4>1, StageWas
    <3>5. ~undone => v # pointer.vm
      <4> SUFFICES ASSUME ~undone, v = pointer.vm PROVE FALSE
        OBVIOUS
      <4>1. v # None
        BY <1>1, ControlPlaneAssumption
      <4>2. pointer.retiring = IF run[r].after = "end" THEN None ELSE v
        BY <1>1, RunIs DEF Agrees, Retiring
      <4>3. run[r].after # "end"
        BY <1>1, <2>1, RunIs DEF Replaces, Retiring, LiveIn
      <4>4. cp[v].gen < pointer.gen /\ cp[v].gen = pointer.gen
        BY <4>1, <4>2, <4>3 DEF IInv, Seen
      <4>5. cp[v].gen \in Nat
        BY <1>1, ProcessIs DEF Process
      <4> QED BY <4>4, <4>5
    <3>6. S!Retires(v)
      BY <1>1, <3>3, <3>4, <3>5, PointerShown, ShownStays, Zenon
         DEF S!Retires, S!Becomes, Gens, Ages, Rights
    <3> QED BY <1>1, <1>2, <3>6, GivenKept, StepNext
  <2> QED BY <2>3, <2>4
<1> QED BY <1>3, <1>4 DEF CallDrain

LEMMA LaunchShows ==
    ASSUME IInv, IInv', NEW r \in Runs, Launch(r)
    PROVE  S!Next
<1> DEFINE gen == run[r].gen
           alive == {v \in Replayed(gen) : Live(v)}
<1>1. run[r].pc = "launch" /\ gen \in Nat /\ UNCHANGED <<pointer, undone>>
  BY RunIs DEF Launch, At, Invocation
<1>2. ASSUME NEW v, run' = [run EXCEPT ![r].pc = "record", ![r].vm = v]
      PROVE  Keeps
  <2> DEFINE q == [run[r] EXCEPT !.pc = "record", !.vm = v]
  <2>1. run' = [run EXCEPT ![r] = q]
    BY <1>2, RunIs, Zenon
  <2>2. q.old = run[r].old /\ q.ledger = run[r].ledger
    BY RunIs DEF Invocation
  <2> HIDE DEF q
  <2> QED BY <2>1, <2>2, RunKeeps
<1>3. CASE /\ UNCHANGED <<vm, cp>>
           /\ \/ \E v \in alive : run' = [run EXCEPT ![r].pc = "record", ![r].vm = v]
              \/ Goto(r, "unpend")
              \/ End(r)
  <2>1. Keeps
    <3>1. CASE Goto(r, "unpend")
      BY <3>1, GotoKeeps DEF Lines
    <3>2. CASE End(r)
      BY <3>2, EndKeeps
    <3> QED BY <1>2, <1>3, <3>1, <3>2
  <2> QED BY <1>1, <1>3, <2>1, PointerShown, RunFades
<1>4. CASE /\ Unused # {}
           /\ vm' = [vm EXCEPT ![NextVm] = "pending"]
           /\ cp' = [cp EXCEPT ![NextVm].gen = gen, ![NextVm].token = TRUE]
           /\ run' = [run EXCEPT ![r].pc = "record", ![r].vm = NextVm]
  <2>0. PICK v \in Vms : v = NextVm
    BY <1>4, NextIs
  <2> DEFINE d == [cp[v] EXCEPT !.gen = gen, !.token = TRUE]
  <2>1. vm[v] = "unused"
    BY <1>4, <2>0, NextIs
  <2>2. /\ vm' = [vm EXCEPT ![v] = "pending"]
        /\ run' = [run EXCEPT ![r].pc = "record", ![r].vm = v]
        /\ cp' = [cp EXCEPT ![v].gen = gen, ![v].token = TRUE]
    BY <1>4, <2>0
  <2>3. cp' = [cp EXCEPT ![v] = d]
    BY <2>1, <2>2, ProcessIs, Zenon
  <2>4. d.gen = gen /\ d.phase = cp[v].phase /\ d.auth = cp[v].auth /\ cp[v].phase = "neutral"
    <3>1. cp[v] \in Process /\ cp[v].phase = "neutral"
      BY <2>1, ProcessIs DEF Quiet
    <3> QED BY <3>1 DEF Process
  <2> HIDE DEF d
  <2>5. Ages' = [Ages EXCEPT ![v] = Ages'[v]] /\ Rights' = Rights
    BY <2>1, <2>2, <2>3, <2>4, OneAges
  <2>6. Ages[v] = "none" /\ Ages' = Ages
    <3>1. cp'[v] = d /\ vm'[v] = "pending"
      BY <2>1, <2>2, <2>3, ProcessIs
    <3>2. Ages[v] = "none" /\ Ages'[v] = "none"
      BY <2>1, <2>4, <3>1, StageIs, StageWas DEF Ages
    <3>3. Ages = [w \in Vms |-> Ages[w]]
      BY DEF Ages
    <3> QED BY <2>5, <3>2, <3>3
  <2>7. Gens' = [Gens EXCEPT ![v] = Gens'[v]] /\ Gens'[v] = gen
    <3>1. \A w \in Vms : cp'[w] = IF w = v THEN d ELSE cp[w]
      BY <2>1, <2>3, ProcessIs
    <3>2. \A w \in Vms : Gens'[w] = cp'[w].gen /\ Gens[w] = cp[w].gen
      BY DEF Gens
    <3>3. Gens = [w \in Vms |-> Gens[w]] /\ Gens' = [w \in Vms |-> Gens'[w]]
      BY DEF Gens
    <3> QED BY <2>1, <2>4, <3>1, <3>2, <3>3
  <2>8. ~undone => gen > pointer.gen
    <3>1. run[r].base.gen < gen /\ (~undone => pointer.gen = run[r].base.gen)
      BY <1>1, RunIs DEF Knows, Agrees, Replacing
    <3>2. pointer.gen \in Nat
      BY TypesAre DEF IInv, Record
    <3> QED BY <1>1, <3>1, <3>2
  <2>9. S!Launches(v)
    <3>1. Gens'[v] \in Nat /\ (~undone => Gens'[v] > pointer.gen)
      BY <1>1, <2>7, <2>8
    <3> QED BY <1>1, <2>5, <2>6, <2>7, <3>1, PointerShown, ShownStays, Zenon
            DEF S!Launches, Gens, Ages, Rights
  <2>10. Given' \subseteq Given
    BY <1>2, <2>2, GivenKept
  <2> QED BY <2>1, <2>9, <2>10, StepNext
<1> QED BY <1>3, <1>4 DEF Launch

\* Writes of the pointer.
LEMMA StillMoves ==
    ASSUME UNCHANGED <<vm, cp>>, Keeps,
           ~undone' => /\ ~undone
                       /\ \/ pointer'.vm = None /\ pointer'.gen = pointer.gen
                          \/ /\ pointer'.vm \in Vms
                             /\ Ages[pointer'.vm] # "retired"
                             /\ pointer'.gen = Gens[pointer'.vm] /\ pointer'.gen > pointer.gen
    PROVE  S!Next
<1>0. \A v \in Vms : Stage(v)' = Stage(v)
  BY DEF Stage
<1>1. Gens' = Gens /\ Ages' = Ages /\ Rights' = Rights
  BY <1>0 DEF Gens, Ages, Rights
<1>2. S!PointerMoves
  BY <1>1, Zenon DEF S!PointerMoves, Gens, Ages, Rights
<1>3. Given' \subseteq Given
  BY GivenKept
<1> QED BY <1>2, <1>3, Zenon DEF S!Next, Given

\* Whom it names and for which generation stays as it was, if no write is undone.
LEMMA WritesShow ==
    ASSUME IInv, IInv', UNCHANGED <<vm, cp>>, Keeps,
           NEW s \in Record, NEW p, Write(s, p), p.vm = s.vm, p.gen = s.gen
    PROVE  S!Next
<1>1. undone \in BOOLEAN /\ undone' \in BOOLEAN
  BY WriteIs, TypesAre DEF IInv
<1>2. CASE undone'
  BY <1>2, StillMoves
<1>3. CASE ~undone'
  <2>1. ~undone /\ pointer'.vm = pointer.vm /\ pointer'.gen = pointer.gen
    BY <1>3, WriteIs
  <2>2. Shown
    BY <1>1, <1>3, <2>1 DEF Shown
  <2> QED BY <2>2, RunFades
<1> QED BY <1>2, <1>3

LEMMA RunWritesShow ==
    ASSUME IInv, IInv', NEW r \in Runs,
           RecordPending(r) \/ Forget(r) \/ UnpendWrite(r) \/ ClearWrite(r)
    PROVE  S!Next
<1> DEFINE b == run[r].base
<1>1. UNCHANGED <<vm, cp>> /\ b \in Record
  <2>1. run[r].pc # "idle"
    BY DEF RecordPending, Forget, UnpendWrite, ClearWrite, At
  <2> QED BY <2>1, RunIs
          DEF Knows, RecordPending, Forget, UnpendWrite, ClearWrite, PlatformStays
<1>2. CASE RecordPending(r)
  <2> DEFINE p == Recorded(b, run[r].vm, run[r].gen)
             q == [run[r] EXCEPT !.pc = "wait", !.base = p]
  <2>1. Write(b, p) /\ run' = [run EXCEPT ![r] = q]
    BY <1>2, RunIs, Zenon DEF RecordPending
  <2>2. p.vm = b.vm /\ p.gen = b.gen
    BY <1>1 DEF Recorded, Record
  <2>3. q.ledger = run[r].ledger /\ q.old = run[r].old
    BY RunIs DEF Invocation
  <2> HIDE DEF p, q
  <2> QED BY <1>1, <2>1, <2>2, <2>3, RunKeeps, WritesShow
<1>3. CASE Forget(r) \/ UnpendWrite(r)
  <2> DEFINE p == [b EXCEPT !.pending = None]
  <2>1. Write(b, p) /\ Keeps
    BY <1>3, GotoKeeps, EndKeeps DEF Forget, UnpendWrite, Lines
  <2>2. p.vm = b.vm /\ p.gen = b.gen
    BY <1>1 DEF Record
  <2> HIDE DEF p
  <2> QED BY <1>1, <2>1, <2>2, WritesShow
<1>4. CASE ClearWrite(r)
  <2> DEFINE p == [b EXCEPT !.retiring = None]
  <2>1. Write(b, p) /\ Keeps
    BY <1>4, GotoKeeps, EndKeeps DEF ClearWrite, Lines
  <2>2. p.vm = b.vm /\ p.gen = b.gen
    BY <1>1 DEF Record
  <2> HIDE DEF p
  <2> QED BY <1>1, <2>1, <2>2, WritesShow
<1> QED BY <1>2, <1>3, <1>4

LEMMA OperatorShows ==
    ASSUME IInv, IInv', UpWrite \/ DownWrite
    PROVE  S!Next
<1> DEFINE b == op.base
<1>1. UNCHANGED <<vm, cp>> /\ Keeps
  BY DEF UpWrite, DownWrite, PlatformStays, Keeps
<1>2. b \in Record
  BY TypesAre DEF UpWrite, DownWrite, IInv, Script
<1>3. CASE UpWrite
  <2> DEFINE p == [b EXCEPT !.on = TRUE, !.recent = TRUE]
  <2>1. Write(b, p)
    BY <1>3 DEF UpWrite
  <2>2. p.vm = b.vm /\ p.gen = b.gen
    BY <1>2 DEF Record
  <2> HIDE DEF p
  <2> QED BY <1>1, <1>2, <2>1, <2>2, WritesShow
<1>4. CASE DownWrite
  <2> DEFINE p == [b EXCEPT !.on = FALSE, !.vm = None, !.recent = TRUE]
  <2>1. Write(b, p)
    BY <1>4 DEF DownWrite
  <2>2. p.vm = None /\ p.gen = b.gen
    BY <1>2 DEF Record
  <2> HIDE DEF p
  <2>3. ~undone' => ~undone /\ pointer'.vm = None /\ pointer'.gen = pointer.gen
    BY <1>2, <2>1, <2>2, WriteIs
  <2> QED BY <1>1, <2>3, StillMoves
<1> QED BY <1>3, <1>4

LEMMA FlipShows ==
    ASSUME IInv, IInv', NEW r \in Runs, Flip(r)
    PROVE  S!Next
<1> DEFINE b == run[r].base
           o == run[r].old
           ret == IF run[r].after = "repaired" THEN None ELSE o
           p == Flipped(b, run[r].vm, run[r].gen, ret)
           q == [run[r] EXCEPT !.pc = "drain",
                   !.after = IF run[r].after = "repaired" THEN "end" ELSE "clear"]
<1>1. UNCHANGED <<vm, cp>> /\ Write(b, p) /\ run[r].pc = "flip"
  BY DEF Flip, PlatformStays, At
<1>2. /\ b \in Record /\ b.gen < run[r].gen /\ run[r].gen \in Nat
      /\ run[r].vm \in Vms /\ cp[run[r].vm].gen = run[r].gen
  BY <1>1, RunIs DEF Knows, Replacing, Raised, Named, Invocation
<1>3. PICK v \in Vms : v = run[r].vm
  BY <1>2
<1>4. p.vm = v /\ p.gen = run[r].gen
  BY <1>2, <1>3 DEF Flipped, Record
<1> HIDE DEF p, ret
<1>5. Keeps
  <2>1. CASE End(r)
    BY <2>1, EndKeeps
  <2>2. CASE run' = [run EXCEPT ![r].pc = "drain",
                       ![r].after = IF @ = "repaired" THEN "end" ELSE "clear"]
    <3>1. run' = [run EXCEPT ![r] = q]
      BY <2>2, RunIs, Zenon
    <3>2. q.ledger = run[r].ledger /\ q.old = run[r].old
      BY RunIs DEF Invocation
    <3> HIDE DEF q
    <3> QED BY <3>1, <3>2, RunKeeps
  <2> QED BY <2>1, <2>2 DEF Flip
<1>6. ASSUME ~undone'
      PROVE  /\ ~undone /\ pointer'.vm = v /\ Ages[v] # "retired"
             /\ pointer'.gen = Gens[v] /\ pointer'.gen > pointer.gen
  <2>1. pointer' = p /\ ~undone /\ Orderly /\ pointer.gen = b.gen
    BY <1>1, <1>2, <1>6, WriteIs
  <2>2. pointer'.gen = run[r].gen /\ pointer.gen < run[r].gen /\ pointer.gen \in Nat
    BY <1>2, <1>4, <2>1 DEF Record
  <2>3. cp[v].phase # "drained"
    BY <1>2, <1>3, <2>1, <2>2 DEF Orderly
  <2>4. Ages[v] # "retired"
    BY <2>3, StageIs, ProcessIs DEF Ages, Process
  <2> QED BY <1>2, <1>3, <1>4, <2>1, <2>2, <2>4 DEF Gens
<1> QED BY <1>1, <1>5, <1>6, StillMoves

LEMMA InitShows ==
    ASSUME Init
    PROVE  S!Init
<1>1. 1 \in Vms /\ None \notin Vms
  BY FirstIs, ControlPlaneAssumption
<1>2. pointer.vm = 1 /\ pointer.gen = 1 /\ undone = FALSE
  BY DEF Init
<1> DEFINE up == [NotBooted EXCEPT !.gen = 1, !.boot = "up", !.phase = "active", !.auth = TRUE]
<1>3. /\ up.gen = 1 /\ up.phase = "active" /\ up.auth
      /\ NotBooted.gen = 0 /\ NotBooted.phase = "neutral" /\ ~NotBooted.auth
  BY DEF NotBooted
<1>4. cp = [v \in Vms |-> IF v = 1 THEN up ELSE NotBooted]
  BY DEF Init
<1>5. vm = [v \in Vms |-> IF v = 1 THEN "running" ELSE "unused"]
  BY DEF Init
<1> HIDE DEF up
<1>6. Gens = [v \in Vms |-> IF v = 1 THEN 1 ELSE 0]
  BY <1>3, <1>4 DEF Gens
<1>7. Ages = [v \in Vms |-> IF v = 1 THEN "ready" ELSE "none"]
  <2>1. IInv
    BY InitHolds
  <2>2. \A v \in Vms : Ages[v] = IF v = 1 THEN "ready" ELSE "none"
    BY <1>3, <1>4, <1>5, <2>1, StageIs DEF Ages
  <2>3. Ages = [v \in Vms |-> Ages[v]]
    BY DEF Ages
  <2> QED BY <2>2, <2>3
<1>8. Rights = {1}
  BY <1>1, <1>3, <1>4 DEF Rights
<1>9. Given = {}
  <2>1. run = [r \in Runs |-> NoRun] /\ NoRun.ledger = None
    BY DEF Init, NoRun
  <2> QED BY <2>1 DEF Given
<1>10. /\ pointer.gen \in Nat \ {0} /\ pointer.vm \in Vms
       /\ Ages = [v \in Vms |-> IF v = pointer.vm THEN "ready" ELSE "none"]
       /\ Gens = [v \in Vms |-> IF v = pointer.vm THEN pointer.gen ELSE 0]
       /\ Rights = {pointer.vm} /\ (~undone) = TRUE
  BY <1>1, <1>2, <1>6, <1>7, <1>8
<1> QED BY <1>9, <1>10, Zenon DEF S!Init, Gens, Ages, Rights, Given

LEMMA RunStepShows ==
    ASSUME IInv, IInv', NEW r \in Runs, RunStep(r)
    PROVE  S!Next
BY RereadFades, RepairFades, KillsFade, RunWritesShow, ChooseFades, LaunchShows, RereadsFades,
   CallHandoverShows, CallsFade, AdoptsShow, FlipShows, CallDrainShows DEF RunStep

LEMMA NextShows ==
    ASSUME IInv, IInv', Next
    PROVE  S!Next
<1>1. CASE ProcessNext /\ UNCHANGED <<run, op, rule, rotations, lost, undone>>
  BY <1>1, ProcessShows DEF FleetStays
<1>2. ASSUME NEW r \in Runs,
             \/ Invoke(r) \/ Heal(r) \/ Hourly(r) \/ RunStep(r)
             \/ HandoverUnanswered(r) \/ AdoptUnanswered(r) \/ Die(r)
      PROVE  S!Next
  BY <1>2, StartsFades, RunStepShows, CallsFade, AdoptsShow
<1>3. CASE OperatorStep
  BY <1>3, OperatorShows, DownPassFades DEF OperatorStep
<1>4. CASE UpStart \/ DownStart \/ Settle \/ Age
  BY <1>4, TimeFades
<1>5. CASE NextHour
  BY <1>5, NextHourFades
<1> QED BY <1>1, <1>2, <1>3, <1>4, <1>5 DEF Next

LEMMA StutterShows ==
    ASSUME UNCHANGED vars
    PROVE  UNCHANGED S!succession
<1>1. UNCHANGED <<pointer, vm, cp, run, undone>>
  BY DEF vars, cpVars
<1>2. \A v \in Vms : Stage(v)' = Stage(v)
  BY <1>1 DEF Stage
<1>3. Gens' = Gens /\ Ages' = Ages /\ Rights' = Rights /\ Given' = Given
  BY <1>1, <1>2 DEF Gens, Ages, Rights, Given
<1> QED BY <1>1, <1>3, Zenon DEF S!succession, Gens, Ages, Rights, Given

(* The runs, calls, timers, crashes and writes of the fleet do what the    *)
(* succession allows, and nothing else (ImplementsSuccession).             *)
THEOREM Implements ==
    ASSUME MaxOverlap = 1
    PROVE  Spec => ImplementsSuccession
<1>1. Init => S!Init
  BY InitShows
<1>2. IInv /\ IInv' /\ [Next]_vars => [S!Next]_(S!succession)
  BY NextShows, StutterShows
<1> QED BY <1>1, <1>2, Invariance, PTL DEF Spec, ImplementsSuccession, S!Spec

(* So the control plane the pointer names has not let its clients go, and  *)
(* the generation named never goes back, while no write undoes another.    *)
THEOREM NamedServesHere ==
    ASSUME MaxOverlap = 1
    PROVE  Spec => []S!NamedNotRetired /\ S!TermGrows
BY Implements, NamedServes, GenerationGrows DEF ImplementsSuccession
-----------------------------------------------------------------------------
(* What a handover keeps, while nothing went wrong.                        *)

\* What a step of the processes leaves of v, unless the pointer has superseded it.
Spared(v) ==
    /\ vm'[v] = "unused" => vm[v] = "unused"
    /\ cp'[v].adopted => cp[v].adopted
    /\ ~Superseded(v) =>
        /\ vm[v] \in {"running", "suspended"} => vm'[v] \in {"running", "suspended"}
        /\ LiveIn(vm, v) => LiveIn(vm', v)
        /\ cp[v].phase # "neutral" =>
              cp'[v].phase # "neutral" /\ cp[v].work \subseteq cp'[v].work

\* A run that is served by nobody the pointer has superseded.
LEMMA NotSuperseded ==
    ASSUME IInv, ~undone, NEW r \in Runs, run[r].pc \in Raised
    PROVE  /\ run[r].vm \in Vms /\ ~Superseded(run[r].vm)
           /\ run[r].old # None => run[r].old \in Vms /\ ~Superseded(run[r].old)
<1> DEFINE q == run[r]
<1>1. /\ q.pc \in Named /\ q.pc \in Replacing /\ q.pc # "idle"
  BY DEF Raised, Replacing, Named
<1>2. /\ q.vm # None /\ q.vm \in Vms /\ q.base # None /\ q.base \in Record
      /\ q.old # None => q.old \in Vms
      /\ cp[q.vm].gen = q.gen /\ q.base.gen < q.gen /\ q.old \in {None, q.base.vm}
      /\ Seen(q.base, vm, cp)
  BY <1>1, RunKnows DEF Knows
<1>3. pointer.gen = q.base.gen /\ pointer.vm \in {None, q.base.vm}
  BY <1>1, RunIs DEF Agrees
<1>4. q.base.gen \in Nat /\ q.gen \in Nat
  BY <1>2, IsRun DEF Record, Invocation
<1>5. ~Superseded(q.vm)
  BY <1>2, <1>3, <1>4 DEF Superseded
<1>6. q.old # None => ~Superseded(q.old)
  BY <1>2, <1>3 DEF Superseded
<1> QED BY <1>2, <1>5, <1>6

LEMMA CarriesStays ==
    ASSUME IInv, ~undone, \A v \in Vms : Spared(v), NEW r \in Runs,
           Carries(run[r], vm, cp)
    PROVE  Carries(run[r], vm', cp')
<1> DEFINE q == run[r]
<1>1. q.pc \in {"record", "wait", "handover", "handed", "adopt"} => q.vm \in Vms
  BY RunKnows DEF Knows, Named
<1>2. q.pc \in {"record", "wait", "handover", "handed", "adopt"} => ~cp'[q.vm].adopted
  BY <1>1 DEF Spared, Carries
<1>3. q.pc \in {"handover", "handed", "adopt", "promote", "flip"} =>
        q.vm \in Vms /\ ~Superseded(q.vm)
  BY NotSuperseded DEF Raised, Named
<1>4. q.pc \in {"handover", "handed", "adopt"} => vm'[q.vm] \in {"running", "suspended"}
  BY <1>3 DEF Spared, Carries
<1>5. q.pc = "handed" => LiveIn(vm', q.old)
  <2> SUFFICES ASSUME q.pc = "handed" PROVE LiveIn(vm', q.old)
    OBVIOUS
  <2>1. q.old # None
    BY RunIs DEF Replaces
  <2>2. q.old \in Vms /\ ~Superseded(q.old)
    BY <2>1, NotSuperseded DEF Raised, Named
  <2> QED BY <2>2 DEF Spared, Carries
<1>6. q.pc \in {"promote", "flip"} /\ q.ledger # None =>
          /\ LiveIn(vm', q.vm) /\ cp'[q.vm].phase # "neutral"
          /\ q.ledger.work \subseteq cp'[q.vm].work
  BY <1>3 DEF Spared, Carries
<1> QED BY <1>2, <1>4, <1>5, <1>6 DEF Carries

\* The processes take a step, and the runs, the scripts and the pointer do not.
LEMMA SparedUntroubled ==
    ASSUME IInv, Untroubled, trouble = 0, UNCHANGED <<run, op, undone, lost, pointer>>,
           \A v \in Vms : Spared(v)
    PROVE  Untroubled'
<1>1. ~undone /\ \A r \in Runs : Carries(run[r], vm', cp')
  BY CarriesStays DEF Untroubled
<1>2. \A v \in Vms : vm'[v] = "unused" => ~cp'[v].adopted
  BY DEF Spared, Untroubled
<1> QED BY <1>1, <1>2 DEF Untroubled

LEMMA OneSpared ==
    ASSUME IInv, NEW w \in Vms, NEW s, NEW d,
           vm' = [vm EXCEPT ![w] = s], cp' = [cp EXCEPT ![w] = d],
           s = vm[w] \/ (vm[w] \notin {"unused", "gone"} /\ s \in {"running", "suspended"}),
           d.adopted => cp[w].adopted,
           cp[w].phase # "neutral" => d.phase # "neutral" /\ cp[w].work \subseteq d.work
    PROVE  \A v \in Vms : Spared(v)
<1> SUFFICES ASSUME NEW v \in Vms PROVE Spared(v)
  OBVIOUS
<1>1. CASE v # w
  <2>1. vm'[v] = vm[v] /\ cp'[v] = cp[v]
    BY <1>1, ProcessIs
  <2> QED BY <2>1 DEF Spared, LiveIn
<1>2. CASE v = w
  <2>1. vm'[v] = s /\ cp'[v] = d
    BY <1>2, ProcessIs
  <2> QED BY <1>2, <2>1 DEF Spared, LiveIn
<1> QED BY <1>1, <1>2

\* Nothing went wrong in a step that leaves nothing wrong.
LEMMA NoFault ==
    ASSUME IInv, trouble' = 0
    PROVE  ~Fault
<1>1. trouble \in Nat
  BY ControlPlaneAssumption DEF IInv, TypeOK, TypeOKcp
<1> QED BY <1>1 DEF Fault

LEMMA ProcessSpared ==
    ASSUME IInv, trouble' = 0, NEW v \in Vms,
           \/ Run(v) \/ Running(v) \/ Poll(v) \/ SnapshotTimer(v) \/ WriteLatest(v)
           \/ LeaseOver(v) \/ Connect(v) \/ Leave(v) \/ Job(v)
    PROVE  \A w \in Vms : Spared(w)
<1> DEFINE d == cp'[v]
           s == vm'[v]
<1>1. cp[v] \in Process /\ vm \in [Vms -> States] /\ cp \in [Vms -> Process]
  BY ProcessIs
<1>2. vm' = [vm EXCEPT ![v] = s] /\ cp' = [cp EXCEPT ![v] = d]
  BY <1>1 DEF Run, Running, Poll, SnapshotTimer, WriteLatest, LeaseOver, Connect, Leave,
              Job, Wakes
<1>3. s = vm[v] \/ (vm[v] \notin {"unused", "gone"} /\ s \in {"running", "suspended"})
  BY <1>1 DEF Run, Running, Poll, SnapshotTimer, WriteLatest, LeaseOver, Connect, Leave,
              Job, Wakes, ServingState
<1>4. /\ d.adopted = cp[v].adopted /\ cp[v].work \subseteq d.work
      /\ cp[v].phase # "neutral" => d.phase # "neutral"
  <2>1. CASE Run(v)
    BY <1>1, <2>1 DEF Run, Process
  <2>2. CASE Running(v)
    BY <1>1, <2>2 DEF Running
  <2>3. CASE Poll(v)
    BY <1>1, <2>3 DEF Poll, Granted, Process
  <2>4. CASE SnapshotTimer(v)
    BY <1>1, <2>4 DEF SnapshotTimer, Process
  <2>5. CASE WriteLatest(v)
    BY <1>1, <2>5 DEF WriteLatest, Process
  <2>6. CASE LeaseOver(v)
    BY <1>1, <2>6 DEF LeaseOver, Process
  <2>7. CASE Connect(v) \/ Leave(v)
    BY <1>1, <2>7 DEF Connect, Leave, Process
  <2>8. CASE Job(v)
    BY <1>1, <2>8 DEF Job, Process
  <2> QED BY <2>1, <2>2, <2>3, <2>4, <2>5, <2>6, <2>7, <2>8
<1> HIDE DEF d, s
<1> QED BY <1>2, <1>3, <1>4, OneSpared

LEMMA BootSpared ==
    ASSUME IInv, trouble' = 0, NEW v \in Vms, Boot(v)
    PROVE  \A w \in Vms : Spared(w)
<1>1. PICK readable \in BOOLEAN :
        LET c == [cp[v] EXCEPT !.boot = "up", !.read = None]
            work == IF readable /\ cp[v].read # None THEN cp[v].read.work ELSE {}
        IN  cp' = [cp EXCEPT ![v] =
                 IF HasLedger(v) THEN c
                 ELSE [Becomes(c, work) EXCEPT !.polling = TRUE]]
  BY DEF Boot
<1> DEFINE c == [cp[v] EXCEPT !.boot = "up", !.read = None]
           work == IF readable /\ cp[v].read # None THEN cp[v].read.work ELSE {}
           d == IF HasLedger(v) THEN c ELSE [Becomes(c, work) EXCEPT !.polling = TRUE]
<1>2. cp' = [cp EXCEPT ![v] = d] /\ vm' = [vm EXCEPT ![v] = vm[v]]
  BY <1>1, ProcessIs DEF Boot
<1> HIDE DEF work
<1>3. /\ d.adopted = cp[v].adopted
      /\ cp[v].phase # "neutral" => d.phase # "neutral" /\ cp[v].work = d.work
  BY ProcessIs DEF Process, Becomes, HasLedger
<1> HIDE DEF d
<1> QED BY <1>2, <1>3, OneSpared

LEMMA SuspendSpared ==
    ASSUME IInv, NEW v \in Vms, Suspend(v)
    PROVE  \A w \in Vms : Spared(w)
<1>1. vm' = [vm EXCEPT ![v] = "suspended"] /\ vm[v] = "running"
  BY DEF Suspend
<1>2. PICK d : /\ cp' = [cp EXCEPT ![v] = d] /\ d.adopted = cp[v].adopted
               /\ d.phase = cp[v].phase /\ d.work = cp[v].work
  <2>1. CASE HookMayWrite(v)
    <3> DEFINE d == [cp[v] EXCEPT !.written = LedgerOf(v)]
    <3>1. cp' = [cp EXCEPT ![v] = d]
      BY <2>1, ProcessIs, Zenon DEF Suspend
    <3>2. d.adopted = cp[v].adopted /\ d.phase = cp[v].phase /\ d.work = cp[v].work
      BY ProcessIs DEF Process
    <3> QED BY <3>1, <3>2
  <2>2. CASE ~HookMayWrite(v)
    <3>1. cp' = [cp EXCEPT ![v] = cp[v]]
      BY <2>2, ProcessIs DEF Suspend
    <3> QED BY <3>1
  <2> QED BY <2>1, <2>2
<1> QED BY <1>1, <1>2, OneSpared

LEMMA LeaseAnswerSpared ==
    ASSUME IInv, trouble' = 0, NEW v \in Vms, LeaseAnswer(v)
    PROVE  \A w \in Vms : Spared(w)
<1> DEFINE c == [cp[v] EXCEPT !.asked = FALSE]
<1>0. ~Fault
  BY NoFault
<1>1. CASE Superseded(v) /\ Killed({v})
  <2> SUFFICES ASSUME NEW w \in Vms PROVE Spared(w)
    OBVIOUS
  <2>1. \/ vm'[w] = vm[w] /\ cp'[w] = cp[w]
        \/ w = v /\ vm'[w] = "gone" /\ cp'[w] = Ended(cp[w])
    BY <1>1 DEF Killed
  <2>2. ~Ended(cp[w]).adopted
    BY DEF Ended, NotBooted
  <2> QED BY <1>1, <2>1, <2>2 DEF Spared, LiveIn
<1>2. CASE cp' = [cp EXCEPT ![v] = c] /\ UNCHANGED vm
  <2>1. vm' = [vm EXCEPT ![v] = vm[v]]
    BY <1>2, ProcessIs
  <2>2. c.adopted = cp[v].adopted /\ c.phase = cp[v].phase /\ c.work = cp[v].work
    BY ProcessIs DEF Process
  <2> HIDE DEF c
  <2> QED BY <1>2, <2>1, <2>2, OneSpared
<1> QED BY <1>0, <1>1, <1>2 DEF LeaseAnswer

LEMMA ProcessUntroubled ==
    ASSUME IInv, Untroubled, trouble' = 0, FleetStays, ProcessNext
    PROVE  Untroubled'
<1>1. PICK v \in Vms :
        \/ ProcessStep(v)
        \/ Connect(v) \/ Leave(v) \/ Job(v)
        \/ WriteFails(v) \/ Suspend(v) \/ Lost(v)
  BY DEF ProcessNext
<1>2. ~WriteFails(v) /\ ~Lost(v)
  BY NoFault DEF WriteFails, Lost
<1>3. \A w \in Vms : Spared(w)
  BY <1>1, <1>2, ProcessSpared, BootSpared, SuspendSpared, LeaseAnswerSpared DEF ProcessStep
<1>4. pointer' = pointer /\ trouble = 0
  <2>1. trouble \in Nat
    BY ControlPlaneAssumption DEF IInv, TypeOK, TypeOKcp
  <2>2. trouble' = trouble
    BY <1>1, <1>2, NoFault DEF ProcessStep, Run, Running, Boot, Poll, SnapshotTimer, WriteLatest,
           LeaseOver, LeaseAnswer, Connect, Leave, Job, Suspend
  <2>3. pointer' = pointer
    BY <1>1, <1>2 DEF ProcessStep, Run, Running, Boot, Poll, SnapshotTimer, WriteLatest,
           LeaseOver, LeaseAnswer, Connect, Leave, Job, Suspend
  <2> QED BY <2>2, <2>3
<1> QED BY <1>3, <1>4, SparedUntroubled DEF FleetStays

-----------------------------------------------------------------------------
\* A run becomes q, and says so.
LEMMA RunUntroubled ==
    ASSUME IInv, Untroubled, trouble = 0, UNCHANGED <<op, lost>>, ~undone',
           NEW r \in Runs, Alone(r), NEW q, run' = [run EXCEPT ![r] = q],
           \A v \in Vms : vm'[v] = "unused" => ~cp'[v].adopted,
           UpToDate(q, pointer'), Carries(q, vm', cp')
    PROVE  Untroubled'
<1>1. \A s \in Runs : run'[s] = IF s = r THEN q ELSE NoRun
  BY RunIs DEF Alone
<1>2. UpToDate(NoRun, pointer') /\ Carries(NoRun, vm', cp')
  BY DEF UpToDate, Carries, NoRun, Rereads
<1>3. \A s \in Runs : UpToDate(run'[s], pointer') /\ Carries(run'[s], vm', cp')
  BY <1>1, <1>2
<1> QED BY <1>3 DEF Untroubled

\* Lines at which nothing is in anybody's hands.
Early == Lines \ ({"record"} \cup Named)

LEMMA EarlyCarries ==
    ASSUME NEW q, q.pc \in Early, NEW m, NEW c
    PROVE  Carries(q, m, c)
BY DEF Early, Lines, Named, Carries

\* The platform leaves what was never launched alone.
LEMMA KilledUnused ==
    ASSUME IInv, Untroubled, trouble = 0, NEW K, Killed(K)
    PROVE  \A v \in Vms : vm'[v] = "unused" => ~cp'[v].adopted
BY DEF Killed, Untroubled

LEMMA TerminatedUnused ==
    ASSUME IInv, Untroubled, trouble = 0, trouble' = 0, NEW w, TerminateQuietly(w)
    PROVE  /\ \A v \in Vms : vm'[v] = "unused" => ~cp'[v].adopted
           /\ lost' = lost
BY KilledUnused, NoFault DEF TerminateQuietly

\* Nothing happens but that a run goes on or ends.
LEMMA GoesUntroubled ==
    ASSUME IInv, Untroubled, trouble = 0, UNCHANGED <<vm, cp, op, lost, undone>>,
           NEW r \in Runs, Alone(r), NEW q, run' = [run EXCEPT ![r] = q],
           UpToDate(q, pointer'), Carries(q, vm, cp)
    PROVE  Untroubled'
<1>1. ~undone' /\ \A v \in Vms : vm'[v] = "unused" => ~cp'[v].adopted
  BY DEF Untroubled
<1>2. Carries(q, vm', cp')
  OBVIOUS
<1> QED BY <1>1, <1>2, RunUntroubled

LEMMA NoRunCarries ==
    /\ \A p : UpToDate(NoRun, p)
    /\ \A m, c : Carries(NoRun, m, c)
BY DEF UpToDate, Carries, NoRun, Rereads

\* A run that writes what it last saw undoes nothing.
LEMMA WriteUntroubled ==
    ASSUME IInv, Untroubled, trouble = 0, NEW r \in Runs,
           run[r].pc \notin Rereads, run[r].pc # "choose", NEW p, Write(run[r].base, p)
    PROVE  pointer' = p /\ undone' = undone /\ ~undone'
<1>1. Timeless(pointer) = Timeless(run[r].base) /\ ~undone
  BY DEF Untroubled, UpToDate
<1>2. undone \in BOOLEAN /\ pointer' = p
  BY TypesAre DEF IInv, Write
<1>3. ~undone'
  BY <1>1 DEF Write
<1>4. undone' \in BOOLEAN
  BY DEF Write
<1> QED BY <1>1, <1>2, <1>3, <1>4

LEMMA StartsUntroubled ==
    ASSUME IInv, Untroubled, trouble = 0, MaxOverlap = 1, NEW r \in Runs,
           NEW scheduled \in BOOLEAN, Starts(r, scheduled), PlatformStays,
           UNCHANGED <<pointer, undone, op, lost>>
    PROVE  Untroubled'
<1> DEFINE q == [NoRun EXCEPT !.pc = FirstWork(pointer), !.scheduled = scheduled,
                   !.base = pointer, !.old = pointer.retiring,
                   !.after = IF FirstWork(pointer) = "drain" THEN "reread" ELSE "end"]
<1>1. Alone(r) /\ run' = [run EXCEPT ![r] = q]
  BY NobodyRuns DEF Starts
<1>2. q.pc \in {"drain", "repair", "choose"} /\ q.base = pointer
  BY DEF NoRun, FirstWork
<1> HIDE DEF q
<1>3. UpToDate(q, pointer')
  BY <1>2 DEF UpToDate, Rereads
<1>4. Carries(q, vm, cp)
  BY <1>2, EarlyCarries DEF Early, Lines, Named
<1> QED BY <1>1, <1>3, <1>4, GoesUntroubled DEF PlatformStays

\* The steps of a run that look again at the pointer.
LEMMA LooksUntroubled ==
    ASSUME IInv, Untroubled, trouble = 0, NEW r \in Runs,
           Reread(r) \/ Unpend(r) \/ Clear(r)
    PROVE  Untroubled'
<1>1. Alone(r) /\ UNCHANGED <<vm, cp, op, lost, undone, pointer>>
  BY AloneIs DEF Reread, Unpend, Clear, At, PlatformStays, OthersStay
<1>2. PICK q : /\ run' = [run EXCEPT ![r] = q] /\ q.base = pointer
               /\ q.pc \in {"repair", "choose", "unpend write", "clear write"}
  <2>1. CASE Reread(r)
    <3> DEFINE q == [run[r] EXCEPT !.base = pointer, !.old = None, !.after = "end",
                       !.pc = IF pointer.pending # None THEN "repair" ELSE "choose"]
    <3>1. run' = [run EXCEPT ![r] = q]
      BY <2>1, RunIs, Zenon DEF Reread
    <3>2. q.base = pointer /\ q.pc \in {"repair", "choose"}
      BY RunIs DEF Invocation
    <3> QED BY <3>1, <3>2
  <2>2. CASE Unpend(r)
    <3> DEFINE q == [run[r] EXCEPT !.pc = "unpend write", !.base = pointer]
    <3>1. run' = [run EXCEPT ![r] = q]
      BY <2>2, RunIs, Zenon DEF Unpend
    <3>2. q.base = pointer /\ q.pc = "unpend write"
      BY RunIs DEF Invocation
    <3> QED BY <3>1, <3>2
  <2>3. CASE Clear(r)
    <3> DEFINE q == [run[r] EXCEPT !.pc = "clear write", !.base = pointer]
    <3>1. run' = [run EXCEPT ![r] = q]
      BY <2>3, RunIs, Zenon DEF Clear
    <3>2. q.base = pointer /\ q.pc = "clear write"
      BY RunIs DEF Invocation
    <3> QED BY <3>1, <3>2
  <2> QED BY <2>1, <2>2, <2>3
<1>3. UpToDate(q, pointer')
  BY <1>1, <1>2 DEF UpToDate
<1>4. Carries(q, vm, cp)
  BY <1>2, EarlyCarries DEF Early, Lines, Named
<1> QED BY <1>1, <1>2, <1>3, <1>4, GoesUntroubled

\* A run that is left at an early line, or ends, while it writes nothing.
LEMMA EarlyUntroubled ==
    ASSUME IInv, Untroubled, trouble = 0, NEW r \in Runs, run[r].pc \notin Rereads \cup {"choose"},
           UNCHANGED <<op, lost, undone, pointer>>,
           \A v \in Vms : vm'[v] = "unused" => ~cp'[v].adopted,
           End(r) \/ \E pc \in Early : Goto(r, pc)
    PROVE  Untroubled'
<1>1. Alone(r) /\ ~undone'
  BY AloneIs DEF Rereads, Untroubled
<1>2. CASE End(r)
  BY <1>1, <1>2, RunUntroubled, NoRunCarries DEF End
<1>3. CASE \E pc \in Early : Goto(r, pc)
  <2>1. PICK pc \in Early : Goto(r, pc)
    BY <1>3
  <2> DEFINE q == AtLine(r, pc)
  <2>2. q.pc = pc /\ q.base = run[r].base /\ run' = [run EXCEPT ![r] = q]
    BY <2>1, GotoFacts DEF Same, Early
  <2> HIDE DEF q
  <2>3. Carries(q, vm', cp')
    BY <2>2, EarlyCarries
  <2>4. UpToDate(q, pointer')
    BY <2>2 DEF UpToDate, Untroubled
  <2> QED BY <1>1, <2>2, <2>3, <2>4, RunUntroubled
<1> QED BY <1>2, <1>3

LEMMA RepairUntroubled ==
    ASSUME IInv, Untroubled, trouble = 0, NEW r \in Runs, Repair(r)
    PROVE  Untroubled'
<1>1. /\ run[r].pc = "repair" /\ Alone(r) /\ UNCHANGED <<vm, cp, op, lost, undone, pointer>>
      /\ run[r].pc \notin Rereads \cup {"choose"}
  BY AloneIs DEF Repair, At, PlatformStays, OthersStay, Rereads
<1>2. CASE End(r) \/ Goto(r, "forget") \/ Goto(r, "roll back")
  <2>1. "forget" \in Early /\ "roll back" \in Early
    BY DEF Early, Lines, Named
  <2>2. \A v \in Vms : vm'[v] = "unused" => ~cp'[v].adopted
    BY <1>1 DEF Untroubled
  <2> QED BY <1>1, <1>2, <2>1, <2>2, EarlyUntroubled
<1>3. CASE \E p, s : run' = [run EXCEPT ![r].pc = "promote", ![r].vm = s.vm, ![r].gen = s.gen,
                                       ![r].old = p.vm, ![r].after = "repaired"]
  <2>1. PICK p, s : run' = [run EXCEPT ![r].pc = "promote", ![r].vm = s.vm, ![r].gen = s.gen,
                                       ![r].old = p.vm, ![r].after = "repaired"]
    BY <1>3
  <2> DEFINE q == [run[r] EXCEPT !.pc = "promote", !.vm = s.vm, !.gen = s.gen,
                     !.old = p.vm, !.after = "repaired"]
  <2>2. run' = [run EXCEPT ![r] = q]
    BY <2>1, RunIs, Zenon
  <2>3. q.pc = "promote" /\ q.base = run[r].base /\ q.ledger = run[r].ledger
    BY RunIs DEF Invocation
  <2>4. run[r].ledger = None
    BY <1>1, RunIs DEF Replaces, Raised, Named, Retiring
  <2> HIDE DEF q
  <2>5. Carries(q, vm, cp)
    BY <2>3, <2>4 DEF Carries
  <2>6. UpToDate(q, pointer')
    BY <1>1, <2>3 DEF UpToDate, Untroubled
  <2> QED BY <1>1, <2>2, <2>5, <2>6, GoesUntroubled
<1> QED BY <1>2, <1>3 DEF Repair

LEMMA RollBackUntroubled ==
    ASSUME IInv, Untroubled, trouble = 0, trouble' = 0, NEW r \in Runs, RollBack(r)
    PROVE  Untroubled'
<1>1. "forget" \in Early /\ run[r].pc \notin Rereads \cup {"choose"}
  BY DEF Early, Lines, Named, RollBack, At, Rereads
<1> QED BY <1>1, TerminatedUnused, EarlyUntroubled DEF RollBack, OthersStay

\* The writes of a run's record.
LEMMA ForgetUntroubled ==
    ASSUME IInv, Untroubled, trouble = 0, NEW r \in Runs, Forget(r)
    PROVE  Untroubled'
<1>1. Alone(r) /\ run[r].pc = "forget" /\ run[r].base.pending # None
  BY AloneIs, RunKnows DEF Forget, At, Knows, Repairing
<1>2. undone' = undone
  BY <1>1, WriteUntroubled DEF Forget, Rereads
<1>3. Goto(r, "choose") /\ "choose" \in Lines
  BY DEF Forget, Lines
<1> DEFINE q == AtLine(r, "choose")
<1>4. q.pc = "choose" /\ q.base = run[r].base /\ run' = [run EXCEPT ![r] = q]
  BY <1>3, GotoFacts DEF Same
<1> HIDE DEF q
<1>5. UpToDate(q, pointer') /\ Carries(q, vm, cp)
  BY <1>1, <1>4, EarlyCarries DEF UpToDate, Early, Lines, Named
<1> QED BY <1>1, <1>2, <1>4, <1>5, GoesUntroubled DEF Forget, PlatformStays, OthersStay

LEMMA UnpendWriteUntroubled ==
    ASSUME IInv, Untroubled, trouble = 0, NEW r \in Runs, UnpendWrite(r)
    PROVE  Untroubled'
<1>1. Alone(r) /\ run[r].pc = "unpend write"
  BY AloneIs DEF UnpendWrite, At
<1>2. undone' = undone
  BY <1>1, WriteUntroubled DEF UnpendWrite, Rereads
<1>3. run' = [run EXCEPT ![r] = NoRun]
  BY DEF UnpendWrite, End
<1> QED BY <1>1, <1>2, <1>3, NoRunCarries, GoesUntroubled DEF UnpendWrite, PlatformStays, OthersStay

LEMMA ClearWriteUntroubled ==
    ASSUME IInv, Untroubled, trouble = 0, NEW r \in Runs, ClearWrite(r)
    PROVE  Untroubled'
<1>1. Alone(r) /\ run[r].pc = "clear write"
  BY AloneIs DEF ClearWrite, At
<1>2. undone' = undone
  BY <1>1, WriteUntroubled DEF ClearWrite, Rereads
<1>3. CASE End(r)
  BY <1>1, <1>2, <1>3, NoRunCarries, GoesUntroubled DEF ClearWrite, End, PlatformStays, OthersStay
<1>4. CASE Goto(r, "reread")
  <2> DEFINE q == AtLine(r, "reread")
  <2>1. "reread" \in Lines
    BY DEF Lines
  <2>2. q.pc = "reread" /\ run' = [run EXCEPT ![r] = q]
    BY <1>4, <2>1, GotoFacts DEF Same
  <2> HIDE DEF q
  <2>3. UpToDate(q, pointer') /\ Carries(q, vm, cp)
    BY <2>2, EarlyCarries DEF UpToDate, Rereads, Early, Lines, Named
  <2> QED BY <1>1, <1>2, <2>2, <2>3, GoesUntroubled DEF ClearWrite, PlatformStays, OthersStay
<1> QED BY <1>3, <1>4 DEF ClearWrite

LEMMA RecordPendingUntroubled ==
    ASSUME IInv, Untroubled, trouble = 0, NEW r \in Runs, RecordPending(r)
    PROVE  Untroubled'
<1> DEFINE b == Recorded(run[r].base, run[r].vm, run[r].gen)
           q == [run[r] EXCEPT !.pc = "wait", !.base = b]
<1>1. Alone(r) /\ run[r].pc = "record"
  BY AloneIs DEF RecordPending, At
<1>2. undone' = undone /\ pointer' = b
  BY <1>1, WriteUntroubled DEF RecordPending, Rereads
<1>3. run' = [run EXCEPT ![r] = q]
  BY RunIs, Zenon DEF RecordPending
<1> HIDE DEF b
<1>4. q.pc = "wait" /\ q.base = b /\ q.vm = run[r].vm
  BY RunIs DEF Invocation
<1> HIDE DEF q
<1>5. UpToDate(q, pointer')
  BY <1>2, <1>4 DEF UpToDate
<1>6. Carries(q, vm, cp)
  BY <1>1, <1>4 DEF Carries, Untroubled
<1> QED BY <1>1, <1>2, <1>3, <1>5, <1>6, GoesUntroubled DEF RecordPending, PlatformStays, OthersStay

LEMMA FlipUntroubled ==
    ASSUME IInv, Untroubled, trouble = 0, NEW r \in Runs, Flip(r)
    PROVE  Untroubled'
<1>1. Alone(r) /\ run[r].pc = "flip"
  BY AloneIs DEF Flip, At
<1>2. undone' = undone
  BY <1>1, WriteUntroubled DEF Flip, Rereads
<1>3. CASE End(r)
  BY <1>1, <1>2, <1>3, NoRunCarries, GoesUntroubled DEF Flip, End, PlatformStays, OthersStay
<1>4. CASE run' = [run EXCEPT ![r].pc = "drain",
                          ![r].after = IF @ = "repaired" THEN "end" ELSE "clear"]
  <2> DEFINE q == [run[r] EXCEPT !.pc = "drain", !.after = IF @ = "repaired" THEN "end" ELSE "clear"]
  <2>1. run' = [run EXCEPT ![r] = q]
    BY <1>4, RunIs, Zenon
  <2>2. q.pc = "drain"
    BY RunIs DEF Invocation
  <2> HIDE DEF q
  <2>3. UpToDate(q, pointer') /\ Carries(q, vm, cp)
    BY <2>2, EarlyCarries DEF UpToDate, Rereads, Early, Lines, Named
  <2> QED BY <1>1, <1>2, <2>1, <2>3, GoesUntroubled DEF Flip, PlatformStays, OthersStay
<1> QED BY <1>3, <1>4 DEF Flip

LEMMA ChooseUntroubled ==
    ASSUME IInv, Untroubled, trouble = 0, NEW r \in Runs, Choose(r)
    PROVE  Untroubled'
<1> DEFINE p == IF run[r].base.pending # None THEN pointer ELSE run[r].base
<1>1. Alone(r) /\ run[r].pc = "choose" /\ UNCHANGED <<vm, cp, op, lost, undone, pointer>>
  BY AloneIs DEF Choose, At, PlatformStays, OthersStay
<1>2. Timeless(pointer) = Timeless(p)
  BY <1>1 DEF Untroubled, UpToDate, Rereads
<1>3. CASE End(r)
  BY <1>1, <1>3, NoRunCarries, GoesUntroubled DEF End
<1>4. CASE \E gen, old : run' = [run EXCEPT ![r].pc = "launch", ![r].base = p,
                                            ![r].gen = gen, ![r].old = old]
  <2>1. PICK gen, old : run' = [run EXCEPT ![r].pc = "launch", ![r].base = p,
                                            ![r].gen = gen, ![r].old = old]
    BY <1>4
  <2> HIDE DEF p
  <2> DEFINE q == [run[r] EXCEPT !.pc = "launch", !.base = p, !.gen = gen, !.old = old]
  <2>2. run' = [run EXCEPT ![r] = q]
    BY <2>1, RunIs, Zenon
  <2>3. q.pc = "launch" /\ q.base = p
    BY RunIs DEF Invocation
  <2> HIDE DEF q
  <2>4. UpToDate(q, pointer') /\ Carries(q, vm, cp)
    BY <1>1, <1>2, <2>3, EarlyCarries DEF UpToDate, Early, Lines, Named
  <2> QED BY <1>1, <2>2, <2>4, GoesUntroubled
<1> QED BY <1>3, <1>4, Zenon DEF Choose

\* Nobody is there of the generation a run launches.
LEMMA NobodyAhead ==
    ASSUME IInv, Untroubled, trouble = 0, NEW r \in Runs, run[r].pc = "launch",
           NEW v \in Vms, Live(v)
    PROVE  cp[v].gen # run[r].gen
<1>1. Alone(r) /\ ~undone /\ Orderly /\ lost = {} /\ op = NoOp
  BY AloneIs DEF IInv, Untroubled
<1>2. Agrees(run[r], pointer, vm, lost) /\ Knows(run[r], vm, cp, lost)
  BY <1>1, RunIs
<1>3. pointer.retiring = None /\ pointer.pending = None /\ pointer.gen = run[r].base.gen
      /\ run[r].base.gen < run[r].gen /\ run[r].base \in Record
  BY <1>2, RunKnows DEF Agrees, Knows, Replacing
<1>4. PICK x \in Vms \cup {None} : Leads(x, pointer, op, run, vm, lost)
  BY <1>1 DEF Orderly
<1>5. Beside(pointer, run) = {}
  <2>1. \A s \in Runs : run[s].pc # "record"
    BY <1>1 DEF Alone, NoRun
  <2> QED BY <1>3, <2>1 DEF Beside
<1>6. v = x /\ LiveIn(vm, v) /\ v # None
  BY <1>1, <1>4, <1>5, ControlPlaneAssumption DEF Leads, Live, LiveIn
<1>7. v = pointer.vm
  BY <1>1, <1>4, <1>6 DEF Leads, Sweeps, NoOp
<1>8. cp[v].gen = pointer.gen
  BY <1>6, <1>7 DEF IInv, Seen
<1>9. run[r].base.gen \in Nat /\ run[r].gen \in Nat
  BY <1>3, IsRun DEF Record, Invocation
<1> QED BY <1>3, <1>8, <1>9

LEMMA LaunchUntroubled ==
    ASSUME IInv, Untroubled, trouble = 0, trouble' = 0, NEW r \in Runs, Launch(r)
    PROVE  Untroubled'
<1> DEFINE gen == run[r].gen
           alive == {v \in Replayed(gen) : Live(v)}
<1>1. /\ Alone(r) /\ run[r].pc = "launch" /\ UNCHANGED <<op, lost, undone, pointer>>
      /\ run[r].pc \notin Rereads \cup {"choose"} /\ ~undone
  BY AloneIs DEF Launch, At, OthersStay, Rereads, Untroubled
<1>2. alive = {}
  BY <1>1, NobodyAhead DEF Replayed
<1>3. CASE /\ Unused # {}
           /\ vm' = [vm EXCEPT ![NextVm] = "pending"]
           /\ cp' = [cp EXCEPT ![NextVm].gen = gen, ![NextVm].token = TRUE]
           /\ run' = [run EXCEPT ![r].pc = "record", ![r].vm = NextVm]
  <2> DEFINE q == [run[r] EXCEPT !.pc = "record", !.vm = NextVm]
             d == [cp[NextVm] EXCEPT !.gen = gen, !.token = TRUE]
  <2>1. NextVm \in Vms /\ vm[NextVm] = "unused"
    BY <1>3, NextIs
  <2>2. run' = [run EXCEPT ![r] = q]
    BY <1>3, RunIs, Zenon
  <2>3. q.pc = "record" /\ q.vm = NextVm /\ q.base = run[r].base
    BY RunIs DEF Invocation
  <2>4. cp' = [cp EXCEPT ![NextVm] = d]
    BY <1>3, <2>1, ProcessIs, Zenon
  <2>5. d.adopted = cp[NextVm].adopted
    BY <2>1, ProcessIs DEF Process
  <2> HIDE DEF q, d
  <2>6. ~cp'[NextVm].adopted
    BY <2>1, <2>4, <2>5, ProcessIs DEF Untroubled
  <2>7. \A v \in Vms : vm'[v] = "unused" => ~cp'[v].adopted
    BY <1>3, <2>1, <2>4, ProcessIs DEF Untroubled
  <2>8. Carries(q, vm', cp')
    BY <2>3, <2>6 DEF Carries
  <2>9. UpToDate(q, pointer')
    BY <1>1, <2>3 DEF UpToDate, Untroubled
  <2> QED BY <1>1, <2>2, <2>7, <2>8, <2>9, RunUntroubled
<1>4. CASE Goto(r, "unpend") /\ UNCHANGED <<vm, cp, trouble>>
  <2>1. "unpend" \in Early
    BY DEF Early, Lines, Named
  <2>2. \A v \in Vms : vm'[v] = "unused" => ~cp'[v].adopted
    BY <1>4 DEF Untroubled
  <2> QED BY <1>1, <1>4, <2>1, <2>2, EarlyUntroubled
<1>5. ~Fault
  BY NoFault
<1> QED BY <1>2, <1>3, <1>4, <1>5 DEF Launch

LEMMA WaitUntroubled ==
    ASSUME IInv, Untroubled, trouble = 0, trouble' = 0, NEW r \in Runs, Wait(r)
    PROVE  Untroubled'
<1>1. /\ Alone(r) /\ run[r].pc = "wait" /\ UNCHANGED <<op, undone, pointer>>
      /\ run[r].pc \notin Rereads \cup {"choose"} /\ "unpend" \in Early
  BY AloneIs DEF Wait, At, OthersStay, Rereads, Early, Lines, Named
<1>2. ~Fault
  BY NoFault
<1>3. CASE Goto(r, "unpend")
  <2>1. lost' = lost /\ \A v \in Vms : vm'[v] = "unused" => ~cp'[v].adopted
    <3>1. CASE UNCHANGED <<vm, cp, lost>>
      BY <3>1 DEF Untroubled
    <3>2. CASE TerminateQuietly(run[r].vm)
      BY <3>2, TerminatedUnused
    <3> QED BY <1>2, <3>1, <3>2 DEF Wait
  <2> QED BY <1>1, <1>3, <2>1, EarlyUntroubled
<1>4. CASE /\ vm[run[r].vm] = "running" /\ UNCHANGED <<vm, cp, lost>>
           /\ \E pc \in {"promote", "handover"} : Goto(r, pc)
  <2>1. PICK pc \in {"promote", "handover"} : Goto(r, pc)
    BY <1>4
  <2> DEFINE q == AtLine(r, pc)
  <2>2. /\ q.pc = pc /\ q.base = run[r].base /\ q.vm = run[r].vm
        /\ q.ledger = run[r].ledger /\ run' = [run EXCEPT ![r] = q]
    <3>1. pc \in Lines
      BY DEF Lines
    <3> QED BY <2>1, <3>1, GotoFacts DEF Same
  <2> HIDE DEF q
  <2>3. q.ledger = None
    BY <1>1, <2>2, RunIs DEF Replaces, Raised, Named, Retiring
  <2>4. Carries(q, vm, cp)
    BY <1>1, <1>4, <2>2, <2>3 DEF Carries, Untroubled
  <2>5. UpToDate(q, pointer')
    BY <1>1, <2>2 DEF UpToDate, Untroubled
  <2> QED BY <1>1, <1>4, <2>2, <2>4, <2>5, GoesUntroubled
<1> QED BY <1>2, <1>3, <1>4 DEF Wait

LEMMA CallHandoverUntroubled ==
    ASSUME IInv, Untroubled, trouble = 0, NEW r \in Runs, CallHandover(r)
    PROVE  Untroubled'
<1> DEFINE v == run[r].old
           d == HandsOver(cp[v])
           q == [run[r] EXCEPT !.pc = "handed", !.ledger = LedgerOf(v)]
<1>1. /\ Alone(r) /\ run[r].pc = "handover" /\ UNCHANGED <<op, lost, undone, pointer>>
      /\ run[r].vm \in Vms /\ v \in Vms /\ ~undone
  <2>1. run[r].pc = "handover" /\ v # None
    BY RunIs DEF CallHandover, At, Replaces
  <2> QED BY <2>1, AloneIs, RunKnows DEF CallHandover, OthersStay, Knows, Named, Untroubled
<1>2. /\ vm' = [vm EXCEPT ![v] = "running"] /\ cp' = [cp EXCEPT ![v] = d]
      /\ vm[v] \in {"running", "suspended"}
  BY <1>1 DEF CallHandover, Wakes, ServingState
<1>3. run' = [run EXCEPT ![r] = q]
  BY RunIs, Zenon DEF CallHandover
<1>4. q.pc = "handed" /\ q.base = run[r].base /\ q.vm = run[r].vm /\ q.old = v
  BY RunIs DEF Invocation
<1>5. d.adopted = cp[v].adopted
  BY <1>1, ProcessIs DEF HandsOver, Process
<1> HIDE DEF q, d
<1>6. \A w \in Vms : /\ cp'[w].adopted = cp[w].adopted
                     /\ vm'[w] = "unused" => vm[w] = "unused"
                     /\ vm[w] \in {"running", "suspended"} => vm'[w] \in {"running", "suspended"}
  BY <1>1, <1>2, <1>5, ProcessIs
<1>7. LiveIn(vm', v)
  BY <1>1, <1>2, ProcessIs DEF LiveIn
<1>8. Carries(q, vm', cp')
  BY <1>1, <1>4, <1>6, <1>7 DEF Carries, Untroubled
<1>9. UpToDate(q, pointer')
  BY <1>1, <1>4 DEF UpToDate, Untroubled, Rereads
<1>10. \A w \in Vms : vm'[w] = "unused" => ~cp'[w].adopted
  BY <1>6 DEF Untroubled
<1> QED BY <1>1, <1>3, <1>8, <1>9, <1>10, RunUntroubled

LEMMA CallAdoptUntroubled ==
    ASSUME IInv, Untroubled, trouble = 0, NEW r \in Runs, CallAdopt(r)
    PROVE  Untroubled'
<1> DEFINE v == run[r].vm
           given == run[r].ledger
           d == Adopts(cp[v], given)
           q == AtLine(r, "promote")
<1>1. /\ Alone(r) /\ run[r].pc = "adopt" /\ UNCHANGED <<op, lost, undone, pointer>>
      /\ v \in Vms /\ ~undone /\ given # None
  <2>1. run[r].pc = "adopt"
    BY DEF CallAdopt, At
  <2> QED BY <2>1, AloneIs, RunKnows, RunIs
          DEF CallAdopt, OthersStay, Knows, Replaces, Named, Untroubled
<1>2. /\ vm' = [vm EXCEPT ![v] = "running"] /\ cp' = [cp EXCEPT ![v] = d]
      /\ vm[v] \in {"running", "suspended"}
  BY <1>1 DEF CallAdopt, Wakes, ServingState
<1>3. /\ q.pc = "promote" /\ q.base = run[r].base /\ q.vm = v /\ q.ledger = given
      /\ run' = [run EXCEPT ![r] = q]
  <2>1. Goto(r, "promote") /\ "promote" \in Lines
    BY DEF CallAdopt, Lines
  <2> QED BY <2>1, GotoFacts DEF Same
<1> HIDE DEF q
\* The successor is a generation ahead, and has adopted nothing.
<1>4. ~AdoptRefused(cp[v], given) /\ ~AdoptRepeated(cp[v])
  <2>1. ~cp[v].adopted
    BY <1>1 DEF Untroubled, Carries
  <2>2. run[r].old # None /\ given.gen = cp[run[r].old].gen
    BY <1>1, RunIs DEF Replaces
  <2>5. /\ run[r].base # None /\ Seen(run[r].base, vm, cp)
         /\ run[r].base.gen < run[r].gen /\ run[r].old \in {None, run[r].base.vm}
         /\ cp[v].gen = run[r].gen
    BY <1>1, RunKnows, ControlPlaneAssumption DEF Knows, Replacing, Named
  <2>6. run[r].old = run[r].base.vm /\ run[r].base \in Record
    BY <2>2, <2>5, RunKnows
  <2>3. given.gen = run[r].base.gen
    BY <2>2, <2>5, <2>6 DEF Seen
  <2>4. run[r].base.gen \in Nat /\ run[r].gen \in Nat
    BY <2>6, IsRun DEF Record, Invocation
  <2> QED BY <2>1, <2>5, <2>3, <2>4 DEF AdoptRefused, AdoptRepeated
<1>5. d.phase = "active" /\ d.work = given.work
  BY <1>1, <1>4, ProcessIs DEF Adopts, Granted, Becomes, Process
<1> HIDE DEF d
<1>6. LiveIn(vm', v) /\ cp'[v] = d
  BY <1>1, <1>2, ProcessIs DEF LiveIn
<1>7. Carries(q, vm', cp')
  BY <1>3, <1>5, <1>6 DEF Carries
<1>8. UpToDate(q, pointer')
  BY <1>1, <1>3 DEF UpToDate, Untroubled, Rereads
<1>9. \A w \in Vms : vm'[w] = "unused" => ~cp'[w].adopted
  BY <1>1, <1>2, ProcessIs DEF Untroubled
<1> QED BY <1>1, <1>3, <1>7, <1>8, <1>9, RunUntroubled

LEMMA HandoverAnsweredUntroubled ==
    ASSUME IInv, Untroubled, trouble = 0, NEW r \in Runs, HandoverAnswered(r)
    PROVE  Untroubled'
<1> DEFINE q == AtLine(r, "adopt")
<1>1. /\ Alone(r) /\ run[r].pc = "handed" /\ UNCHANGED <<vm, cp, op, lost, undone, pointer>>
  BY AloneIs DEF HandoverAnswered, At, PlatformStays, OthersStay
<1>2. /\ q.pc = "adopt" /\ q.base = run[r].base /\ q.vm = run[r].vm
      /\ run' = [run EXCEPT ![r] = q]
  <2>1. Goto(r, "adopt") /\ "adopt" \in Lines
    BY DEF HandoverAnswered, Lines
  <2> QED BY <2>1, GotoFacts DEF Same
<1> HIDE DEF q
<1>3. Carries(q, vm, cp)
  BY <1>1, <1>2 DEF Carries, Untroubled
<1>4. UpToDate(q, pointer')
  BY <1>1, <1>2 DEF UpToDate, Untroubled, Rereads
<1> QED BY <1>1, <1>2, <1>3, <1>4, GoesUntroubled

\* A handover that nothing goes wrong with is given up before it began, or never.
LEMMA GiveUpUntroubled ==
    ASSUME IInv, Untroubled, trouble = 0, trouble' = 0, NEW r \in Runs, GiveUpHandover(r)
    PROVE  Untroubled'
<1> DEFINE q == AtLine(r, "promote")
<1>1. Carries(run[r], vm, cp) /\ ~Fault
  BY NoFault DEF Untroubled
<1>2. run[r].pc = "handover"
  <2>1. ~(At(r, "handed") /\ ~Live(run[r].old))
    BY <1>1 DEF Carries, At, LiveIn, Live
  <2>2. ~(At(r, "adopt") /\ ~ServingState(run[r].vm))
    BY <1>1 DEF Carries, At, ServingState
  <2> QED BY <1>1, <2>1, <2>2 DEF GiveUpHandover, At
<1>3. Alone(r) /\ UNCHANGED <<vm, cp, op, lost, undone, pointer>> /\ run[r].ledger = None
  BY <1>1, <1>2, AloneIs DEF GiveUpHandover, PlatformStays, OthersStay, Carries
<1>4. /\ q.pc = "promote" /\ q.base = run[r].base /\ q.ledger = None
      /\ run' = [run EXCEPT ![r] = q]
  <2>1. Goto(r, "promote") /\ "promote" \in Lines
    BY DEF GiveUpHandover, Lines
  <2> QED BY <1>3, <2>1, GotoFacts DEF Same
<1> HIDE DEF q
<1>5. Carries(q, vm, cp)
  BY <1>4 DEF Carries
<1>6. UpToDate(q, pointer')
  BY <1>2, <1>3, <1>4 DEF UpToDate, Untroubled, Rereads
<1> QED BY <1>3, <1>4, <1>5, <1>6, GoesUntroubled

LEMMA PromoteUntroubled ==
    ASSUME IInv, Untroubled, trouble = 0, trouble' = 0, NEW r \in Runs, Promote(r)
    PROVE  Untroubled'
<1>1. /\ Alone(r) /\ run[r].pc = "promote" /\ UNCHANGED <<op, undone, pointer>>
      /\ run[r].pc \notin Rereads \cup {"choose"}
  BY AloneIs DEF Promote, At, OthersStay, Rereads
<1>2. CASE Goto(r, "flip") /\ UNCHANGED <<vm, cp, lost>>
  <2> DEFINE q == AtLine(r, "flip")
  <2>1. /\ q.pc = "flip" /\ q.base = run[r].base /\ q.vm = run[r].vm
        /\ q.ledger = run[r].ledger /\ run' = [run EXCEPT ![r] = q]
    <3>1. "flip" \in Lines
      BY DEF Lines
    <3> QED BY <1>2, <3>1, GotoFacts DEF Same
  <2> HIDE DEF q
  <2>2. Carries(q, vm, cp)
    BY <1>1, <2>1 DEF Carries, Untroubled
  <2>3. UpToDate(q, pointer')
    BY <1>1, <2>1 DEF UpToDate, Untroubled
  <2> QED BY <1>1, <1>2, <2>1, <2>2, <2>3, GoesUntroubled
<1>3. CASE TerminateQuietly(run[r].vm) /\ End(r)
  BY <1>1, <1>3, TerminatedUnused, EarlyUntroubled
<1> QED BY <1>2, <1>3 DEF Promote

\* The steps of a run that retires somebody.
LEMMA RetiringUntroubled ==
    ASSUME IInv, Untroubled, trouble = 0, NEW r \in Runs, run[r].pc \in {"drain", "kill"},
           UNCHANGED <<op, lost, undone, pointer>>,
           \A v \in Vms : vm'[v] = "unused" => ~cp'[v].adopted,
           End(r) \/ \E pc \in {"kill", "clear"} : Goto(r, pc)
    PROVE  Untroubled'
<1>1. Alone(r) /\ ~undone'
  BY AloneIs DEF Untroubled
<1>2. CASE End(r)
  BY <1>1, <1>2, RunUntroubled, NoRunCarries DEF End
<1>3. CASE \E pc \in {"kill", "clear"} : Goto(r, pc)
  <2>1. PICK pc \in {"kill", "clear"} : Goto(r, pc)
    BY <1>3
  <2> DEFINE q == AtLine(r, pc)
  <2>2. q.pc = pc /\ run' = [run EXCEPT ![r] = q]
    <3>1. pc \in Lines
      BY DEF Lines
    <3> QED BY <2>1, <3>1, GotoFacts DEF Same
  <2> HIDE DEF q
  <2>3. Carries(q, vm', cp') /\ UpToDate(q, pointer')
    BY <2>2, EarlyCarries DEF UpToDate, Rereads, Early, Lines, Named
  <2> QED BY <1>1, <2>2, <2>3, RunUntroubled
<1> QED BY <1>2, <1>3

LEMMA CallDrainUntroubled ==
    ASSUME IInv, Untroubled, trouble = 0, trouble' = 0, NEW r \in Runs, CallDrain(r)
    PROVE  Untroubled'
<1> DEFINE v == run[r].old
<1>1. /\ run[r].pc = "drain" /\ Goto(r, "kill") /\ UNCHANGED <<op, lost, undone, pointer>>
  BY DEF CallDrain, At, OthersStay
<1>2. v \in Vms
  BY <1>1, RunIs DEF Replaces
<1>3. \A w \in Vms : vm'[w] = "unused" => ~cp'[w].adopted
  <2>1. CASE Wakes(v) /\ cp' = [cp EXCEPT ![v] = Drains(cp[v])]
    <3>1. vm' = [vm EXCEPT ![v] = "running"]
      BY <2>1 DEF Wakes
    <3> QED BY <1>2, <2>1, <3>1, ProcessIs DEF Untroubled
  <2>2. CASE UNCHANGED <<vm, cp>>
    BY <2>2 DEF Untroubled
  <2> QED BY <2>1, <2>2 DEF CallDrain
<1> QED BY <1>1, <1>3, RetiringUntroubled

LEMMA KillUntroubled ==
    ASSUME IInv, Untroubled, trouble = 0, trouble' = 0, NEW r \in Runs, Kill(r)
    PROVE  Untroubled'
<1>1. run[r].pc = "kill" /\ UNCHANGED <<op, undone, pointer>>
  BY DEF Kill, At, OthersStay
<1>2. lost' = lost /\ \A v \in Vms : vm'[v] = "unused" => ~cp'[v].adopted
  BY TerminatedUnused DEF Kill
<1>3. End(r) \/ Goto(r, "clear")
  BY DEF Kill
<1> QED BY <1>1, <1>2, <1>3, RetiringUntroubled

LEMMA TimeUntroubled ==
    ASSUME IInv, Untroubled, trouble = 0, Settle \/ Age
    PROVE  Untroubled'
<1>1. UNCHANGED <<vm, cp, run, lost, undone, op>>
  BY DEF Settle, Age, PlatformStays, OthersStay
<1>2. Timeless(pointer') = Timeless(pointer)
  <2>1. pointer \in Record /\ None \notin Launched
    BY TypesAre, RotationAssumption DEF IInv
  <2>2. CASE Settle
    <3>1. pointer' = [pointer EXCEPT !.recent = FALSE]
      BY <2>2 DEF Settle
    <3>2. /\ pointer'.on = pointer.on /\ pointer'.vm = pointer.vm /\ pointer'.gen = pointer.gen
          /\ pointer'.retiring = pointer.retiring /\ pointer'.pending = pointer.pending
      BY <2>1, <3>1 DEF Record
    <3> QED BY <3>2 DEF Timeless
  <2>3. CASE Age
    <3> DEFINE d == [pointer.pending EXCEPT !.young = FALSE]
    <3>1. pointer' = [pointer EXCEPT !.pending = d] /\ pointer.pending # None
      BY <2>1, <2>3, Zenon DEF Age
    <3>2. pointer.pending \in Launched
      BY <2>1, <3>1 DEF Record
    <3>3. d \in Launched /\ d.vm = pointer.pending.vm
      BY <3>2 DEF Launched
    <3>4. d # None
      BY <2>1, <3>3
    <3> HIDE DEF d
    <3>5. /\ pointer'.on = pointer.on /\ pointer'.vm = pointer.vm /\ pointer'.gen = pointer.gen
          /\ pointer'.retiring = pointer.retiring /\ pointer'.pending = d
      BY <2>1, <3>1 DEF Record
    <3> QED BY <3>1, <3>3, <3>4, <3>5 DEF Timeless
  <2> QED BY <2>2, <2>3
<1>3. \A r \in Runs : UpToDate(run[r], pointer')
  BY <1>2 DEF UpToDate, Untroubled
<1> QED BY <1>1, <1>3 DEF Untroubled

LEMMA NextHourUntroubled ==
    ASSUME IInv, Untroubled, trouble = 0, NextHour
    PROVE  Untroubled'
<1>1. /\ cp' = [v \in Vms |-> [cp[v] EXCEPT !.token = FALSE]]
      /\ UNCHANGED <<pointer, undone, vm, run, op, lost>>
  BY DEF NextHour
<1>2. \A v \in Vms : Spared(v)
  <2> SUFFICES ASSUME NEW v \in Vms PROVE Spared(v)
    OBVIOUS
  <2>1. cp'[v] = [cp[v] EXCEPT !.token = FALSE] /\ cp[v] \in Process
    BY <1>1, ProcessIs
  <2>2. cp'[v].adopted = cp[v].adopted /\ cp'[v].phase = cp[v].phase /\ cp'[v].work = cp[v].work
    BY <2>1 DEF Process
  <2> QED BY <1>1, <2>2 DEF Spared
<1> QED BY <1>1, <1>2, SparedUntroubled

\* What goes wrong stays gone wrong, and nothing else takes of the bound.
LEMMA TroubleStays ==
    ASSUME IInv, [Next]_vars, trouble' = 0
    PROVE  trouble = 0
<1>1. trouble \in Nat
  BY ControlPlaneAssumption DEF IInv, TypeOK, TypeOKcp
<1> DEFINE Counts == trouble' \in {trouble, trouble + 1, trouble + 2}
<1>2. SUFFICES Counts
  BY <1>1
<1>3. CASE ProcessNext
  <2>1. PICK v \in Vms :
          \/ ProcessStep(v)
          \/ Connect(v) \/ Leave(v) \/ Job(v)
          \/ WriteFails(v) \/ Suspend(v) \/ Lost(v)
    BY <1>3 DEF ProcessNext
  <2>2. CASE Run(v) \/ Running(v) \/ Poll(v) \/ SnapshotTimer(v) \/ WriteLatest(v) \/ LeaseOver(v)
             \/ Connect(v) \/ Leave(v) \/ Job(v) \/ Suspend(v)
    BY <2>2 DEF Run, Running, Poll, SnapshotTimer, WriteLatest, LeaseOver, Connect, Leave, Job,
                Suspend
  <2>3. CASE Boot(v) \/ LeaseAnswer(v) \/ WriteFails(v) \/ Lost(v)
    BY <2>3 DEF Boot, LeaseAnswer, WriteFails, Lost, Fault
  <2> QED BY <2>1, <2>2, <2>3 DEF ProcessStep
<1>4. ASSUME NEW r \in Runs, Invoke(r) \/ Heal(r) \/ Hourly(r)
      PROVE  Counts
  BY <1>4 DEF Invoke, Heal, Hourly, Unbound
<1>5. ASSUME NEW r \in Runs, RunStep(r)
      PROVE  Counts
  <2>1. ASSUME Reread(r) \/ Repair(r) \/ Forget(r) \/ Choose(r) \/ RecordPending(r) \/ Unpend(r)
               \/ UnpendWrite(r) \/ Flip(r) \/ Clear(r) \/ ClearWrite(r)
        PROVE  Counts
    BY <2>1 DEF Reread, Repair, Forget, Choose, RecordPending, Unpend, UnpendWrite, Flip, Clear,
                ClearWrite
  <2>2. ASSUME RollBack(r) \/ Wait(r) \/ Promote(r) \/ Kill(r)
        PROVE  Counts
    BY <2>2 DEF RollBack, Wait, Promote, Kill, TerminateQuietly, Fault
  <2>3. ASSUME Launch(r) \/ CallHandover(r) \/ HandoverAnswered(r) \/ CallAdopt(r)
               \/ GiveUpHandover(r) \/ CallDrain(r)
        PROVE  Counts
    BY <2>3 DEF Launch, CallHandover, HandoverAnswered, CallAdopt, GiveUpHandover, CallDrain,
                Fault
  <2> QED BY <1>5, <2>1, <2>2, <2>3 DEF RunStep
<1>6. ASSUME NEW r \in Runs, HandoverUnanswered(r) \/ AdoptUnanswered(r) \/ Die(r)
      PROVE  Counts
  BY <1>6 DEF HandoverUnanswered, AdoptUnanswered, Die, Fault
<1>7. CASE UpStart \/ DownStart
  BY <1>7 DEF UpStart, DownStart, Operation
<1>8. CASE OperatorStep \/ Settle \/ Age \/ NextHour
  BY <1>8 DEF OperatorStep, UpWrite, DownWrite, DownPass, Settle, Age, NextHour
<1>9. CASE UNCHANGED vars
  BY <1>9 DEF vars, cpVars
<1> QED BY <1>3, <1>4, <1>5, <1>6, <1>7, <1>8, <1>9 DEF Next

LEMMA RunStepUntroubled ==
    ASSUME IInv, Untroubled, trouble = 0, trouble' = 0, NEW r \in Runs, RunStep(r)
    PROVE  Untroubled'
BY LooksUntroubled, RepairUntroubled, RollBackUntroubled, ForgetUntroubled, ChooseUntroubled,
   LaunchUntroubled, RecordPendingUntroubled, WaitUntroubled, UnpendWriteUntroubled,
   CallHandoverUntroubled, HandoverAnsweredUntroubled, CallAdoptUntroubled, GiveUpUntroubled,
   PromoteUntroubled, FlipUntroubled, CallDrainUntroubled, KillUntroubled,
   ClearWriteUntroubled DEF RunStep

LEMMA NextUntroubled ==
    ASSUME IInv, Untroubled, MaxOverlap = 1, [Next]_vars
    PROVE  Untroubled'
<1> SUFFICES ASSUME trouble' = 0 PROVE Untroubled'
  BY DEF Untroubled
<1>1. trouble = 0 /\ ~Fault /\ op = NoOp
  BY TroubleStays, NoFault DEF Untroubled
<1>2. CASE ProcessNext /\ UNCHANGED <<run, op, rule, rotations, lost, undone>>
  BY <1>2, ProcessUntroubled DEF FleetStays
<1>3. ASSUME NEW r \in Runs, Invoke(r) \/ Heal(r) \/ Hourly(r)
      PROVE  Untroubled'
  <2>1. PICK scheduled \in BOOLEAN : Starts(r, scheduled)
    BY <1>3 DEF Invoke, Heal, Hourly
  <2>2. PlatformStays /\ UNCHANGED <<pointer, undone, op, lost>>
    BY <1>3 DEF Invoke, Heal, Hourly, Unbound
  <2> QED BY <1>1, <2>1, <2>2, StartsUntroubled
<1>4. ASSUME NEW r \in Runs, RunStep(r)
      PROVE  Untroubled'
  BY <1>1, <1>4, RunStepUntroubled
<1>5. ASSUME NEW r \in Runs, HandoverUnanswered(r) \/ AdoptUnanswered(r) \/ Die(r)
      PROVE  FALSE
  BY <1>1, <1>5 DEF HandoverUnanswered, AdoptUnanswered, Die
<1>6. ~(UpStart \/ DownStart)
  BY <1>1 DEF UpStart, DownStart, Operation
<1>7. ~OperatorStep
  BY <1>1 DEF OperatorStep, UpWrite, DownWrite, DownPass, NoOp
<1>8. CASE Settle \/ Age
  BY <1>1, <1>8, TimeUntroubled
<1>9. CASE NextHour
  BY <1>1, <1>9, NextHourUntroubled
<1>10. CASE UNCHANGED vars
  BY <1>10 DEF vars, cpVars, Untroubled
<1> QED BY <1>2, <1>3, <1>4, <1>5, <1>6, <1>7, <1>8, <1>9, <1>10 DEF Next

LEMMA InitUntroubled ==
    ASSUME Init
    PROVE  Untroubled
<1>1. /\ \A r \in Runs : run[r] = NoRun
      /\ ~undone /\ op = NoOp /\ lost = {}
  BY DEF Init
<1>2. \A v \in Vms : vm[v] = "unused" => cp[v] = NotBooted
  BY DEF Init
<1>3. ~NotBooted.adopted
  BY DEF NotBooted
<1> QED BY <1>1, <1>2, <1>3, NoRunCarries DEF Untroubled

(* How far a run has come with its handover while nothing went wrong       *)
(* (Untroubled): what it is to write is what the pointer says but for      *)
(* time, the successor has not adopted before it is asked to, and has what *)
(* the predecessor gave once it has.                                       *)
THEOREM HandoversUntroubled ==
    ASSUME MaxOverlap = 1
    PROVE  Spec => []Untroubled
<1>1. Init => Untroubled
  BY InitUntroubled
<1>2. IInv /\ Untroubled /\ [Next]_vars => Untroubled'
  BY NextUntroubled
<1> QED BY <1>1, <1>2, Invariance, PTL DEF Spec

(* Both together: what each run knows of the fleet, and how far it has come  *)
(* while nothing went wrong.                                                 *)
THEOREM InductiveHolds ==
    ASSUME MaxOverlap = 1
    PROVE  Spec => []Inductive
<1>1. IInv /\ Untroubled => Inductive
  BY DEF Inductive
<1> QED BY <1>1, Invariance, HandoversUntroubled, PTL

\* A flip leaves the processes alone.
LEMMA PointerMoves ==
    ASSUME IInv, Next, pointer' # pointer
    PROVE  cp' = cp
<1>1. ~ProcessNext
  BY DEF ProcessNext, ProcessStep, Run, Running, Boot, Poll, SnapshotTimer, WriteLatest,
         LeaseOver, LeaseAnswer, Connect, Leave, Job, WriteFails, Suspend, Lost
<1>2. ASSUME NEW r \in Runs, Invoke(r) \/ Heal(r) \/ Hourly(r)
      PROVE  FALSE
  BY <1>2 DEF Invoke, Heal, Hourly, Unbound
<1>3. ASSUME NEW r \in Runs, RunStep(r)
      PROVE  cp' = cp
  <2>1. ~(Reread(r) \/ Repair(r) \/ Choose(r) \/ Unpend(r) \/ Clear(r))
    BY DEF Reread, Repair, Choose, Unpend, Clear
  <2>2. ~(RollBack(r) \/ Wait(r) \/ Promote(r) \/ Kill(r) \/ Launch(r))
    BY DEF RollBack, Wait, Promote, Kill, Launch
  <2>3. ~(CallHandover(r) \/ HandoverAnswered(r) \/ CallAdopt(r) \/ GiveUpHandover(r)
            \/ CallDrain(r))
    BY DEF CallHandover, HandoverAnswered, CallAdopt, GiveUpHandover, CallDrain
  <2>4. ASSUME Forget(r) \/ RecordPending(r) \/ UnpendWrite(r) \/ Flip(r) \/ ClearWrite(r)
        PROVE  cp' = cp
    BY <2>4 DEF Forget, RecordPending, UnpendWrite, Flip, ClearWrite, PlatformStays
  <2> QED BY <1>3, <2>1, <2>2, <2>3, <2>4 DEF RunStep
<1>4. ASSUME NEW r \in Runs, HandoverUnanswered(r) \/ AdoptUnanswered(r) \/ Die(r)
      PROVE  FALSE
  BY <1>4 DEF HandoverUnanswered, AdoptUnanswered, Die
<1>5. ~(UpStart \/ DownStart \/ DownPass \/ NextHour)
  BY DEF UpStart, DownStart, DownPass, NextHour
<1>6. CASE UpWrite \/ DownWrite \/ Settle \/ Age
  BY <1>6 DEF UpWrite, DownWrite, Settle, Age, PlatformStays
<1> QED BY <1>1, <1>2, <1>3, <1>4, <1>5, <1>6 DEF Next, OperatorStep

LEMMA StepKeepsWork ==
    ASSUME IInv, Untroubled, [Next]_vars, pointer' # pointer, trouble' = 0,
           NEW r \in Runs, At(r, "flip"), run[r].ledger # None
    PROVE  run[r].ledger.work \subseteq cp'[run[r].vm].work
<1>1. Carries(run[r], vm, cp)
  BY TroubleStays DEF Untroubled
<1>2. cp' = cp
  BY PointerMoves DEF vars, cpVars
<1> QED BY <1>1, <1>2 DEF Carries, At

(* While nothing goes wrong the pointer is only flipped to a successor     *)
(* that has everything its predecessor handed over (HandoverKeepsWork).    *)
THEOREM WorkKept ==
    ASSUME MaxOverlap = 1
    PROVE  Spec => HandoverKeepsWork
<1>1. IInv /\ Untroubled /\ [Next]_vars =>
        [\A r \in Runs :
          /\ trouble' = 0 /\ At(r, "flip") /\ pointer' # pointer
          /\ pointer'.vm = run[r].vm /\ run[r].ledger # None
          => run[r].ledger.work \subseteq cp'[run[r].vm].work]_pointer
  BY StepKeepsWork
<1> QED BY <1>1, Invariance, HandoversUntroubled, PTL DEF Spec, HandoverKeepsWork
=============================================================================
