-------------------------- MODULE CloudFleetProofs --------------------------
(***************************************************************************)
(* What is proved of the cloud fleet, for any number of cores, of launches *)
(* in flight and of faults: a core that runs is known to somebody who will *)
(* end it.  The inductive invariant says which ledgers may name which      *)
(* cores, so that an answer never records a core twice and a successor     *)
(* gets all its predecessor knows.                                         *)
(***************************************************************************)
EXTENDS CloudFleet, FilterProofs, FiniteSetTheorems

\* A ledger as TypeOK has it.
Sound(l) ==
    /\ l \in Ledger /\ IsInjective(l.cores)
    /\ l.linked \cup l.overdue \cup l.fresh \subseteq Range(l.cores)

\* A list of cores names cores.
LEMMA RangeIsCores ==
    ASSUME NEW s \in Seq(Cores) PROVE Range(s) \subseteq Cores
BY DEF Range

\* Forgetting cores leaves a sound ledger that knows the others.
LEMMA Forgetting ==
    ASSUME NEW l, Sound(l), NEW S
    PROVE  /\ Sound(Forgotten(l, S))
           /\ Range(Forgotten(l, S).cores) = Range(l.cores) \ S
           /\ Forgotten(l, S).phase = l.phase
           /\ Forgotten(l, S).asked = l.asked
<1> DEFINE w == Without(l.cores, S)
           f == Forgotten(l, S)
<1>1. /\ l \in Ledger /\ l.cores \in Seq(Cores) /\ l.asked \in Nat
      /\ {l.linked, l.overdue, l.fresh} \subseteq SUBSET Cores
  BY DEF Sound, Ledger
<1>2. w \in Seq(Cores) /\ Range(w) = Range(l.cores) \ S /\ IsInjective(w)
  BY <1>1, WithoutIs DEF Sound
<1> HIDE DEF w
<1>3. /\ f.cores = w /\ f.asked = l.asked /\ f.phase = l.phase
      /\ f.linked = l.linked \ S /\ f.overdue = l.overdue \ S /\ f.fresh = l.fresh \ S
  BY <1>1 DEF Forgotten, Ledger, w
<1>4. f \in Ledger
  BY <1>1, <1>2 DEF Forgotten, Ledger, w
<1> HIDE DEF f
<1>5. f.linked \cup f.overdue \cup f.fresh \subseteq Range(f.cores)
  BY <1>2, <1>3 DEF Sound
<1>6. Sound(f) /\ Range(f.cores) = Range(l.cores) \ S /\ f.phase = l.phase /\ f.asked = l.asked
  BY <1>2, <1>3, <1>4, <1>5 DEF Sound
<1> QED BY <1>6 DEF f

\* A record more, of a core the ledger does not know.
LEMMA Recording ==
    ASSUME NEW l, Sound(l), NEW c \in Cores \ Range(l.cores)
    PROVE  /\ Sound(Recorded(l, c))
           /\ Range(Recorded(l, c).cores) = Range(l.cores) \cup {c}
           /\ Recorded(l, c).phase = l.phase
<1> DEFINE a == Append(l.cores, c)
           r == Recorded(l, c)
<1>1. /\ l \in Ledger /\ l.cores \in Seq(Cores) /\ l.asked \in Nat
      /\ {l.linked, l.overdue, l.fresh} \subseteq SUBSET Cores
  BY DEF Sound, Ledger
<1>2. a \in Seq(Cores) /\ Range(a) = Range(l.cores) \cup {c} /\ IsInjective(a)
  BY <1>1, AppendIs DEF Sound
<1> HIDE DEF a
<1>8. /\ r.cores = a /\ r.asked \in Nat /\ r.phase = l.phase
      /\ r.linked = l.linked /\ r.overdue = l.overdue /\ r.fresh = l.fresh \cup {c}
  BY <1>1 DEF Recorded, Ledger, a
<1>9. r \in Ledger
  <2> DEFINE n == IF l.asked = 0 THEN 0 ELSE l.asked - 1
             young == l.fresh \cup {c}
  <2>1. n \in Nat /\ young \in SUBSET Cores
    BY <1>1
  <2>2. r = [l EXCEPT !.asked = n, !.cores = a, !.fresh = young]
    BY DEF Recorded, a
  <2> HIDE DEF n, young, r
  <2> QED BY <1>1, <1>2, <2>1, <2>2 DEF Ledger
<1> HIDE DEF r
<1>10. r.linked \cup r.overdue \cup r.fresh \subseteq Range(r.cores)
  BY <1>2, <1>8 DEF Sound
<1>11. Sound(r) /\ Range(r.cores) = Range(l.cores) \cup {c} /\ r.phase = l.phase
  BY <1>2, <1>8, <1>9, <1>10 DEF Sound
<1> QED BY <1>11 DEF r

\* An adopted ledger knows the cores of the copy.
LEMMA Adopting ==
    ASSUME NEW s \in Carried, IsInjective(s.cores)
    PROVE  Sound(Adopted(s)) /\ Range(Adopted(s).cores) = CopyCores(s)
<1>1. s.cores \in Seq(Cores) /\ s.asked \in Nat
  BY DEF Carried
<1>2. s # None
  BY CloudFleetAssumption DEF Carried
<1>3. CopyCores(s) = Range(s.cores) /\ Range(s.cores) \subseteq Cores
  BY <1>1, <1>2, RangeIsCores DEF CopyCores
<1> QED BY <1>1, <1>3 DEF Adopted, Sound, Ledger

\* A ledger's copy is what it is, to be carried.
LEMMA Copying ==
    ASSUME NEW l, Sound(l)
    PROVE  /\ Copy(l) \in Carried /\ IsInjective(Copy(l).cores)
           /\ CopyCores(Copy(l)) = Range(l.cores)
<1>1. l.cores \in Seq(Cores) /\ l.asked \in Nat
  BY DEF Sound, Ledger
<1>2. Copy(l) \in Carried /\ Copy(l).cores = l.cores
  BY <1>1 DEF Copy, Carried
<1>3. Copy(l) # None
  BY <1>2, CloudFleetAssumption DEF Carried
<1> QED BY <1>2, <1>3 DEF CopyCores, Sound

\* A fault stays within the bound.
LEMMA FaultCounts ==
    ASSUME trouble \in 0..MaxTrouble, Fault PROVE trouble' \in 0..MaxTrouble
BY CloudFleetAssumption DEF Fault

\* The next id is a free one.
LEMMA NextIsFree ==
    ASSUME Free # {} PROVE NextCore \in Free
<1>1. Free \in SUBSET Nat
  BY CloudFleetAssumption DEF Free
<1>2. \E c \in Free : \A d \in Free : c <= d
  BY <1>1, Least
<1> QED BY <1>2 DEF NextCore
-----------------------------------------------------------------------------
States == {"unused", "pending", "running", "gone"}

\* A copy is none, or carries a ledger that has each core once.
IsCopy(s) == s = None \/ (s \in Carried /\ IsInjective(s.cores))

\* TypeOK, with the ledger's part under its name.
LEMMA TypesAre ==
    TypeOK <=>
        /\ Sound(ledger)
        /\ drowsy \in BOOLEAN /\ auth \in BOOLEAN
        /\ vm \in [Cores -> States]
        /\ {calls, late, kills, found, lost} \subseteq SUBSET Cores
        /\ IsCopy(handed) /\ IsCopy(saved)
        /\ trouble \in 0..MaxTrouble
BY DEF TypeOK, Sound, Known, Linked, States, IsCopy

\* What a copy names are cores.
LEMMA CopiesAreCores ==
    ASSUME NEW s, IsCopy(s) PROVE CopyCores(s) \subseteq Cores
BY RangeIsCores DEF IsCopy, Carried, CopyCores

(* A step that records no core, keeps the copies and at most launches an   *)
(* id that was unused keeps the invariant.                                 *)
LEMMA Stands ==
    ASSUME IInv, Sound(ledger'), Range(ledger.cores') \subseteq Known,
           ledger.phase' = ledger.phase, handed' = handed, saved' = saved,
           drowsy' \in BOOLEAN, auth' \in BOOLEAN, vm' \in [Cores -> States],
           {calls', late', kills', found', lost'} \subseteq SUBSET Cores,
           trouble' \in 0..MaxTrouble,
           \A c \in Cores : vm[c] # "unused" => vm'[c] # "unused",
           \A c \in calls' : c \in calls \/ (vm[c] = "unused" /\ vm'[c] # "unused")
    PROVE  IInv'
<1>1. TypeOK /\ LaunchedOnce /\ HandedIsAll /\ IsCopy(handed) /\ IsCopy(saved) /\ Sound(ledger)
  BY TypesAre DEF IInv
<1>2. TypeOK'
  <2>1. \A s \in {handed', saved'} : s = None \/ (s \in Carried /\ IsInjective(s.cores))
    BY <1>1 DEF IsCopy
  <2> QED BY <2>1 DEF TypeOK, Sound, Known, Linked, States
<1>3. Known \subseteq Cores /\ CopyCores(handed) \subseteq Cores /\ CopyCores(saved) \subseteq Cores
  BY <1>1, RangeIsCores, CopiesAreCores DEF Sound, Ledger, Known
<1>4. Known' \subseteq Known /\ CopyCores(handed)' = CopyCores(handed) /\ CopyCores(saved)' = CopyCores(saved)
  BY DEF Known, CopyCores
<1>5. LaunchedOnce'
  <2>1. \A c \in Known \cup CopyCores(handed) \cup CopyCores(saved) : c \in Cores /\ vm[c] # "unused"
    BY <1>1, <1>3 DEF LaunchedOnce
  <2>2. \A c \in calls' : c \in Cores /\ vm'[c] # "unused"
    BY <1>1 DEF LaunchedOnce
  <2>3. Known' \cap calls' = {}
    BY <1>1, <1>4, <2>1 DEF LaunchedOnce
  <2> QED BY <1>4, <2>1, <2>2, <2>3 DEF LaunchedOnce
<1>6. HandedIsAll'
  BY <1>1, <1>4 DEF HandedIsAll
<1> QED BY <1>2, <1>5, <1>6 DEF IInv

\* The same of a step that leaves the ledger and the launches alone.
LEMMA StandsBeside ==
    ASSUME IInv, ledger' = ledger, handed' = handed, saved' = saved,
           drowsy' \in BOOLEAN, auth' \in BOOLEAN, vm' \in [Cores -> States],
           {late', kills', found', lost'} \subseteq SUBSET Cores, calls' \subseteq calls,
           trouble' \in 0..MaxTrouble,
           \A c \in Cores : vm[c] # "unused" => vm'[c] # "unused"
    PROVE  IInv'
<1>1. TypeOK /\ Sound(ledger)
  BY TypesAre DEF IInv
<1>2. Sound(ledger') /\ Range(ledger.cores') \subseteq Known
  BY <1>1 DEF Known
<1>3. calls' \in SUBSET Cores /\ {calls', late', kills', found', lost'} \subseteq SUBSET Cores
  BY <1>1, TypesAre
<1>4. \A c \in calls' : c \in calls \/ (vm[c] = "unused" /\ vm'[c] # "unused")
  OBVIOUS
<1>5. ledger.phase' = ledger.phase
  OBVIOUS
<1> QED BY <1>2, <1>3, <1>4, <1>5, Stands

\* And of one that only changes the ledger, of which it may forget cores.
LEMMA StandsInside ==
    ASSUME IInv, Sound(ledger'), Range(ledger.cores') \subseteq Known,
           ledger.phase' = ledger.phase,
           UNCHANGED <<drowsy, auth, vm, calls, late, handed, saved>>,
           {kills', found', lost'} \subseteq SUBSET Cores, trouble' \in 0..MaxTrouble
    PROVE  IInv'
<1>1. TypeOK
  BY DEF IInv
<1>2. /\ {calls', late', kills', found', lost'} \subseteq SUBSET Cores
      /\ drowsy' \in BOOLEAN /\ auth' \in BOOLEAN /\ vm' \in [Cores -> States]
  BY <1>1, TypesAre
<1>3. /\ \A c \in calls' : c \in calls \/ (vm[c] = "unused" /\ vm'[c] # "unused")
      /\ \A c \in Cores : vm[c] # "unused" => vm'[c] # "unused"
  OBVIOUS
<1> QED BY <1>2, <1>3, Stands
-----------------------------------------------------------------------------
(* The tick. *)

\* Who is surplus has a record.
LEMMA SurplusIsKnown ==
    ASSUME NEW s \in Seq(Cores) PROVE Surplus(s) \subseteq Range(s)
<1> DEFINE unlinked == Without(s, Linked)
<1>1. unlinked \in Seq(Cores) /\ Range(unlinked) \subseteq Range(s)
  BY WithoutIs
<1>2. Surplus(s) \subseteq Range(unlinked)
  BY DEF Surplus, Range
<1> QED BY <1>1, <1>2

\* What a tick of an awake machine leaves: the cores that stay.
Left(l, S, n) == [Forgotten(l, S) EXCEPT !.fresh = {}, !.asked = n]

LEMMA Keeping ==
    ASSUME NEW l, Sound(l), NEW S, NEW n \in Nat
    PROVE  /\ Sound(Left(l, S, n)) /\ Left(l, S, n).phase = l.phase
           /\ Range(Left(l, S, n).cores) = Range(l.cores) \ S
<1> DEFINE f == Forgotten(l, S)
           k == [f EXCEPT !.fresh = {}, !.asked = n]
<1>1. Sound(f) /\ Range(f.cores) = Range(l.cores) \ S /\ f.phase = l.phase
  BY Forgetting
<1> HIDE DEF f
<1>2. f \in Ledger
  BY <1>1 DEF Sound
<1>3. k \in Ledger
  BY <1>2 DEF Ledger
<1>4. k.cores = f.cores /\ k.phase = f.phase /\ k.linked = f.linked /\ k.overdue = f.overdue /\ k.fresh = {}
  BY <1>2 DEF Ledger
<1> HIDE DEF k
<1>5. Sound(k) /\ Range(k.cores) = Range(l.cores) \ S /\ k.phase = l.phase
  BY <1>1, <1>3, <1>4 DEF Sound
<1> QED BY <1>5 DEF k, f, Left

\* Fewer launches counted are no fewer slow ones, and the bound holds.
LEMMA SlowCallsCount ==
    ASSUME trouble \in 0..MaxTrouble, calls \subseteq Cores,
           NEW n \in Nat, NEW asked \in 0..n,
           trouble' = trouble + Uncounted(asked) - Uncounted(n), trouble' <= MaxTrouble
    PROVE  trouble' \in 0..MaxTrouble
<1>1. Cardinality(calls) \in Nat
  BY CloudFleetAssumption, FS_Subset, FS_CardinalityType
<1> DEFINE size == Cardinality(calls)
<1>2. size \in Nat
  BY <1>1
<1> HIDE DEF size
<1>3. Uncounted(asked) \in Nat /\ Uncounted(n) \in Nat /\ Uncounted(asked) >= Uncounted(n)
  BY <1>2 DEF Uncounted, size
<1> QED BY <1>3, CloudFleetAssumption

LEMMA TickStands ==
    ASSUME IInv, NEW gap \in BOOLEAN, Tick(gap) PROVE IInv'
<1>1. /\ TypeOK /\ Sound(ledger) /\ {calls, late, kills, found, lost} \subseteq SUBSET Cores
      /\ vm \in [Cores -> States] /\ trouble \in 0..MaxTrouble
      /\ drowsy \in BOOLEAN /\ auth \in BOOLEAN
  BY TypesAre DEF IInv
<1>2. Known \subseteq Cores /\ Linked \subseteq Known /\ ledger.overdue \subseteq Known /\ ledger.cores \in Seq(Cores)
  BY <1>1, RangeIsCores DEF Sound, Ledger, Known, Linked
<1>3. CASE Sleeps
  <2>1. Sound(ledger') /\ Range(ledger.cores') \subseteq Known /\ ledger.phase' = ledger.phase
    BY <1>1, <1>3, Forgetting DEF Sleeps, Known
  <2>2. {kills', found', lost'} \subseteq SUBSET Cores /\ trouble' \in 0..MaxTrouble
    BY <1>1, <1>2, <1>3 DEF Tick, Sleeps
  <2> QED BY <1>3, <2>1, <2>2, StandsInside DEF Tick, Sleeps
<1>4. CASE KeepsCores(gap)
  <2> DEFINE kept == Without(ledger.cores, ledger.overdue)
             gone == ledger.overdue \cup Surplus(kept)
             launch(n) == ~gap /\ Missing(kept, n)
             count(n) == IF launch(n) THEN n + 1 ELSE n
  <2>1. PICK asked \in Counted(ledger.asked) :
          /\ trouble' = trouble + Uncounted(asked) - Uncounted(ledger.asked)
          /\ trouble' <= MaxTrouble
          /\ IF launch(asked) THEN LaunchCore ELSE UNCHANGED <<vm, calls>>
          /\ ledger' = [Forgotten(ledger, gone) EXCEPT !.fresh = {}, !.asked = count(asked)]
          /\ kills' = kills \cup gone
    BY <1>4 DEF KeepsCores
  <2>2. gone \subseteq Known
    <3>1. kept \in Seq(Cores) /\ Range(kept) \subseteq Known
      BY <1>2, WithoutIs DEF Known
    <3> QED BY <1>2, <3>1, SurplusIsKnown
  <2>3. ledger.asked \in Nat /\ asked \in 0..ledger.asked /\ asked \in Nat
    BY <1>1, <2>1 DEF Sound, Ledger, Counted
  <2> HIDE DEF launch, gone, kept
  <2>4. Sound(ledger') /\ Range(ledger.cores') \subseteq Known /\ ledger.phase' = ledger.phase
    <3>1. count(asked) \in Nat
      BY <2>3
    <3> HIDE DEF count
    <3>2. ledger' = Left(ledger, gone, count(asked))
      BY <2>1 DEF Left
    <3> QED BY <1>1, <3>1, <3>2, Keeping DEF Known
  <2>5. trouble' \in 0..MaxTrouble
    BY <1>1, <2>1, <2>3, SlowCallsCount
  <2>6. kills' \in SUBSET Cores
    BY <1>1, <1>2, <2>1, <2>2
  <2>7. UNCHANGED <<vm, calls>> \/
          (NextCore \in Free /\ vm' = [vm EXCEPT ![NextCore] = "pending"] /\ calls' = calls \cup {NextCore})
    BY <2>1, NextIsFree DEF LaunchCore
  <2>8. /\ vm' \in [Cores -> States] /\ calls' \in SUBSET Cores
        /\ \A c \in Cores : vm[c] # "unused" => vm'[c] # "unused"
        /\ \A c \in calls' : c \in calls \/ (vm[c] = "unused" /\ vm'[c] # "unused")
    BY <1>1, <2>7 DEF Free, States
  <2>9. UNCHANGED <<drowsy, auth, late, found, handed, saved, lost>>
    BY DEF Tick
  <2>10. /\ {calls', late', kills', found', lost'} \subseteq SUBSET Cores
         /\ drowsy' \in BOOLEAN /\ auth' \in BOOLEAN
    BY <1>1, <2>6, <2>8, <2>9
  <2> QED BY <2>4, <2>5, <2>8, <2>9, <2>10, Stands
<1> QED BY <1>3, <1>4 DEF Tick
-----------------------------------------------------------------------------
(* The other steps. *)

\* An answered launch is recorded once, or terminated.
LEMMA AckStands ==
    ASSUME IInv, NEW c \in Cores, Ack(c) PROVE IInv'
<1>1. /\ TypeOK /\ Sound(ledger) /\ {calls, late, kills, found, lost} \subseteq SUBSET Cores
      /\ vm \in [Cores -> States] /\ trouble \in 0..MaxTrouble
      /\ drowsy \in BOOLEAN /\ auth \in BOOLEAN /\ IsCopy(handed) /\ IsCopy(saved)
      /\ LaunchedOnce /\ HandedIsAll
  BY TypesAre DEF IInv
<1>2. /\ calls' = calls \ {c} /\ c \in calls
      /\ UNCHANGED <<drowsy, auth, vm, late, found, handed, saved, trouble, lost>>
  BY DEF Ack
<1>3. CASE ledger.phase = "active"
  <2>1. ledger' = Recorded(ledger, c) /\ kills' = kills
    BY <1>3 DEF Ack
  <2>2. c \notin Known /\ vm[c] # "unused"
    BY <1>1, <1>2 DEF LaunchedOnce
  <2>3. Sound(ledger') /\ Range(ledger.cores') = Known \cup {c} /\ ledger.phase' = ledger.phase
    BY <1>1, <2>1, <2>2, Recording DEF Known
  <2>4. TypeOK'
    <3>1. \A s \in {handed', saved'} : s = None \/ (s \in Carried /\ IsInjective(s.cores))
      BY <1>1, <1>2 DEF IsCopy
    <3>2. {calls', late', kills', found', lost'} \subseteq SUBSET Cores
      BY <1>1, <1>2, <2>1
    <3> QED BY <1>1, <1>2, <2>3, <3>1, <3>2 DEF TypeOK, Sound, Known, Linked, States
  <2>5. LaunchedOnce'
    BY <1>1, <1>2, <2>2, <2>3 DEF LaunchedOnce, Known, CopyCores
  <2>6. HandedIsAll'
    BY <1>1, <1>2, <1>3 DEF HandedIsAll
  <2> QED BY <2>4, <2>5, <2>6 DEF IInv
<1>4. CASE ledger.phase # "active"
  <2>1. ledger' = ledger /\ kills' = kills \cup {c}
    BY <1>4 DEF Ack
  <2>2. {late', kills', found', lost'} \subseteq SUBSET Cores /\ calls' \subseteq calls
    BY <1>1, <1>2, <2>1
  <2> QED BY <1>1, <1>2, <2>1, <2>2, StandsBeside
<1> QED BY <1>3, <1>4

\* What the platform answers otherwise, and what its cores do of themselves.
LEMMA PlatformStands ==
    ASSUME IInv, NEW c \in Cores,
           \/ AckLate(c) \/ LaunchFails(c) \/ Terminated(c) \/ TerminateFails(c)
           \/ Boots(c) \/ Dies(c)
    PROVE  IInv'
<1>1. /\ {calls, late, kills, found, lost} \subseteq SUBSET Cores
      /\ vm \in [Cores -> States] /\ trouble \in 0..MaxTrouble
      /\ drowsy \in BOOLEAN /\ auth \in BOOLEAN
  BY TypesAre DEF IInv
<1>2. ledger' = ledger /\ handed' = handed /\ saved' = saved /\ drowsy' = drowsy /\ auth' = auth
  BY DEF AckLate, LaunchFails, Terminated, TerminateFails, Boots, Dies
<1>3. trouble' \in 0..MaxTrouble
  BY <1>1, FaultCounts DEF AckLate, LaunchFails, Terminated, TerminateFails, Boots, Dies
<1>4. {late', kills', found', lost'} \subseteq SUBSET Cores /\ calls' \subseteq calls
  BY <1>1 DEF AckLate, LaunchFails, Terminated, TerminateFails, Boots, Dies
<1>5. vm' = vm \/ vm' = [vm EXCEPT ![c] = "gone"] \/ vm' = [vm EXCEPT ![c] = "running"]
  BY DEF AckLate, LaunchFails, Terminated, TerminateFails, Boots, Dies, Gone
<1>6. vm' \in [Cores -> States] /\ \A d \in Cores : vm[d] # "unused" => vm'[d] # "unused"
  BY <1>1, <1>5 DEF States
<1> QED BY <1>1, <1>2, <1>3, <1>4, <1>6, StandsBeside

\* Links, graces and ages, and what an operator or the reaper takes away.
LEMMA LinksStand ==
    ASSUME IInv, NEW c \in Cores,
           Hello(c) \/ Disconnect(c) \/ LinkTimeout(c) \/ Ages(c) \/ Command(c) \/ Reap
    PROVE  IInv'
<1>1. /\ Sound(ledger) /\ {calls, late, kills, found, lost} \subseteq SUBSET Cores
      /\ trouble \in 0..MaxTrouble
  BY TypesAre DEF IInv
<1>2. UNCHANGED <<drowsy, auth, vm, calls, late, handed, saved>> /\ trouble' \in 0..MaxTrouble
  BY <1>1, FaultCounts DEF Hello, Disconnect, LinkTimeout, Ages, Command, Reap
<1>3. {kills', found', lost'} \subseteq SUBSET Cores
  BY <1>1 DEF Hello, Disconnect, LinkTimeout, Ages, Command, Reap, Hides
<1>4. CASE \/ ledger' = [ledger EXCEPT !.linked = @ \cup {c}] /\ c \in Known
           \/ ledger' = [ledger EXCEPT !.linked = @ \ {c}]
           \/ ledger' = [ledger EXCEPT !.overdue = @ \cup {c}] /\ c \in Known
  <2>1. /\ ledger' \in Ledger /\ ledger.cores' = ledger.cores /\ ledger.phase' = ledger.phase
        /\ ledger.fresh' = ledger.fresh
        /\ ledger.linked' \subseteq Known /\ ledger.overdue' \subseteq Known
    BY <1>1, <1>4 DEF Sound, Ledger, Known
  <2>2. Sound(ledger') /\ Range(ledger.cores') \subseteq Known
    BY <1>1, <2>1 DEF Sound, Known
  <2> QED BY <1>2, <1>3, <2>1, <2>2, StandsInside
<1>5. CASE ledger' = Forgotten(ledger, {c}) \/ ledger' = Forgotten(ledger, found)
  <2>1. Sound(ledger') /\ Range(ledger.cores') \subseteq Known /\ ledger.phase' = ledger.phase
    <3>1. PICK S : ledger' = Forgotten(ledger, S)
      BY <1>5
    <3>2. /\ Sound(Forgotten(ledger, S)) /\ Forgotten(ledger, S).phase = ledger.phase
          /\ Range(Forgotten(ledger, S).cores) = Known \ S
      BY <1>1, Forgetting DEF Known
    <3> QED BY <3>1, <3>2
  <2> QED BY <1>2, <1>3, <2>1, StandsInside
<1> QED BY <1>4, <1>5 DEF Hello, Disconnect, LinkTimeout, Ages, Command, Reap, Reaped

\* The steps that change neither the ledger nor a copy.
LEMMA OthersStand ==
    ASSUME IInv, ReapRead \/ Visit \/ Drowse \/ Named PROVE IInv'
<1>1. /\ Sound(ledger) /\ {calls, late, kills, found, lost} \subseteq SUBSET Cores
      /\ vm \in [Cores -> States] /\ trouble \in 0..MaxTrouble
      /\ drowsy \in BOOLEAN /\ auth \in BOOLEAN
  BY TypesAre DEF IInv
<1>2. Known \subseteq Cores
  BY <1>1, RangeIsCores DEF Sound, Ledger, Known
<1>3. /\ UNCHANGED <<ledger, vm, calls, late, kills, handed, saved, trouble, lost>>
      /\ found' \in SUBSET Cores /\ drowsy' \in BOOLEAN /\ auth' \in BOOLEAN
  BY <1>1, <1>2 DEF ReapRead, Visit, Drowse, Named
<1>4. {late', kills', found', lost'} \subseteq SUBSET Cores /\ calls' \subseteq calls
  BY <1>1, <1>3
<1> QED BY <1>1, <1>3, <1>4, StandsBeside

\* A snapshot or a hand-over copies what the ledger knows.
LEMMA CopiesStand ==
    ASSUME IInv, LastSnapshot \/ HandOver PROVE IInv'
<1>1. /\ TypeOK /\ Sound(ledger) /\ {calls, late, kills, found, lost} \subseteq SUBSET Cores
      /\ vm \in [Cores -> States] /\ trouble \in 0..MaxTrouble
      /\ drowsy \in BOOLEAN /\ auth \in BOOLEAN /\ IsCopy(handed) /\ IsCopy(saved)
      /\ LaunchedOnce /\ HandedIsAll
  BY TypesAre DEF IInv
<1>2. /\ UNCHANGED <<drowsy, auth, vm, calls, late, kills, found, lost>>
      /\ trouble' \in 0..MaxTrouble
  BY <1>1, FaultCounts DEF LastSnapshot, HandOver
<1> DEFINE copy == Copy(ledger)
<1>3. copy \in Carried /\ IsInjective(copy.cores) /\ CopyCores(copy) = Known
  BY <1>1, Copying DEF Known
<1>3a. \/ saved' = copy /\ handed' = handed
       \/ handed' = copy /\ saved' = saved
  BY DEF LastSnapshot, HandOver
<1> HIDE DEF copy
<1>4. /\ CopyCores(handed') \subseteq Known \cup CopyCores(handed)
      /\ CopyCores(saved') \subseteq Known \cup CopyCores(saved)
      /\ \A s \in {handed', saved'} : s = None \/ (s \in Carried /\ IsInjective(s.cores))
  BY <1>1, <1>3, <1>3a DEF IsCopy
<1>5. ledger' \in Ledger /\ ledger.cores' = ledger.cores /\ ledger.linked' = ledger.linked
      /\ ledger.overdue' = ledger.overdue /\ ledger.fresh' = ledger.fresh
  BY <1>1 DEF LastSnapshot, HandOver, Sound, Ledger
<1>6. TypeOK'
  <2>1. Sound(ledger')
    BY <1>1, <1>5 DEF Sound
  <2>2. {calls', late', kills', found', lost'} \subseteq SUBSET Cores
    BY <1>1, <1>2
  <2> QED BY <1>1, <1>2, <1>4, <2>1, <2>2 DEF TypeOK, Sound, Known, Linked, States
<1>7. Known' = Known
  BY <1>5 DEF Known
<1>8. LaunchedOnce'
  <2>1. CopyCores(handed)' = CopyCores(handed') /\ CopyCores(saved)' = CopyCores(saved')
    BY DEF CopyCores
  <2>2. \A c \in Known' \cup calls' \cup CopyCores(handed)' \cup CopyCores(saved)' :
          vm'[c] # "unused"
    BY <1>1, <1>2, <1>4, <1>7, <2>1 DEF LaunchedOnce
  <2> QED BY <1>1, <1>2, <1>7, <2>2 DEF LaunchedOnce
<1>9. HandedIsAll'
  <2>1. CASE LastSnapshot
    <3>1. handed' = handed /\ ledger' = ledger
      BY <2>1 DEF LastSnapshot
    <3> QED BY <1>1, <3>1 DEF HandedIsAll, CopyCores, Known
  <2>2. CASE HandOver
    <3>1. handed' = copy /\ ledger.phase' = "handing-over"
      BY <1>1, <2>2 DEF HandOver, copy, Sound, Ledger
    <3>2. Known' \subseteq CopyCores(handed)'
      BY <1>3, <1>7, <3>1 DEF CopyCores
    <3> QED BY <3>1, <3>2 DEF HandedIsAll
  <2> QED BY <2>1, <2>2
<1> QED BY <1>6, <1>8, <1>9 DEF IInv

(* A successor, a lease that runs out, or a boot from a snapshot: the      *)
(* ledger is that of the copy, or the predecessor's again.                 *)
LEMMA SuccessionStands ==
    ASSUME IInv, Adopt \/ LeaseOver \/ Crash PROVE IInv'
<1>1. /\ TypeOK /\ Sound(ledger) /\ {calls, late, kills, found, lost} \subseteq SUBSET Cores
      /\ vm \in [Cores -> States] /\ trouble \in 0..MaxTrouble
      /\ drowsy \in BOOLEAN /\ auth \in BOOLEAN /\ IsCopy(handed) /\ IsCopy(saved)
      /\ LaunchedOnce /\ HandedIsAll
  BY TypesAre DEF IInv
<1>2. vm' = vm /\ drowsy' = drowsy /\ auth' \in BOOLEAN /\ handed' = None
  BY <1>1 DEF Adopt, LeaseOver, Crash
<1>3. trouble' \in 0..MaxTrouble
  BY <1>1, FaultCounts DEF Adopt, LeaseOver, Crash
<1>4. {calls', late', kills', found', lost'} \subseteq SUBSET Cores
  BY <1>1 DEF Adopt, LeaseOver, Crash
<1>5. saved' = saved \/ saved' = None
  BY DEF Adopt, LeaseOver, Crash
<1>6. \/ Sound(ledger') /\ Range(ledger.cores') \subseteq Known /\ calls' = calls
      \/ /\ Sound(ledger') /\ calls' = {}
         /\ Range(ledger.cores') \subseteq CopyCores(handed) \cup CopyCores(saved)
  <2>1. CASE LeaseOver
    <3>1. ledger' \in Ledger /\ ledger.cores' = ledger.cores /\ ledger.linked' = ledger.linked
          /\ ledger.overdue' = ledger.overdue /\ ledger.fresh' = ledger.fresh
      BY <1>1, <2>1 DEF LeaseOver, Sound, Ledger
    <3>2. Sound(ledger') /\ Range(ledger.cores') \subseteq Known
      BY <1>1, <3>1 DEF Sound, Known
    <3> QED BY <2>1, <3>2 DEF LeaseOver
  <2>2. CASE Adopt
    <3>1. handed \in Carried /\ IsInjective(handed.cores)
      BY <1>1, <2>2 DEF Adopt, IsCopy
    <3>2. Sound(Adopted(handed)) /\ Range(Adopted(handed).cores) = CopyCores(handed)
      BY <3>1, Adopting
    <3> QED BY <2>2, <3>2 DEF Adopt
  <2>3. CASE Crash
    <3>1. CASE saved = None
      <4>1. ledger' = FreshLedger /\ calls' = {}
        BY <2>3, <3>1 DEF Crash
      <4>2. FreshLedger.cores = <<>> /\ Range(<<>>) = {}
        BY DEF FreshLedger, Range
      <4>3. Sound(FreshLedger)
        BY <4>2 DEF FreshLedger, Sound, Ledger, IsInjective
      <4> QED BY <4>1, <4>2, <4>3
    <3>2. CASE saved # None
      <4>1. saved \in Carried /\ IsInjective(saved.cores)
        BY <1>1, <3>2 DEF IsCopy
      <4>2. Sound(Adopted(saved)) /\ Range(Adopted(saved).cores) = CopyCores(saved)
        BY <4>1, Adopting
      <4> QED BY <2>3, <3>2, <4>2 DEF Crash
    <3> QED BY <3>1, <3>2
  <2> QED BY <2>1, <2>2, <2>3
<1>7. TypeOK'
  <2>1. Sound(ledger')
    BY <1>6
  <2>2. \A s \in {handed', saved'} : s = None \/ (s \in Carried /\ IsInjective(s.cores))
    BY <1>1, <1>2, <1>5 DEF IsCopy
  <2> QED BY <1>1, <1>2, <1>3, <1>4, <2>1, <2>2 DEF TypeOK, Sound, Known, Linked, States
<1>8. LaunchedOnce'
  <2>1. CopyCores(handed)' = {} /\ CopyCores(saved)' \subseteq CopyCores(saved)
    BY <1>2, <1>5 DEF CopyCores
  <2>2. Known' = Range(ledger.cores')
    BY DEF Known
  <2>3. calls' \subseteq calls /\ Known' \cap calls' = {}
    BY <1>1, <1>6, <2>2 DEF LaunchedOnce
  <2>4. \A c \in Known' \cup calls' \cup CopyCores(handed)' \cup CopyCores(saved)' : vm[c] # "unused"
    BY <1>1, <1>6, <2>1, <2>2, <2>3 DEF LaunchedOnce
  <2> QED BY <1>2, <2>3, <2>4 DEF LaunchedOnce
<1>9. HandedIsAll'
  BY <1>2 DEF HandedIsAll
<1> QED BY <1>7, <1>8, <1>9 DEF IInv
-----------------------------------------------------------------------------
(* The theorems. *)

\* A fresh machine knows no core.
LEMMA InitiallyFresh ==
    ASSUME Init PROVE IInv
<1>1. IsInjective(<<>>) /\ Range(<<>>) = {}
  BY DEF IsInjective, Range
<1>2. FreshLedger \in Ledger
  BY DEF FreshLedger, Ledger
<1>3. Known = {} /\ Linked = {} /\ ledger.overdue = {} /\ ledger.fresh = {}
  BY <1>1 DEF Init, FreshLedger, Known, Linked
<1>4. TypeOK
  <2>1. ledger \in Ledger /\ ledger.cores = <<>> /\ IsInjective(ledger.cores)
    BY <1>1, <1>2 DEF Init, FreshLedger
  <2>2. vm \in [Cores -> {"unused", "pending", "running", "gone"}]
    BY DEF Init
  <2>3. trouble \in 0..MaxTrouble /\ MaxTrouble \in Nat
    BY CloudFleetAssumption DEF Init
  <2>4. {calls, late, kills, found, lost} \subseteq SUBSET Cores
    BY DEF Init
  <2> QED BY <1>3, <2>1, <2>2, <2>3, <2>4 DEF Init, TypeOK
<1>5. LaunchedOnce /\ HandedIsAll
  BY <1>3 DEF Init, LaunchedOnce, HandedIsAll, CopyCores
<1> QED BY <1>4, <1>5 DEF IInv

\* The invariant is inductive.
LEMMA StepKeeps ==
    ASSUME IInv, [Next]_vars PROVE IInv'
<1>1. CASE UNCHANGED vars
  BY <1>1 DEF vars, IInv, TypeOK, LaunchedOnce, HandedIsAll, Known, Linked, CopyCores
<1>2. CASE Next
  <2>1. ASSUME NEW gap \in BOOLEAN, Tick(gap) PROVE IInv'
    BY <2>1, TickStands
  <2>2. ASSUME NEW c \in Cores, Ack(c) PROVE IInv'
    BY <2>2, AckStands
  <2>3. ASSUME NEW c \in Cores,
               \/ AckLate(c) \/ LaunchFails(c) \/ Terminated(c) \/ TerminateFails(c)
               \/ Boots(c) \/ Dies(c)
        PROVE  IInv'
    BY <2>3, PlatformStands
  <2>4. ASSUME NEW c \in Cores,
               Hello(c) \/ Disconnect(c) \/ LinkTimeout(c) \/ Ages(c) \/ Command(c)
        PROVE  IInv'
    BY <2>4, LinksStand
  <2>5. ASSUME Reap PROVE IInv'
    <3>1. PICK c : c \in found
      BY <2>5 DEF Reap
    <3>2. c \in Cores
      BY <3>1, TypesAre DEF IInv
    <3> QED BY <2>5, <3>2, LinksStand
  <2>6. ASSUME ReapRead \/ Visit \/ Drowse \/ Named PROVE IInv'
    BY <2>6, OthersStand
  <2>7. ASSUME LastSnapshot \/ HandOver PROVE IInv'
    BY <2>7, CopiesStand
  <2>8. ASSUME Adopt \/ LeaseOver \/ Crash PROVE IInv'
    BY <2>8, SuccessionStands
  <2> QED BY <1>2, <2>1, <2>2, <2>3, <2>4, <2>5, <2>6, <2>7, <2>8 DEF Next, Platform, Process
<1> QED BY <1>1, <1>2

(* Whatever is launched, answered late, handed over, adopted or lost, the  *)
(* ledger records each core once, a launch's answer names a core nobody    *)
(* has recorded, and a successor gets all its predecessor still knows.     *)
THEOREM RecordedOnce == Spec => []IInv
<1>1. Init => IInv
  BY InitiallyFresh
<1>2. IInv /\ [Next]_vars => IInv'
  BY StepKeeps
<1> QED BY <1>1, <1>2, PTL DEF Spec
-----------------------------------------------------------------------------
(* No orphan. *)

\* A step of the ledger: whom it forgets it terminates, or the reaper hides.
LEMMA TickHolds ==
    ASSUME IInv, NoOrphan, NEW gap \in BOOLEAN, Tick(gap) PROVE NoOrphan'
<1>1. /\ Sound(ledger) /\ ledger.cores \in Seq(Cores) /\ ledger.asked \in Nat
      /\ vm \in [Cores -> States]
  BY TypesAre DEF IInv, Sound, Ledger
<1>2. UNCHANGED <<late, handed, lost>>
  BY DEF Tick
<1>3. Known \ Known' \subseteq kills' /\ kills \subseteq kills'
  <2>1. CASE Sleeps
    BY <2>1 DEF Sleeps
  <2>2. CASE KeepsCores(gap)
    <3> DEFINE kept == Without(ledger.cores, ledger.overdue)
               gone == ledger.overdue \cup Surplus(kept)
    <3>1. PICK asked \in Counted(ledger.asked) :
            LET launch == ~gap /\ Missing(kept, asked)
            IN  /\ ledger' = [Forgotten(ledger, gone) EXCEPT
                                 !.fresh = {}, !.asked = IF launch THEN asked + 1 ELSE asked]
                /\ kills' = kills \cup gone
      BY <2>2 DEF KeepsCores
    <3> DEFINE n == IF ~gap /\ Missing(kept, asked) THEN asked + 1 ELSE asked
    <3>2. n \in Nat
      BY <1>1, <3>1 DEF Counted
    <3>2a. ledger' = Left(ledger, gone, n) /\ kills' = kills \cup gone
      BY <3>1 DEF Left
    <3> HIDE DEF gone, n
    <3>3. Known' = Known \ gone
      BY <1>1, <3>2, <3>2a, Keeping DEF Known
    <3> QED BY <3>2a, <3>3
  <2> QED BY <2>1, <2>2 DEF Tick
<1>4. /\ calls \subseteq calls'
      /\ \A c \in Cores : Live(c)' => Live(c) \/ c \in calls'
  <2>1. UNCHANGED <<vm, calls>> \/
          (vm' = [vm EXCEPT ![NextCore] = "pending"] /\ calls' = calls \cup {NextCore})
    BY DEF Tick, Sleeps, KeepsCores, LaunchCore
  <2> QED BY <1>1, <2>1 DEF Live
<1> QED BY <1>2, <1>3, <1>4 DEF NoOrphan

\* An answer: a core passes from the launches to the ledger or to the kills.
LEMMA AckHolds ==
    ASSUME IInv, NoOrphan, NEW c \in Cores, Ack(c) PROVE NoOrphan'
<1>1. Sound(ledger) /\ LaunchedOnce
  BY TypesAre DEF IInv
<1>2. c \in calls /\ calls' = calls \ {c} /\ UNCHANGED <<vm, late, handed, lost>>
  BY DEF Ack
<1>3. /\ Known \subseteq Known' /\ kills \subseteq kills'
      /\ c \in Known' \cup kills'
  <2>1. CASE ledger.phase = "active"
    <3>1. ledger' = Recorded(ledger, c) /\ kills' = kills
      BY <2>1 DEF Ack
    <3>2. c \notin Range(ledger.cores)
      BY <1>1, <1>2 DEF LaunchedOnce, Known
    <3> QED BY <1>1, <3>1, <3>2, Recording DEF Known
  <2>2. CASE ledger.phase # "active"
    BY <2>2 DEF Ack, Known
  <2> QED BY <2>1, <2>2
<1> QED BY <1>2, <1>3 DEF NoOrphan, Live

\* An answered termination, a failed call, a boot, a death.
LEMMA PlatformHolds ==
    ASSUME IInv, NoOrphan, NEW c \in Cores,
           \/ AckLate(c) \/ LaunchFails(c) \/ Terminated(c) \/ TerminateFails(c)
           \/ Boots(c) \/ Dies(c)
    PROVE  NoOrphan'
<1>1. vm \in [Cores -> States]
  BY TypesAre DEF IInv
<1>2. Known' = Known
  BY DEF AckLate, LaunchFails, Terminated, TerminateFails, Boots, Dies, Known
<1>3. \A d \in Cores : Live(d)' => Live(d)
  <2>1. CASE vm' = vm
    BY <2>1 DEF Live
  <2>2. CASE vm' = [vm EXCEPT ![c] = "gone"]
    BY <1>1, <2>2 DEF Live
  <2>3. CASE Boots(c)
    BY <1>1, <2>3 DEF Boots, Live
  <2> QED BY <2>1, <2>2, <2>3 DEF AckLate, LaunchFails, Terminated, TerminateFails, Dies, Gone
<1>4. \A d \in (calls \cup late \cup kills \cup lost) \ {c} :
        d \in calls' \cup late' \cup kills' \cup lost'
  BY DEF AckLate, LaunchFails, Terminated, TerminateFails, Boots, Dies
<1>5. Live(c)' => c \in Known' \/ c \in calls' \cup late' \cup kills' \cup lost'
  <2>1. CASE vm' = [vm EXCEPT ![c] = "gone"]
    BY <1>1, <2>1 DEF Live
  <2>2. CASE c \in kills' \cup lost'
    BY <2>2
  <2>3. CASE Boots(c)
    BY <1>2, <1>3, <2>3 DEF Boots, NoOrphan
  <2> QED BY <2>1, <2>2, <2>3 DEF AckLate, LaunchFails, Terminated, TerminateFails, Dies, Gone
<1> QED BY <1>2, <1>3, <1>4, <1>5 DEF NoOrphan

\* Links and ages forget nobody; a command terminates, the reaper hides.
LEMMA LinksHold ==
    ASSUME IInv, NoOrphan, NEW c \in Cores,
           Hello(c) \/ Disconnect(c) \/ LinkTimeout(c) \/ Ages(c) \/ Command(c) \/ Reap
    PROVE  NoOrphan'
<1>1. Sound(ledger) /\ ledger \in Ledger
  BY TypesAre DEF IInv, Sound
<1>2. /\ UNCHANGED <<vm, calls, late, handed>> /\ kills \subseteq kills' /\ lost \subseteq lost'
  BY DEF Hello, Disconnect, LinkTimeout, Ages, Command, Reap, Hides
<1>3. \A d \in Known \ Known' : Live(d) => d \in kills' \cup lost'
  <2>1. CASE Command(c)
    <3>1. Known' = Known \ {c}
      BY <1>1, <2>1, Forgetting DEF Command, Known
    <3> QED BY <2>1, <3>1 DEF Command
  <2>2. CASE Reap
    <3>1. Known' = Known \ found
      BY <1>1, <2>2, Forgetting DEF Reap, Reaped, Known
    <3> QED BY <2>2, <3>1 DEF Reap, Hides
  <2>3. CASE Hello(c) \/ Disconnect(c) \/ LinkTimeout(c) \/ Ages(c)
    <3>1. Known' = Known
      BY <1>1, <2>3 DEF Hello, Disconnect, LinkTimeout, Ages, Known, Ledger
    <3> QED BY <3>1
  <2> QED BY <2>1, <2>2, <2>3
<1> QED BY <1>2, <1>3 DEF NoOrphan, Live

\* Who is handed over, adopted, or lost with the process.
LEMMA SuccessionHolds ==
    ASSUME IInv, NoOrphan, LastSnapshot \/ HandOver \/ Adopt \/ LeaseOver \/ Crash
    PROVE  NoOrphan'
<1>1. /\ Sound(ledger) /\ ledger \in Ledger /\ IsCopy(handed) /\ IsCopy(saved)
      /\ HandedIsAll /\ vm \in [Cores -> States]
  BY TypesAre DEF IInv, Sound
<1>2. vm' = vm /\ \A c \in Cores : Live(c)' <=> Live(c)
  BY DEF LastSnapshot, HandOver, Adopt, LeaseOver, Crash, Live
<1>3. CASE LastSnapshot
  BY <1>3 DEF LastSnapshot, NoOrphan, Live, Known
<1>4. CASE HandOver
  <2>1. ledger.cores' = ledger.cores /\ Known' = Known
    BY <1>1, <1>4 DEF HandOver, Ledger, Known
  <2> QED BY <1>2, <1>4, <2>1 DEF HandOver, NoOrphan
<1>5. CASE Adopt
  <2>1. handed \in Carried /\ IsInjective(handed.cores)
    BY <1>1, <1>5 DEF Adopt, IsCopy
  <2>2. Known' = CopyCores(handed) /\ Known \subseteq CopyCores(handed)
    BY <1>1, <1>5, <2>1, Adopting DEF Adopt, Known, HandedIsAll
  <2>3. /\ late' = late \cup calls /\ kills' = kills /\ lost' = lost \ CopyCores(handed)
    BY <1>5 DEF Adopt
  <2> QED BY <1>2, <2>2, <2>3 DEF NoOrphan
<1>6. CASE LeaseOver
  <2>1. ledger.cores' = ledger.cores /\ Known' = Known
    BY <1>1, <1>6 DEF LeaseOver, Ledger, Known
  <2> QED BY <1>2, <1>6, <2>1 DEF LeaseOver, NoOrphan
<1>7. CASE Crash
  <2>1. CopyCores(saved) \subseteq Known'
    <3>1. CASE saved = None
      BY <3>1 DEF CopyCores
    <3>2. CASE saved # None
      <4>1. saved \in Carried /\ IsInjective(saved.cores)
        BY <1>1, <3>2 DEF IsCopy
      <4> QED BY <1>7, <3>2, <4>1, Adopting DEF Crash, Known
    <3> QED BY <3>1, <3>2
  <2>2. \A c \in Cores : Live(c) => c \in lost' \cup CopyCores(saved)
    BY <1>7 DEF Crash
  <2> QED BY <1>2, <2>1, <2>2 DEF NoOrphan
<1> QED BY <1>3, <1>4, <1>5, <1>6, <1>7

(* A cloud core that runs is in the ledger, or a launch or a termination   *)
(* of it is in flight, whatever was launched, handed over, answered late,  *)
(* killed or adopted: only a call that failed, a crash or the reaper's     *)
(* answer about a booting core hides one.                                  *)
THEOREM CoresAreKnown == Spec => []NoOrphan
<1>1. Init => NoOrphan
  BY DEF Init, NoOrphan, Live
<1>2. ASSUME IInv, NoOrphan, [Next]_vars PROVE NoOrphan'
  <2>1. CASE UNCHANGED vars
    BY <1>2, <2>1 DEF vars, NoOrphan, Live, Known
  <2>2. ASSUME NEW gap \in BOOLEAN, Tick(gap) PROVE NoOrphan'
    BY <1>2, <2>2, TickHolds
  <2>3. ASSUME NEW c \in Cores, Ack(c) PROVE NoOrphan'
    BY <1>2, <2>3, AckHolds
  <2>4. ASSUME NEW c \in Cores,
               \/ AckLate(c) \/ LaunchFails(c) \/ Terminated(c) \/ TerminateFails(c)
               \/ Boots(c) \/ Dies(c)
        PROVE  NoOrphan'
    BY <1>2, <2>4, PlatformHolds
  <2>5. ASSUME NEW c \in Cores,
               Hello(c) \/ Disconnect(c) \/ LinkTimeout(c) \/ Ages(c) \/ Command(c)
        PROVE  NoOrphan'
    BY <1>2, <2>5, LinksHold
  <2>6. ASSUME Reap PROVE NoOrphan'
    <3>1. PICK c : c \in found
      BY <2>6 DEF Reap
    <3>2. c \in Cores
      BY <1>2, <3>1, TypesAre DEF IInv
    <3> QED BY <1>2, <2>6, <3>2, LinksHold
  <2>7. ASSUME ReapRead \/ Visit \/ Drowse \/ Named PROVE NoOrphan'
    BY <1>2, <2>7 DEF ReapRead, Visit, Drowse, Named, NoOrphan, Live, Known
  <2>8. ASSUME LastSnapshot \/ HandOver \/ Adopt \/ LeaseOver \/ Crash PROVE NoOrphan'
    BY <1>2, <2>8, SuccessionHolds
  <2> QED BY <1>2, <2>1, <2>2, <2>3, <2>4, <2>5, <2>6, <2>7, <2>8 DEF Next, Platform, Process
<1> QED BY <1>1, <1>2, RecordedOnce, PTL DEF Spec
=============================================================================
