---------------------------- MODULE ReplicaProofs ----------------------------
(***************************************************************************)
(* Proofs about Replica for any number of nodes, executions, tasks, pages  *)
(* and failures: a page that is live shows the machine there is.  Handlers *)
(* are chains of functions from ledger to ledger, and a page folds what    *)
(* they announced; so each function has a lemma of what it keeps of the    *)
(* ledger, and of what a page shows that has read all up to it.            *)
(***************************************************************************)
EXTENDS Replica, FilterProofs, FiniteSetTheorems

-----------------------------------------------------------------------------
(* The folds: what their recursive definitions say is true of them.        *)

LEMMA FilledIs ==
    ASSUME NEW l, NEW overdue, Turns \in Nat
    PROVE  /\ Filled(l, overdue)[0] = l
           /\ \A n \in 1..Turns :
                Filled(l, overdue)[n] = FillSlot(Filled(l, overdue)[n - 1], Turn(n), overdue)
<1> DEFINE Step(f, n) == FillSlot(f[n - 1], Turn(n), overdue)
           F(f, n) == IF n = 0 THEN l ELSE Step(f, n)
           G == {n \in Nat : \E f : f = [i \in 0..n |-> F(f, i)]}
<1>1. 0 \in G
  <2> DEFINE f == [i \in 0..0 |-> l]
  <2>1. f = [i \in 0..0 |-> F(f, i)]
    OBVIOUS
  <2> HIDE DEF f, F
  <2> QED BY <2>1
<1>2. ASSUME NEW n \in G PROVE n + 1 \in G
  <2> HIDE DEF F
  <2>1. PICK f : f = [i \in 0..n |-> F(f, i)]
    OBVIOUS
  <2> DEFINE g == [i \in 0..n + 1 |-> IF i = n + 1 THEN F(f, i) ELSE f[i]]
  <2>2. ASSUME NEW i \in 0..n + 1 PROVE g[i] = F(g, i)
    <3>0. n \in Nat
      OBVIOUS
    <3>1. i # 0 => i - 1 \in 0..n + 1 /\ i - 1 # n + 1
      BY <3>0
    <3>2. F(g, i) = F(f, i)
      BY <3>1 DEF F
    <3>3. i # n + 1 => i \in 0..n
      BY <3>0
    <3>4. i # n + 1 => f[i] = F(f, i)
      <4> HIDE DEF g
      <4> QED BY <2>1, <3>3
    <3> QED BY <3>2, <3>4
  <2>3. g = [i \in 0..n + 1 |-> F(g, i)]
    BY <2>2
  <2> HIDE DEF g
  <2> QED BY <2>3
<1> HIDE DEF G
<1>3. G = Nat
  <2>1. G \in SUBSET Nat
    BY DEF G
  <2> QED BY <1>1, <1>2, <2>1, Induction
<1> DEFINE Whole(f) == [i \in 0..Turns |-> F(f, i)]
<1>4. \E f : f = Whole(f)
  <2> HIDE DEF F
  <2> QED BY <1>3 DEF G
<1>5. Filled(l, overdue) = CHOOSE f : f = Whole(f)
  BY DEF Filled
<1> HIDE DEF Whole
<1>6. Filled(l, overdue) = Whole(Filled(l, overdue))
  BY <1>4, <1>5
<1> DEFINE k == Filled(l, overdue)
<1>7. k = [i \in 0..Turns |-> F(k, i)]
  BY <1>6 DEF Whole
<1>8. 0 \in 0..Turns /\ \A n \in 1..Turns : n \in 0..Turns /\ n # 0
  OBVIOUS
<1> HIDE DEF k, Step
<1>9. k[0] = l /\ \A n \in 1..Turns : k[n] = Step(k, n)
  BY <1>7, <1>8
<1> QED BY <1>9 DEF k, Step

LEMMA ReleasedIs ==
    ASSUME NEW l, NEW node, Len(l.tasks) \in Nat
    PROVE  /\ Released(l, node)[0] = l
           /\ \A n \in 1..Len(l.tasks) :
                Released(l, node)[n] = ReleaseHeld(Released(l, node)[n - 1], n, node)
<1> DEFINE Step(f, n) == ReleaseHeld(f[n - 1], n, node)
           F(f, n) == IF n = 0 THEN l ELSE Step(f, n)
           G == {n \in Nat : \E f : f = [i \in 0..n |-> F(f, i)]}
<1>1. 0 \in G
  <2> DEFINE f == [i \in 0..0 |-> l]
  <2>1. f = [i \in 0..0 |-> F(f, i)]
    OBVIOUS
  <2> HIDE DEF f, F
  <2> QED BY <2>1
<1>2. ASSUME NEW n \in G PROVE n + 1 \in G
  <2> HIDE DEF F
  <2>1. PICK f : f = [i \in 0..n |-> F(f, i)]
    OBVIOUS
  <2> DEFINE g == [i \in 0..n + 1 |-> IF i = n + 1 THEN F(f, i) ELSE f[i]]
  <2>2. ASSUME NEW i \in 0..n + 1 PROVE g[i] = F(g, i)
    <3>0. n \in Nat
      OBVIOUS
    <3>1. i # 0 => i - 1 \in 0..n + 1 /\ i - 1 # n + 1
      BY <3>0
    <3>2. F(g, i) = F(f, i)
      BY <3>1 DEF F
    <3>3. i # n + 1 => i \in 0..n
      BY <3>0
    <3>4. i # n + 1 => f[i] = F(f, i)
      <4> HIDE DEF g
      <4> QED BY <2>1, <3>3
    <3> QED BY <3>2, <3>4
  <2>3. g = [i \in 0..n + 1 |-> F(g, i)]
    BY <2>2
  <2> HIDE DEF g
  <2> QED BY <2>3
<1> HIDE DEF G
<1>3. G = Nat
  <2>1. G \in SUBSET Nat
    BY DEF G
  <2> QED BY <1>1, <1>2, <2>1, Induction
<1> DEFINE Whole(f) == [i \in 0..Len(l.tasks) |-> F(f, i)]
<1>4. \E f : f = Whole(f)
  <2> HIDE DEF F
  <2> QED BY <1>3 DEF G
<1>5. Released(l, node) = CHOOSE f : f = Whole(f)
  BY DEF Released
<1> HIDE DEF Whole
<1>6. Released(l, node) = Whole(Released(l, node))
  BY <1>4, <1>5
<1> DEFINE k == Released(l, node)
<1>7. k = [i \in 0..Len(l.tasks) |-> F(k, i)]
  BY <1>6 DEF Whole
<1>8. 0 \in 0..Len(l.tasks) /\ \A n \in 1..Len(l.tasks) : n \in 0..Len(l.tasks) /\ n # 0
  OBVIOUS
<1> HIDE DEF k, Step
<1>9. k[0] = l /\ \A n \in 1..Len(l.tasks) : k[n] = Step(k, n)
  BY <1>7, <1>8
<1> QED BY <1>9 DEF k, Step

LEMMA ReleasedAllIs ==
    ASSUME NEW l, Len(NodeOrder) \in Nat
    PROVE  /\ ReleasedAll(l)[0] = l
           /\ \A n \in 1..Len(NodeOrder) :
                ReleasedAll(l)[n] = ReleaseNode(ReleasedAll(l)[n - 1], NodeOrder[n])
<1> DEFINE Step(f, n) == ReleaseNode(f[n - 1], NodeOrder[n])
           F(f, n) == IF n = 0 THEN l ELSE Step(f, n)
           G == {n \in Nat : \E f : f = [i \in 0..n |-> F(f, i)]}
<1>1. 0 \in G
  <2> DEFINE f == [i \in 0..0 |-> l]
  <2>1. f = [i \in 0..0 |-> F(f, i)]
    OBVIOUS
  <2> HIDE DEF f, F
  <2> QED BY <2>1
<1>2. ASSUME NEW n \in G PROVE n + 1 \in G
  <2> HIDE DEF F
  <2>1. PICK f : f = [i \in 0..n |-> F(f, i)]
    OBVIOUS
  <2> DEFINE g == [i \in 0..n + 1 |-> IF i = n + 1 THEN F(f, i) ELSE f[i]]
  <2>2. ASSUME NEW i \in 0..n + 1 PROVE g[i] = F(g, i)
    <3>0. n \in Nat
      OBVIOUS
    <3>1. i # 0 => i - 1 \in 0..n + 1 /\ i - 1 # n + 1
      BY <3>0
    <3>2. F(g, i) = F(f, i)
      BY <3>1 DEF F
    <3>3. i # n + 1 => i \in 0..n
      BY <3>0
    <3>4. i # n + 1 => f[i] = F(f, i)
      <4> HIDE DEF g
      <4> QED BY <2>1, <3>3
    <3> QED BY <3>2, <3>4
  <2>3. g = [i \in 0..n + 1 |-> F(g, i)]
    BY <2>2
  <2> HIDE DEF g
  <2> QED BY <2>3
<1> HIDE DEF G
<1>3. G = Nat
  <2>1. G \in SUBSET Nat
    BY DEF G
  <2> QED BY <1>1, <1>2, <2>1, Induction
<1> DEFINE Whole(f) == [i \in 0..Len(NodeOrder) |-> F(f, i)]
<1>4. \E f : f = Whole(f)
  <2> HIDE DEF F
  <2> QED BY <1>3 DEF G
<1>5. ReleasedAll(l) = CHOOSE f : f = Whole(f)
  BY DEF ReleasedAll
<1> HIDE DEF Whole
<1>6. ReleasedAll(l) = Whole(ReleasedAll(l))
  BY <1>4, <1>5
<1> DEFINE k == ReleasedAll(l)
<1>7. k = [i \in 0..Len(NodeOrder) |-> F(k, i)]
  BY <1>6 DEF Whole
<1>8. 0 \in 0..Len(NodeOrder) /\ \A n \in 1..Len(NodeOrder) : n \in 0..Len(NodeOrder) /\ n # 0
  OBVIOUS
<1> HIDE DEF k, Step
<1>9. k[0] = l /\ \A n \in 1..Len(NodeOrder) : k[n] = Step(k, n)
  BY <1>7, <1>8
<1> QED BY <1>9 DEF k, Step

LEMMA SettledIs ==
    ASSUME NEW l, Len(l.tasks) \in Nat
    PROVE  /\ Settled(l)[0] = l
           /\ \A n \in 1..Len(l.tasks) :
                Settled(l)[n] = SettleExisting(Settled(l)[n - 1], n)
<1> DEFINE Step(f, n) == SettleExisting(f[n - 1], n)
           F(f, n) == IF n = 0 THEN l ELSE Step(f, n)
           G == {n \in Nat : \E f : f = [i \in 0..n |-> F(f, i)]}
<1>1. 0 \in G
  <2> DEFINE f == [i \in 0..0 |-> l]
  <2>1. f = [i \in 0..0 |-> F(f, i)]
    OBVIOUS
  <2> HIDE DEF f, F
  <2> QED BY <2>1
<1>2. ASSUME NEW n \in G PROVE n + 1 \in G
  <2> HIDE DEF F
  <2>1. PICK f : f = [i \in 0..n |-> F(f, i)]
    OBVIOUS
  <2> DEFINE g == [i \in 0..n + 1 |-> IF i = n + 1 THEN F(f, i) ELSE f[i]]
  <2>2. ASSUME NEW i \in 0..n + 1 PROVE g[i] = F(g, i)
    <3>0. n \in Nat
      OBVIOUS
    <3>1. i # 0 => i - 1 \in 0..n + 1 /\ i - 1 # n + 1
      BY <3>0
    <3>2. F(g, i) = F(f, i)
      BY <3>1 DEF F
    <3>3. i # n + 1 => i \in 0..n
      BY <3>0
    <3>4. i # n + 1 => f[i] = F(f, i)
      <4> HIDE DEF g
      <4> QED BY <2>1, <3>3
    <3> QED BY <3>2, <3>4
  <2>3. g = [i \in 0..n + 1 |-> F(g, i)]
    BY <2>2
  <2> HIDE DEF g
  <2> QED BY <2>3
<1> HIDE DEF G
<1>3. G = Nat
  <2>1. G \in SUBSET Nat
    BY DEF G
  <2> QED BY <1>1, <1>2, <2>1, Induction
<1> DEFINE Whole(f) == [i \in 0..Len(l.tasks) |-> F(f, i)]
<1>4. \E f : f = Whole(f)
  <2> HIDE DEF F
  <2> QED BY <1>3 DEF G
<1>5. Settled(l) = CHOOSE f : f = Whole(f)
  BY DEF Settled
<1> HIDE DEF Whole
<1>6. Settled(l) = Whole(Settled(l))
  BY <1>4, <1>5
<1> DEFINE k == Settled(l)
<1>7. k = [i \in 0..Len(l.tasks) |-> F(k, i)]
  BY <1>6 DEF Whole
<1>8. 0 \in 0..Len(l.tasks) /\ \A n \in 1..Len(l.tasks) : n \in 0..Len(l.tasks) /\ n # 0
  OBVIOUS
<1> HIDE DEF k, Step
<1>9. k[0] = l /\ \A n \in 1..Len(l.tasks) : k[n] = Step(k, n)
  BY <1>7, <1>8
<1> QED BY <1>9 DEF k, Step

LEMMA ReadUpToIs ==
    ASSUME NEW v, NEW messages, Len(messages) \in Nat
    PROVE  /\ ReadUpTo(v, messages)[0] = v
           /\ \A n \in 1..Len(messages) :
                ReadUpTo(v, messages)[n] = ApplyMessage(ReadUpTo(v, messages)[n - 1], messages[n])
<1> DEFINE Step(f, n) == ApplyMessage(f[n - 1], messages[n])
           F(f, n) == IF n = 0 THEN v ELSE Step(f, n)
           G == {n \in Nat : \E f : f = [i \in 0..n |-> F(f, i)]}
<1>1. 0 \in G
  <2> DEFINE f == [i \in 0..0 |-> v]
  <2>1. f = [i \in 0..0 |-> F(f, i)]
    OBVIOUS
  <2> HIDE DEF f, F
  <2> QED BY <2>1
<1>2. ASSUME NEW n \in G PROVE n + 1 \in G
  <2> HIDE DEF F
  <2>1. PICK f : f = [i \in 0..n |-> F(f, i)]
    OBVIOUS
  <2> DEFINE g == [i \in 0..n + 1 |-> IF i = n + 1 THEN F(f, i) ELSE f[i]]
  <2>2. ASSUME NEW i \in 0..n + 1 PROVE g[i] = F(g, i)
    <3>0. n \in Nat
      OBVIOUS
    <3>1. i # 0 => i - 1 \in 0..n + 1 /\ i - 1 # n + 1
      BY <3>0
    <3>2. F(g, i) = F(f, i)
      BY <3>1 DEF F
    <3>3. i # n + 1 => i \in 0..n
      BY <3>0
    <3>4. i # n + 1 => f[i] = F(f, i)
      <4> HIDE DEF g
      <4> QED BY <2>1, <3>3
    <3> QED BY <3>2, <3>4
  <2>3. g = [i \in 0..n + 1 |-> F(g, i)]
    BY <2>2
  <2> HIDE DEF g
  <2> QED BY <2>3
<1> HIDE DEF G
<1>3. G = Nat
  <2>1. G \in SUBSET Nat
    BY DEF G
  <2> QED BY <1>1, <1>2, <2>1, Induction
<1> DEFINE Whole(f) == [i \in 0..Len(messages) |-> F(f, i)]
<1>4. \E f : f = Whole(f)
  <2> HIDE DEF F
  <2> QED BY <1>3 DEF G
<1>5. ReadUpTo(v, messages) = CHOOSE f : f = Whole(f)
  BY DEF ReadUpTo
<1> HIDE DEF Whole
<1>6. ReadUpTo(v, messages) = Whole(ReadUpTo(v, messages))
  BY <1>4, <1>5
<1> DEFINE k == ReadUpTo(v, messages)
<1>7. k = [i \in 0..Len(messages) |-> F(k, i)]
  BY <1>6 DEF Whole
<1>8. 0 \in 0..Len(messages) /\ \A n \in 1..Len(messages) : n \in 0..Len(messages) /\ n # 0
  OBVIOUS
<1> HIDE DEF k, Step
<1>9. k[0] = v /\ \A n \in 1..Len(messages) : k[n] = Step(k, n)
  BY <1>7, <1>8
<1> QED BY <1>9 DEF k, Step
-----------------------------------------------------------------------------
(* Reading.                                                                *)

\* What was read of a list is what is read of a longer one so far.
LEMMA ReadPrefix ==
    ASSUME NEW v, NEW S, NEW ms \in Seq(S), NEW ns \in Seq(S), Len(ms) <= Len(ns),
           \A i \in 1..Len(ms) : ns[i] = ms[i]
    PROVE  \A n \in 0..Len(ms) : ReadUpTo(v, ns)[n] = ReadUpTo(v, ms)[n]
<1> DEFINE f == ReadUpTo(v, ms)
           g == ReadUpTo(v, ns)
           G == {n \in Nat : n <= Len(ms) => g[n] = f[n]}
<1>0. Len(ms) \in Nat /\ Len(ns) \in Nat
  OBVIOUS
<1>1. f[0] = v /\ \A n \in 1..Len(ms) : f[n] = ApplyMessage(f[n - 1], ms[n])
  BY <1>0, ReadUpToIs
<1>2. g[0] = v /\ \A n \in 1..Len(ns) : g[n] = ApplyMessage(g[n - 1], ns[n])
  BY <1>0, ReadUpToIs
<1> HIDE DEF f, g
<1>3. 0 \in G
  BY <1>1, <1>2
<1>4. ASSUME NEW n \in G PROVE n + 1 \in G
  <2> SUFFICES ASSUME n \in Nat, n + 1 <= Len(ms) PROVE g[n + 1] = f[n + 1]
    OBVIOUS
  <2>1. n <= Len(ms) /\ n + 1 \in 1..Len(ms) /\ n + 1 \in 1..Len(ns) /\ (n + 1) - 1 = n
    BY <1>0
  <2>2. g[n] = f[n]
    BY <2>1
  <2>3. f[n + 1] = ApplyMessage(f[n], ms[n + 1]) /\ g[n + 1] = ApplyMessage(g[n], ns[n + 1])
    BY <1>1, <1>2, <2>1
  <2>4. ns[n + 1] = ms[n + 1]
    BY <2>1
  <2> QED BY <2>2, <2>3, <2>4
<1> HIDE DEF G
<1>5. G = Nat
  <2>1. G \in SUBSET Nat
    BY DEF G
  <2> QED BY <1>3, <1>4, <2>1, Induction
<1>6. \A n \in 0..Len(ms) : g[n] = f[n]
  BY <1>0, <1>5 DEF G
<1> QED BY <1>6 DEF f, g

LEMMA ReadNone ==
    ASSUME NEW v, NEW ms, Len(ms) = 0
    PROVE  ReadAll(v, ms) = v
BY ReadUpToIs DEF ReadAll

LEMMA ReadNext ==
    ASSUME NEW v, NEW S, NEW ms \in Seq(S), NEW ns \in Seq(S), Len(ns) = Len(ms) + 1,
           \A i \in 1..Len(ms) : ns[i] = ms[i]
    PROVE  ReadAll(v, ns) = ApplyMessage(ReadAll(v, ms), ns[Len(ns)])
<1>0. Len(ms) \in Nat /\ Len(ns) \in Nat
  OBVIOUS
<1>1. Len(ns) \in 1..Len(ns) /\ Len(ns) - 1 = Len(ms) /\ Len(ms) \in 0..Len(ms)
  BY <1>0
<1>2. ReadUpTo(v, ns)[Len(ns)] = ApplyMessage(ReadUpTo(v, ns)[Len(ms)], ns[Len(ns)])
  BY <1>0, <1>1, ReadUpToIs
<1>3. ReadUpTo(v, ns)[Len(ms)] = ReadUpTo(v, ms)[Len(ms)]
  BY <1>0, <1>1, ReadPrefix
<1> QED BY <1>2, <1>3 DEF ReadAll

\* One list after another.
LEMMA ReadBoth ==
    ASSUME NEW v, NEW S, NEW ms \in Seq(S), NEW ns \in Seq(S)
    PROVE  ReadAll(v, ms \o ns) = ReadAll(ReadAll(v, ms), ns)
<1> DEFINE w == ReadAll(v, ms)
           os == ms \o ns
           f == ReadUpTo(w, ns)
           g == ReadUpTo(v, os)
           G == {n \in Nat : n <= Len(ns) => g[Len(ms) + n] = f[n]}
<1>0. /\ Len(ms) \in Nat /\ Len(ns) \in Nat /\ Len(os) = Len(ms) + Len(ns) /\ Len(os) \in Nat
      /\ os \in Seq(S) /\ \A i \in 1..Len(ms) : os[i] = ms[i]
      /\ \A i \in 1..Len(ns) : os[Len(ms) + i] = ns[i]
  OBVIOUS
<1> HIDE DEF os
<1>1. f[0] = w /\ \A n \in 1..Len(ns) : f[n] = ApplyMessage(f[n - 1], ns[n])
  BY <1>0, ReadUpToIs
<1>2. g[0] = v /\ \A n \in 1..Len(os) : g[n] = ApplyMessage(g[n - 1], os[n])
  BY <1>0, ReadUpToIs
<1>3. g[Len(ms)] = w
  <2>1. Len(ms) <= Len(os) /\ Len(ms) \in 0..Len(ms)
    BY <1>0
  <2>2. g[Len(ms)] = ReadUpTo(v, ms)[Len(ms)]
    BY <1>0, <2>1, ReadPrefix
  <2> QED BY <2>2 DEF ReadAll
<1> HIDE DEF f, g, w
<1>4. 0 \in G
  BY <1>0, <1>1, <1>3
<1>5. ASSUME NEW n \in G PROVE n + 1 \in G
  <2> SUFFICES ASSUME n \in Nat, n + 1 <= Len(ns) PROVE g[Len(ms) + (n + 1)] = f[n + 1]
    OBVIOUS
  <2>1. /\ n <= Len(ns) /\ n + 1 \in 1..Len(ns) /\ (n + 1) - 1 = n
        /\ Len(ms) + (n + 1) \in 1..Len(os) /\ (Len(ms) + (n + 1)) - 1 = Len(ms) + n
    BY <1>0
  <2>2. g[Len(ms) + n] = f[n]
    BY <2>1
  <2>3. f[n + 1] = ApplyMessage(f[n], ns[n + 1])
    BY <1>1, <2>1
  <2>4. g[Len(ms) + (n + 1)] = ApplyMessage(g[Len(ms) + n], os[Len(ms) + (n + 1)])
    BY <1>2, <2>1
  <2>5. os[Len(ms) + (n + 1)] = ns[n + 1]
    BY <1>0, <2>1
  <2> QED BY <2>2, <2>3, <2>4, <2>5
<1> HIDE DEF G
<1>6. G = Nat
  <2>1. G \in SUBSET Nat
    BY DEF G
  <2> QED BY <1>4, <1>5, <2>1, Induction
<1>7. g[Len(ms) + Len(ns)] = f[Len(ns)]
  <2>1. Len(ns) \in G /\ Len(ns) <= Len(ns)
    BY <1>0, <1>6
  <2> QED BY <2>1 DEF G
<1> QED BY <1>0, <1>7 DEF f, g, w, ReadAll, os

-----------------------------------------------------------------------------
(* What a message does to a view.                                          *)

\* Two views of the same machine, whatever they show of its tasks.
Alike(v, w) ==
    /\ w.seq = v.seq /\ w.gap = v.gap /\ w.refresh = v.refresh /\ w.left = v.left
    /\ w.nodes = v.nodes /\ w.queue = v.queue /\ w.paused = v.paused
    /\ w.redundancy = v.redundancy
    /\ w.exec.id = v.exec.id /\ w.exec.phase = v.exec.phase
    /\ w.exec.count = v.exec.count /\ w.exec.stage = v.exec.stage

\* A row is made for a task that has none.
LEMMA EnsureTaskShows ==
    ASSUME NEW v, NEW t, Shape(v)
    PROVE  /\ Shape(EnsureTask(v, t)) /\ Alike(v, EnsureTask(v, t))
           /\ t \in DOMAIN EnsureTask(v, t).rows
BY DEF EnsureTask, Shape, EmptyView, NoView, ToExecutionState, Placeholder, Alike, Statuses

\* A row changes, and the tally of its stage.
LEMMA RowShows ==
    ASSUME NEW v, NEW t, NEW row, Shape(v), DOMAIN row = DOMAIN Placeholder(EmptyView, 0),
           row.status \in Statuses
    PROVE  LET w == [v EXCEPT !.rows[t] = row]
           IN  Shape(w) /\ Alike(v, w)
BY DEF Shape, EmptyView, NoView, ToExecutionState, Alike

LEMMA BumpStageShows ==
    ASSUME NEW v, NEW row, NEW delta, Shape(v)
    PROVE  Shape(BumpStage(v, row, delta)) /\ Alike(v, BumpStage(v, row, delta))
BY DEF BumpStage, Shape, EmptyView, NoView, ToExecutionState, Alike

LEMMA AlikeTrans ==
    ASSUME NEW u, NEW v, NEW w, Alike(u, v), Alike(v, w)
    PROVE  Alike(u, w)
BY DEF Alike

LEMMA ApplyTaskShows ==
    ASSUME NEW v, NEW m \in TaskMessages, Shape(v)
    PROVE  Shape(ApplyTask(v, m)) /\ Alike(v, ApplyTask(v, m))
<1> DEFINE k == EnsureTask(v, m.task)
           row == k.rows[m.task]
<1>1. Shape(k) /\ Alike(v, k) /\ m.task \in DOMAIN k.rows
  BY EnsureTaskShows
<1>2. DOMAIN row = DOMAIN Placeholder(EmptyView, 0) /\ row.status \in Statuses
  BY <1>1 DEF Shape
<1> HIDE DEF k
<1>3. SUFFICES \/ ApplyTask(v, m) = v
               \/ Shape(ApplyTask(v, m)) /\ Alike(k, ApplyTask(v, m))
  <2>1. Alike(v, v)
    BY DEF Alike
  <2> QED BY <1>1, <2>1, AlikeTrans
<1>4. CASE m.t = "taskAssigned"
  <2> DEFINE taken == [row EXCEPT !.holders = @ \cup {m.node},
                                  !.status = IF @ = "pending" THEN "assigned" ELSE @]
  <2>1. DOMAIN taken = DOMAIN Placeholder(EmptyView, 0) /\ taken.status \in Statuses
    BY <1>2 DEF Placeholder, Statuses
  <2>2. ApplyTask(v, m) = [k EXCEPT !.rows[m.task] = taken]
    BY <1>4 DEF ApplyTask, ShowAssigned, k
  <2> HIDE DEF taken
  <2> QED BY <1>1, <2>1, <2>2, RowShows
<1>5. CASE m.t = "taskReassigned"
  <2> DEFINE left == row.holders \ {m.node}
             freed == [row EXCEPT !.holders = left,
                             !.status = IF @ = "assigned" /\ left = {} THEN "pending" ELSE @]
  <2>1. DOMAIN freed = DOMAIN Placeholder(EmptyView, 0) /\ freed.status \in Statuses
    BY <1>2 DEF Placeholder, Statuses
  <2>2. ApplyTask(v, m) = [k EXCEPT !.rows[m.task] = freed]
    BY <1>5 DEF ApplyTask, ShowReassigned, k
  <2> HIDE DEF freed
  <2> QED BY <1>1, <2>1, <2>2, RowShows
<1>6. CASE m.t = "taskFailed"
  <2> DEFINE failed == [row EXCEPT !.status = "failed", !.holders = {}]
  <2>1. DOMAIN failed = DOMAIN Placeholder(EmptyView, 0) /\ failed.status \in Statuses
    BY <1>2 DEF Placeholder, Statuses
  <2>2. ApplyTask(v, m) = [k EXCEPT !.rows[m.task] = failed]
    BY <1>6 DEF ApplyTask, ShowFailed, k
  <2> HIDE DEF failed
  <2> QED BY <1>1, <2>1, <2>2, RowShows
<1>7. CASE m.t = "taskDone"
  <2> DEFINE done == [row EXCEPT !.status = "done", !.output = m.output, !.holders = {}]
             w == [k EXCEPT !.rows[m.task] = done]
  <2>1. DOMAIN done = DOMAIN Placeholder(EmptyView, 0) /\ done.status \in Statuses
    BY <1>2 DEF Placeholder, Statuses
  <2>2. ApplyTask(v, m) = BumpStage(w, row, 1)
    BY <1>7 DEF ApplyTask, ShowDone, k
  <2> HIDE DEF done
  <2>3. Shape(w) /\ Alike(k, w)
    BY <1>1, <2>1, RowShows
  <2> HIDE DEF w
  <2>4. Shape(BumpStage(w, row, 1)) /\ Alike(w, BumpStage(w, row, 1))
    BY <2>3, BumpStageShows
  <2> QED BY <2>2, <2>3, <2>4, AlikeTrans
<1>8. CASE m.t = "taskMismatch"
  <2> DEFINE open == [row EXCEPT !.status = "pending", !.output = Nothing, !.holders = {}]
             w == [k EXCEPT !.rows[m.task] = open]
  <2>1. DOMAIN open = DOMAIN Placeholder(EmptyView, 0) /\ open.status \in Statuses
    BY <1>2 DEF Placeholder, Statuses
  <2>2. ApplyTask(v, m) \in {k, w, BumpStage(w, row, -1)}
    BY <1>8 DEF ApplyTask, ShowMismatch, k
  <2> HIDE DEF open
  <2>3. Shape(w) /\ Alike(k, w)
    BY <1>1, <2>1, RowShows
  <2> HIDE DEF w
  <2>4. Shape(BumpStage(w, row, -1)) /\ Alike(w, BumpStage(w, row, -1))
    BY <2>3, BumpStageShows
  <2>5. Alike(k, k)
    BY DEF Alike
  <2> QED BY <1>1, <2>2, <2>3, <2>4, <2>5, AlikeTrans
<1>9. CASE m.t = "taskVerified"
  BY <1>9 DEF ApplyTask
<1> QED BY <1>4, <1>5, <1>6, <1>7, <1>8, <1>9 DEF TaskMessages

-----------------------------------------------------------------------------
(* A page in the middle of a handler: it has read all that was announced.  *)
Fresh(l) == \A i \in DOMAIN l.out : l.out[i].t # "executionStarted"
Reads(v, l) == ReadAll(v, Events(l))
Follows(v, l) ==
    LET w == Reads(v, l)
    IN  Shape(w) /\ w.seq = l.seq + Len(l.out) /\ ~w.gap /\ w.left = 0 /\ Matches(w, l)

\* A ledger that differs in nothing a machine view shows.
Still(l, k) ==
    /\ k.seq = l.seq /\ k.nodes = l.nodes /\ k.queue = l.queue /\ k.paused = l.paused
    /\ k.redundancy = l.redundancy /\ k.running = l.running
    /\ l.running # 0 => k.execs[l.running].stage = l.execs[l.running].stage

\* What is announced stays as it is, unless it tells of an execution that changes.
Untold(l, k) ==
    /\ k.seq = l.seq
    /\ Fresh(l) \/ \A e : ExecutionView(k, e) = ExecutionView(l, e)

LEMMA EventsAre ==
    ASSUME NEW l \in Ledgers
    PROVE  /\ \E S : Events(l) \in Seq(S)
           /\ Len(Events(l)) = Len(l.out) /\ Len(l.out) \in Nat
           /\ DOMAIN l.out = 1..Len(l.out)
           /\ \A i \in 1..Len(l.out) : Events(l)[i] = Event(l, i) /\ l.out[i] \in Messages
<1>1. l.out \in Seq(Messages) /\ Len(l.out) \in Nat
  BY DEF Ledgers
<1>2. DOMAIN l.out = 1..Len(l.out) /\ \A i \in 1..Len(l.out) : l.out[i] \in Messages
  BY <1>1
<1> DEFINE S == {Event(l, i) : i \in 1..Len(l.out)}
<1>3. Events(l) = [i \in 1..Len(l.out) |-> Event(l, i)]
  BY <1>2 DEF Events
<1>4. Events(l) \in [1..Len(l.out) -> S]
  BY <1>3
<1>5. Events(l) \in Seq(S) /\ Len(Events(l)) = Len(l.out)
  <2> HIDE DEF S
  <2> QED BY <1>1, <1>4
<1> QED BY <1>1, <1>2, <1>3, <1>5

LEMMA EventStays ==
    ASSUME NEW l \in Ledgers, NEW k \in Ledgers, Untold(l, k), NEW i \in 1..Len(l.out),
           k.out[i] = l.out[i]
    PROVE  Event(k, i) = Event(l, i)
<1>1. i \in DOMAIN l.out
  BY EventsAre
<1> QED BY <1>1 DEF Untold, Fresh, Event

\* Nothing is announced.
LEMMA ReadsKeep ==
    ASSUME NEW l \in Ledgers, NEW k \in Ledgers, Untold(l, k), k.out = l.out, NEW v
    PROVE  Reads(v, k) = Reads(v, l)
<1>1. \A i \in 1..Len(l.out) : Event(k, i) = Event(l, i)
  BY EventStays
<1>2. Events(k) = Events(l)
  BY <1>1, EventsAre DEF Events
<1> QED BY <1>2 DEF Reads

\* One thing is announced.
LEMMA ReadsNext ==
    ASSUME NEW l \in Ledgers, NEW k \in Ledgers, Untold(l, k), NEW m \in Messages,
           k.out = Append(l.out, m), NEW v
    PROVE  LET e == Event(k, Len(k.out))
           IN  /\ Reads(v, k) = ApplyMessage(Reads(v, l), e)
               /\ e.t = "event" /\ e.seq = l.seq + Len(l.out) + 1 /\ e.told = m
               /\ m.t = "executionStarted" => e.view = ExecutionView(k, m.exec)
               /\ Len(k.out) = Len(l.out) + 1
<1>0. l.out \in Seq(Messages) /\ l.seq \in Nat /\ k.seq = l.seq /\ Len(l.out) \in Nat
  BY DEF Ledgers, Untold
<1>1. /\ Len(k.out) = Len(l.out) + 1 /\ k.out[Len(k.out)] = m
      /\ \A i \in 1..Len(l.out) : k.out[i] = l.out[i]
  BY <1>0
<1>2. \A i \in 1..Len(l.out) : Event(k, i) = Event(l, i)
  BY <1>1, EventStays
<1>3. PICK S, T : Events(l) \in Seq(S) /\ Events(k) \in Seq(T)
  BY EventsAre
<1>4. /\ Len(Events(l)) = Len(l.out) /\ Len(Events(k)) = Len(l.out) + 1
      /\ \A i \in 1..Len(l.out) : Events(l)[i] = Event(l, i)
      /\ \A i \in 1..Len(k.out) : Events(k)[i] = Event(k, i)
  BY <1>1, EventsAre
<1>5. \A i \in 1..Len(l.out) : Events(k)[i] = Events(l)[i]
  BY <1>0, <1>1, <1>2, <1>4
<1>6. Events(l) \in Seq(S \cup T) /\ Events(k) \in Seq(S \cup T)
  BY <1>3
<1>7. Reads(v, k) = ApplyMessage(Reads(v, l), Events(k)[Len(Events(k))])
  BY <1>4, <1>5, <1>6, ReadNext DEF Reads
<1>8. Events(k)[Len(Events(k))] = Event(k, Len(k.out))
  BY <1>0, <1>1, <1>4
<1> DEFINE e == Event(k, Len(k.out))
<1>9. /\ e.t = "event" /\ e.seq = k.seq + Len(k.out) /\ e.told = k.out[Len(k.out)]
      /\ k.out[Len(k.out)].t = "executionStarted" =>
            e.view = ExecutionView(k, k.out[Len(k.out)].exec)
  BY DEF Event
<1> HIDE DEF e
<1>10. e.seq = l.seq + Len(l.out) + 1
  BY <1>0, <1>1, <1>9
<1> QED BY <1>1, <1>7, <1>8, <1>9, <1>10 DEF e

LEMMA HeardShows ==
    ASSUME NEW v, Shape(v), v.seq \in Nat, ~v.gap, NEW m, m.seq = v.seq + 1
    PROVE  LET w == Heard(v, m)
           IN  /\ Shape(w) /\ w.seq = v.seq + 1 /\ ~w.gap /\ w.left = v.left
               /\ w.nodes = v.nodes /\ w.queue = v.queue /\ w.paused = v.paused
               /\ w.redundancy = v.redundancy /\ w.refresh = v.refresh /\ w.exec = v.exec
<1> DEFINE w == Heard(v, m)
<1>1. DOMAIN v = DOMAIN EmptyView
  BY DEF Shape
<1>2. DOMAIN w = DOMAIN v /\ w.seq = v.seq + 1
  BY <1>1 DEF Heard, EmptyView
<1>3. ~w.gap
  BY <1>1 DEF Heard, EmptyView
<1>4. /\ w.left = v.left /\ w.nodes = v.nodes /\ w.queue = v.queue /\ w.paused = v.paused
      /\ w.redundancy = v.redundancy /\ w.refresh = v.refresh /\ w.exec = v.exec
      /\ w.rows = v.rows
  BY <1>1 DEF Heard, EmptyView
<1> HIDE DEF w
<1> QED BY <1>2, <1>3, <1>4 DEF Shape, w

\* A page that reads one thing more: w is what it had of the machine.
LEMMA FollowsNext ==
    ASSUME NEW l \in Ledgers, NEW k \in Ledgers, Untold(l, k), NEW m \in Messages,
           k.out = Append(l.out, m), NEW v, Follows(v, l)
    PROVE  \E w, view :
               /\ Shape(w) /\ w.seq = k.seq + Len(k.out) /\ ~w.gap /\ w.left = 0 /\ Matches(w, l)
               /\ Reads(v, k) = ApplyEvent(w, m, view)
               /\ m.t = "executionStarted" => view = ExecutionView(k, m.exec)
<1> DEFINE e == Event(k, Len(k.out))
           u == Reads(v, l)
           w == Heard(u, e)
<1>1. /\ Reads(v, k) = ApplyMessage(u, e) /\ e.t = "event" /\ e.seq = l.seq + Len(l.out) + 1
      /\ e.told = m /\ Len(k.out) = Len(l.out) + 1
      /\ m.t = "executionStarted" => e.view = ExecutionView(k, m.exec)
  BY ReadsNext
<1>2. Shape(u) /\ u.seq = l.seq + Len(l.out) /\ ~u.gap /\ u.left = 0 /\ Matches(u, l)
  BY DEF Follows
<1>3. l.seq \in Nat /\ k.seq = l.seq /\ Len(l.out) \in Nat
  BY EventsAre DEF Ledgers, Untold
<1> HIDE DEF e, u
<1>4. u.seq \in Nat /\ e.seq = u.seq + 1
  BY <1>1, <1>2, <1>3
<1>5. /\ Shape(w) /\ w.seq = u.seq + 1 /\ ~w.gap /\ w.left = u.left
      /\ w.nodes = u.nodes /\ w.queue = u.queue /\ w.paused = u.paused
      /\ w.redundancy = u.redundancy /\ w.refresh = u.refresh /\ w.exec = u.exec
  BY <1>2, <1>4, HeardShows
<1>6. Reads(v, k) = ApplyEvent(w, m, e.view)
  BY <1>1 DEF ApplyMessage
<1> HIDE DEF w
<1>7. Matches(w, l)
  BY <1>2, <1>5 DEF Matches
<1>8. w.seq = k.seq + Len(k.out) /\ w.left = 0
  BY <1>1, <1>2, <1>3, <1>5
<1> QED BY <1>1, <1>5, <1>6, <1>7, <1>8

LEMMA StillMatches ==
    ASSUME NEW l, NEW k, NEW v, Still(l, k), Matches(v, l)
    PROVE  Matches(v, k)
BY DEF Still, Matches

LEMMA AlikeMatches ==
    ASSUME NEW l, NEW v, NEW w, Alike(v, w), Matches(v, l)
    PROVE  Matches(w, l)
BY DEF Alike, Matches

\* Something changed that a machine view does not show.
LEMMA FollowsStill ==
    ASSUME NEW l \in Ledgers, NEW k \in Ledgers, Untold(l, k), Still(l, k), k.out = l.out,
           NEW v, Follows(v, l)
    PROVE  Follows(v, k)
<1>1. Reads(v, k) = Reads(v, l)
  BY ReadsKeep
<1>2. Matches(Reads(v, k), k)
  BY <1>1, StillMatches DEF Follows
<1> QED BY <1>1, <1>2 DEF Follows, Still

\* A task's fate was announced.
LEMMA FollowsTask ==
    ASSUME NEW l \in Ledgers, NEW k \in Ledgers, Untold(l, k), Still(l, k),
           NEW m \in TaskMessages, k.out = Append(l.out, m), NEW v, Follows(v, l)
    PROVE  Follows(v, k)
<1>1. m \in Messages
  BY DEF Messages
<1>2. PICK w, view :
         /\ Shape(w) /\ w.seq = k.seq + Len(k.out) /\ ~w.gap /\ w.left = 0 /\ Matches(w, l)
         /\ Reads(v, k) = ApplyEvent(w, m, view)
  BY <1>1, FollowsNext
<1>3. ApplyEvent(w, m, view) = ApplyTask(w, m)
  BY DEF ApplyEvent, TaskMessages
<1>4. Shape(ApplyTask(w, m)) /\ Alike(w, ApplyTask(w, m))
  BY <1>2, ApplyTaskShows
<1>5. Matches(ApplyTask(w, m), k)
  BY <1>2, <1>4, AlikeMatches, StillMatches
<1> QED BY <1>2, <1>3, <1>4, <1>5 DEF Follows, Alike

-----------------------------------------------------------------------------
(* What the machine announces of itself.  Here l announces m and becomes k.  *)
Announces(l, k, m) ==
    /\ l \in Ledgers /\ k \in Ledgers /\ m \in Messages
    /\ k.seq = l.seq /\ k.out = Append(l.out, m) /\ Fresh(l)

\* A view is as good as its parts.
LEMMA ShapeIs ==
    ASSUME NEW v, NEW w, Shape(v), DOMAIN w = DOMAIN v, DOMAIN w.exec = DOMAIN v.exec,
           w.rows = v.rows \/ w.rows = <<>>
    PROVE  Shape(w)
BY DEF Shape

LEMMA FollowsNode ==
    ASSUME NEW l, NEW k, NEW m, Announces(l, k, m), NEW n \in Nodes,
           m.t \in {"nodeJoined", "nodeLeft"}, m.node = n,
           Still([l EXCEPT !.nodes = k.nodes], k),
           k.nodes = IF m.t = "nodeJoined" THEN l.nodes \cup {n} ELSE l.nodes \ {n},
           NEW v, Follows(v, l)
    PROVE  Follows(v, k)
<1>1. PICK w, view :
         /\ Shape(w) /\ w.seq = k.seq + Len(k.out) /\ ~w.gap /\ w.left = 0 /\ Matches(w, l)
         /\ Reads(v, k) = ApplyEvent(w, m, view)
  BY FollowsNext DEF Announces, Untold
<1> DEFINE x == ApplyEvent(w, m, view)
<1>2. x = [w EXCEPT !.nodes = k.nodes]
  BY <1>1 DEF ApplyEvent, Matches
<1>3. DOMAIN w = DOMAIN EmptyView
  BY <1>1 DEF Shape
<1>4. /\ DOMAIN x = DOMAIN w /\ x.exec = w.exec /\ x.rows = w.rows /\ x.nodes = k.nodes
      /\ x.seq = w.seq /\ x.gap = w.gap /\ x.left = w.left /\ x.refresh = w.refresh
      /\ x.queue = w.queue /\ x.paused = w.paused /\ x.redundancy = w.redundancy
  BY <1>2, <1>3 DEF EmptyView
<1> HIDE DEF x
<1>5. /\ k.queue = l.queue /\ k.paused = l.paused /\ k.redundancy = l.redundancy
      /\ k.running = l.running
      /\ l.running # 0 => k.execs[l.running].stage = l.execs[l.running].stage
  BY DEF Still, Announces, Ledgers
<1>6. Matches(x, k)
  BY <1>1, <1>4, <1>5 DEF Matches
<1>7. Shape(x)
  BY <1>1, <1>4, ShapeIs
<1> QED BY <1>1, <1>4, <1>6, <1>7 DEF Follows, x

\* A control: the pause, the redundancy, or one that shows by its other messages.
LEMMA FollowsControl ==
    ASSUME NEW l, NEW k, NEW m, Announces(l, k, m), m.t = "controlApplied",
           m.op \in {"pause", "resume", "setRedundancy", "killExecution"},
           k.nodes = l.nodes, k.queue = l.queue, k.running = l.running, k.execs = l.execs,
           k.paused = IF m.op = "pause" THEN TRUE
                      ELSE IF m.op = "resume" THEN FALSE ELSE l.paused,
           m.op # "setRedundancy" => k.redundancy = l.redundancy,
           NEW v, Follows(v, l)
    PROVE  Follows(v, k)
<1>1. PICK w, view :
         /\ Shape(w) /\ w.seq = k.seq + Len(k.out) /\ ~w.gap /\ w.left = 0 /\ Matches(w, l)
         /\ Reads(v, k) = ApplyEvent(w, m, view)
  BY FollowsNext DEF Announces, Untold
<1> DEFINE x == ApplyEvent(w, m, view)
<1>3. DOMAIN w = DOMAIN EmptyView
  BY <1>1 DEF Shape
<1>2. x = IF m.op = "setRedundancy" THEN [w EXCEPT !.refresh = TRUE]
          ELSE IF m.op \in {"pause", "resume"} THEN [w EXCEPT !.paused = m.op = "pause"]
          ELSE w
  BY DEF ApplyEvent
<1>4. /\ DOMAIN x = DOMAIN w /\ x.exec = w.exec /\ x.rows = w.rows /\ x.nodes = w.nodes
      /\ x.seq = w.seq /\ x.gap = w.gap /\ x.left = w.left
      /\ x.queue = w.queue /\ x.redundancy = w.redundancy
  BY <1>2, <1>3 DEF EmptyView
<1>5. IF m.op = "setRedundancy" THEN x.refresh ELSE x.refresh = w.refresh
  BY <1>2, <1>3 DEF EmptyView
<1>6. x.paused = IF m.op \in {"pause", "resume"} THEN m.op = "pause" ELSE w.paused
  BY <1>2, <1>3 DEF EmptyView
<1> HIDE DEF x
<1>7. x.paused = k.paused
  BY <1>1, <1>6 DEF Matches
<1>8. Matches(x, k)
  BY <1>1, <1>4, <1>5, <1>7 DEF Matches
<1>9. Shape(x)
  BY <1>1, <1>4, ShapeIs
<1> QED BY <1>1, <1>4, <1>8, <1>9 DEF Follows, x

LEMMA FollowsQueued ==
    ASSUME NEW l, NEW k, NEW m, Announces(l, k, m), m.t = "executionQueued",
           k.nodes = l.nodes, k.paused = l.paused, k.redundancy = l.redundancy,
           k.running = l.running, ToSet(k.queue) = ToSet(l.queue) \cup {m.exec},
           l.running # 0 => k.execs[l.running].stage = l.execs[l.running].stage,
           NEW v, Follows(v, l)
    PROVE  Follows(v, k)
<1>1. PICK w, view :
         /\ Shape(w) /\ w.seq = k.seq + Len(k.out) /\ ~w.gap /\ w.left = 0 /\ Matches(w, l)
         /\ Reads(v, k) = ApplyEvent(w, m, view)
  BY FollowsNext DEF Announces, Untold
<1> DEFINE x == ApplyEvent(w, m, view)
<1>3. DOMAIN w = DOMAIN EmptyView
  BY <1>1 DEF Shape
<1>2. x = [w EXCEPT !.queue = @ \cup {m.exec}]
  BY DEF ApplyEvent
<1>4. /\ DOMAIN x = DOMAIN w /\ x.exec = w.exec /\ x.rows = w.rows /\ x.nodes = w.nodes
      /\ x.seq = w.seq /\ x.gap = w.gap /\ x.left = w.left /\ x.refresh = w.refresh
      /\ x.queue = w.queue \cup {m.exec} /\ x.redundancy = w.redundancy /\ x.paused = w.paused
  BY <1>2, <1>3 DEF EmptyView
<1> HIDE DEF x
<1>8. Matches(x, k)
  BY <1>1, <1>4 DEF Matches
<1>9. Shape(x)
  BY <1>1, <1>4, ShapeIs
<1> QED BY <1>1, <1>4, <1>8, <1>9 DEF Follows, x

\* The head of the queue starts: it was in no stage.
LEMMA FollowsStarted ==
    ASSUME NEW l, NEW k, NEW m, Announces(l, k, m), m.t = "executionStarted",
           k.nodes = l.nodes, k.paused = l.paused, k.redundancy = l.redundancy,
           k.running = m.exec, ToSet(k.queue) = ToSet(l.queue) \ {m.exec},
           m.exec \in DOMAIN k.execs, k.execs[m.exec].status = "running",
           k.execs[m.exec].count = 0,
           NEW v, Follows(v, l)
    PROVE  Follows(v, k)
<1>1. PICK w, view :
         /\ Shape(w) /\ w.seq = k.seq + Len(k.out) /\ ~w.gap /\ w.left = 0 /\ Matches(w, l)
         /\ Reads(v, k) = ApplyEvent(w, m, view) /\ view = ExecutionView(k, m.exec)
  BY FollowsNext DEF Announces, Untold
<1> DEFINE x == ApplyEvent(w, m, view)
           e == ToExecutionState(view)
<1>3. DOMAIN w = DOMAIN EmptyView /\ DOMAIN w.exec = DOMAIN EmptyView.exec
  BY <1>1 DEF Shape
<1>2. x = [w EXCEPT !.exec = e, !.rows = <<>>, !.queue = @ \ {m.exec}]
  BY DEF ApplyEvent
<1>4. DOMAIN e = DOMAIN EmptyView.exec /\ e.id = view.id /\ e.phase = Phase(view) /\ e.count = view.count
  BY DEF ToExecutionState, EmptyView
<1> HIDE DEF e
<1>5. /\ DOMAIN x = DOMAIN w /\ x.exec = e /\ x.rows = <<>> /\ x.nodes = w.nodes
      /\ x.seq = w.seq /\ x.gap = w.gap /\ x.left = w.left /\ x.refresh = w.refresh
      /\ x.queue = w.queue \ {m.exec} /\ x.redundancy = w.redundancy /\ x.paused = w.paused
  BY <1>2, <1>3 DEF EmptyView
<1>6. view.id = m.exec /\ view.status = "running" /\ view.count = 0
  BY <1>1 DEF ExecutionView
<1>7. e.id = k.running /\ e.phase \in Phases /\ ~(e.count > 0)
  BY <1>4, <1>6 DEF Phase, Phases
<1> HIDE DEF x
<1>8. Matches(x, k)
  BY <1>1, <1>5, <1>7 DEF Matches
<1>9. Shape(x)
  BY <1>1, <1>3, <1>4, <1>5, ShapeIs
<1> QED BY <1>1, <1>5, <1>8, <1>9 DEF Follows, x

\* Rows by their ids are rows.
LEMMA ByIdShape ==
    ASSUME NEW rows \in SUBSET RowRecs
    PROVE  \A t \in DOMAIN ById(rows) :
              /\ ById(rows)[t] \in rows
              /\ DOMAIN ById(rows)[t] = DOMAIN Placeholder(EmptyView, 0)
              /\ ById(rows)[t].status \in Statuses
<1> SUFFICES ASSUME NEW t \in DOMAIN ById(rows)
             PROVE  /\ ById(rows)[t] \in rows
                    /\ DOMAIN ById(rows)[t] = DOMAIN Placeholder(EmptyView, 0)
                    /\ ById(rows)[t].status \in Statuses
  OBVIOUS
<1>1. \E r \in rows : r.id = t
  BY DEF ById
<1>2. ById(rows)[t] = CHOOSE r \in rows : r.id = t
  BY DEF ById
<1>3. ById(rows)[t] \in rows
  BY <1>1, <1>2
<1> QED BY <1>3 DEF RowRecs, Placeholder

\* A stage of the running execution starts.
LEMMA FollowsStage ==
    ASSUME NEW l, NEW k, NEW m, Announces(l, k, m), m.t = "stageStarted", m.rows \in SUBSET RowRecs,
           l.running # 0, m.exec = l.running, k.execs[l.running].stage = m.stage,
           k.nodes = l.nodes, k.paused = l.paused, k.redundancy = l.redundancy,
           k.queue = l.queue, k.running = l.running,
           NEW v, Follows(v, l)
    PROVE  Follows(v, k)
<1>1. PICK w, view :
         /\ Shape(w) /\ w.seq = k.seq + Len(k.out) /\ ~w.gap /\ w.left = 0 /\ Matches(w, l)
         /\ Reads(v, k) = ApplyEvent(w, m, view)
  BY FollowsNext DEF Announces, Untold
<1> DEFINE x == ApplyEvent(w, m, view)
<1>3. DOMAIN w = DOMAIN EmptyView /\ DOMAIN w.exec = DOMAIN EmptyView.exec
  BY <1>1 DEF Shape
<1>4. IsShown(w, m.exec)
  BY <1>1 DEF IsShown, Matches
<1>2. x = ShowStage(w, m)
  BY <1>4 DEF ApplyEvent
<1>5. /\ DOMAIN x = DOMAIN w /\ x.rows = ById(m.rows) /\ x.nodes = w.nodes
      /\ x.seq = w.seq /\ x.gap = w.gap /\ x.left = w.left /\ x.refresh = w.refresh
      /\ x.queue = w.queue /\ x.redundancy = w.redundancy /\ x.paused = w.paused
  BY <1>2, <1>3 DEF EmptyView, ShowStage
<1>6. /\ DOMAIN x.exec = DOMAIN w.exec /\ x.exec.id = w.exec.id /\ x.exec.phase = "running"
      /\ x.exec.stage = m.stage
  <2> DEFINE done == [i \in 1..(m.stage + 1) |->
                        IF i \in DOMAIN w.exec.done /\ i <= m.stage THEN w.exec.done[i] ELSE 0]
             base == IdBase(m.rows)
             e == [w.exec EXCEPT !.phase = "running", !.stage = m.stage, !.count = m.count,
                                 !.base = base, !.done = done]
  <2>1. x.exec = e
    BY <1>2, <1>3 DEF EmptyView, ShowStage
  <2> HIDE DEF done, base, x
  <2> QED BY <2>1, <1>3 DEF EmptyView, ToExecutionState
<1> HIDE DEF x
<1>8. Matches(x, k)
  BY <1>1, <1>5, <1>6 DEF Matches, Phases
<1>9. Shape(x)
  BY <1>1, <1>3, <1>5, <1>6, ByIdShape DEF Shape
<1> QED BY <1>1, <1>5, <1>8, <1>9 DEF Follows, x

\* A stage of the running execution was folded.
LEMMA FollowsStageDone ==
    ASSUME NEW l, NEW k, NEW m, Announces(l, k, m), m.t = "stageDone",
           l.running # 0, m.exec = l.running, Still(l, k),
           NEW v, Follows(v, l)
    PROVE  Follows(v, k)
<1>1. PICK w, view :
         /\ Shape(w) /\ w.seq = k.seq + Len(k.out) /\ ~w.gap /\ w.left = 0 /\ Matches(w, l)
         /\ Reads(v, k) = ApplyEvent(w, m, view)
  BY FollowsNext DEF Announces, Untold
<1> DEFINE x == ApplyEvent(w, m, view)
<1>3. DOMAIN w = DOMAIN EmptyView /\ DOMAIN w.exec = DOMAIN EmptyView.exec
  BY <1>1 DEF Shape
<1>4. IsShown(w, m.exec)
  BY <1>1 DEF IsShown, Matches
<1>2. x = ShowStageDone(w, m)
  BY <1>4 DEF ApplyEvent
<1>5. /\ DOMAIN x = DOMAIN w /\ x.rows = w.rows /\ x.nodes = w.nodes
      /\ x.seq = w.seq /\ x.gap = w.gap /\ x.left = w.left /\ x.refresh = w.refresh
      /\ x.queue = w.queue /\ x.redundancy = w.redundancy /\ x.paused = w.paused
  BY <1>2, <1>3 DEF EmptyView, ShowStageDone
<1>6. /\ DOMAIN x.exec = DOMAIN w.exec /\ x.exec.id = w.exec.id /\ x.exec.phase = "folding"
      /\ x.exec.stage = w.exec.stage /\ x.exec.count = w.exec.count
  <2> DEFINE more == IF DoneRows(w.rows, m.stage) > w.exec.done[m.stage + 1]
                     THEN DoneRows(w.rows, m.stage) ELSE w.exec.done[m.stage + 1]
             e == [w.exec EXCEPT !.phase = "folding", !.done[m.stage + 1] = more]
  <2>1. x.exec = e
    BY <1>2, <1>3 DEF EmptyView, ShowStageDone
  <2> HIDE DEF more, x
  <2> QED BY <2>1, <1>3 DEF EmptyView, ToExecutionState
<1> HIDE DEF x
<1>8. Matches(x, l)
  BY <1>1, <1>5, <1>6 DEF Matches, Phases
<1>9. Shape(x)
  BY <1>1, <1>3, <1>5, <1>6, ShapeIs
<1> QED BY <1>1, <1>5, <1>8, <1>9, StillMatches DEF Follows, x

\* An execution ends, the running one or one of the queue.
LEMMA FollowsEnded ==
    ASSUME NEW l, NEW k, NEW m, Announces(l, k, m), m.t = "executionEnded",
           m.status = "failed" \/ m.exec \notin ToSet(l.queue), m.status \in {"done", "failed"},
           k.nodes = l.nodes, k.paused = l.paused, k.redundancy = l.redundancy,
           ToSet(k.queue) = ToSet(l.queue) \ {m.exec},
           k.running = IF l.running = m.exec THEN 0 ELSE l.running,
           k.running # 0 => k.execs[l.running].stage = l.execs[l.running].stage,
           NEW v, Follows(v, l)
    PROVE  Follows(v, k)
<1>1. PICK w, view :
         /\ Shape(w) /\ w.seq = k.seq + Len(k.out) /\ ~w.gap /\ w.left = 0 /\ Matches(w, l)
         /\ Reads(v, k) = ApplyEvent(w, m, view)
  BY FollowsNext DEF Announces, Untold
<1> DEFINE x == ApplyEvent(w, m, view)
           y == IF m.status = "failed" THEN [w EXCEPT !.queue = @ \ {m.exec}] ELSE w
<1>3. DOMAIN w = DOMAIN EmptyView /\ DOMAIN w.exec = DOMAIN EmptyView.exec
  BY <1>1 DEF Shape
<1>4. /\ DOMAIN y = DOMAIN w /\ y.rows = w.rows /\ y.nodes = w.nodes /\ y.exec = w.exec
      /\ y.seq = w.seq /\ y.gap = w.gap /\ y.left = w.left /\ y.refresh = w.refresh
      /\ y.redundancy = w.redundancy /\ y.paused = w.paused
      /\ y.queue = IF m.status = "failed" THEN w.queue \ {m.exec} ELSE w.queue
  BY <1>3 DEF EmptyView
<1>2. x = IF w.exec.id = m.exec THEN [y EXCEPT !.exec.phase = m.status] ELSE y
  BY DEF ApplyEvent, ShowEnded, IsShown
<1> HIDE DEF y
<1>5. /\ DOMAIN x = DOMAIN w /\ x.rows = w.rows /\ x.nodes = w.nodes
      /\ x.seq = w.seq /\ x.gap = w.gap /\ x.left = w.left /\ x.refresh = w.refresh
      /\ x.queue = y.queue /\ x.redundancy = w.redundancy /\ x.paused = w.paused
  BY <1>2, <1>3, <1>4 DEF EmptyView
<1>6. /\ DOMAIN x.exec = DOMAIN w.exec /\ x.exec.id = w.exec.id
      /\ x.exec.stage = w.exec.stage /\ x.exec.count = w.exec.count
      /\ w.exec.id # m.exec => x.exec.phase = w.exec.phase
  BY <1>2, <1>3, <1>4 DEF EmptyView, ToExecutionState
<1> HIDE DEF x
<1>7. x.queue = ToSet(k.queue)
  BY <1>1, <1>4, <1>5 DEF Matches
<1>8. Matches(x, k)
  <2>1. CASE k.running = 0
    BY <1>1, <1>5, <1>7, <2>1 DEF Matches
  <2>2. CASE k.running # 0
    <3>1. l.running # m.exec /\ k.running = l.running
      BY <2>2
    <3> QED BY <1>1, <1>5, <1>6, <1>7, <2>2, <3>1 DEF Matches
  <2> QED BY <2>1, <2>2
<1>9. Shape(x)
  BY <1>1, <1>3, <1>5, <1>6, ShapeIs
<1> QED BY <1>1, <1>5, <1>8, <1>9 DEF Follows, x

-----------------------------------------------------------------------------
(* The ledger's functions.  A ledger is good if it is sound and, of a page   *)
(* that listens (b), followed; a draft has not started an execution yet.     *)
Good(v, b, l) == Sound(l) /\ (b => Follows(v, l))
Draft(v, b, l) == Good(v, b, l) /\ Fresh(l)

LEMMA TypesAre ==
    ASSUME NEW l \in Ledgers
    PROVE  /\ l.tasks \in Seq(TaskRecs) /\ l.execs \in Seq(ExecRecs) /\ l.queue \in Seq(Nat)
           /\ l.out \in Seq(Messages) /\ l.nodes \in SUBSET Nodes /\ l.running \in Nat
           /\ l.seq \in Nat /\ l.ends \in Nat /\ l.paused \in BOOLEAN /\ l.redundancy \in BOOLEAN
           /\ Len(l.tasks) \in Nat /\ DOMAIN l.tasks = 1..Len(l.tasks)
           /\ Len(l.execs) \in Nat /\ DOMAIN l.execs = 1..Len(l.execs)
           /\ \A t \in DOMAIN l.tasks : l.tasks[t] \in TaskRecs
           /\ \A e \in DOMAIN l.execs : l.execs[e] \in ExecRecs
BY DEF Ledgers

LEMMA FreshAppends ==
    ASSUME NEW l \in Ledgers, NEW m \in Messages, NEW k, k.out = Append(l.out, m)
    PROVE  /\ k.out \in Seq(Messages)
           /\ Fresh(l) /\ m.t # "executionStarted" => Fresh(k)
<1>1. l.out \in Seq(Messages)
  BY DEF Ledgers
<1> QED BY <1>1 DEF Fresh

\* What a task may become, for the execution it is of.
LEMMA TaskChanges ==
    ASSUME NEW execs, NEW tasks \in Seq(TaskRecs), Staged(execs, tasks), NEW t \in DOMAIN tasks,
           NEW new \in TaskRecs, new.exec = tasks[t].exec, new.stage = tasks[t].stage,
           new.kind = tasks[t].kind, TaskFits(execs[new.exec], t, new)
    PROVE  Staged(execs, [tasks EXCEPT ![t] = new])
<1> DEFINE T == [tasks EXCEPT ![t] = new]
<1>1. DOMAIN T = DOMAIN tasks /\ T[t] = new /\ \A u \in DOMAIN tasks : u # t => T[u] = tasks[u]
  OBVIOUS
<1> HIDE DEF T
<1>2. ASSUME NEW u \in DOMAIN T
      PROVE  T[u].exec \in DOMAIN execs /\ TaskFits(execs[T[u].exec], u, T[u])
  BY <1>1 DEF Staged
<1>3. ASSUME NEW e \in DOMAIN execs PROVE ExecFits(execs[e], e, T)
  <2>1. ExecFits(execs[e], e, tasks)
    BY DEF Staged
  <2>2. CASE execs[e].plan # t
    <3>1. execs[e].plan \in DOMAIN tasks => T[execs[e].plan] = tasks[execs[e].plan]
      BY <1>1, <2>2
    <3> QED BY <1>1, <2>1, <3>1 DEF ExecFits
  <2>3. CASE execs[e].plan = t
    <3>1. CASE t = 0
      BY <1>1, <2>1, <2>3, <3>1 DEF ExecFits
    <3>2. CASE t # 0
      <4>1. new.kind = "plan" /\ new.exec = e /\ new.stage > execs[e].sealed
        BY <2>1, <2>3, <3>2 DEF ExecFits
      <4>2. execs[e].awaits = "spec" => ~IsOpen(new)
        BY <4>1 DEF TaskFits, Live
      <4> QED BY <1>1, <2>1, <2>3, <3>2, <4>1, <4>2 DEF ExecFits
    <3> QED BY <3>1, <3>2
  <2> QED BY <2>2, <2>3
<1> QED BY <1>2, <1>3 DEF Staged, T

\* A task changes, and its fate may be announced.
TaskStep(l, k, t, new) ==
    LET T == [l.tasks EXCEPT ![t] = new]
    IN  \/ k = [l EXCEPT !.tasks = T]
        \/ \E m \in TaskMessages : k = [l EXCEPT !.tasks = T, !.out = Append(@, m)]

LEMMA TaskSteps ==
    ASSUME NEW v, NEW b, NEW l, Good(v, b, l), NEW t, NEW new, NEW k, TaskStep(l, k, t, new),
           t \in DOMAIN l.tasks =>
              /\ new \in TaskRecs /\ new.exec = l.tasks[t].exec /\ new.stage = l.tasks[t].stage
              /\ new.kind = l.tasks[t].kind /\ TaskFits(l.execs[new.exec], t, new)
    PROVE  /\ Good(v, b, k) /\ k.execs = l.execs /\ k.running = l.running /\ k.nodes = l.nodes
           /\ k.queue = l.queue /\ k.paused = l.paused /\ k.redundancy = l.redundancy
           /\ DOMAIN k.tasks = DOMAIN l.tasks
           /\ t \in DOMAIN l.tasks => k.tasks[t] = new
           /\ Fresh(l) => Fresh(k)
<1> DEFINE T == [l.tasks EXCEPT ![t] = new]
<1>0. l \in Ledgers /\ Queued(l) /\ Staged(l.execs, l.tasks) /\ (b => Follows(v, l))
  BY DEF Good, Sound
<1>1. l.tasks \in Seq(TaskRecs) /\ l.out \in Seq(Messages)
  BY <1>0, TypesAre
<1>2. /\ T \in Seq(TaskRecs) /\ Staged(l.execs, T) /\ DOMAIN T = DOMAIN l.tasks
      /\ t \in DOMAIN l.tasks => T[t] = new
  <2>1. CASE t \in DOMAIN l.tasks
    BY <1>0, <1>1, <2>1, TaskChanges
  <2>2. CASE t \notin DOMAIN l.tasks
    <3>1. T = l.tasks
      BY <1>1, <2>2
    <3> QED BY <1>0, <1>1, <2>2, <3>1
  <2> QED BY <2>1, <2>2
<1> HIDE DEF T
<1>3. CASE k = [l EXCEPT !.tasks = T]
  <2>1. /\ k \in Ledgers /\ k.execs = l.execs /\ k.running = l.running /\ k.nodes = l.nodes
        /\ k.queue = l.queue /\ k.paused = l.paused /\ k.redundancy = l.redundancy
        /\ k.seq = l.seq /\ k.out = l.out /\ k.tasks = T
    BY <1>0, <1>2, <1>3 DEF Ledgers
  <2>2. Untold(l, k) /\ Still(l, k) /\ (Fresh(l) => Fresh(k))
    BY <2>1 DEF Untold, Still, Fresh, ExecutionView
  <2>3. b => Follows(v, k)
    BY <1>0, <2>1, <2>2, FollowsStill
  <2>4. Queued(k)
    BY <1>0, <2>1 DEF Queued
  <2> QED BY <1>2, <2>1, <2>2, <2>3, <2>4 DEF Good, Sound
<1>4. ASSUME NEW m \in TaskMessages, k = [l EXCEPT !.tasks = T, !.out = Append(@, m)]
      PROVE  /\ Good(v, b, k) /\ k.execs = l.execs /\ k.running = l.running /\ k.nodes = l.nodes
             /\ k.queue = l.queue /\ k.paused = l.paused /\ k.redundancy = l.redundancy
             /\ DOMAIN k.tasks = DOMAIN l.tasks
             /\ t \in DOMAIN l.tasks => k.tasks[t] = new
             /\ Fresh(l) => Fresh(k)
  <2>0. m \in Messages /\ m.t # "executionStarted"
    BY DEF Messages, TaskMessages
  <2>a. Append(l.out, m) \in Seq(Messages)
    BY <1>1, <2>0
  <2>1. /\ k \in Ledgers /\ k.execs = l.execs /\ k.running = l.running /\ k.nodes = l.nodes
        /\ k.queue = l.queue /\ k.paused = l.paused /\ k.redundancy = l.redundancy
        /\ k.seq = l.seq /\ k.out = Append(l.out, m) /\ k.tasks = T
    BY <1>0, <1>2, <1>4, <2>a DEF Ledgers
  <2>2. Untold(l, k) /\ Still(l, k)
    BY <2>1 DEF Untold, Still, ExecutionView
  <2>3. b => Follows(v, k)
    BY <1>0, <2>1, <2>2, FollowsTask
  <2>4. Queued(k)
    BY <1>0, <2>1 DEF Queued
  <2>5. Fresh(l) => Fresh(k)
    BY <1>0, <2>0, <2>1, FreshAppends
  <2> QED BY <1>2, <2>1, <2>2, <2>3, <2>4, <2>5 DEF Good, Sound
<1> QED BY <1>3, <1>4 DEF TaskStep, T

\* What each task function does to its task.
LEMMA AssignIs ==
    ASSUME NEW v, NEW b, NEW l, Good(v, b, l), NEW t \in Nat, NEW n \in Nodes,
           IsOpen(l.tasks[t])
    PROVE  LET k == Assign(l, t, n)
           IN  /\ Good(v, b, k) /\ k.execs = l.execs /\ k.running = l.running
               /\ k.nodes = l.nodes /\ k.queue = l.queue /\ k.paused = l.paused
<1> DEFINE new == [l.tasks[t] EXCEPT !.status = "assigned", !.open = @ \cup {n}]
           m == [t |-> "taskAssigned", task |-> t, node |-> n]
           T == [l.tasks EXCEPT ![t] = new]
           k == Assign(l, t, n)
<1>0. l \in Ledgers /\ Staged(l.execs, l.tasks) /\ l.tasks \in Seq(TaskRecs)
  BY TypesAre DEF Good, Sound
<1>1. m \in TaskMessages
  BY DEF TaskMessages
<1>2. k = [l EXCEPT !.tasks = T, !.out = Append(@, m)]
  BY <1>0 DEF Assign, Say, Ledgers
<1>3. ASSUME t \in DOMAIN l.tasks
      PROVE  /\ new \in TaskRecs /\ new.exec = l.tasks[t].exec /\ new.stage = l.tasks[t].stage
             /\ new.kind = l.tasks[t].kind /\ TaskFits(l.execs[new.exec], t, new)
  <2>1. /\ l.tasks[t] \in TaskRecs
        /\ TaskFits(l.execs[l.tasks[t].exec], t, l.tasks[t])
    BY <1>0, <1>3, TypesAre DEF Staged
  <2>2. /\ new \in TaskRecs /\ new.exec = l.tasks[t].exec /\ new.stage = l.tasks[t].stage
        /\ new.kind = l.tasks[t].kind /\ new.status = "assigned" /\ new.said = l.tasks[t].said
        /\ new.first = l.tasks[t].first
    BY <2>1 DEF TaskRecs, Statuses
  <2> HIDE DEF new
  <2>3. TaskFits(l.execs[new.exec], t, new)
    BY <2>1, <2>2 DEF TaskFits, Live
  <2> QED BY <2>2, <2>3
<1> HIDE DEF k, m, new
<1>4. TaskStep(l, k, t, new)
  BY <1>1, <1>2 DEF TaskStep
<1> QED BY <1>3, <1>4, TaskSteps DEF k

LEMMA FillSlotIs ==
    ASSUME NEW v, NEW b, NEW l, Good(v, b, l), NEW n, NEW overdue, l.running # 0
    PROVE  LET k == FillSlot(l, n, overdue)
           IN  /\ Good(v, b, k) /\ k.execs = l.execs /\ k.running = l.running
               /\ k.nodes = l.nodes /\ k.queue = l.queue /\ k.paused = l.paused
<1>0. l \in Ledgers /\ Queued(l)
  BY DEF Good, Sound
<1> DEFINE P == Picks(l, n, overdue)
<1>1. CASE FillSlot(l, n, overdue) = l
  BY <1>1
<1>2. CASE n \in l.nodes /\ P # {} /\ FillSlot(l, n, overdue) = Assign(l, Min(P), n)
  <2>1. n \in Nodes
    BY <1>0, <1>2, TypesAre
  <2>2. Running(l) \in ExecRecs
    BY <1>0, TypesAre DEF Running, Queued
  <2>3. Current(Running(l)) \subseteq Nat
    BY <2>2 DEF Current, StageIds, ExecRecs
  <2>4. P \in SUBSET Nat
    BY <2>3 DEF Picks
  <2>5. ASSUME NEW t \in P PROVE IsOpen(l.tasks[t])
    BY <2>5 DEF Picks, Wanted, IsOpen
  <2> HIDE DEF P
  <2>6. \E x \in P : \A y \in P : x <= y
    BY <1>2, <2>4, Least
  <2>7. Min(P) \in P
    BY <2>6 DEF Min
  <2> DEFINE t == Min(P)
  <2>8. t \in Nat /\ IsOpen(l.tasks[t]) /\ FillSlot(l, n, overdue) = Assign(l, t, n)
    BY <1>2, <2>4, <2>5, <2>7
  <2> HIDE DEF t
  <2> QED BY <2>1, <2>8, AssignIs
<1> QED BY <1>1, <1>2 DEF FillSlot

\* Every turn keeps it.
LEMMA FillIs ==
    ASSUME NEW v, NEW b, NEW l, Good(v, b, l), NEW overdue, Turns \in Nat
    PROVE  Good(v, b, Fill(l, overdue))
<1>1. CASE l.running = 0 \/ l.paused
  BY <1>1 DEF Fill
<1>2. CASE l.running # 0 /\ ~l.paused
  <2> DEFINE f == Filled(l, overdue)
             G == {n \in Nat : n <= Turns => Good(v, b, f[n]) /\ f[n].running # 0}
  <2>1. f[0] = l /\ \A n \in 1..Turns : f[n] = FillSlot(f[n - 1], Turn(n), overdue)
    BY FilledIs
  <2> HIDE DEF f
  <2>2. 0 \in G
    BY <1>2, <2>1
  <2>3. ASSUME NEW n \in G PROVE n + 1 \in G
    <3> SUFFICES ASSUME n \in Nat, n + 1 <= Turns
                 PROVE  Good(v, b, f[n + 1]) /\ f[n + 1].running # 0
      OBVIOUS
    <3>1. n + 1 \in 1..Turns /\ n <= Turns /\ (n + 1) - 1 = n
      OBVIOUS
    <3>2. Good(v, b, f[n]) /\ f[n].running # 0
      BY <3>1
    <3>3. f[n + 1] = FillSlot(f[n], Turn(n + 1), overdue)
      BY <2>1, <3>1
    <3> QED BY <3>2, <3>3, FillSlotIs
  <2> HIDE DEF G
  <2>4. G = Nat
    <3>1. G \in SUBSET Nat
      BY DEF G
    <3> QED BY <2>2, <2>3, <3>1, Induction
  <2>5. Good(v, b, f[Turns])
    BY <2>4 DEF G
  <2> QED BY <1>2, <2>5 DEF Fill, f
<1> QED BY <1>1, <1>2

LEMMA TurnsAre == Turns \in Nat /\ Len(NodeOrder) \in Nat /\ \A i \in 1..Len(NodeOrder) : NodeOrder[i] \in Nodes
<1>1. NodeOrder \in Seq(Nodes) /\ Slots \in Nat
  BY ReplicaAssumption DEF Nodes
<1>2. Len(NodeOrder) \in Nat
  BY <1>1
<1> QED BY <1>1, <1>2 DEF Turns

\* A result is accepted of a task that may get one now.
LEMMA AcceptIs ==
    ASSUME NEW v, NEW b, NEW l, Draft(v, b, l), NEW t \in DOMAIN l.tasks,
           Live(l.execs[l.tasks[t].exec], t, l.tasks[t]), l.tasks[t].said # {} => l.tasks[t].first # Nothing,
           NEW n \in Nodes, NEW o \in Outputs \cup {Trap}
    PROVE  LET k == Accept(l, t, n, o)
           IN  /\ Draft(v, b, k) /\ k.execs = l.execs /\ k.running = l.running
               /\ DOMAIN k.tasks = DOMAIN l.tasks /\ k.tasks[t].exec = l.tasks[t].exec
               /\ k.tasks[t].kind = l.tasks[t].kind /\ k.tasks[t].status \in {"done", "failed"}
               /\ Live(k.execs[k.tasks[t].exec], t, k.tasks[t])
<1> DEFINE old == l.tasks[t]
           status == IF o = Trap THEN "failed" ELSE "done"
           new == [old EXCEPT !.open = {}, !.output = o, !.status = status]
           m == IF o = Trap THEN [t |-> "taskFailed", task |-> t]
                ELSE [t |-> "taskDone", task |-> t, node |-> n, output |-> o]
           T == [l.tasks EXCEPT ![t] = new]
           k == Accept(l, t, n, o)
<1>0. /\ l \in Ledgers /\ Staged(l.execs, l.tasks) /\ l.tasks \in Seq(TaskRecs)
      /\ old \in TaskRecs /\ t \in Nat /\ Good(v, b, l) /\ Fresh(l)
  BY TypesAre DEF Draft, Good, Sound
<1>1. m \in TaskMessages
  BY <1>0 DEF TaskMessages, Yields
<1>2. k = [l EXCEPT !.tasks = T, !.out = Append(@, m)]
  BY <1>0 DEF Accept, Say, Ledgers
<1>3. /\ new \in TaskRecs /\ new.exec = old.exec /\ new.stage = old.stage
      /\ new.kind = old.kind /\ new.status = status /\ new.said = old.said
      /\ new.first = old.first /\ new.open = {}
  BY <1>0 DEF TaskRecs, Statuses, Yields
<1>4. status \in {"done", "failed"}
  OBVIOUS
<1> HIDE DEF k, m, new, status, T
<1>5. Live(l.execs[new.exec], t, new)
  BY <1>3 DEF Live
<1>6. TaskFits(l.execs[new.exec], t, new)
  BY <1>3, <1>5 DEF TaskFits
<1>7. TaskStep(l, k, t, new)
  BY <1>1, <1>2 DEF TaskStep, T
<1>8. /\ Good(v, b, k) /\ k.execs = l.execs /\ k.running = l.running
      /\ DOMAIN k.tasks = DOMAIN l.tasks /\ k.tasks[t] = new /\ Fresh(k)
  BY <1>0, <1>3, <1>6, <1>7, TaskSteps
<1> QED BY <1>3, <1>4, <1>5, <1>8 DEF Draft, k

\* A node gives a task back.
LEMMA ReleaseIs ==
    ASSUME NEW v, NEW b, NEW l, Draft(v, b, l), NEW t \in DOMAIN l.tasks, NEW n \in Nodes
    PROVE  LET k == Release(l, t, n)
           IN  Draft(v, b, k) /\ DOMAIN k.tasks = DOMAIN l.tasks /\ k.nodes = l.nodes
<1> DEFINE old == l.tasks[t]
           left == old.open \ {n}
           mid == [old EXCEPT !.open = left]
           gone == old.status = "assigned" /\ left = {} /\ old.said = {}
           new == IF gone THEN [mid EXCEPT !.status = "pending"] ELSE mid
           m == [t |-> "taskReassigned", task |-> t, node |-> n]
           T == [l.tasks EXCEPT ![t] = new]
           k == Release(l, t, n)
<1>0. /\ l \in Ledgers /\ Staged(l.execs, l.tasks) /\ l.tasks \in Seq(TaskRecs)
      /\ old \in TaskRecs /\ t \in Nat /\ Good(v, b, l) /\ Fresh(l)
      /\ TaskFits(l.execs[old.exec], t, old)
  BY TypesAre DEF Draft, Good, Sound, Staged
<1>1. m \in TaskMessages
  BY <1>0 DEF TaskMessages
<1> DEFINE freed == [l EXCEPT !.tasks[t].open = @ \ {n}]
<1>a. freed = [l EXCEPT !.tasks = [l.tasks EXCEPT ![t] = mid]] /\ freed.tasks[t] = mid
  BY <1>0 DEF Ledgers
<1>b. mid \in TaskRecs /\ mid.status = old.status /\ mid.open = left /\ mid.said = old.said
  BY <1>0 DEF TaskRecs
<1>2. TaskStep(l, k, t, new)
  <2>1. CASE ~gone
    <3>1. k = freed
      BY <1>a, <1>b, <2>1 DEF Release
    <3> QED BY <1>a, <2>1, <3>1 DEF TaskStep
  <2>2. CASE gone
    <3>1. k = Say([freed EXCEPT !.tasks[t].status = "pending"], m)
      BY <1>a, <1>b, <2>2 DEF Release
    <3> HIDE DEF freed, mid, m
    <3>3. [freed EXCEPT !.tasks[t].status = "pending"] = [l EXCEPT !.tasks = T]
      BY <1>0, <1>a, <1>b, <2>2 DEF Ledgers
    <3>4. k = [l EXCEPT !.tasks = T, !.out = Append(@, m)]
      <4> HIDE DEF T, k
      <4> QED BY <1>0, <3>1, <3>3 DEF Say, Ledgers
    <3> QED BY <1>1, <3>4 DEF TaskStep
  <2> QED BY <2>1, <2>2
<1>3. /\ new \in TaskRecs /\ new.exec = old.exec /\ new.stage = old.stage
      /\ new.kind = old.kind /\ new.said = old.said /\ new.first = old.first
      /\ new.open = left /\ new.status = IF gone THEN "pending" ELSE old.status
  BY <1>0, <1>b DEF TaskRecs, Statuses
<1>c. left \subseteq old.open
  OBVIOUS
<1>d. gone => left = {} /\ old.status = "assigned"
  OBVIOUS
<1> HIDE DEF k, m, new, T, mid, left, gone
<1>6. TaskFits(l.execs[new.exec], t, new)
  BY <1>0, <1>3, <1>c, <1>d DEF TaskFits, Live, IsOpen
<1>8. /\ Good(v, b, k) /\ DOMAIN k.tasks = DOMAIN l.tasks /\ Fresh(k) /\ k.nodes = l.nodes
  BY <1>0, <1>2, <1>3, <1>6, TaskSteps
<1> QED BY <1>8 DEF Draft, k

\* An execution ends, and the attempts of the running one.
LEMMA EndIs ==
    ASSUME NEW v, NEW b, NEW l, Draft(v, b, l), NEW e \in DOMAIN l.execs,
           NEW status \in {"done", "failed"}, status = "failed" \/ e \notin ToSet(l.queue)
    PROVE  LET k == End(l, e, status)
           IN  /\ Draft(v, b, k) /\ k.nodes = l.nodes /\ k.paused = l.paused
               /\ DOMAIN k.execs = DOMAIN l.execs /\ DOMAIN k.tasks = DOMAIN l.tasks
<1> DEFINE ended == IF e # l.running THEN {} ELSE Current(l.execs[e])
           closed == [t \in DOMAIN l.tasks |->
                        IF t \notin ended THEN l.tasks[t]
                        ELSE [l.tasks[t] EXCEPT !.open = {},
                                !.status = IF IsOpen(l.tasks[t]) THEN "failed" ELSE @]]
           old == l.execs[e]
           new == [old EXCEPT !.status = status, !.ended = l.ends + 1, !.awaits = "none"]
           E == [l.execs EXCEPT ![e] = new]
           queue == Without(l.queue, {e})
           running == IF l.running = e THEN 0 ELSE l.running
           m == [t |-> "executionEnded", exec |-> e, status |-> status]
           k == End(l, e, status)
<1>0. /\ l \in Ledgers /\ Staged(l.execs, l.tasks) /\ Queued(l) /\ Good(v, b, l) /\ Fresh(l)
      /\ (b => Follows(v, l))
  BY DEF Draft, Good, Sound
<1>1. /\ l.tasks \in Seq(TaskRecs) /\ l.execs \in Seq(ExecRecs) /\ l.queue \in Seq(Nat)
      /\ l.out \in Seq(Messages) /\ l.ends \in Nat /\ old \in ExecRecs /\ e \in Nat
      /\ l.running \in Nat /\ \A t \in DOMAIN l.tasks : l.tasks[t] \in TaskRecs
  BY <1>0, TypesAre
<1>2. m \in Messages /\ m.t # "executionStarted"
  BY <1>1 DEF Messages, MachineMessages
<1>3. ASSUME NEW t \in DOMAIN l.tasks
      PROVE  /\ closed[t] \in TaskRecs /\ closed[t].exec = l.tasks[t].exec
             /\ closed[t].kind = l.tasks[t].kind /\ closed[t].stage = l.tasks[t].stage
             /\ closed[t].said = l.tasks[t].said /\ closed[t].first = l.tasks[t].first
             /\ closed[t].open # {} => closed[t] = l.tasks[t]
             /\ IsOpen(closed[t]) => IsOpen(l.tasks[t])
  <2>1. l.tasks[t] \in TaskRecs
    BY <1>1
  <2> QED BY <2>1 DEF TaskRecs, Statuses, IsOpen
<1>4. closed \in Seq(TaskRecs) /\ DOMAIN closed = DOMAIN l.tasks
  <2>1. DOMAIN l.tasks = 1..Len(l.tasks) /\ Len(l.tasks) \in Nat
    BY <1>1
  <2>2. DOMAIN closed = DOMAIN l.tasks /\ closed = [t \in DOMAIN l.tasks |-> closed[t]]
    OBVIOUS
  <2> HIDE DEF closed
  <2>3. closed \in [1..Len(l.tasks) -> TaskRecs]
    BY <1>3, <2>1, <2>2
  <2> QED BY <2>1, <2>2, <2>3
<1>5. new \in ExecRecs /\ new.awaits = "none" /\ new.status = status
      /\ new.plan = old.plan /\ new.stage = old.stage /\ new.sealed = old.sealed
      /\ new.count = old.count /\ new.from = old.from
  <2>1. l.ends + 1 \in Nat
    BY <1>1
  <2> DEFINE at == l.ends + 1
             x == [old EXCEPT !.status = status, !.ended = at, !.awaits = "none"]
  <2>2. new = x /\ at \in Nat
    BY <2>1
  <2> HIDE DEF at, new, old
  <2>3. x \in ExecRecs /\ x.awaits = "none" /\ x.status = status
        /\ x.plan = old.plan /\ x.stage = old.stage /\ x.sealed = old.sealed
        /\ x.count = old.count /\ x.from = old.from
    BY <1>1, <2>2 DEF ExecRecs
  <2> QED BY <2>2, <2>3
<1>6. /\ E \in Seq(ExecRecs) /\ DOMAIN E = DOMAIN l.execs /\ E[e] = new
      /\ \A x \in DOMAIN l.execs : x # e => E[x] = l.execs[x]
  BY <1>1, <1>5
<1>7. /\ queue \in Seq(Nat) /\ ToSet(queue) = ToSet(l.queue) \ {e}
      /\ IsInjective(l.queue) => IsInjective(queue)
  <2>1. /\ queue \in Seq(Nat) /\ Range(queue) = Range(l.queue) \ {e}
        /\ IsInjective(l.queue) => IsInjective(queue)
    BY <1>1, WithoutIs
  <2> HIDE DEF queue
  <2>2. ToSet(queue) = Range(queue) /\ ToSet(l.queue) = Range(l.queue)
    BY DEF ToSet, Range
  <2> QED BY <2>1, <2>2
<1>8. k = [l EXCEPT !.tasks = closed, !.ends = @ + 1, !.execs = E, !.running = running,
                    !.queue = queue, !.out = Append(@, m)]
  BY <1>0 DEF End, Say, Ledgers
<1>9. Append(l.out, m) \in Seq(Messages) /\ l.ends + 1 \in Nat /\ running \in Nat
  BY <1>1, <1>2
<1> HIDE DEF k, m, E, new, closed, queue
<1>10. /\ k \in Ledgers /\ k.tasks = closed /\ k.execs = E /\ k.running = running
       /\ k.queue = queue /\ k.out = Append(l.out, m) /\ k.seq = l.seq /\ k.nodes = l.nodes
       /\ k.paused = l.paused /\ k.redundancy = l.redundancy
  BY <1>0, <1>4, <1>6, <1>7, <1>8, <1>9 DEF Ledgers
<1>11. Queued(k)
  <2>1. running # 0 => running \in DOMAIN E /\ E[running].status = "running"
    BY <1>0, <1>6 DEF Queued
  <2>2. \A x \in ToSet(queue) : x \in DOMAIN E /\ E[x].status = "queued"
    BY <1>0, <1>6, <1>7 DEF Queued
  <2> QED BY <1>0, <1>7, <1>10, <2>1, <2>2 DEF Queued
<1>12. Staged(E, closed)
  <2>1. ASSUME NEW x \in DOMAIN E PROVE ExecFits(E[x], x, closed)
    <3>1. ExecFits(l.execs[x], x, l.tasks)
      BY <1>0, <1>6, <2>1 DEF Staged
    <3>2. CASE x = e
      BY <1>3, <1>4, <1>5, <1>6, <3>1, <3>2 DEF ExecFits
    <3>3. CASE x # e
      BY <1>3, <1>4, <1>6, <3>1, <3>3 DEF ExecFits
    <3> QED BY <3>2, <3>3
  <2>2. ASSUME NEW t \in DOMAIN closed
        PROVE  closed[t].exec \in DOMAIN E /\ TaskFits(E[closed[t].exec], t, closed[t])
    <3>1. /\ l.tasks[t].exec \in DOMAIN l.execs
          /\ TaskFits(l.execs[l.tasks[t].exec], t, l.tasks[t])
      BY <1>0, <1>4, <2>2 DEF Staged
    <3> DEFINE x == E[closed[t].exec]
               y == l.execs[l.tasks[t].exec]
    <3>2. /\ x.plan = y.plan /\ x.stage = y.stage /\ x.sealed = y.sealed
          /\ x.count = y.count /\ x.from = y.from /\ x.awaits \in {y.awaits, "none"}
      BY <1>3, <1>4, <1>5, <1>6, <3>1
    <3> HIDE DEF x, y
    <3>3. Live(y, t, l.tasks[t]) => Live(x, t, closed[t])
      BY <1>3, <1>4, <3>2 DEF Live, StageIds
    <3>4. TaskFits(x, t, closed[t])
      <4>1. TaskFits(y, t, l.tasks[t])
        BY <3>1 DEF y
      <4>2. closed[t].open # {} => closed[t].status = "assigned"
        BY <1>3, <1>4, <4>1 DEF TaskFits
      <4> QED BY <1>3, <1>4, <3>2, <3>3, <4>1, <4>2 DEF TaskFits
    <3> QED BY <1>3, <1>4, <1>6, <3>1, <3>4 DEF x
  <2> QED BY <2>1, <2>2 DEF Staged
<1>13. ASSUME b PROVE Follows(v, k)
  <2>1. Announces(l, k, m)
    BY <1>0, <1>2, <1>10 DEF Announces
  <2>2. m.t = "executionEnded" /\ m.status = status /\ m.exec = e
    BY DEF m
  <2>3. k.running # 0 => k.execs[l.running].stage = l.execs[l.running].stage
    BY <1>0, <1>6, <1>10 DEF Queued
  <2> QED BY <1>0, <1>7, <1>10, <1>13, <2>1, <2>2, <2>3, FollowsEnded
<1>14. Fresh(k)
  BY <1>0, <1>2, <1>10, FreshAppends
<1> QED BY <1>4, <1>6, <1>10, <1>11, <1>12, <1>13, <1>14 DEF Draft, Good, Sound, k

\* What an execution may become, for the tasks of it.
LEMMA ExecChanges ==
    ASSUME NEW execs \in Seq(ExecRecs), NEW tasks, Staged(execs, tasks), NEW e \in DOMAIN execs,
           NEW new \in ExecRecs, ExecFits(new, e, tasks),
           \A t \in DOMAIN tasks : tasks[t].exec = e => TaskFits(new, t, tasks[t])
    PROVE  LET E == [execs EXCEPT ![e] = new]
           IN  E \in Seq(ExecRecs) /\ DOMAIN E = DOMAIN execs /\ E[e] = new /\ Staged(E, tasks)
<1> DEFINE E == [execs EXCEPT ![e] = new]
<1>1. /\ E \in Seq(ExecRecs) /\ DOMAIN E = DOMAIN execs /\ E[e] = new
      /\ \A x \in DOMAIN execs : x # e => E[x] = execs[x]
  OBVIOUS
<1> HIDE DEF E
<1>2. ASSUME NEW x \in DOMAIN E PROVE ExecFits(E[x], x, tasks)
  BY <1>1 DEF Staged
<1>3. ASSUME NEW t \in DOMAIN tasks
      PROVE  tasks[t].exec \in DOMAIN E /\ TaskFits(E[tasks[t].exec], t, tasks[t])
  BY <1>1 DEF Staged
<1> QED BY <1>1, <1>2, <1>3 DEF Staged, E

\* An execution changes in what no page shows.
LEMMA ExecStep ==
    ASSUME NEW v, NEW b, NEW l, Draft(v, b, l), NEW e \in DOMAIN l.execs,
           NEW new \in ExecRecs, ExecFits(new, e, l.tasks),
           \A t \in DOMAIN l.tasks : l.tasks[t].exec = e => TaskFits(new, t, l.tasks[t]),
           new.status = l.execs[e].status, new.stage = l.execs[e].stage
    PROVE  LET k == [l EXCEPT !.execs[e] = new]
           IN  /\ Draft(v, b, k) /\ DOMAIN k.execs = DOMAIN l.execs /\ k.execs[e] = new
               /\ k.tasks = l.tasks /\ k.nodes = l.nodes /\ k.running = l.running
               /\ k.seq = l.seq /\ k.out = l.out /\ k.paused = l.paused
<1> DEFINE E == [l.execs EXCEPT ![e] = new]
           k == [l EXCEPT !.execs[e] = new]
<1>0. /\ l \in Ledgers /\ Queued(l) /\ Staged(l.execs, l.tasks) /\ Fresh(l)
      /\ (b => Follows(v, l)) /\ l.execs \in Seq(ExecRecs)
  BY TypesAre DEF Draft, Good, Sound
<1>1. E \in Seq(ExecRecs) /\ DOMAIN E = DOMAIN l.execs /\ E[e] = new /\ Staged(E, l.tasks)
  BY <1>0, ExecChanges
<1>2. \A x \in DOMAIN l.execs : E[x].status = l.execs[x].status /\ E[x].stage = l.execs[x].stage
  BY <1>1
<1>3. k = [l EXCEPT !.execs = E]
  BY <1>0 DEF Ledgers
<1> HIDE DEF E, k
<1>4. /\ k \in Ledgers /\ k.execs = E /\ k.tasks = l.tasks /\ k.nodes = l.nodes
      /\ k.running = l.running /\ k.queue = l.queue /\ k.paused = l.paused
      /\ k.redundancy = l.redundancy /\ k.seq = l.seq /\ k.out = l.out
  BY <1>0, <1>1, <1>3 DEF Ledgers
<1>5. Queued(k)
  BY <1>0, <1>1, <1>2, <1>4 DEF Queued
<1>6. Untold(l, k) /\ Still(l, k) /\ Fresh(k)
  BY <1>0, <1>2, <1>4 DEF Untold, Still, Fresh, Queued
<1>7. b => Follows(v, k)
  BY <1>0, <1>4, <1>6, FollowsStill
<1> QED BY <1>1, <1>4, <1>5, <1>6, <1>7 DEF Draft, Good, Sound, k

\* A task that settled ends its execution, asks for the spec or, the last of
\* its stage, for the manifest.
LEMMA AfterSettledIs ==
    ASSUME NEW v, NEW b, NEW l, Draft(v, b, l), NEW t \in DOMAIN l.tasks,
           Live(l.execs[l.tasks[t].exec], t, l.tasks[t]), ~IsOpen(l.tasks[t])
    PROVE  LET k == AfterSettled(l, t)
           IN  Draft(v, b, k) /\ DOMAIN k.tasks = DOMAIN l.tasks /\ k.nodes = l.nodes
<1> DEFINE task == l.tasks[t]
           e == task.exec
           old == l.execs[e]
           k == AfterSettled(l, t)
<1>0. /\ l \in Ledgers /\ Staged(l.execs, l.tasks) /\ task \in TaskRecs
      /\ DOMAIN l.tasks = 1..Len(l.tasks) /\ Len(l.tasks) \in Nat
  BY TypesAre DEF Draft, Good, Sound
<1>1. e \in DOMAIN l.execs /\ ExecFits(old, e, l.tasks) /\ TaskFits(old, t, task)
  BY <1>0 DEF Staged
<1>2. old \in ExecRecs
  BY <1>0, <1>1, TypesAre
<1>3. Live(old, t, task) /\ ~IsOpen(task)
  OBVIOUS
<1>4. \A u \in DOMAIN l.tasks : l.tasks[u].exec = e => TaskFits(old, u, l.tasks[u])
  BY <1>0 DEF Staged
<1>a. t # 0 /\ \A u \in DOMAIN l.tasks : u # 0
  BY <1>0
<1>5. CASE task.status = "failed"
  <2>1. k = End(l, e, "failed")
    BY <1>5 DEF AfterSettled
  <2> HIDE DEF k, e
  <2> QED BY <1>1, <2>1, EndIs DEF k
<1>6. CASE task.status # "failed" /\ task.kind = "plan"
  <2> DEFINE new == [old EXCEPT !.awaits = "spec"]
  <2>1. k = [l EXCEPT !.execs[e] = new]
    BY <1>6 DEF AfterSettled
  <2>2. /\ new \in ExecRecs /\ new.awaits = "spec" /\ new.status = old.status
        /\ new.plan = old.plan /\ new.stage = old.stage /\ new.sealed = old.sealed
        /\ new.count = old.count /\ new.from = old.from
    BY <1>2 DEF ExecRecs
  <2>3. old.plan = t
    BY <1>3, <1>6 DEF Live
  <2> HIDE DEF new
  <2>4. ExecFits(new, e, l.tasks)
    BY <1>1, <1>3, <1>a, <2>2, <2>3 DEF ExecFits
  <2>5. ASSUME NEW u \in DOMAIN l.tasks, l.tasks[u].exec = e
        PROVE  TaskFits(new, u, l.tasks[u])
    <3>1. TaskFits(old, u, l.tasks[u])
      BY <1>4, <2>5
    <3>2. CASE u = t
      BY <1>3, <1>6, <2>2, <3>1, <3>2 DEF TaskFits
    <3>3. CASE u # t
      <4>1. ~Live(old, u, l.tasks[u])
        BY <1>a, <2>3, <3>3 DEF Live
      <4> QED BY <2>2, <3>1, <4>1 DEF TaskFits
    <3> QED BY <3>2, <3>3
  <2> HIDE DEF k, e
  <2>6. Draft(v, b, k) /\ k.tasks = l.tasks /\ k.nodes = l.nodes
    BY <1>1, <2>1, <2>2, <2>4, <2>5, ExecStep
  <2> QED BY <2>6 DEF k
<1>7. CASE /\ task.status # "failed" /\ task.kind = "run"
           /\ \A u \in StageIds(old) \cup {t} : l.tasks[u].status = "done"
  <2> DEFINE new == [old EXCEPT !.sealed = old.stage, !.awaits = "manifest"]
  <2>1. k = [l EXCEPT !.execs[e] = new]
    BY <1>0, <1>1, <1>2, <1>7 DEF AfterSettled, Ledgers, ExecRecs
  <2>2. /\ new \in ExecRecs /\ new.awaits = "manifest" /\ new.status = old.status
        /\ new.plan = old.plan /\ new.stage = old.stage /\ new.sealed = old.stage
        /\ new.count = old.count /\ new.from = old.from
    BY <1>2 DEF ExecRecs
  <2>3. old.plan = 0 /\ t \in StageIds(old) /\ old.awaits # "manifest"
    BY <1>3, <1>7 DEF Live
  <2>a. old.sealed \in Int /\ old.stage \in Int /\ old.count \in Nat /\ old.from \in Nat
    BY <1>2 DEF ExecRecs
  <2>b. old.count # 0
    BY <2>3, <2>a DEF StageIds
  <2> HIDE DEF new
  <2>4. ExecFits(new, e, l.tasks)
    <3>1. /\ old.count > 0 => old.stage >= 0
          /\ -1 <= old.sealed /\ old.sealed <= old.stage
          /\ old.status = "queued" => old.count = 0
      BY <1>1 DEF ExecFits
    <3>2. -1 <= old.stage
      <4> HIDE DEF old
      <4> QED BY <2>a, <3>1
    <3>3. /\ new.count > 0 => new.stage >= 0
          /\ -1 <= new.sealed /\ new.sealed <= new.stage
          /\ new.plan = 0 /\ new.status # "queued" /\ new.awaits = "manifest"
      <4> HIDE DEF old
      <4> QED BY <2>2, <2>3, <2>a, <2>b, <3>1, <3>2
    <3> QED BY <3>3 DEF ExecFits
  <2>5. ASSUME NEW u \in DOMAIN l.tasks, l.tasks[u].exec = e
        PROVE  TaskFits(new, u, l.tasks[u])
    <3>1. TaskFits(old, u, l.tasks[u]) /\ old.sealed <= old.stage
      BY <1>1, <1>4, <2>5 DEF ExecFits
    <3>a. l.tasks[u].stage \in Nat /\ l.tasks[u].kind \in {"plan", "run"}
      BY <1>0, TypesAre DEF TaskRecs
    <3>2. CASE Live(old, u, l.tasks[u])
      <4>1. l.tasks[u].kind = "run" /\ u \in StageIds(old) /\ l.tasks[u].stage = old.stage
        BY <1>a, <2>3, <3>2, <3>a DEF Live
      <4>2. l.tasks[u].status = "done"
        BY <1>7, <4>1
      <4> QED BY <2>2, <2>a, <3>1, <4>1, <4>2 DEF TaskFits, IsOpen
    <3>3. CASE ~Live(old, u, l.tasks[u])
      BY <2>2, <2>a, <3>1, <3>3, <3>a DEF TaskFits
    <3> QED BY <3>2, <3>3
  <2> HIDE DEF k, e
  <2>6. Draft(v, b, k) /\ k.tasks = l.tasks /\ k.nodes = l.nodes
    BY <1>1, <2>1, <2>2, <2>4, <2>5, ExecStep
  <2> QED BY <2>6 DEF k
<1>8. CASE /\ task.status # "failed" /\ task.kind # "plan"
           /\ \E u \in StageIds(old) \cup {t} : l.tasks[u].status # "done"
  BY <1>8 DEF AfterSettled
<1>b. task.kind \in {"plan", "run"}
  BY <1>0 DEF TaskRecs
<1> QED BY <1>5, <1>6, <1>7, <1>8, <1>b

\* A contradiction withdraws the round, and a vote may settle it.
LEMMA ContestIs ==
    ASSUME NEW v, NEW b, NEW l, Draft(v, b, l), NEW t \in DOMAIN l.tasks,
           Live(l.execs[l.tasks[t].exec], t, l.tasks[t]),
           NEW n \in Nodes, NEW vote \in Outputs \cup {Trap, Nothing}
    PROVE  LET k == Contest(l, t, n, vote)
           IN  Draft(v, b, k) /\ DOMAIN k.tasks = DOMAIN l.tasks
<1> DEFINE old == l.tasks[t]
           more == IF old.rounds < 2 THEN old.rounds + 1 ELSE old.rounds
           new == [old EXCEPT !.status = "pending", !.open = {}, !.said = {}, !.first = Nothing,
                              !.output = Nothing, !.rounds = more]
           m == Mismatch(t)
           T == [l.tasks EXCEPT ![t] = new]
           k == [Say(l, m) EXCEPT !.tasks[t] = new]
<1>0. /\ l \in Ledgers /\ Staged(l.execs, l.tasks) /\ l.tasks \in Seq(TaskRecs)
      /\ old \in TaskRecs /\ t \in Nat /\ Good(v, b, l) /\ Fresh(l)
  BY TypesAre DEF Draft, Good, Sound
<1>1. m \in TaskMessages
  BY <1>0 DEF TaskMessages, Mismatch
<1>2. k = [l EXCEPT !.tasks = T, !.out = Append(@, m)]
  <2> HIDE DEF m, new
  <2> QED BY <1>0 DEF Say, Ledgers
<1>3. more \in Nat
  <2>1. old.rounds \in Nat
    BY <1>0 DEF TaskRecs
  <2> QED BY <2>1
<1> HIDE DEF more
<1>4. /\ new \in TaskRecs /\ new.exec = old.exec /\ new.stage = old.stage
      /\ new.kind = old.kind /\ new.status = "pending" /\ new.said = {} /\ new.open = {}
  BY <1>0, <1>3 DEF TaskRecs, Statuses, Yields
<1>c. Contest(l, t, n, vote) = IF vote = Nothing THEN k ELSE AfterSettled(Accept(k, t, n, vote), t)
  <2>1. Say(l, m).tasks[t] = l.tasks[t]
    BY <1>0 DEF Say, Ledgers
  <2>2. k = [Say(l, Mismatch(t)) EXCEPT
                !.tasks[t] = [@ EXCEPT !.status = "pending", !.open = {}, !.said = {},
                                       !.first = Nothing, !.output = Nothing,
                                       !.rounds = IF l.tasks[t].rounds < 2
                                                  THEN l.tasks[t].rounds + 1
                                                  ELSE l.tasks[t].rounds]]
    BY <2>1 DEF more
  <2> HIDE DEF k
  <2> QED BY <2>2 DEF Contest
<1> HIDE DEF k, m, new, T
<1>5. Live(l.execs[new.exec], t, new)
  BY <1>4 DEF Live
<1>6. TaskFits(l.execs[new.exec], t, new)
  BY <1>4, <1>5 DEF TaskFits
<1>7. TaskStep(l, k, t, new)
  BY <1>1, <1>2 DEF TaskStep, T
<1>8. /\ Good(v, b, k) /\ k.execs = l.execs /\ k.running = l.running
      /\ DOMAIN k.tasks = DOMAIN l.tasks /\ k.tasks[t] = new /\ Fresh(k)
  BY <1>0, <1>4, <1>6, <1>7, TaskSteps
<1>9. Draft(v, b, k)
  BY <1>8 DEF Draft
<1>10. ASSUME vote # Nothing
       PROVE  /\ Draft(v, b, AfterSettled(Accept(k, t, n, vote), t))
              /\ DOMAIN AfterSettled(Accept(k, t, n, vote), t).tasks = DOMAIN l.tasks
  <2> DEFINE a == Accept(k, t, n, vote)
  <2>1. vote \in Outputs \cup {Trap}
    BY <1>10
  <2>2. t \in DOMAIN k.tasks /\ Live(k.execs[k.tasks[t].exec], t, k.tasks[t]) /\ k.tasks[t].said = {}
    BY <1>4, <1>5, <1>8
  <2>3. /\ Draft(v, b, a) /\ DOMAIN a.tasks = DOMAIN k.tasks
        /\ a.tasks[t].status \in {"done", "failed"} /\ Live(a.execs[a.tasks[t].exec], t, a.tasks[t])
    BY <1>9, <2>1, <2>2, AcceptIs
  <2> HIDE DEF a
  <2>4. t \in DOMAIN a.tasks /\ ~IsOpen(a.tasks[t])
    BY <1>8, <2>3 DEF IsOpen
  <2>5. Draft(v, b, AfterSettled(a, t)) /\ DOMAIN AfterSettled(a, t).tasks = DOMAIN a.tasks
    BY <2>3, <2>4, AfterSettledIs
  <2> QED BY <1>8, <2>3, <2>5 DEF a
<1> QED BY <1>8, <1>9, <1>10, <1>c

\* A node gives back all it holds.
LEMMA ReleaseNodeIs ==
    ASSUME NEW v, NEW b, NEW l, Draft(v, b, l), NEW n \in Nodes
    PROVE  Draft(v, b, ReleaseNode(l, n)) /\ ReleaseNode(l, n).nodes = l.nodes
<1> DEFINE f == Released(l, n)
           Fits(k) == Draft(v, b, k) /\ DOMAIN k.tasks = DOMAIN l.tasks /\ k.nodes = l.nodes
           G == {i \in Nat : i <= Len(l.tasks) => Fits(f[i])}
<1>0. Len(l.tasks) \in Nat /\ DOMAIN l.tasks = 1..Len(l.tasks)
  BY TypesAre DEF Draft, Good, Sound
<1>1. f[0] = l /\ \A i \in 1..Len(l.tasks) : f[i] = ReleaseHeld(f[i - 1], i, n)
  BY <1>0, ReleasedIs
<1> HIDE DEF f
<1>2. 0 \in G
  BY <1>1
<1>3. ASSUME NEW i \in G PROVE i + 1 \in G
  <2> SUFFICES ASSUME i \in Nat, i + 1 <= Len(l.tasks) PROVE Fits(f[i + 1])
    OBVIOUS
  <2>1. i + 1 \in 1..Len(l.tasks) /\ i <= Len(l.tasks) /\ (i + 1) - 1 = i
    BY <1>0
  <2>2. Fits(f[i])
    BY <2>1
  <2>3. f[i + 1] = ReleaseHeld(f[i], i + 1, n)
    BY <1>1, <2>1
  <2> DEFINE t == i + 1
  <2>4. t \in DOMAIN f[i].tasks
    BY <1>0, <2>1, <2>2
  <2> HIDE DEF t
  <2>5. Fits(Release(f[i], t, n))
    BY <2>2, <2>4, ReleaseIs
  <2>6. Fits(ReleaseHeld(f[i], t, n))
    <3> HIDE DEF Fits
    <3> QED BY <2>2, <2>5 DEF ReleaseHeld
  <2> QED BY <2>3, <2>6 DEF t
<1> HIDE DEF G
<1>4. G = Nat
  <2>1. G \in SUBSET Nat
    BY DEF G
  <2> QED BY <1>2, <1>3, <2>1, Induction
<1>5. Fits(f[Len(l.tasks)])
  BY <1>0, <1>4 DEF G
<1> QED BY <1>5 DEF f, ReleaseNode

LEMMA ReleasedAllKeeps ==
    ASSUME NEW v, NEW b, NEW l, Draft(v, b, l)
    PROVE  Draft(v, b, ReleasedAll(l)[Len(NodeOrder)])
<1> DEFINE f == ReleasedAll(l)
           G == {i \in Nat : i <= Len(NodeOrder) => Draft(v, b, f[i])}
<1>0. Len(NodeOrder) \in Nat
  BY TurnsAre
<1>1. f[0] = l /\ \A i \in 1..Len(NodeOrder) : f[i] = ReleaseNode(f[i - 1], NodeOrder[i])
  BY <1>0, ReleasedAllIs
<1> HIDE DEF f
<1>2. 0 \in G
  BY <1>1
<1>3. ASSUME NEW i \in G PROVE i + 1 \in G
  <2> SUFFICES ASSUME i \in Nat, i + 1 <= Len(NodeOrder) PROVE Draft(v, b, f[i + 1])
    OBVIOUS
  <2>1. i + 1 \in 1..Len(NodeOrder) /\ i <= Len(NodeOrder) /\ (i + 1) - 1 = i
    BY <1>0
  <2>2. Draft(v, b, f[i]) /\ NodeOrder[i + 1] \in Nodes
    BY <2>1, TurnsAre
  <2>3. f[i + 1] = ReleaseNode(f[i], NodeOrder[i + 1])
    BY <1>1, <2>1
  <2> QED BY <2>2, <2>3, ReleaseNodeIs
<1> HIDE DEF G
<1>4. G = Nat
  <2>1. G \in SUBSET Nat
    BY DEF G
  <2> QED BY <1>2, <1>3, <2>1, Induction
<1> QED BY <1>0, <1>4 DEF G, f

\* One report is enough of a task that is open.
LEMMA SettleExistingIs ==
    ASSUME NEW v, NEW b, NEW l, Draft(v, b, l), NEW t \in DOMAIN l.tasks
    PROVE  LET k == SettleExisting(l, t)
           IN  Draft(v, b, k) /\ DOMAIN k.tasks = DOMAIN l.tasks
<1> DEFINE old == l.tasks[t]
           new == [old EXCEPT !.required = 1]
           T == [l.tasks EXCEPT ![t] = new]
           k == [l EXCEPT !.tasks[t].required = 1]
           n == CHOOSE n \in old.said : TRUE
<1>0. /\ l \in Ledgers /\ Staged(l.execs, l.tasks) /\ l.tasks \in Seq(TaskRecs)
      /\ old \in TaskRecs /\ t \in Nat /\ Good(v, b, l) /\ Fresh(l)
      /\ TaskFits(l.execs[old.exec], t, old)
  BY TypesAre DEF Draft, Good, Sound, Staged
<1>2. k = [l EXCEPT !.tasks = T]
  BY <1>0 DEF Ledgers
<1>4. /\ new \in TaskRecs /\ new.exec = old.exec /\ new.stage = old.stage /\ new.first = old.first
      /\ new.kind = old.kind /\ new.status = old.status /\ new.said = old.said /\ new.open = old.open
  BY <1>0 DEF TaskRecs
<1>s. SettleExisting(l, t) = IF ~IsOpen(old) THEN l ELSE IF old.said = {} THEN k
                             ELSE AfterSettled(Accept(k, t, n, old.first), t)
  BY DEF SettleExisting
<1>d. old.said # {} => n \in Nodes /\ old.first \in Outputs \cup {Trap}
  <2>1. old.said \subseteq Nodes /\ old.first \in Yields
    BY <1>0 DEF TaskRecs
  <2>2. old.said # {} => old.first # Nothing
    BY <1>0 DEF TaskFits
  <2> QED BY <2>1, <2>2 DEF Yields
<1> HIDE DEF k, new, T, n
<1>6. TaskFits(l.execs[new.exec], t, new)
  BY <1>0, <1>4 DEF TaskFits, Live, IsOpen
<1>7. TaskStep(l, k, t, new)
  BY <1>2 DEF TaskStep, T
<1>8. /\ Good(v, b, k) /\ k.execs = l.execs
      /\ DOMAIN k.tasks = DOMAIN l.tasks /\ k.tasks[t] = new /\ Fresh(k)
  BY <1>0, <1>4, <1>6, <1>7, TaskSteps
<1>9. Draft(v, b, k)
  BY <1>8 DEF Draft
<1>10. ASSUME IsOpen(old), old.said # {}
       PROVE  /\ Draft(v, b, AfterSettled(Accept(k, t, n, old.first), t))
              /\ DOMAIN AfterSettled(Accept(k, t, n, old.first), t).tasks = DOMAIN l.tasks
  <2> DEFINE o == old.first
             a == Accept(k, t, n, o)
  <2>1. n \in Nodes /\ o \in Outputs \cup {Trap} /\ o # Nothing
    BY <1>0, <1>10, <1>d DEF TaskFits
  <2>a. Live(l.execs[old.exec], t, old)
    BY <1>0, <1>10 DEF TaskFits
  <2>2. /\ t \in DOMAIN k.tasks /\ Live(k.execs[k.tasks[t].exec], t, k.tasks[t])
        /\ k.tasks[t].said # {} => k.tasks[t].first # Nothing
    BY <1>4, <1>8, <2>1, <2>a DEF Live
  <2> HIDE DEF o
  <2>3. /\ Draft(v, b, a) /\ DOMAIN a.tasks = DOMAIN k.tasks
        /\ a.tasks[t].status \in {"done", "failed"} /\ Live(a.execs[a.tasks[t].exec], t, a.tasks[t])
    BY <1>9, <2>1, <2>2, AcceptIs
  <2> HIDE DEF a
  <2>4. t \in DOMAIN a.tasks /\ ~IsOpen(a.tasks[t])
    BY <1>8, <2>3 DEF IsOpen
  <2>5. Draft(v, b, AfterSettled(a, t)) /\ DOMAIN AfterSettled(a, t).tasks = DOMAIN a.tasks
    BY <2>3, <2>4, AfterSettledIs
  <2> QED BY <1>8, <2>3, <2>5 DEF a, o
<1> QED BY <1>8, <1>9, <1>10, <1>s

LEMMA SettledKeeps ==
    ASSUME NEW v, NEW b, NEW l, Draft(v, b, l)
    PROVE  Draft(v, b, Settled(l)[Len(l.tasks)])
<1> DEFINE f == Settled(l)
           Fits(k) == Draft(v, b, k) /\ DOMAIN k.tasks = DOMAIN l.tasks
           G == {i \in Nat : i <= Len(l.tasks) => Fits(f[i])}
<1>0. Len(l.tasks) \in Nat /\ DOMAIN l.tasks = 1..Len(l.tasks)
  BY TypesAre DEF Draft, Good, Sound
<1>1. f[0] = l /\ \A i \in 1..Len(l.tasks) : f[i] = SettleExisting(f[i - 1], i)
  BY <1>0, SettledIs
<1> HIDE DEF f
<1>2. 0 \in G
  BY <1>1
<1>3. ASSUME NEW i \in G PROVE i + 1 \in G
  <2> SUFFICES ASSUME i \in Nat, i + 1 <= Len(l.tasks) PROVE Fits(f[i + 1])
    OBVIOUS
  <2>1. i + 1 \in 1..Len(l.tasks) /\ i <= Len(l.tasks) /\ (i + 1) - 1 = i
    BY <1>0
  <2>2. Fits(f[i])
    BY <2>1
  <2>3. f[i + 1] = SettleExisting(f[i], i + 1)
    BY <1>1, <2>1
  <2> DEFINE t == i + 1
  <2>4. t \in DOMAIN f[i].tasks
    BY <1>0, <2>1, <2>2
  <2> HIDE DEF t
  <2>5. Fits(SettleExisting(f[i], t))
    BY <2>2, <2>4, SettleExistingIs
  <2> QED BY <2>3, <2>5 DEF t
<1> HIDE DEF G
<1>4. G = Nat
  <2>1. G \in SUBSET Nat
    BY DEF G
  <2> QED BY <1>2, <1>3, <2>1, Induction
<1>5. Fits(f[Len(l.tasks)])
  BY <1>0, <1>4 DEF G
<1> QED BY <1>5 DEF f

-----------------------------------------------------------------------------
(* The scheduler's step: a plan is made, the head of the queue starts, free *)
(* slots fill.                                                              *)

\* Nothing of an execution is going on.
Idle(l, e) ==
    \A t \in DOMAIN l.tasks :
        l.tasks[t].exec = e => /\ ~IsOpen(l.tasks[t])
                               /\ l.tasks[t].kind = "run" => l.tasks[t].stage <= l.execs[e].sealed

LEMMA PlanTaskIs ==
    ASSUME NEW l, NEW e, e \in Nat, NEW stage, stage \in Nat
    PROVE  LET x == NewTask(l, e, stage, 0, "plan")
           IN  /\ x \in TaskRecs /\ x.exec = e /\ x.stage = stage
               /\ x.kind = "plan" /\ x.status = "pending" /\ x.open = {} /\ x.said = {}
<1> DEFINE r == IF l.redundancy THEN 2 ELSE 1
<1>1. r \in {1, 2}
  OBVIOUS
<1> HIDE DEF r
<1> QED BY <1>1 DEF NewTask, Task, TaskRecs, Statuses, Yields, r

LEMMA RunTaskIs ==
    ASSUME NEW l, NEW e, e \in Nat, NEW stage, stage \in Nat, NEW index, index \in Nat,
           NEW x, x = NewTask(l, e, stage, index, "run")
    PROVE  /\ x \in TaskRecs /\ x.exec = e /\ x.stage = stage
           /\ x.kind = "run" /\ x.status = "pending" /\ x.open = {} /\ x.said = {}
<1> DEFINE r == IF l.redundancy THEN 2 ELSE 1
<1>1. r \in {1, 2}
  OBVIOUS
<1> HIDE DEF r
<1> QED BY <1>1 DEF NewTask, Task, TaskRecs, Statuses, Yields, r

LEMMA CreatePlanIs ==
    ASSUME NEW v, NEW b, NEW l, Good(v, b, l), NEW e \in DOMAIN l.execs, NEW stage \in Nat,
           l.execs[e].plan = 0, l.execs[e].awaits = "none", l.execs[e].status # "queued",
           l.execs[e].sealed < stage, Idle(l, e)
    PROVE  LET k == CreatePlan(l, e, stage)
           IN  Good(v, b, k) /\ (Fresh(l) => Fresh(k))
<1> DEFINE old == l.execs[e]
           plan == Len(l.tasks) + 1
           task == NewTask(l, e, stage, 0, "plan")
           new == [old EXCEPT !.plan = plan]
           T == Append(l.tasks, task)
           E == [l.execs EXCEPT ![e] = new]
           k == CreatePlan(l, e, stage)
<1>0. /\ l \in Ledgers /\ Queued(l) /\ Staged(l.execs, l.tasks)
      /\ (b => Follows(v, l)) /\ l.execs \in Seq(ExecRecs) /\ l.tasks \in Seq(TaskRecs)
      /\ old \in ExecRecs /\ e \in Nat /\ Len(l.tasks) \in Nat /\ DOMAIN l.tasks = 1..Len(l.tasks)
  BY TypesAre DEF Good, Sound
<1>1. /\ task \in TaskRecs /\ task.exec = e /\ task.stage = stage
      /\ task.kind = "plan" /\ task.status = "pending" /\ task.open = {} /\ task.said = {}
  <2>1. e \in Nat
    BY <1>0
  <2> QED BY <2>1, PlanTaskIs
<1>2. plan \in Nat /\ plan # 0 /\ plan \notin DOMAIN l.tasks
  BY <1>0
<1> HIDE DEF task
<1>3. /\ T \in Seq(TaskRecs) /\ DOMAIN T = DOMAIN l.tasks \cup {plan} /\ T[plan] = task
      /\ \A t \in DOMAIN l.tasks : T[t] = l.tasks[t]
  BY <1>0, <1>1
<1> HIDE DEF plan
<1>4. /\ new \in ExecRecs /\ new.plan = plan /\ new.status = old.status
      /\ new.awaits = old.awaits /\ new.stage = old.stage /\ new.sealed = old.sealed
      /\ new.count = old.count /\ new.from = old.from
  BY <1>0, <1>2 DEF ExecRecs
<1> HIDE DEF new
<1>5. /\ E \in Seq(ExecRecs) /\ DOMAIN E = DOMAIN l.execs /\ E[e] = new
      /\ \A x \in DOMAIN l.execs : x # e => E[x] = l.execs[x]
  BY <1>0, <1>4
<1>6. k = [l EXCEPT !.tasks = T, !.execs = E]
  BY <1>0 DEF CreatePlan, Ledgers, new, task, plan
<1> HIDE DEF T, E, k
<1>7. /\ k \in Ledgers /\ k.execs = E /\ k.tasks = T /\ k.nodes = l.nodes
      /\ k.running = l.running /\ k.queue = l.queue /\ k.paused = l.paused
      /\ k.redundancy = l.redundancy /\ k.seq = l.seq /\ k.out = l.out
  BY <1>0, <1>3, <1>5, <1>6 DEF Ledgers
<1>8. \A x \in DOMAIN l.execs : /\ E[x].status = l.execs[x].status /\ E[x].stage = l.execs[x].stage
                                /\ E[x].count = l.execs[x].count
  BY <1>4, <1>5
<1>9. Queued(k)
  BY <1>0, <1>5, <1>7, <1>8 DEF Queued
<1>10. Still(l, k) /\ (Fresh(l) => Fresh(k))
  BY <1>0, <1>7, <1>8 DEF Still, Fresh, Queued
<1>11. Untold(l, k)
  <2>1. ASSUME NEW x PROVE E[x].status = l.execs[x].status /\ E[x].stage = l.execs[x].stage
                           /\ E[x].count = l.execs[x].count
    BY <1>4, <1>0 DEF E
  <2> QED BY <1>7, <2>1 DEF Untold, ExecutionView
<1>12. b => Follows(v, k)
  BY <1>0, <1>7, <1>10, <1>11, FollowsStill
<1>13. Staged(E, T)
  <2>1. ASSUME NEW x \in DOMAIN E PROVE ExecFits(E[x], x, T)
    <3>1. ExecFits(l.execs[x], x, l.tasks)
      BY <1>0, <1>5 DEF Staged
    <3>2. CASE x # e
      BY <1>3, <1>5, <3>1, <3>2 DEF ExecFits
    <3>3. CASE x = e
      <4>1. /\ new.plan = plan /\ plan \in DOMAIN T /\ T[plan].stage = stage
            /\ T[plan].kind = "plan" /\ T[plan].exec = e /\ new.awaits = "none"
            /\ new.status # "queued" /\ stage > new.sealed
        <5>1. old.sealed \in Int
          BY <1>0 DEF ExecRecs
        <5> QED BY <1>1, <1>3, <1>4, <5>1
      <4>2. /\ new.count > 0 => new.stage >= 0
            /\ -1 <= new.sealed /\ new.sealed <= new.stage
        BY <1>4, <3>1, <3>3 DEF ExecFits
      <4>3. ExecFits(new, e, T)
        BY <4>1, <4>2 DEF ExecFits
      <4> QED BY <1>5, <3>3, <4>3
    <3> QED BY <3>2, <3>3
  <2>2. ASSUME NEW t \in DOMAIN T PROVE T[t].exec \in DOMAIN E /\ TaskFits(E[T[t].exec], t, T[t])
    <3>1. CASE t = plan
      <4>1. Live(new, plan, task)
        BY <1>1, <1>4 DEF Live
      <4>2. TaskFits(new, plan, task)
        BY <1>1, <4>1 DEF TaskFits
      <4> QED BY <1>1, <1>3, <1>5, <3>1, <4>2
    <3>2. CASE t # plan /\ T[t].exec # e
      BY <1>0, <1>3, <1>5, <3>2 DEF Staged
    <3>3. CASE t # plan /\ T[t].exec = e
      <4>1. t \in DOMAIN l.tasks /\ T[t] = l.tasks[t] /\ TaskFits(old, t, T[t])
        BY <1>0, <1>3, <3>3 DEF Staged
      <4>2. ~IsOpen(T[t]) /\ (T[t].kind = "run" => T[t].stage <= new.sealed)
        BY <1>4, <3>3, <4>1 DEF Idle
      <4>3. TaskFits(new, t, T[t])
        BY <4>1, <4>2 DEF TaskFits
      <4> QED BY <1>5, <3>3, <4>3
    <3> QED BY <3>1, <3>2, <3>3
  <2> QED BY <2>1, <2>2 DEF Staged
<1> QED BY <1>7, <1>9, <1>10, <1>12, <1>13 DEF Good, Sound, k

\* An execution that waits for nothing of a stage is idle.
LEMMA IdleIs ==
    ASSUME NEW l, Staged(l.execs, l.tasks), l \in Ledgers, NEW e \in DOMAIN l.execs,
           LET x == l.execs[e] IN x.awaits = "spec" \/ (x.plan = 0 /\ (x.count = 0 \/ x.awaits = "manifest"))
    PROVE  Idle(l, e)
<1> SUFFICES ASSUME NEW t \in DOMAIN l.tasks, l.tasks[t].exec = e
             PROVE  ~Live(l.execs[e], t, l.tasks[t])
  <2>1. ASSUME NEW t \in DOMAIN l.tasks, l.tasks[t].exec = e
        PROVE  /\ ~IsOpen(l.tasks[t])
               /\ l.tasks[t].kind = "run" => l.tasks[t].stage <= l.execs[e].sealed
    <3>1. TaskFits(l.execs[e], t, l.tasks[t])
      BY <2>1 DEF Staged
    <3> QED BY <2>1, <3>1 DEF TaskFits
  <2> QED BY <2>1 DEF Idle
<1>1. t # 0 /\ l.tasks[t].kind \in {"plan", "run"} /\ l.execs[e] \in ExecRecs
  <2>1. /\ DOMAIN l.tasks = 1..Len(l.tasks) /\ l.tasks[t] \in TaskRecs
        /\ l.execs[e] \in ExecRecs /\ Len(l.tasks) \in Nat
    BY TypesAre
  <2> QED BY <2>1 DEF TaskRecs
<1>2. ExecFits(l.execs[e], e, l.tasks)
  BY DEF Staged
<1>3. l.execs[e].count = 0 => StageIds(l.execs[e]) = {}
  <2>1. l.execs[e].from \in Nat
    BY <1>1 DEF ExecRecs
  <2> QED BY <2>1 DEF StageIds
<1> QED BY <1>1, <1>2, <1>3 DEF Live, ExecFits

LEMMA MaybeStartIs ==
    ASSUME NEW v, NEW b, NEW l, Draft(v, b, l)
    PROVE  Good(v, b, MaybeStart(l))
<1>1. CASE MaybeStart(l) = l
  BY <1>1 DEF Draft
<1>2. CASE l.running = 0 /\ ~l.paused /\ l.queue # <<>>
  <2> DEFINE e == Head(l.queue)
             old == l.execs[e]
             new == [old EXCEPT !.status = "running"]
             E == [l.execs EXCEPT ![e] = new]
             q == Tail(l.queue)
             m == [t |-> "executionStarted", exec |-> e]
             k == Say([l EXCEPT !.queue = Tail(@), !.running = e, !.execs[e].status = "running"], m)
  <2>0. /\ l \in Ledgers /\ Queued(l) /\ Staged(l.execs, l.tasks) /\ Fresh(l)
        /\ (b => Follows(v, l)) /\ l.execs \in Seq(ExecRecs) /\ l.queue \in Seq(Nat)
        /\ l.out \in Seq(Messages)
    BY TypesAre DEF Draft, Good, Sound
  <2>a. ToSet(l.queue) = Range(l.queue) /\ ToSet(q) = Range(q)
    BY DEF ToSet, Range
  <2>1. /\ e \in Nat /\ e \in ToSet(l.queue) /\ q \in Seq(Nat) /\ IsInjective(q)
        /\ ToSet(q) = ToSet(l.queue) \ {e}
    BY <1>2, <2>0, <2>a, TailIs DEF Queued
  <2>2. e \in DOMAIN l.execs /\ old.status = "queued" /\ old \in ExecRecs
    BY <2>0, <2>1, TypesAre DEF Queued
  <2>3. /\ old.awaits \in {"none", "inherit"} /\ old.plan = 0 /\ old.count = 0 /\ old.sealed = -1
        /\ ExecFits(old, e, l.tasks)
    BY <2>0, <2>2 DEF Staged, ExecFits
  <2>4. /\ new \in ExecRecs /\ new.plan = old.plan /\ new.status = "running"
        /\ new.awaits = old.awaits /\ new.stage = old.stage /\ new.sealed = old.sealed
        /\ new.count = old.count /\ new.from = old.from
    BY <2>2 DEF ExecRecs
  <2>5. ExecFits(new, e, l.tasks)
    BY <2>3, <2>4 DEF ExecFits
  <2>6. ASSUME NEW t \in DOMAIN l.tasks, l.tasks[t].exec = e PROVE TaskFits(new, t, l.tasks[t])
    <3>1. TaskFits(old, t, l.tasks[t])
      BY <2>0, <2>6 DEF Staged
    <3> QED BY <2>4, <3>1 DEF TaskFits, Live, StageIds
  <2> HIDE DEF new
  <2>7. E \in Seq(ExecRecs) /\ DOMAIN E = DOMAIN l.execs /\ E[e] = new /\ Staged(E, l.tasks)
    BY <2>0, <2>2, <2>4, <2>5, <2>6, ExecChanges
  <2>8. m \in Messages
    BY <2>1 DEF Messages, MachineMessages
  <2>9. k = [l EXCEPT !.queue = q, !.running = e, !.execs = E, !.out = Append(@, m)]
    BY <2>0 DEF Say, Ledgers, new
  <2>b. Append(l.out, m) \in Seq(Messages) /\ m.exec = e /\ m.t = "executionStarted"
    BY <2>0, <2>8
  <2>c. \A x \in DOMAIN l.execs : x # e => E[x] = l.execs[x]
    BY <2>0
  <2>m. MaybeStart(l) = IF old.awaits = "inherit" THEN k ELSE CreatePlan(k, e, 0)
    BY <1>2 DEF MaybeStart
  <2> HIDE DEF k, E, q, m, e
  <2>10. /\ k \in Ledgers /\ k.execs = E /\ k.tasks = l.tasks /\ k.nodes = l.nodes
         /\ k.running = e /\ k.queue = q /\ k.paused = l.paused
         /\ k.redundancy = l.redundancy /\ k.seq = l.seq /\ k.out = Append(l.out, m)
    BY <2>0, <2>1, <2>7, <2>9, <2>b DEF Ledgers
  <2>11. Queued(k)
    <3>1. e \in DOMAIN E /\ E[e].status = "running"
      BY <2>2, <2>4, <2>7
    <3>2. \A x \in ToSet(q) : x \in DOMAIN E /\ E[x].status = "queued"
      BY <2>0, <2>1, <2>7, <2>c DEF Queued
    <3> QED BY <2>1, <2>10, <3>1, <3>2 DEF Queued
  <2>12. ASSUME b PROVE Follows(v, k)
    <3>1. Announces(l, k, m)
      BY <2>0, <2>8, <2>10 DEF Announces
    <3>2. m.exec \in DOMAIN k.execs /\ k.execs[m.exec].status = "running" /\ k.execs[m.exec].count = 0
      BY <2>2, <2>3, <2>4, <2>7, <2>10, <2>b
    <3> QED BY <2>0, <2>1, <2>10, <2>12, <2>b, <3>1, <3>2, FollowsStarted
  <2>13. Good(v, b, k)
    BY <2>7, <2>10, <2>11, <2>12 DEF Good, Sound
  <2>14. CASE old.awaits = "inherit"
    BY <2>13, <2>14, <2>m
  <2>15. CASE old.awaits = "none"
    <3>1. k.execs[e].plan = 0 /\ k.execs[e].count = 0
      BY <2>3, <2>4, <2>7, <2>10
    <3>2. Idle(k, e)
      BY <2>2, <2>7, <2>10, <3>1, IdleIs
    <3>3. k.execs[e].awaits = "none" /\ k.execs[e].status # "queued" /\ k.execs[e].sealed < 0
      BY <2>3, <2>4, <2>7, <2>10, <2>15
    <3>4. e \in DOMAIN k.execs
      BY <2>2, <2>7, <2>10
    <3> QED BY <2>13, <2>15, <2>m, <3>1, <3>2, <3>3, <3>4, CreatePlanIs
  <2> QED BY <2>3, <2>14, <2>15
<1> QED BY <1>1, <1>2 DEF MaybeStart

LEMMA AdvanceIs ==
    ASSUME NEW v, NEW b, NEW l, Draft(v, b, l), NEW overdue
    PROVE  Good(v, b, Advance(l, overdue))
BY MaybeStartIs, FillIs, TurnsAre DEF Advance

-----------------------------------------------------------------------------
(* A handler: what it announced is numbered and sent.                      *)

LEMMA NumberedIs ==
    ASSUME NEW v, NEW b, NEW l, Good(v, b, l)
    PROVE  LET k == Numbered(l)
           IN  Sound(k) /\ k.out = <<>> /\ (b => UpToDate(Reads(v, l), k))
<1> DEFINE k == Numbered(l)
           seq == l.seq + Len(l.out)
<1>0. l \in Ledgers /\ Queued(l) /\ Staged(l.execs, l.tasks) /\ (b => Follows(v, l))
  BY DEF Good, Sound
<1>1. seq \in Nat
  <2>1. l.seq \in Nat /\ l.out \in Seq(Messages)
    BY <1>0, TypesAre
  <2> QED BY <2>1
<1>2. k = [l EXCEPT !.seq = seq, !.out = <<>>]
  BY <1>0 DEF Numbered, Ledgers
<1> HIDE DEF k, seq
<1>3. /\ k \in Ledgers /\ k.execs = l.execs /\ k.tasks = l.tasks /\ k.nodes = l.nodes
      /\ k.running = l.running /\ k.queue = l.queue /\ k.paused = l.paused
      /\ k.redundancy = l.redundancy /\ k.seq = seq /\ k.out = <<>>
  <2>1. <<>> \in Seq(Messages)
    OBVIOUS
  <2> QED BY <1>0, <1>1, <1>2, <2>1 DEF Ledgers
<1>4. Queued(k)
  BY <1>0, <1>3 DEF Queued
<1>5. ASSUME b PROVE UpToDate(Reads(v, l), k)
  BY <1>0, <1>3, <1>5 DEF Follows, UpToDate, Matches, seq
<1> QED BY <1>0, <1>3, <1>4, <1>5 DEF Sound, k

\* Before a handler nothing is announced.
LEMMA LedgerIs ==
    ASSUME ReplicaIInv
    PROVE  Draft(page.view, page.subscribed, ledger) /\ ledger \in Ledgers /\ ledger.out = <<>>
<1>1. ledger \in Ledgers /\ Sound(ledger) /\ ledger.out = <<>>
  BY DEF ReplicaIInv, Sound
<1>2. Len(ledger.out) = 0 /\ Fresh(ledger) /\ ledger.seq \in Nat
  BY <1>1, TypesAre DEF Fresh
<1>3. Reads(page.view, ledger) = page.view
  <2>1. Len(Events(ledger)) = 0
    BY <1>1, <1>2, EventsAre
  <2> QED BY <2>1, ReadNone DEF Reads
<1>4. ASSUME page.subscribed PROVE Follows(page.view, ledger)
  <2>1. UpToDate(page.view, ledger)
    BY <1>4 DEF ReplicaIInv
  <2>2. ledger.seq + Len(ledger.out) = ledger.seq
    BY <1>2
  <2> QED BY <1>3, <2>1, <2>2 DEF Follows, UpToDate
<1> QED BY <1>1, <1>2, <1>4 DEF Draft, Good

LEMMA TroubleStays ==
    ASSUME ReplicaIInv, Stays \/ Goes
    PROVE  trouble' \in 0..MaxTrouble
<1>1. trouble \in 0..MaxTrouble /\ MaxTrouble \in Nat
  BY ReplicaAssumption DEF ReplicaIInv
<1> QED BY <1>1 DEF Stays, Goes

LEMMA MemoIs ==
    ASSUME NEW pages, pages = Nothing \/ PagesFit(pages), NEW l
    PROVE  MemoAfter(pages, l) = Nothing \/ PagesFit(MemoAfter(pages, l))
BY DEF MemoAfter

LEMMA HandleIs ==
    ASSUME ReplicaIInv, NEW l, Good(page.view, page.subscribed, l), Handle(l), Stays \/ Goes
    PROVE  ReplicaIInv'
<1> DEFINE k == Numbered(l)
<1>1. Sound(k) /\ k.out = <<>> /\ (page.subscribed => UpToDate(Reads(page.view, l), k))
  BY NumberedIs
<1>2. /\ ledger' = k /\ memo' = MemoAfter(memo, l)
      /\ page' = IF page.subscribed THEN [page EXCEPT !.view = ReadAll(@, Events(l))]
                 ELSE IF page.view = EmptyView THEN page ELSE [page EXCEPT !.missed = @ + 1]
  BY DEF Handle
<1> HIDE DEF k
<1>3. memo' = Nothing \/ PagesFit(memo)'
  <2>1. memo = Nothing \/ PagesFit(memo)
    BY DEF ReplicaIInv
  <2>2. memo' = Nothing \/ PagesFit(memo')
    BY <1>2, <2>1, MemoIs
  <2> QED BY <2>2 DEF PagesFit
<1>4. /\ DOMAIN page = {"subscribed", "missed", "view"} /\ page.subscribed \in BOOLEAN
      /\ page.missed \in Nat /\ Shape(page.view)
  BY DEF ReplicaIInv
<1>5. trouble' \in 0..MaxTrouble
  BY TroubleStays
<1>6. Sound(ledger') /\ ledger'.out = <<>>
  BY <1>1, <1>2
<1>7. CASE page.subscribed
  <2>1. page' = [page EXCEPT !.view = Reads(page.view, l)]
    BY <1>2, <1>7 DEF Reads
  <2> DEFINE w == Reads(page.view, l)
  <2>2. UpToDate(w, ledger') /\ Shape(w)
    BY <1>1, <1>2, <1>7 DEF UpToDate
  <2> HIDE DEF w
  <2>3. /\ DOMAIN page' = {"subscribed", "missed", "view"} /\ page'.subscribed \in BOOLEAN
        /\ page'.missed \in Nat /\ page'.view = w
    BY <1>4, <2>1 DEF w
  <2> QED BY <1>3, <1>5, <1>6, <2>2, <2>3 DEF ReplicaIInv
<1>8. CASE ~page.subscribed
  <2>1. page' = page \/ page' = [page EXCEPT !.missed = @ + 1]
    BY <1>2, <1>8
  <2>2. /\ DOMAIN page' = {"subscribed", "missed", "view"} /\ page'.subscribed = FALSE
        /\ page'.missed \in Nat /\ page'.view = page.view
    BY <1>4, <1>8, <2>1
  <2> QED BY <1>3, <1>4, <1>5, <1>6, <2>2 DEF ReplicaIInv
<1> QED BY <1>4, <1>7, <1>8

\* Most handlers end with the scheduler's step.
LEMMA HandleAdvance ==
    ASSUME ReplicaIInv, NEW l, Draft(page.view, page.subscribed, l), NEW overdue,
           Handle(Advance(l, overdue)), Stays \/ Goes
    PROVE  ReplicaIInv'
<1>1. Good(page.view, page.subscribed, Advance(l, overdue))
  BY AdvanceIs
<1> QED BY <1>1, HandleIs

\* A control is announced after it was applied.
LEMMA AppliedIs ==
    ASSUME NEW v, NEW b, NEW l, Draft(v, b, l), NEW k,
           NEW op, op \in {"pause", "resume", "setRedundancy", "killExecution"},
           NEW paused, paused = IF op = "pause" THEN TRUE
                                ELSE IF op = "resume" THEN FALSE ELSE l.paused,
           NEW redundancy, redundancy \in BOOLEAN, op # "setRedundancy" => redundancy = l.redundancy,
           k = Applied([l EXCEPT !.paused = paused, !.redundancy = redundancy], op)
    PROVE  Draft(v, b, k) /\ k.tasks = l.tasks
<1> DEFINE m == [t |-> "controlApplied", op |-> op]
<1>0. /\ l \in Ledgers /\ Queued(l) /\ Staged(l.execs, l.tasks) /\ (b => Follows(v, l)) /\ Fresh(l)
      /\ l.out \in Seq(Messages) /\ l.paused \in BOOLEAN
  BY TypesAre DEF Draft, Good, Sound
<1>1. m \in Messages /\ m.t = "controlApplied" /\ m.op = op
  BY DEF Messages, MachineMessages
<1>2. k = [l EXCEPT !.paused = paused, !.redundancy = redundancy, !.out = Append(@, m)]
  BY <1>0 DEF Applied, Say, Ledgers
<1> HIDE DEF m
<1>3. Append(l.out, m) \in Seq(Messages) /\ paused \in BOOLEAN
  <2>1. paused \in {TRUE, FALSE, l.paused}
    OBVIOUS
  <2>2. paused \in BOOLEAN
    BY <1>0, <2>1
  <2>3. Append(l.out, m) \in Seq(Messages)
    BY <1>0, <1>1
  <2> QED BY <2>2, <2>3
<1>4. /\ k \in Ledgers /\ k.execs = l.execs /\ k.tasks = l.tasks /\ k.nodes = l.nodes
      /\ k.running = l.running /\ k.queue = l.queue /\ k.paused = paused
      /\ k.redundancy = redundancy /\ k.seq = l.seq /\ k.out = Append(l.out, m)
  BY <1>0, <1>2, <1>3 DEF Ledgers
<1>5. Queued(k)
  BY <1>0, <1>4 DEF Queued
<1>6. Fresh(k)
  BY <1>0, <1>1, <1>4, FreshAppends
<1>7. ASSUME b PROVE Follows(v, k)
  <2>1. Announces(l, k, m)
    BY <1>0, <1>1, <1>4 DEF Announces
  <2>2. k.paused = IF m.op = "pause" THEN TRUE ELSE IF m.op = "resume" THEN FALSE ELSE l.paused
    BY <1>1, <1>4
  <2>3. /\ m.t = "controlApplied" /\ m.op \in {"pause", "resume", "setRedundancy", "killExecution"}
        /\ m.op # "setRedundancy" => k.redundancy = l.redundancy
    BY <1>1, <1>4
  <2> QED BY <1>0, <1>4, <1>7, <2>1, <2>2, <2>3, FollowsControl
<1> QED BY <1>0, <1>4, <1>5, <1>6, <1>7 DEF Draft, Good, Sound

-----------------------------------------------------------------------------
(* The handlers, one by one.                                               *)

\* A node is announced that came or went.
LEMMA NodeIs ==
    ASSUME NEW v, NEW b, NEW l, Draft(v, b, l), NEW n \in Nodes,
           NEW m, m \in [t : {"nodeJoined", "nodeLeft"}, node : {n}],
           NEW nodes, nodes = IF m.t = "nodeJoined" THEN l.nodes \cup {n} ELSE l.nodes \ {n},
           NEW k, k = Say([l EXCEPT !.nodes = nodes], m)
    PROVE  Draft(v, b, k)
<1>0. /\ l \in Ledgers /\ Queued(l) /\ Staged(l.execs, l.tasks) /\ (b => Follows(v, l)) /\ Fresh(l)
      /\ l.out \in Seq(Messages) /\ l.nodes \in SUBSET Nodes
  BY TypesAre DEF Draft, Good, Sound
<1>1. m \in Messages /\ m.t \in {"nodeJoined", "nodeLeft"} /\ m.node = n
  BY DEF Messages, MachineMessages
<1>2. k = [l EXCEPT !.nodes = nodes, !.out = Append(@, m)]
  BY <1>0 DEF Say, Ledgers
<1>3. Append(l.out, m) \in Seq(Messages) /\ nodes \in SUBSET Nodes
  BY <1>0, <1>1
<1>4. /\ k \in Ledgers /\ k.execs = l.execs /\ k.tasks = l.tasks /\ k.nodes = nodes
      /\ k.running = l.running /\ k.queue = l.queue /\ k.paused = l.paused
      /\ k.redundancy = l.redundancy /\ k.seq = l.seq /\ k.out = Append(l.out, m)
  BY <1>0, <1>2, <1>3 DEF Ledgers
<1>5. Queued(k)
  BY <1>0, <1>4 DEF Queued
<1>6. Fresh(k)
  <2>1. m.t # "executionStarted"
    BY <1>1
  <2> QED BY <1>0, <1>1, <1>4, <2>1, FreshAppends
<1>7. ASSUME b PROVE Follows(v, k)
  <2>1. Announces(l, k, m)
    BY <1>0, <1>1, <1>4 DEF Announces
  <2>2. Still([l EXCEPT !.nodes = k.nodes], k)
    BY <1>0, <1>4 DEF Still, Ledgers
  <2> QED BY <1>0, <1>1, <1>4, <1>7, <2>1, <2>2, FollowsNode
<1> QED BY <1>0, <1>4, <1>5, <1>6, <1>7 DEF Draft, Good, Sound

LEMMA JoinKeeps ==
    ASSUME ReplicaIInv, NEW n \in Nodes, Join(n)
    PROVE  ReplicaIInv'
<1> DEFINE m == [t |-> "nodeJoined", node |-> n]
           nodes == ledger.nodes \cup {n}
           k == Say([ledger EXCEPT !.nodes = @ \cup {n}], m)
<1>1. Draft(page.view, page.subscribed, ledger) /\ ledger \in Ledgers
  BY LedgerIs
<1>2. k = Say([ledger EXCEPT !.nodes = nodes], m)
  BY <1>1 DEF Ledgers
<1>3. m \in [t : {"nodeJoined", "nodeLeft"}, node : {n}] /\ m.t = "nodeJoined"
  OBVIOUS
<1>4. Handle(Advance(k, {})) /\ Stays
  BY DEF Join
<1> HIDE DEF k, m
<1>5. Draft(page.view, page.subscribed, k)
  BY <1>1, <1>2, <1>3, NodeIs
<1> QED BY <1>4, <1>5, HandleAdvance

LEMMA LeaveKeeps ==
    ASSUME ReplicaIInv, NEW n \in Nodes, Leave(n)
    PROVE  ReplicaIInv'
<1> DEFINE m == [t |-> "nodeLeft", node |-> n]
           nodes == ledger.nodes \ {n}
           k == Say([ledger EXCEPT !.nodes = @ \ {n}], m)
<1>1. Draft(page.view, page.subscribed, ledger) /\ ledger \in Ledgers
  BY LedgerIs
<1>2. k = Say([ledger EXCEPT !.nodes = nodes], m)
  BY <1>1 DEF Ledgers
<1>3. m \in [t : {"nodeJoined", "nodeLeft"}, node : {n}] /\ m.t = "nodeLeft"
  OBVIOUS
<1>4. Handle(Advance(ReleaseNode(k, n), {})) /\ Goes
  BY DEF Leave
<1> HIDE DEF k, m
<1>5. Draft(page.view, page.subscribed, k)
  BY <1>1, <1>2, <1>3, NodeIs
<1>6. Draft(page.view, page.subscribed, ReleaseNode(k, n))
  BY <1>5, ReleaseNodeIs
<1> QED BY <1>4, <1>6, HandleAdvance

LEMMA LaunchKeeps ==
    ASSUME ReplicaIInv, NEW awaits, awaits \in {"none", "inherit"}, Launch(awaits)
    PROVE  ReplicaIInv'
<1> DEFINE l == ledger
           v == page.view
           b == page.subscribed
           e == Len(l.execs) + 1
           exec == [status |-> "queued", stage |-> -1, from |-> 1, count |-> 0, plan |-> 0,
                    sealed |-> -1, awaits |-> awaits, ended |-> 0]
           m == [t |-> "executionQueued", exec |-> e]
           E == Append(l.execs, exec)
           q == Append(l.queue, e)
           k == Say([l EXCEPT !.execs = Append(@, exec), !.queue = Append(@, e)], m)
<1>1. Draft(v, b, l) /\ l \in Ledgers
  BY LedgerIs
<1>2. Handle(Advance(k, {})) /\ Stays
  BY DEF Launch
<1> HIDE DEF l, v, b
<1>0. /\ Queued(l) /\ Staged(l.execs, l.tasks) /\ (b => Follows(v, l)) /\ Fresh(l)
      /\ l.out \in Seq(Messages) /\ l.execs \in Seq(ExecRecs) /\ l.queue \in Seq(Nat)
      /\ Len(l.execs) \in Nat /\ DOMAIN l.execs = 1..Len(l.execs)
  BY <1>1, TypesAre DEF Draft, Good, Sound
<1>3. e \in Nat /\ e \notin DOMAIN l.execs
  BY <1>0
<1> HIDE DEF e
<1>4. m \in Messages /\ m.t = "executionQueued" /\ m.exec = e
  BY <1>3 DEF Messages, MachineMessages
<1>5. /\ exec \in ExecRecs /\ exec.status = "queued" /\ exec.stage = -1 /\ exec.count = 0
      /\ exec.plan = 0 /\ exec.sealed = -1 /\ exec.awaits = awaits /\ awaits \in {"none", "inherit"}
  BY DEF ExecRecs
<1> HIDE DEF exec, m
<1>6. /\ E \in Seq(ExecRecs) /\ DOMAIN E = DOMAIN l.execs \cup {e} /\ E[e] = exec
      /\ \A x \in DOMAIN l.execs : E[x] = l.execs[x]
  BY <1>0, <1>5 DEF e
<1>7. /\ q \in Seq(Nat) /\ ToSet(q) = ToSet(l.queue) \cup {e} /\ IsInjective(q)
  <2>1. ToSet(q) = Range(q) /\ ToSet(l.queue) = Range(l.queue)
    BY DEF ToSet, Range
  <2>2. e \notin ToSet(l.queue) /\ IsInjective(l.queue)
    BY <1>0, <1>3 DEF Queued
  <2> HIDE DEF q
  <2>3. /\ q \in Seq(Nat) /\ Range(q) = Range(l.queue) \cup {e}
        /\ IsInjective(l.queue) /\ e \notin Range(l.queue) => IsInjective(q)
    BY <1>0, <1>3, AppendIs DEF q
  <2> QED BY <2>1, <2>2, <2>3
<1>8. k = [l EXCEPT !.execs = E, !.queue = q, !.out = Append(@, m)]
  BY <1>1 DEF Say, Ledgers
<1>9. Append(l.out, m) \in Seq(Messages)
  BY <1>0, <1>4
<1> HIDE DEF k, E, q
<1>10. /\ k \in Ledgers /\ k.execs = E /\ k.tasks = l.tasks /\ k.nodes = l.nodes
       /\ k.running = l.running /\ k.queue = q /\ k.paused = l.paused
       /\ k.redundancy = l.redundancy /\ k.seq = l.seq /\ k.out = Append(l.out, m)
  BY <1>1, <1>6, <1>7, <1>8, <1>9 DEF Ledgers
<1>11. Queued(k)
  <2>1. l.running # 0 => l.running \in DOMAIN E /\ E[l.running].status = "running"
    BY <1>0, <1>6 DEF Queued
  <2>2. ASSUME NEW x \in ToSet(q) PROVE x \in DOMAIN E /\ E[x].status = "queued"
    <3>1. CASE x = e
      BY <1>5, <1>6, <3>1
    <3>2. CASE x # e
      <4>1. x \in DOMAIN l.execs /\ l.execs[x].status = "queued"
        BY <1>0, <1>7, <3>2 DEF Queued
      <4> QED BY <1>6, <4>1
    <3> QED BY <3>1, <3>2
  <2> QED BY <1>7, <1>10, <2>1, <2>2 DEF Queued
<1>12. Staged(E, l.tasks)
  <2>1. ASSUME NEW x \in DOMAIN E PROVE ExecFits(E[x], x, l.tasks)
    <3>1. ExecFits(exec, e, l.tasks)
      BY <1>5 DEF ExecFits
    <3> QED BY <1>0, <1>6, <3>1 DEF Staged
  <2>2. ASSUME NEW t \in DOMAIN l.tasks
        PROVE  l.tasks[t].exec \in DOMAIN E /\ TaskFits(E[l.tasks[t].exec], t, l.tasks[t])
    BY <1>0, <1>6 DEF Staged
  <2> QED BY <2>1, <2>2 DEF Staged
<1>13. ASSUME b PROVE Follows(v, k)
  <2>1. Announces(l, k, m)
    BY <1>0, <1>1, <1>4, <1>10 DEF Announces
  <2>2. l.running # 0 => k.execs[l.running].stage = l.execs[l.running].stage
    BY <1>0, <1>6, <1>10 DEF Queued
  <2> QED BY <1>0, <1>4, <1>7, <1>10, <1>13, <2>1, <2>2, FollowsQueued
<1>14. Fresh(k)
  BY <1>0, <1>1, <1>4, <1>10, FreshAppends
<1>15. Draft(v, b, k)
  BY <1>10, <1>11, <1>12, <1>13, <1>14 DEF Draft, Good, Sound
<1> QED BY <1>2, <1>15, HandleAdvance DEF v, b

\* An execution that waits runs, and is sound.
LEMMA AwaitsIs ==
    ASSUME ReplicaIInv, NEW what, Awaits(what)
    PROVE  LET e == ledger.running
           IN  /\ e \in DOMAIN ledger.execs /\ ledger.execs[e] \in ExecRecs
               /\ ledger.execs[e].awaits = what /\ ledger.execs[e].status = "running"
               /\ ExecFits(ledger.execs[e], e, ledger.tasks)
               /\ \A t \in DOMAIN ledger.tasks :
                     ledger.tasks[t].exec = e => TaskFits(ledger.execs[e], t, ledger.tasks[t])
<1>1. ledger \in Ledgers /\ Queued(ledger) /\ Staged(ledger.execs, ledger.tasks)
  BY DEF ReplicaIInv, Sound
<1>2. ledger.running # 0 /\ ledger.execs[ledger.running].awaits = what
  BY DEF Awaits, Running
<1>3. ledger.running \in DOMAIN ledger.execs /\ ledger.execs[ledger.running].status = "running"
  BY <1>1, <1>2 DEF Queued
<1> QED BY <1>1, <1>2, <1>3, TypesAre DEF Staged

LEMMA RootFetchedKeeps ==
    ASSUME ReplicaIInv, RootFetched
    PROVE  ReplicaIInv'
<1> DEFINE l == ledger
           v == page.view
           b == page.subscribed
           e == l.running
           old == l.execs[e]
           new == [old EXCEPT !.awaits = "none"]
           k == [l EXCEPT !.execs[e].awaits = "none"]
<1>1. Draft(v, b, l) /\ l \in Ledgers
  BY LedgerIs
<1>2. Handle(Advance(CreatePlan(k, e, 0), {})) /\ Stays
  BY DEF RootFetched
<1>3. /\ e \in DOMAIN l.execs /\ old \in ExecRecs /\ old.awaits = "inherit" /\ old.status = "running"
      /\ ExecFits(old, e, l.tasks)
      /\ \A t \in DOMAIN l.tasks : l.tasks[t].exec = e => TaskFits(old, t, l.tasks[t])
  BY AwaitsIs DEF RootFetched
<1> HIDE DEF l, v, b, e
<1>4. old.plan = 0 /\ old.count = 0 /\ old.sealed = -1
  BY <1>3 DEF ExecFits
<1>5. /\ new \in ExecRecs /\ new.awaits = "none" /\ new.status = "running"
      /\ new.plan = old.plan /\ new.stage = old.stage /\ new.sealed = old.sealed
      /\ new.count = old.count /\ new.from = old.from
  BY <1>3 DEF ExecRecs
<1>6. k = [l EXCEPT !.execs[e] = new]
  BY <1>1, <1>3, TypesAre DEF Ledgers
<1> HIDE DEF k, new
<1>7. ExecFits(new, e, l.tasks)
  BY <1>3, <1>4, <1>5 DEF ExecFits
<1>8. ASSUME NEW t \in DOMAIN l.tasks, l.tasks[t].exec = e PROVE TaskFits(new, t, l.tasks[t])
  <2>1. TaskFits(old, t, l.tasks[t])
    BY <1>3, <1>8
  <2> QED BY <1>3, <1>5, <2>1 DEF TaskFits, Live, StageIds
<1>9. /\ Draft(v, b, k) /\ DOMAIN k.execs = DOMAIN l.execs /\ k.execs[e] = new
  BY <1>1, <1>3, <1>5, <1>6, <1>7, <1>8, ExecStep
<1>10. Idle(k, e)
  <2>1. Staged(k.execs, k.tasks) /\ k \in Ledgers
    BY <1>9 DEF Draft, Good, Sound
  <2>2. k.execs[e].plan = 0 /\ k.execs[e].count = 0
    BY <1>4, <1>5, <1>9
  <2> QED BY <1>3, <1>9, <2>1, <2>2, IdleIs
<1>11. Draft(v, b, CreatePlan(k, e, 0))
  <2>1. /\ e \in DOMAIN k.execs /\ k.execs[e].plan = 0 /\ k.execs[e].awaits = "none"
        /\ k.execs[e].status # "queued" /\ k.execs[e].sealed < 0
    BY <1>3, <1>4, <1>5, <1>9
  <2> QED BY <1>9, <1>10, <2>1, CreatePlanIs DEF Draft
<1> QED BY <1>2, <1>11, HandleAdvance DEF v, b

\* The next stage of an execution, and its tasks.
Planned(x, stage, from, count) ==
    [x EXCEPT !.awaits = "none", !.plan = 0, !.stage = stage, !.from = from, !.count = count]
NewTasks(l, e, stage, count) == [i \in 1..count |-> NewTask(l, e, stage, i - 1, "run")]

LEMMA PlannedIs ==
    ASSUME NEW old, old \in ExecRecs, NEW stage, NEW from, NEW count,
           {stage, from, count} \subseteq Nat
    PROVE  LET new == Planned(old, stage, from, count)
           IN  /\ new \in ExecRecs /\ new.awaits = "none" /\ new.status = old.status
               /\ new.plan = 0 /\ new.stage = stage /\ new.sealed = old.sealed
               /\ new.count = count /\ new.from = from
<1> DEFINE new == [old EXCEPT !.awaits = "none", !.plan = 0, !.stage = stage,
                              !.from = from, !.count = count]
<1>0. new = Planned(old, stage, from, count)
  BY DEF Planned
<1>1. DOMAIN old = {"status", "stage", "from", "count", "plan", "sealed", "awaits", "ended"}
  BY DEF ExecRecs
<1>2. /\ new.awaits = "none" /\ new.status = old.status /\ new.ended = old.ended
      /\ new.plan = 0 /\ new.stage = stage /\ new.sealed = old.sealed
      /\ new.count = count /\ new.from = from
  BY <1>1
<1>3. /\ DOMAIN new = DOMAIN old
      /\ new = [f \in DOMAIN new |-> new[f]]
  OBVIOUS
<1>4. new \in ExecRecs
  <2> HIDE DEF new
  <2>1. /\ old.status \in {"queued", "running", "done", "failed"}
        /\ old.sealed \in Int /\ old.ended \in Nat
    BY DEF ExecRecs
  <2> QED BY <1>1, <1>2, <1>3, <2>1 DEF ExecRecs
<1> HIDE DEF new
<1> QED BY <1>0, <1>2, <1>4

LEMMA MoreTasks ==
    ASSUME NEW l, NEW e, NEW stage, NEW count, {e, stage, count} \subseteq Nat
    PROVE  LET more == NewTasks(l, e, stage, count)
           IN  /\ more \in Seq(TaskRecs) /\ Len(more) = count
               /\ \A i \in 1..count :
                     /\ more[i] \in TaskRecs /\ more[i].exec = e /\ more[i].stage = stage
                     /\ more[i].kind = "run" /\ more[i].status = "pending"
                     /\ more[i].open = {} /\ more[i].said = {}
<1> DEFINE more == [i \in 1..count |-> NewTask(l, e, stage, i - 1, "run")]
<1>0. more = NewTasks(l, e, stage, count)
  BY DEF NewTasks
<1>1. ASSUME NEW i \in 1..count
      PROVE  /\ more[i] \in TaskRecs /\ more[i].exec = e /\ more[i].stage = stage
             /\ more[i].kind = "run" /\ more[i].status = "pending"
             /\ more[i].open = {} /\ more[i].said = {}
  <2> DEFINE index == i - 1
             r == IF l.redundancy THEN 2 ELSE 1
  <2>1. index \in Nat /\ more[i] = NewTask(l, e, stage, index, "run")
    OBVIOUS
  <2>2. r \in {1, 2}
    OBVIOUS
  <2> DEFINE x == more[i]
  <2>3. x = Task(e, stage, index, "run", r)
    BY <2>1 DEF NewTask
  <2> HIDE DEF index, more, r, x
  <2>4. /\ x \in TaskRecs /\ x.exec = e /\ x.stage = stage
        /\ x.kind = "run" /\ x.status = "pending" /\ x.open = {} /\ x.said = {}
    BY <2>1, <2>2, <2>3 DEF Task, TaskRecs, Statuses, Yields
  <2> QED BY <2>4 DEF x
<1>2. more = [i \in 1..count |-> more[i]]
  OBVIOUS
<1> HIDE DEF more
<1>3. more \in [1..count -> TaskRecs]
  BY <1>1, <1>2
<1>4. more \in Seq(TaskRecs) /\ Len(more) = count
  BY <1>3
<1> QED BY <1>0, <1>1, <1>4

LEMMA BothAre ==
    ASSUME NEW S, NEW s, NEW t, {s, t} \subseteq Seq(S)
    PROVE  /\ s \o t \in Seq(S) /\ Len(s \o t) = Len(s) + Len(t)
           /\ DOMAIN (s \o t) = 1..(Len(s) + Len(t))
           /\ \A i \in 1..Len(s) : (s \o t)[i] = s[i]
           /\ \A i \in 1..Len(t) : (s \o t)[Len(s) + i] = t[i]
OBVIOUS

\* What End makes of an execution does not depend on what it awaited.
LEMMA EndForgets ==
    ASSUME NEW l \in Ledgers, NEW e \in DOMAIN l.execs, NEW x, NEW y, x \in ExecRecs,
           y \in ExecRecs, y = [x EXCEPT !.awaits = "none"], NEW status
    PROVE  End([l EXCEPT !.execs[e] = x], e, status) = End([l EXCEPT !.execs[e] = y], e, status)
<1> DEFINE j == [l EXCEPT !.execs[e] = x]
           k == [l EXCEPT !.execs[e] = y]
           at == l.ends + 1
           ended == IF e # l.running THEN {} ELSE Current(y)
           closed == [t \in DOMAIN l.tasks |->
                        IF t \notin ended THEN l.tasks[t]
                        ELSE [l.tasks[t] EXCEPT !.open = {},
                                !.status = IF IsOpen(l.tasks[t]) THEN "failed" ELSE @]]
           new == [y EXCEPT !.status = status, !.ended = at, !.awaits = "none"]
           running == IF l.running = e THEN 0 ELSE l.running
           queue == Without(l.queue, {e})
           out == Append(l.out, [t |-> "executionEnded", exec |-> e, status |-> status])
           E == [l.execs EXCEPT ![e] = new]
           whole == [l EXCEPT !.tasks = closed, !.ends = at, !.execs = E, !.running = running,
                              !.queue = queue, !.out = out]
<1>0. l.execs \in Seq(ExecRecs)
  BY TypesAre
<1>1. /\ new = [x EXCEPT !.status = status, !.ended = at, !.awaits = "none"]
      /\ x.from = y.from /\ x.count = y.count /\ x.plan = y.plan
  <2> HIDE DEF at
  <2> QED BY DEF ExecRecs
<1>2. Current(x) = Current(y)
  BY <1>1 DEF Current, StageIds
<1>3. ASSUME NEW z, Current(z) = Current(y),
             new = [z EXCEPT !.status = status, !.ended = at, !.awaits = "none"]
      PROVE  End([l EXCEPT !.execs[e] = z], e, status) = whole
  <2> DEFINE i == [l EXCEPT !.execs[e] = z]
             Z == [l.execs EXCEPT ![e] = z]
  <2>1. Z[e] = z /\ [Z EXCEPT ![e] = new] = E
    <3> HIDE DEF new
    <3> QED BY <1>0
  <2>2. i = [l EXCEPT !.execs = Z]
    BY DEF Ledgers
  <2> HIDE DEF Z, i
  <2>3. /\ i.tasks = l.tasks /\ i.running = l.running /\ i.ends = l.ends /\ i.queue = l.queue
        /\ i.out = l.out /\ i.execs = Z
    BY <2>2 DEF Ledgers
  <2>4. [i.execs EXCEPT ![e] = [@ EXCEPT !.status = status, !.ended = at, !.awaits = "none"]] = E
    BY <1>3, <2>1, <2>3
  <2>5. End(i, e, status) =
           [i EXCEPT !.tasks = closed, !.ends = at, !.execs = E, !.running = running,
                     !.queue = queue, !.out = out]
    <3>1. ended = IF e # i.running THEN {} ELSE Current(i.execs[e])
      BY <1>3, <2>1, <2>3
    <3>2. closed = [t \in DOMAIN i.tasks |->
                      IF t \notin ended THEN i.tasks[t]
                      ELSE [i.tasks[t] EXCEPT !.open = {},
                              !.status = IF IsOpen(i.tasks[t]) THEN "failed" ELSE @]]
      BY <2>3
    <3>3. /\ at = i.ends + 1 /\ running = (IF i.running = e THEN 0 ELSE i.running)
          /\ queue = Without(i.queue, {e})
          /\ out = Append(i.out, [t |-> "executionEnded", exec |-> e, status |-> status])
      BY <2>3
    <3>a. DOMAIN i = {"seq", "nodes", "execs", "queue", "running", "tasks", "paused",
                      "redundancy", "ends", "out"}
      BY <2>2 DEF Ledgers
    <3> HIDE DEF ended, closed, E, at, running, queue, out
    <3> QED BY <2>4, <3>1, <3>2, <3>3, <3>a DEF End, Say
  <2> HIDE DEF closed, E, at, running, queue, out
  <2> QED BY <2>2, <2>5 DEF Ledgers, i
<1> QED BY <1>1, <1>2, <1>3

\* The rows that announce a stage are rows.
LEMMA ViewIs ==
    ASSUME NEW l, NEW t \in Nat, l.tasks[t] \in TaskRecs
    PROVE  TaskView(l, t) \in RowRecs
<1> DEFINE x == l.tasks[t]
           output == IF x.status = "done" THEN x.output ELSE Nothing
<1>1. /\ x.kind \in {"plan", "run"} /\ x.stage \in Nat /\ x.index \in Nat /\ x.status \in Statuses
      /\ x.open \in SUBSET Nodes /\ x.output \in Yields /\ Nothing \in Yields
  BY DEF TaskRecs, Yields
<1>2. output \in Yields
  BY <1>1
<1>3. TaskView(l, t) = [id |-> t, kind |-> x.kind, stage |-> x.stage, index |-> x.index,
                        status |-> x.status, holders |-> x.open, output |-> output]
  BY DEF TaskView
<1> HIDE DEF x, output
<1> QED BY <1>1, <1>2, <1>3 DEF RowRecs

LEMMA SpecFetchedKeeps ==
    ASSUME ReplicaIInv, NEW count \in Nat, SpecFetched(count)
    PROVE  ReplicaIInv'
<1> DEFINE l == ledger
           v == page.view
           b == page.subscribed
           e == l.running
           old == l.execs[e]
           stage == l.tasks[old.plan].stage
           from == Len(l.tasks) + 1
           new == Planned(old, stage, from, count)
           planned == [l EXCEPT !.execs[e] =
                         [@ EXCEPT !.awaits = "none", !.plan = 0, !.stage = stage,
                                   !.from = from, !.count = count]]
           more == NewTasks(planned, e, stage, count)
           made == [planned EXCEPT !.tasks = @ \o more]
           ids == from..Smaller(from + count - 1, from + PageRows - 1)
           sent == {TaskView(made, t) : t \in ids}
           m == [t |-> "stageStarted", exec |-> e, stage |-> stage, count |-> count, rows |-> sent]
           k == Say(made, m)
           E == [l.execs EXCEPT ![e] = new]
           T == l.tasks \o more
<1>1. Draft(v, b, l) /\ l \in Ledgers
  BY LedgerIs
<1>2. Handle(Advance(k, {})) /\ Stays
  BY DEF SpecFetched, Running, NewTasks
<1>3. /\ e \in DOMAIN l.execs /\ old \in ExecRecs /\ old.awaits = "spec" /\ old.status = "running"
      /\ ExecFits(old, e, l.tasks)
      /\ \A t \in DOMAIN l.tasks : l.tasks[t].exec = e => TaskFits(old, t, l.tasks[t])
  BY AwaitsIs DEF SpecFetched
<1> HIDE DEF l, v, b
<1>0. /\ Queued(l) /\ Staged(l.execs, l.tasks) /\ (b => Follows(v, l)) /\ Fresh(l)
      /\ l.out \in Seq(Messages) /\ l.execs \in Seq(ExecRecs) /\ l.tasks \in Seq(TaskRecs)
      /\ Len(l.tasks) \in Nat /\ DOMAIN l.tasks = 1..Len(l.tasks) /\ DOMAIN l.execs = 1..Len(l.execs)
      /\ Len(l.execs) \in Nat /\ \A t \in DOMAIN l.tasks : l.tasks[t] \in TaskRecs
  BY <1>1, TypesAre DEF Draft, Good, Sound
<1>a. e \in Nat /\ e # 0 /\ e \in DOMAIN l.execs
  BY <1>0, <1>3
<1>4. /\ old.plan \in DOMAIN l.tasks /\ stage > old.sealed /\ -1 <= old.sealed /\ old.plan # 0
  BY <1>3 DEF ExecFits
<1>5. stage \in Nat /\ old.sealed \in Int /\ from \in Nat
  <2>1. l.tasks[old.plan] \in TaskRecs
    BY <1>0, <1>4
  <2>2. stage \in Nat
    BY <2>1 DEF TaskRecs
  <2>3. old.sealed \in Int
    BY <1>3 DEF ExecRecs
  <2>4. from \in Nat
    BY <1>0
  <2> QED BY <2>2, <2>3, <2>4
<1> HIDE DEF stage
<1>6. /\ new \in ExecRecs /\ new.awaits = "none" /\ new.status = old.status
      /\ new.plan = 0 /\ new.stage = stage /\ new.sealed = old.sealed
      /\ new.count = count /\ new.from = from
  <2> HIDE DEF from, old
  <2> QED BY <1>3, <1>5, PlannedIs
<1>p. planned = [l EXCEPT !.execs = E]
  BY <1>1 DEF Ledgers, Planned
<1> HIDE DEF new, planned
<1>8. /\ E \in Seq(ExecRecs) /\ DOMAIN E = DOMAIN l.execs /\ E[e] = new
      /\ \A x \in DOMAIN l.execs : x # e => E[x] = l.execs[x]
  BY <1>0, <1>3, <1>6
<1>9. /\ more \in Seq(TaskRecs) /\ Len(more) = count
      /\ \A i \in 1..count : /\ more[i] \in TaskRecs /\ more[i].exec = e /\ more[i].stage = stage
                             /\ more[i].kind = "run" /\ more[i].status = "pending"
                             /\ more[i].open = {} /\ more[i].said = {}
  <2>1. e \in Nat /\ stage \in Nat
    BY <1>5, <1>a
  <2> HIDE DEF e, more
  <2>2. more = NewTasks(planned, e, stage, count)
    BY DEF more
  <2> QED BY <2>1, <2>2, MoreTasks
<1> HIDE DEF more, E
<1>10. /\ T \in Seq(TaskRecs) /\ Len(T) = Len(l.tasks) + count /\ DOMAIN T = 1..(Len(l.tasks) + count)
       /\ \A t \in 1..Len(l.tasks) : T[t] = l.tasks[t]
       /\ \A i \in 1..count : T[Len(l.tasks) + i] = more[i]
  <2> DEFINE s == l.tasks
  <2>1. s \in Seq(TaskRecs) /\ T = s \o more
    BY <1>0
  <2> HIDE DEF s, T
  <2>p. {s, more} \subseteq Seq(TaskRecs)
    BY <1>9, <2>1
  <2>q. s \o more \in Seq(TaskRecs) /\ Len(s \o more) = Len(s) + Len(more)
    BY <2>p, BothAre
  <2>r. DOMAIN (s \o more) = 1..(Len(s) + Len(more))
    BY <2>p, BothAre
  <2>s. \A t \in 1..Len(s) : (s \o more)[t] = s[t]
    BY <2>p, BothAre
  <2>2. /\ T \in Seq(TaskRecs) /\ Len(T) = Len(s) + count /\ DOMAIN T = 1..(Len(s) + count)
        /\ \A t \in 1..Len(s) : T[t] = s[t]
    <3>1. Len(more) = count
      BY <1>9
    <3> QED BY <2>1, <2>q, <2>r, <2>s, <3>1
  <2>3. \A i \in 1..count : T[Len(s) + i] = more[i]
    BY <1>9, <2>1, BothAre
  <2> QED BY <2>2, <2>3 DEF s
<1> HIDE DEF T
<1>11. ASSUME NEW t \in DOMAIN T, t \notin DOMAIN l.tasks
       PROVE  /\ T[t].exec = e /\ T[t].stage = stage /\ T[t].kind = "run" /\ T[t].status = "pending"
              /\ T[t].open = {} /\ T[t].said = {} /\ t \in from..(from + count - 1)
  <2> DEFINE n == Len(l.tasks)
             i == t - n
  <2>a. n \in Nat /\ t \in 1..(n + count) /\ t \notin 1..n /\ from = n + 1
    BY <1>0, <1>10, <1>11
  <2> HIDE DEF n
  <2>b. i \in 1..count /\ t = n + i /\ t \in (n + 1)..(n + 1 + count - 1)
    BY <2>a
  <2>1. i \in 1..count /\ t = Len(l.tasks) + i /\ t \in from..(from + count - 1)
    <3> HIDE DEF i, from
    <3>1. i \in 1..count /\ t = n + i /\ t \in from..(from + count - 1)
      BY <2>a, <2>b
    <3> QED BY <3>1 DEF n
  <2>2. T[t] = more[i]
    BY <1>10, <2>1
  <2> HIDE DEF i, from
  <2> QED BY <1>9, <2>1, <2>2
<1>12. made = [l EXCEPT !.execs = E, !.tasks = T]
  BY <1>1, <1>p DEF Ledgers, T
<1> HIDE DEF made
<1>13. /\ made \in Ledgers /\ made.execs = E /\ made.tasks = T /\ made.out = l.out
       /\ made.seq = l.seq /\ made.nodes = l.nodes /\ made.queue = l.queue /\ made.paused = l.paused
       /\ made.redundancy = l.redundancy /\ made.running = l.running
  BY <1>1, <1>8, <1>10, <1>12 DEF Ledgers
<1>14. sent \in SUBSET RowRecs
  <2>1. ids \subseteq from..(from + count - 1)
    <3>1. PageRows \in Nat \ {0}
      BY ReplicaAssumption
    <3> QED BY <1>5, <3>1 DEF Smaller
  <2>2. ASSUME NEW t \in ids PROVE TaskView(made, t) \in RowRecs
    <3>1. t \in from..(from + count - 1)
      BY <2>1
    <3>2. t \in DOMAIN T /\ t \in Nat
      BY <1>0, <1>10, <3>1
    <3>3. made.tasks[t] \in TaskRecs
      BY <1>13, <3>2, TypesAre
    <3> QED BY <3>2, <3>3, ViewIs
  <2> HIDE DEF ids
  <2> QED BY <2>2
<1> HIDE DEF sent
<1>15. /\ m \in Messages /\ m.t = "stageStarted" /\ m.exec = e /\ m.stage = stage
       /\ m.rows \in SUBSET RowRecs
  <2> HIDE DEF e
  <2> QED BY <1>5, <1>14, <1>a DEF Messages, MachineMessages
<1> HIDE DEF m
<1>16. k = [made EXCEPT !.out = Append(l.out, m)] /\ Append(l.out, m) \in Seq(Messages)
  BY <1>0, <1>13, <1>15 DEF Say
<1> HIDE DEF k
<1>17. /\ k \in Ledgers /\ k.execs = E /\ k.tasks = T /\ k.nodes = l.nodes
       /\ k.running = l.running /\ k.queue = l.queue /\ k.paused = l.paused
       /\ k.redundancy = l.redundancy /\ k.seq = l.seq /\ k.out = Append(l.out, m)
  BY <1>13, <1>16 DEF Ledgers
<1>18. Queued(k)
  <2>1. \A x \in DOMAIN l.execs : E[x].status = l.execs[x].status
    BY <1>6, <1>8
  <2> QED BY <1>0, <1>8, <1>17, <2>1 DEF Queued
<1>19. Staged(E, T)
  <2>1. ASSUME NEW x \in DOMAIN E PROVE ExecFits(E[x], x, T)
    <3>1. ExecFits(l.execs[x], x, l.tasks)
      BY <1>0, <1>8 DEF Staged
    <3>2. CASE x = e
      <4>1. ExecFits(new, e, T)
        <5>1. /\ new.count > 0 => new.stage >= 0
              /\ -1 <= new.sealed /\ new.sealed <= new.stage
              /\ new.plan = 0 /\ new.awaits = "none" /\ new.status = "running"
          BY <1>3, <1>4, <1>5, <1>6
        <5> QED BY <5>1 DEF ExecFits
      <4> QED BY <1>8, <3>2, <4>1
    <3>3. CASE x # e
      <4>1. \A t \in DOMAIN l.tasks : t \in DOMAIN T /\ T[t] = l.tasks[t]
        BY <1>0, <1>10
      <4> QED BY <1>8, <3>1, <3>3, <4>1 DEF ExecFits
    <3> QED BY <3>2, <3>3
  <2>2. ASSUME NEW t \in DOMAIN T PROVE T[t].exec \in DOMAIN E /\ TaskFits(E[T[t].exec], t, T[t])
    <3>1. CASE t \notin DOMAIN l.tasks
      <4>1. /\ T[t].exec = e /\ T[t].stage = stage /\ T[t].kind = "run" /\ T[t].status = "pending"
            /\ T[t].open = {} /\ T[t].said = {} /\ t \in from..(from + count - 1)
        BY <1>11, <3>1
      <4>2. Live(new, t, T[t])
        <5> HIDE DEF from
        <5> QED BY <1>6, <4>1 DEF Live, StageIds
      <4>3. TaskFits(new, t, T[t])
        BY <4>1, <4>2 DEF TaskFits
      <4> QED BY <1>3, <1>8, <4>1, <4>3
    <3>2. CASE t \in DOMAIN l.tasks
      <4>1. T[t] = l.tasks[t] /\ T[t].exec \in DOMAIN l.execs /\ TaskFits(l.execs[T[t].exec], t, T[t])
        BY <1>0, <1>10, <3>2 DEF Staged
      <4>2. CASE T[t].exec # e
        BY <1>8, <4>1, <4>2
      <4>3. CASE T[t].exec = e
        <5>1. ~Live(old, t, T[t])
          BY <1>3, <1>4 DEF Live
        <5>2. TaskFits(new, t, T[t])
          BY <1>6, <4>1, <4>3, <5>1 DEF TaskFits
        <5> QED BY <1>8, <4>1, <4>3, <5>2
      <4> QED BY <4>2, <4>3
    <3> QED BY <3>1, <3>2
  <2> QED BY <2>1, <2>2 DEF Staged
<1>20. ASSUME b PROVE Follows(v, k)
  <2>1. Announces(l, k, m)
    BY <1>0, <1>1, <1>15, <1>17 DEF Announces
  <2>2. k.execs[l.running].stage = m.stage
    BY <1>6, <1>8, <1>15, <1>17
  <2>3. l.running # 0 /\ m.exec = l.running
    BY <1>15, <1>a
  <2> HIDE DEF e
  <2> QED BY <1>0, <1>15, <1>17, <1>20, <2>1, <2>2, <2>3, FollowsStage
<1>21. Fresh(k)
  <2>1. m.t # "executionStarted"
    BY <1>15
  <2> QED BY <1>0, <1>1, <1>15, <1>17, <2>1, FreshAppends
<1>22. Draft(v, b, k)
  BY <1>17, <1>18, <1>19, <1>20, <1>21 DEF Draft, Good, Sound
<1> QED BY <1>2, <1>22, HandleAdvance DEF v, b

LEMMA SpecDoneKeeps ==
    ASSUME ReplicaIInv, SpecDone
    PROVE  ReplicaIInv'
<1> DEFINE l == ledger
           v == page.view
           b == page.subscribed
           e == l.running
           old == l.execs[e]
           new == [old EXCEPT !.plan = 0, !.awaits = "none"]
           j == [l EXCEPT !.execs[e].plan = 0]
           k == [l EXCEPT !.execs[e] = new]
<1>1. Draft(v, b, l) /\ l \in Ledgers
  BY LedgerIs
<1>2. Handle(Advance(End(j, e, "done"), {})) /\ Stays
  BY DEF SpecDone
<1>3. /\ e \in DOMAIN l.execs /\ old \in ExecRecs /\ old.awaits = "spec" /\ old.status = "running"
      /\ ExecFits(old, e, l.tasks)
      /\ \A t \in DOMAIN l.tasks : l.tasks[t].exec = e => TaskFits(old, t, l.tasks[t])
  BY AwaitsIs DEF SpecDone
<1> HIDE DEF l, v, b, e
<1>4. /\ new \in ExecRecs /\ new.awaits = "none" /\ new.status = "running"
      /\ new.plan = 0 /\ new.stage = old.stage /\ new.sealed = old.sealed
      /\ new.count = old.count /\ new.from = old.from
  BY <1>3 DEF ExecRecs
<1>5. ExecFits(new, e, l.tasks)
  BY <1>3, <1>4 DEF ExecFits
<1>6. ASSUME NEW t \in DOMAIN l.tasks, l.tasks[t].exec = e PROVE TaskFits(new, t, l.tasks[t])
  <2>1. TaskFits(old, t, l.tasks[t]) /\ old.plan # 0
    BY <1>3, <1>6 DEF ExecFits
  <2>2. ~Live(old, t, l.tasks[t])
    BY <1>3, <2>1 DEF Live
  <2> QED BY <1>4, <2>1, <2>2 DEF TaskFits
\* What End makes of it does not depend on what the execution awaited.
<1>7. End(j, e, "done") = End(k, e, "done")
  <2> DEFINE x == [old EXCEPT !.plan = 0]
  <2>1. x \in ExecRecs /\ new = [x EXCEPT !.awaits = "none"]
    BY <1>3 DEF ExecRecs
  <2>2. j = [l EXCEPT !.execs[e] = x]
    BY <1>1, <1>3, TypesAre DEF Ledgers
  <2> HIDE DEF j, x, new
  <2> QED BY <1>1, <1>3, <1>4, <2>1, <2>2, EndForgets
<1> HIDE DEF j, k, new
<1>8. /\ Draft(v, b, k) /\ DOMAIN k.execs = DOMAIN l.execs /\ k.execs[e] = new
  BY <1>1, <1>3, <1>4, <1>5, <1>6, ExecStep DEF k
<1>9. e \notin ToSet(k.queue)
  <2>1. Queued(k)
    BY <1>8 DEF Draft, Good, Sound
  <2> QED BY <1>4, <1>8, <2>1 DEF Queued
<1>10. Draft(v, b, End(k, e, "done"))
  BY <1>3, <1>8, <1>9, EndIs
<1> QED BY <1>2, <1>7, <1>10, HandleAdvance DEF v, b

LEMMA ManifestStoredKeeps ==
    ASSUME ReplicaIInv, ManifestStored
    PROVE  ReplicaIInv'
<1> DEFINE l == ledger
           v == page.view
           b == page.subscribed
           e == l.running
           old == l.execs[e]
           stage == old.stage
           new == [old EXCEPT !.awaits = "none"]
           j == [l EXCEPT !.execs[e].awaits = "none"]
           m == [t |-> "stageDone", exec |-> e, stage |-> stage]
           k == Say(j, m)
<1>1. Draft(v, b, l) /\ l \in Ledgers
  BY LedgerIs
<1>2. Handle(Advance(CreatePlan(k, e, stage + 1), {})) /\ Stays
  BY DEF ManifestStored, Running
<1>3. /\ e \in DOMAIN l.execs /\ old \in ExecRecs /\ old.awaits = "manifest" /\ old.status = "running"
      /\ ExecFits(old, e, l.tasks)
      /\ \A t \in DOMAIN l.tasks : l.tasks[t].exec = e => TaskFits(old, t, l.tasks[t])
  BY AwaitsIs DEF ManifestStored
<1> HIDE DEF l, v, b, e
<1>0. e \in Nat /\ e # 0 /\ l.out \in Seq(Messages)
  <2>1. DOMAIN l.execs = 1..Len(l.execs) /\ Len(l.execs) \in Nat /\ l.out \in Seq(Messages)
    BY <1>1, TypesAre
  <2> QED BY <1>3, <2>1
<1>4. /\ old.plan = 0 /\ -1 <= old.sealed /\ old.sealed <= stage /\ stage \in Int /\ old.sealed \in Int
  BY <1>3 DEF ExecFits, ExecRecs
<1>5. /\ new \in ExecRecs /\ new.awaits = "none" /\ new.status = "running"
      /\ new.plan = old.plan /\ new.stage = stage /\ new.sealed = old.sealed
      /\ new.count = old.count /\ new.from = old.from
  BY <1>3 DEF ExecRecs
<1>6. j = [l EXCEPT !.execs[e] = new]
  BY <1>1, <1>3, TypesAre DEF Ledgers
<1> HIDE DEF j, new
<1>7. ExecFits(new, e, l.tasks)
  BY <1>3, <1>4, <1>5 DEF ExecFits
<1>8. ASSUME NEW t \in DOMAIN l.tasks, l.tasks[t].exec = e
      PROVE  /\ TaskFits(new, t, l.tasks[t]) /\ ~IsOpen(l.tasks[t])
             /\ l.tasks[t].kind = "run" => l.tasks[t].stage <= new.sealed
  <2>0. DOMAIN l.tasks = 1..Len(l.tasks) /\ Len(l.tasks) \in Nat /\ l.tasks[t] \in TaskRecs
    BY <1>1, TypesAre
  <2>1. TaskFits(old, t, l.tasks[t]) /\ t # 0 /\ l.tasks[t].kind \in {"plan", "run"}
    BY <1>3, <1>8, <2>0 DEF TaskRecs
  <2>2. ~Live(old, t, l.tasks[t])
    BY <1>3, <1>4, <2>1 DEF Live
  <2> QED BY <1>5, <2>1, <2>2 DEF TaskFits
<1>9. /\ Draft(v, b, j) /\ DOMAIN j.execs = DOMAIN l.execs /\ j.execs[e] = new
      /\ j.tasks = l.tasks /\ j.running = l.running /\ j.out = l.out
  BY <1>1, <1>3, <1>5, <1>6, <1>7, <1>8, ExecStep
<1>10. m \in Messages /\ m.t = "stageDone" /\ m.exec = e /\ m.stage = stage
  BY <1>0, <1>4 DEF Messages, MachineMessages
<1> HIDE DEF m
<1>11. /\ j \in Ledgers /\ Queued(j) /\ Staged(j.execs, j.tasks) /\ (b => Follows(v, j)) /\ Fresh(j)
       /\ k = [j EXCEPT !.out = Append(@, m)] /\ Append(j.out, m) \in Seq(Messages)
  <2>1. j \in Ledgers /\ Queued(j) /\ Staged(j.execs, j.tasks) /\ (b => Follows(v, j)) /\ Fresh(j)
    BY <1>9 DEF Draft, Good, Sound
  <2> QED BY <1>0, <1>9, <1>10, <2>1 DEF Say
<1> HIDE DEF k
<1>12. /\ k \in Ledgers /\ k.execs = j.execs /\ k.tasks = j.tasks /\ k.nodes = j.nodes
       /\ k.running = j.running /\ k.queue = j.queue /\ k.paused = j.paused
       /\ k.redundancy = j.redundancy /\ k.seq = j.seq /\ k.out = Append(j.out, m)
  BY <1>11 DEF Ledgers
<1>13. Queued(k)
  BY <1>11, <1>12 DEF Queued
<1>14. ASSUME b PROVE Follows(v, k)
  <2>1. Announces(j, k, m)
    BY <1>10, <1>11, <1>12 DEF Announces
  <2>2. Still(j, k)
    BY <1>12 DEF Still
  <2>3. j.running # 0 /\ m.exec = j.running
    BY <1>0, <1>9, <1>10 DEF e
  <2> QED BY <1>10, <1>11, <1>14, <2>1, <2>2, <2>3, FollowsStageDone
<1>15. Fresh(k)
  <2>1. m.t # "executionStarted"
    BY <1>10
  <2> QED BY <1>10, <1>11, <1>12, <2>1, FreshAppends
<1>16. Draft(v, b, k)
  BY <1>11, <1>12, <1>13, <1>14, <1>15 DEF Draft, Good, Sound
<1>17. Idle(k, e)
  BY <1>8, <1>9, <1>12 DEF Idle
<1>18. Draft(v, b, CreatePlan(k, e, stage + 1))
  <2> DEFINE next == stage + 1
  <2>1. next \in Nat /\ old.sealed < next
    BY <1>4
  <2> HIDE DEF next
  <2>2. /\ e \in DOMAIN k.execs /\ k.execs[e].plan = 0 /\ k.execs[e].awaits = "none"
        /\ k.execs[e].status # "queued" /\ k.execs[e].sealed < next
    BY <1>3, <1>4, <1>5, <1>9, <1>12, <2>1
  <2>3. Draft(v, b, CreatePlan(k, e, next))
    BY <1>16, <1>17, <2>1, <2>2, CreatePlanIs DEF Draft
  <2> QED BY <2>3 DEF next
<1> QED BY <1>2, <1>18, HandleAdvance DEF v, b

-----------------------------------------------------------------------------
(* Attempts given up or overdue, and what a person does to the machine.    *)

LEMMA GiveUpKeeps ==
    ASSUME ReplicaIInv, NEW n \in Nodes, NEW t \in DOMAIN ledger.tasks, GiveUp(n, t)
    PROVE  ReplicaIInv'
<1> DEFINE k == Release(ledger, t, n)
<1>1. Draft(page.view, page.subscribed, ledger)
  BY LedgerIs
<1>2. Draft(page.view, page.subscribed, k)
  BY <1>1, ReleaseIs
<1>3. Handle(Advance(k, {})) /\ Goes
  BY DEF GiveUp
<1> HIDE DEF k
<1> QED BY <1>2, <1>3, HandleAdvance

LEMMA TickKeeps ==
    ASSUME ReplicaIInv, NEW t, Tick(t)
    PROVE  ReplicaIInv'
<1>1. Draft(page.view, page.subscribed, ledger)
  BY LedgerIs
<1>2. Handle(Advance(ledger, {t})) /\ Goes
  BY DEF Tick
<1> QED BY <1>1, <1>2, HandleAdvance

\* A control that changes neither the pause nor the redundancy.
LEMMA KillApplied ==
    ASSUME NEW v, NEW b, NEW l, Draft(v, b, l)
    PROVE  Draft(v, b, Applied(l, "killExecution"))
<1> DEFINE op == "killExecution"
           k == Applied(l, op)
<1>1. l \in Ledgers /\ l.redundancy \in BOOLEAN
  BY TypesAre DEF Draft, Good, Sound
<1>2. l = [l EXCEPT !.paused = l.paused, !.redundancy = l.redundancy]
  BY <1>1 DEF Ledgers
<1>3. k = Applied([l EXCEPT !.paused = l.paused, !.redundancy = l.redundancy], op)
  BY <1>2
<1> HIDE DEF k
<1>4. Draft(v, b, k)
  BY <1>1, <1>3, AppliedIs
<1> QED BY <1>4 DEF k

LEMMA KillKeeps ==
    ASSUME ReplicaIInv, NEW e \in DOMAIN ledger.execs, Kill(e)
    PROVE  ReplicaIInv'
<1> DEFINE j == End(ledger, e, "failed")
           k == Applied(j, "killExecution")
<1>1. Draft(page.view, page.subscribed, ledger)
  BY LedgerIs
<1>2. Handle(Advance(k, {})) /\ Goes
  BY DEF Kill
<1>3. Draft(page.view, page.subscribed, j)
  BY <1>1, EndIs
<1> HIDE DEF j
<1>4. Draft(page.view, page.subscribed, k)
  BY <1>3, KillApplied
<1> HIDE DEF k
<1> QED BY <1>2, <1>4, HandleAdvance

\* Pausing, resuming and the redundancy.
LEMMA ControlIs ==
    ASSUME ReplicaIInv, NEW k, NEW op, op \in {"pause", "resume", "setRedundancy"},
           NEW on, on \in BOOLEAN,
           k = Applied(IF op = "setRedundancy" THEN [ledger EXCEPT !.redundancy = on]
                       ELSE [ledger EXCEPT !.paused = (op = "pause")], op)
    PROVE  Draft(page.view, page.subscribed, k)
<1> DEFINE l == ledger
           v == page.view
           b == page.subscribed
           paused == IF op = "pause" THEN TRUE ELSE IF op = "resume" THEN FALSE ELSE l.paused
           redundancy == IF op = "setRedundancy" THEN on ELSE l.redundancy
           changed == [l EXCEPT !.paused = paused, !.redundancy = redundancy]
<1>1. Draft(v, b, l) /\ l \in Ledgers
  BY LedgerIs
<1>2. redundancy \in BOOLEAN /\ (op # "setRedundancy" => redundancy = l.redundancy)
  BY <1>1, TypesAre
<1>3. k = Applied(changed, op)
  <2>1. changed = IF op = "setRedundancy" THEN [l EXCEPT !.redundancy = on]
                  ELSE [l EXCEPT !.paused = (op = "pause")]
    BY <1>1 DEF Ledgers
  <2> HIDE DEF changed
  <2> QED BY <2>1
<1>4. op \in {"pause", "resume", "setRedundancy", "killExecution"}
  OBVIOUS
<1>6. paused = IF op = "pause" THEN TRUE ELSE IF op = "resume" THEN FALSE ELSE l.paused
  OBVIOUS
<1> HIDE DEF l, v, b, redundancy, paused
<1>5. Draft(v, b, k)
  BY <1>1, <1>2, <1>3, <1>4, <1>6, AppliedIs
<1> QED BY <1>5 DEF v, b, l

LEMMA PauseKeeps ==
    ASSUME ReplicaIInv, Pause
    PROVE  ReplicaIInv'
<1> DEFINE k == Applied([ledger EXCEPT !.paused = TRUE], "pause")
<1>1. Handle(k) /\ Goes
  BY DEF Pause
<1>2. k = Applied(IF "pause" = "setRedundancy" THEN [ledger EXCEPT !.redundancy = TRUE]
                  ELSE [ledger EXCEPT !.paused = ("pause" = "pause")], "pause")
  OBVIOUS
<1> HIDE DEF k
<1>3. Good(page.view, page.subscribed, k)
  BY <1>2, ControlIs DEF Draft
<1> QED BY <1>1, <1>3, HandleIs

LEMMA ResumeKeeps ==
    ASSUME ReplicaIInv, Resume
    PROVE  ReplicaIInv'
<1> DEFINE k == Applied([ledger EXCEPT !.paused = FALSE], "resume")
<1>1. Handle(Advance(k, {})) /\ Stays
  BY DEF Resume
<1>2. k = Applied(IF "resume" = "setRedundancy" THEN [ledger EXCEPT !.redundancy = TRUE]
                  ELSE [ledger EXCEPT !.paused = ("resume" = "pause")], "resume")
  OBVIOUS
<1> HIDE DEF k
<1>3. Draft(page.view, page.subscribed, k)
  BY <1>2, ControlIs
<1> QED BY <1>1, <1>3, HandleAdvance

LEMMA RedundancyOnKeeps ==
    ASSUME ReplicaIInv, RedundancyOn
    PROVE  ReplicaIInv'
<1> DEFINE k == Applied([ledger EXCEPT !.redundancy = TRUE], "setRedundancy")
<1>1. Handle(k) /\ Goes
  BY DEF RedundancyOn
<1>2. k = Applied(IF "setRedundancy" = "setRedundancy" THEN [ledger EXCEPT !.redundancy = TRUE]
                  ELSE [ledger EXCEPT !.paused = ("setRedundancy" = "pause")], "setRedundancy")
  OBVIOUS
<1> HIDE DEF k
<1>3. Good(page.view, page.subscribed, k)
  BY <1>2, ControlIs DEF Draft
<1> QED BY <1>1, <1>3, HandleIs

LEMMA RedundancyOffKeeps ==
    ASSUME ReplicaIInv, RedundancyOff
    PROVE  ReplicaIInv'
<1> DEFINE off == Applied([ledger EXCEPT !.redundancy = FALSE], "setRedundancy")
           k == Settled(off)[Len(off.tasks)]
<1>1. Handle(Advance(k, {})) /\ Stays
  BY DEF RedundancyOff
<1>2. off = Applied(IF "setRedundancy" = "setRedundancy" THEN [ledger EXCEPT !.redundancy = FALSE]
                    ELSE [ledger EXCEPT !.paused = ("setRedundancy" = "pause")], "setRedundancy")
  OBVIOUS
<1> HIDE DEF off
<1>3. Draft(page.view, page.subscribed, off)
  BY <1>2, ControlIs
<1>4. Draft(page.view, page.subscribed, k)
  BY <1>3, SettledKeeps
<1> HIDE DEF k
<1> QED BY <1>1, <1>4, HandleAdvance

-----------------------------------------------------------------------------
(* Reports.                                                                *)

\* A message about a task that changes nothing of it.
LEMMA TellIs ==
    ASSUME NEW v, NEW b, NEW l, Draft(v, b, l), NEW t \in DOMAIN l.tasks, NEW m \in TaskMessages
    PROVE  LET k == Say(l, m)
           IN  Draft(v, b, k) /\ k.execs = l.execs /\ k.tasks = l.tasks
<1> DEFINE old == l.tasks[t]
           k == Say(l, m)
           T == [l.tasks EXCEPT ![t] = old]
<1>0. /\ l \in Ledgers /\ Staged(l.execs, l.tasks) /\ l.tasks \in Seq(TaskRecs)
      /\ old \in TaskRecs /\ Good(v, b, l) /\ Fresh(l)
  BY TypesAre DEF Draft, Good, Sound
<1>1. T = l.tasks
  BY <1>0
<1>2. k = [l EXCEPT !.tasks = T, !.out = Append(@, m)] /\ k.execs = l.execs /\ k.tasks = l.tasks
  BY <1>0, <1>1 DEF Say, Ledgers
<1> HIDE DEF k
<1>3. TaskStep(l, k, t, old)
  BY <1>2 DEF TaskStep
<1>4. TaskFits(l.execs[old.exec], t, old)
  BY <1>0 DEF Staged
<1> HIDE DEF old
<1>5. Good(v, b, k) /\ Fresh(k)
  BY <1>0, <1>3, <1>4, TaskSteps DEF old
<1> QED BY <1>2, <1>5 DEF Draft, k

\* The attempt that reports is closed.
LEMMA CloseIs ==
    ASSUME NEW v, NEW b, NEW l, Draft(v, b, l), NEW t \in DOMAIN l.tasks, NEW n
    PROVE  LET old == l.tasks[t]
               k == [l EXCEPT !.tasks[t].open = @ \ {n}]
           IN  /\ Draft(v, b, k) /\ k.execs = l.execs /\ DOMAIN k.tasks = DOMAIN l.tasks
               /\ k.tasks[t].exec = old.exec /\ k.tasks[t].stage = old.stage
               /\ k.tasks[t].kind = old.kind /\ k.tasks[t].said = old.said
               /\ k.tasks[t].first = old.first
<1> DEFINE old == l.tasks[t]
           new == [old EXCEPT !.open = old.open \ {n}]
           k == [l EXCEPT !.tasks[t].open = @ \ {n}]
           T == [l.tasks EXCEPT ![t] = new]
<1>0. /\ l \in Ledgers /\ Staged(l.execs, l.tasks) /\ l.tasks \in Seq(TaskRecs)
      /\ old \in TaskRecs /\ Good(v, b, l) /\ Fresh(l) /\ TaskFits(l.execs[old.exec], t, old)
  BY TypesAre DEF Draft, Good, Sound, Staged
<1>1. k = [l EXCEPT !.tasks = T]
  BY <1>0 DEF Ledgers
<1>2. /\ new \in TaskRecs /\ new.exec = old.exec /\ new.stage = old.stage /\ new.kind = old.kind
      /\ new.status = old.status /\ new.said = old.said /\ new.first = old.first
      /\ new.open = old.open \ {n}
  BY <1>0 DEF TaskRecs
<1> HIDE DEF k, new, T
<1>3. TaskFits(l.execs[new.exec], t, new)
  BY <1>0, <1>2 DEF TaskFits, Live, IsOpen
<1>4. TaskStep(l, k, t, new)
  BY <1>1 DEF TaskStep, T
<1>5. /\ Good(v, b, k) /\ k.execs = l.execs
      /\ DOMAIN k.tasks = DOMAIN l.tasks /\ k.tasks[t] = new /\ Fresh(k)
  BY <1>0, <1>2, <1>3, <1>4, TaskSteps
<1> QED BY <1>2, <1>5 DEF Draft, k

\* A first report of two waits for the other.
LEMMA FirstIs ==
    ASSUME NEW v, NEW b, NEW l, Draft(v, b, l), NEW t \in DOMAIN l.tasks,
           l.tasks[t].open # {}, NEW n \in Nodes, NEW o \in Outputs \cup {Trap}
    PROVE  LET closed == [l EXCEPT !.tasks[t].open = @ \ {n}]
           IN  Draft(v, b, [closed EXCEPT !.tasks[t].said = {n}, !.tasks[t].first = o])
<1> DEFINE old == l.tasks[t]
           open == old.open \ {n}
           new == [old EXCEPT !.open = open, !.said = {n}, !.first = o]
           closed == [l EXCEPT !.tasks[t].open = @ \ {n}]
           k == [closed EXCEPT !.tasks[t].said = {n}, !.tasks[t].first = o]
           T == [l.tasks EXCEPT ![t] = new]
<1>0. /\ l \in Ledgers /\ Staged(l.execs, l.tasks) /\ l.tasks \in Seq(TaskRecs)
      /\ old \in TaskRecs /\ Good(v, b, l) /\ Fresh(l) /\ TaskFits(l.execs[old.exec], t, old)
  BY TypesAre DEF Draft, Good, Sound, Staged
<1>1. k = [l EXCEPT !.tasks = T]
  <2> DEFINE C == [l.tasks EXCEPT ![t] = [old EXCEPT !.open = open]]
  <2>1. closed = [l EXCEPT !.tasks = C]
    BY <1>0 DEF Ledgers
  <2>2. C[t] = [old EXCEPT !.open = open] /\ DOMAIN C = DOMAIN l.tasks
    BY <1>0
  <2>3. [C[t] EXCEPT !.said = {n}, !.first = o] = new
    BY <1>0, <2>2 DEF TaskRecs
  <2>4. [C EXCEPT ![t] = new] = T
    <3> HIDE DEF new, open
    <3> QED BY <1>0
  <2>a. C[t].said = old.said /\ C[t].first = old.first
    BY <1>0, <2>2 DEF TaskRecs
  <2>5. [C EXCEPT ![t].said = {n}, ![t].first = o] = [C EXCEPT ![t] = [@ EXCEPT !.said = {n}, !.first = o]]
    <3> HIDE DEF C
    <3> QED BY <2>2
  <2>6. closed.tasks = C
    BY <1>0, <2>1 DEF Ledgers
  <2>7. k = [closed EXCEPT !.tasks = [C EXCEPT ![t].said = {n}, ![t].first = o]]
    <3> HIDE DEF C, closed
    <3> QED BY <2>6
  <2> HIDE DEF C, T, new, closed, k
  <2>8. k = [closed EXCEPT !.tasks = T]
    BY <2>3, <2>4, <2>5, <2>7
  <2> QED BY <1>0, <2>1, <2>8 DEF Ledgers
<1>2. o \in Yields /\ o # Nothing
  BY ReplicaAssumption DEF Yields
<1>3. /\ new \in TaskRecs /\ new.exec = old.exec /\ new.stage = old.stage /\ new.kind = old.kind
      /\ new.status = old.status /\ new.first = o /\ new.open = open
  BY <1>0, <1>2 DEF TaskRecs
<1>4. open # {} => old.status = "assigned"
  BY <1>0 DEF TaskFits
<1> HIDE DEF k, new, T, open
<1>5. TaskFits(l.execs[new.exec], t, new)
  BY <1>0, <1>2, <1>3, <1>4 DEF TaskFits, Live, IsOpen
<1>6. TaskStep(l, k, t, new)
  BY <1>1 DEF TaskStep, T
<1>7. Good(v, b, k) /\ Fresh(k)
  BY <1>0, <1>3, <1>5, <1>6, TaskSteps
<1> QED BY <1>7 DEF Draft, k

\* A report that settles its task, alone or as the second that agrees.
LEMMA AgreedIs ==
    ASSUME NEW v, NEW b, NEW l, Draft(v, b, l), NEW t \in DOMAIN l.tasks,
           Live(l.execs[l.tasks[t].exec], t, l.tasks[t]),
           l.tasks[t].said # {} => l.tasks[t].first # Nothing,
           NEW n \in Nodes, NEW o \in Outputs \cup {Trap}
    PROVE  LET accepted == Accept(l, t, n, o)
               verified == Say(accepted, [t |-> "taskVerified", task |-> t])
           IN  Draft(v, b, AfterSettled(accepted, t)) /\ Draft(v, b, AfterSettled(verified, t))
<1> DEFINE a == Accept(l, t, n, o)
           m == [t |-> "taskVerified", task |-> t]
           w == Say(a, m)
<1>1. /\ Draft(v, b, a) /\ a.execs = l.execs /\ DOMAIN a.tasks = DOMAIN l.tasks
      /\ a.tasks[t].status \in {"done", "failed"} /\ Live(a.execs[a.tasks[t].exec], t, a.tasks[t])
  BY AcceptIs
<1> HIDE DEF a
<1>2. t \in DOMAIN a.tasks /\ ~IsOpen(a.tasks[t]) /\ t \in Nat
  <2>1. DOMAIN l.tasks = 1..Len(l.tasks) /\ Len(l.tasks) \in Nat
    BY TypesAre DEF Draft, Good, Sound
  <2> QED BY <1>1, <2>1 DEF IsOpen
<1>3. m \in TaskMessages
  BY <1>2 DEF TaskMessages
<1> HIDE DEF m
<1>4. Draft(v, b, w) /\ w.execs = a.execs /\ w.tasks = a.tasks
  BY <1>1, <1>2, <1>3, TellIs
<1> HIDE DEF w
<1>5. Draft(v, b, AfterSettled(a, t))
  BY <1>1, <1>2, AfterSettledIs
<1>6. Draft(v, b, AfterSettled(w, t))
  BY <1>1, <1>2, <1>4, AfterSettledIs
<1> QED BY <1>5, <1>6 DEF a, w, m

LEMMA ReportKeeps ==
    ASSUME ReplicaIInv, NEW n \in Nodes, NEW t \in DOMAIN ledger.tasks,
           NEW o \in Outputs \cup {Trap}, Report(n, t, o)
    PROVE  ReplicaIInv'
<1> DEFINE l == ledger
           v == page.view
           b == page.subscribed
           task == l.tasks[t]
           closed == [l EXCEPT !.tasks[t].open = @ \ {n}]
           accepted == Accept(closed, t, n, o)
           verified == Say(accepted, [t |-> "taskVerified", task |-> t])
           first == [closed EXCEPT !.tasks[t].said = {n}, !.tasks[t].first = o]
           settled == IF task.said = {} \/ o = Trap THEN accepted ELSE verified
           votes == {Nothing} \cup IF task.rounds > 0 THEN {o, task.first} ELSE {}
<1>1. /\ Draft(v, b, l) /\ Staged(l.execs, l.tasks) /\ task \in TaskRecs
      /\ TaskFits(l.execs[task.exec], t, task)
  BY LedgerIs, TypesAre DEF Draft, Good, Sound, Staged
<1>2. /\ n \in task.open
      /\ IF task.said = {} /\ task.required = 2
         THEN Stays /\ Handle(Advance(first, {}))
         ELSE IF task.said = {} \/ task.first = o
         THEN Stays /\ Handle(Advance(AfterSettled(settled, t), {}))
         ELSE /\ Contradicts(task)
              /\ \E vote \in votes : Handle(Advance(Contest(closed, t, n, vote), {}))
  BY DEF Report
<1>3. Live(l.execs[task.exec], t, task) /\ (task.said # {} => task.first # Nothing)
  BY <1>1, <1>2 DEF TaskFits, IsOpen
<1>4. /\ Draft(v, b, closed) /\ closed.execs = l.execs /\ DOMAIN closed.tasks = DOMAIN l.tasks
      /\ closed.tasks[t].exec = task.exec /\ closed.tasks[t].stage = task.stage
      /\ closed.tasks[t].kind = task.kind /\ closed.tasks[t].said = task.said
      /\ closed.tasks[t].first = task.first
  BY <1>1, CloseIs
<1>5. Draft(v, b, first)
  BY <1>1, <1>2, FirstIs
<1> HIDE DEF first, closed, l, v, b
<1>6. /\ t \in DOMAIN closed.tasks
      /\ Live(closed.execs[closed.tasks[t].exec], t, closed.tasks[t])
      /\ closed.tasks[t].said # {} => closed.tasks[t].first # Nothing
  BY <1>3, <1>4 DEF Live, l
<1>7. Draft(v, b, AfterSettled(settled, t))
  BY <1>4, <1>6, AgreedIs
<1> HIDE DEF settled
<1>8. ASSUME task.said # {}, NEW vote \in votes
      PROVE  Draft(v, b, Contest(closed, t, n, vote))
  <2>1. vote \in Outputs \cup {Trap, Nothing}
    BY <1>1, <1>8 DEF TaskRecs, Yields
  <2> QED BY <1>4, <1>6, <2>1, ContestIs
<1> HIDE DEF votes
<1>9. CASE task.said = {} /\ task.required = 2
  BY <1>2, <1>5, <1>9, HandleAdvance DEF v, b
<1>10. CASE ~(task.said = {} /\ task.required = 2) /\ (task.said = {} \/ task.first = o)
  BY <1>2, <1>7, <1>10, HandleAdvance DEF v, b
<1>11. CASE ~(task.said = {} \/ task.first = o)
  <2>1. PICK vote \in votes : Handle(Advance(Contest(closed, t, n, vote), {}))
    BY <1>2, <1>11
  <2>2. Stays \/ Goes
    BY <1>2, <1>11 DEF Contradicts
  <2>3. Draft(v, b, Contest(closed, t, n, vote))
    BY <1>8, <1>11, <2>1
  <2> QED BY <2>1, <2>2, <2>3, HandleAdvance DEF v, b
<1> QED BY <1>9, <1>10, <1>11

LEMMA LateReportKeeps ==
    ASSUME ReplicaIInv, NEW n \in Nodes, NEW t \in DOMAIN ledger.tasks,
           NEW o \in Outputs \cup {Trap}, LateReport(n, t, o)
    PROVE  ReplicaIInv'
<1> DEFINE l == ledger
           v == page.view
           b == page.subscribed
           task == l.tasks[t]
           m == [t |-> "taskVerified", task |-> t]
           votes == {Nothing} \cup IF task.rounds > 0 THEN {o} ELSE {}
<1>1. /\ Draft(v, b, l) /\ Staged(l.execs, l.tasks) /\ task \in TaskRecs
      /\ TaskFits(l.execs[task.exec], t, task) /\ t \in Nat
  <2>1. Draft(v, b, l) /\ l \in Ledgers
    BY LedgerIs
  <2>2. DOMAIN l.tasks = 1..Len(l.tasks) /\ Len(l.tasks) \in Nat /\ task \in TaskRecs
    BY <2>1, TypesAre
  <2> QED BY <2>1, <2>2 DEF Draft, Good, Sound, Staged
<1>2. /\ task.status = "done" /\ (Stays \/ Goes)
      /\ IF o = task.output THEN Handle(Advance(Say(l, m), {}))
         ELSE IF IsSealed(l, t) THEN Handle(Advance(Say(l, Mismatch(t)), {}))
         ELSE \E vote \in votes : Handle(Advance(Contest(l, t, n, vote), {}))
  BY DEF LateReport, Contradicts
<1>3. m \in TaskMessages /\ Mismatch(t) \in TaskMessages
  BY <1>1 DEF TaskMessages, Mismatch
<1>4. votes \subseteq Outputs \cup {Trap, Nothing}
  OBVIOUS
<1> HIDE DEF m, votes, v, b
<1>5. Draft(v, b, Say(l, m)) /\ Draft(v, b, Say(l, Mismatch(t)))
  BY <1>1, <1>3, TellIs
<1>6. CASE o = task.output
  BY <1>2, <1>5, <1>6, HandleAdvance DEF v, b
<1>7. CASE o # task.output /\ IsSealed(l, t)
  BY <1>2, <1>5, <1>7, HandleAdvance DEF v, b
<1>8. CASE o # task.output /\ ~IsSealed(l, t)
  <2>1. Live(l.execs[task.exec], t, task)
    <3>1. l.execs[task.exec].sealed \in Int /\ task.stage \in Nat /\ task.kind \in {"plan", "run"}
      <4>1. l \in Ledgers /\ task.exec \in DOMAIN l.execs
        BY <1>1, LedgerIs DEF Staged
      <4>2. l.execs[task.exec] \in ExecRecs
        BY <4>1, TypesAre
      <4> QED BY <1>1, <4>2 DEF ExecRecs, TaskRecs
    <3>2. task.kind = "run" /\ ~(task.stage <= l.execs[task.exec].sealed)
      BY <1>8, <3>1 DEF IsSealed
    <3> QED BY <1>1, <3>2 DEF TaskFits
  <2>2. PICK vote \in votes : Handle(Advance(Contest(l, t, n, vote), {}))
    BY <1>2, <1>8
  <2>3. vote \in Outputs \cup {Trap, Nothing}
    BY <1>4, <2>2
  <2>4. Draft(v, b, Contest(l, t, n, vote))
    BY <1>1, <2>1, <2>3, ContestIs
  <2> QED BY <1>2, <2>2, <2>4, HandleAdvance DEF v, b
<1> QED BY <1>6, <1>7, <1>8

-----------------------------------------------------------------------------
(* A snapshot.                                                             *)

LEMMA RowsAre ==
    ASSUME NEW l \in Ledgers
    PROVE  TaskRows(l) \in Seq(RowRecs)
<1> DEFINE T == DOMAIN l.tasks
           s == [t \in T |-> t]
           ids == Without(s, {t \in T : l.tasks[t].exec # Shown(l)})
           rows == [i \in DOMAIN ids |-> TaskView(l, ids[i])]
<1>1. T = 1..Len(l.tasks) /\ Len(l.tasks) \in Nat /\ \A t \in T : l.tasks[t] \in TaskRecs
  BY TypesAre
<1>2. s \in Seq(T)
  <2> HIDE DEF T
  <2> QED BY <1>1
<1> HIDE DEF T, s
<1>3. ids \in Seq(T)
  BY <1>2, WithoutIs
<1> HIDE DEF ids
<1>4. DOMAIN ids = 1..Len(ids) /\ Len(ids) \in Nat /\ \A i \in DOMAIN ids : ids[i] \in T
  BY <1>3
<1>5. \A i \in DOMAIN ids : TaskView(l, ids[i]) \in RowRecs
  <2> SUFFICES ASSUME NEW i \in DOMAIN ids PROVE TaskView(l, ids[i]) \in RowRecs
    OBVIOUS
  <2>1. ids[i] \in Nat /\ l.tasks[ids[i]] \in TaskRecs
    BY <1>1, <1>4
  <2> QED BY <2>1, ViewIs
<1>6. rows \in Seq(RowRecs)
  BY <1>4, <1>5
<1> QED BY <1>6 DEF TaskRows, ids, s, T

\* Rows fill at least one page.
LEMMA PageCount ==
    ASSUME NEW n, n \in Nat, n # 0, NEW s, s \in Nat, s # 0
    PROVE  (n + s - 1) \div s \in Nat /\ (n + s - 1) \div s # 0
<1> DEFINE q == (n + s - 1) \div s
           r == (n + s - 1) % s
<1>1. q \in Int /\ r \in 0..s - 1 /\ n + s - 1 = s * q + r
  OBVIOUS
<1> HIDE DEF q, r
<1>2. s * q > 0
  BY <1>1
<1>3. q > 0
  BY <1>1, <1>2
<1> QED BY <1>1, <1>3 DEF q

LEMMA PagesOfFit ==
    ASSUME NEW rows, rows \in Seq(RowRecs)
    PROVE  PagesFit(PagesOf(rows))
<1> DEFINE count == IF rows = <<>> THEN 1 ELSE (Len(rows) + PageRows - 1) \div PageRows
           First(p) == (p - 1) * PageRows + 1
           Final(p) == Smaller(p * PageRows, Len(rows))
           pages == [p \in 1..count |-> SubSeq(rows, First(p), Final(p))]
<1>0. PageRows \in Nat /\ PageRows # 0 /\ Len(rows) \in Nat
  BY ReplicaAssumption
<1>1. count \in Nat /\ count # 0
  <2>1. CASE rows = <<>>
    BY <2>1
  <2>2. CASE rows # <<>>
    <3> DEFINE n == Len(rows)
    <3>1. n \in Nat /\ n # 0
      BY <2>2
    <3> HIDE DEF n
    <3>2. (n + PageRows - 1) \div PageRows \in Nat /\ (n + PageRows - 1) \div PageRows # 0
      BY <1>0, <3>1, PageCount
    <3> QED BY <2>2, <3>2 DEF n
  <2> QED BY <2>1, <2>2
<1> HIDE DEF count
<1>2. ASSUME NEW p \in 1..count PROVE SubSeq(rows, First(p), Final(p)) \in Seq(RowRecs)
  <2>1. First(p) \in Int /\ First(p) >= 1
    <3> DEFINE i == p - 1
               k == i * PageRows
    <3>1. i \in Nat
      BY <1>1
    <3> HIDE DEF i
    <3>2. k \in Nat
      BY <1>0, <3>1
    <3> HIDE DEF k
    <3>3. k + 1 \in Int /\ k + 1 >= 1
      BY <3>2
    <3> QED BY <3>3 DEF k, i
  <2>2. Final(p) \in Int /\ Final(p) <= Len(rows)
    <3> DEFINE k == p * PageRows
               n == Len(rows)
    <3>1. k \in Nat /\ n \in Nat
      BY <1>0, <1>1
    <3> HIDE DEF k, n
    <3>2. Smaller(k, n) \in Int /\ Smaller(k, n) <= n
      BY <3>1 DEF Smaller
    <3> QED BY <3>2 DEF k, n
  <2> HIDE DEF First, Final
  <2>3. \A i \in First(p)..Final(p) : rows[i] \in RowRecs
    BY <1>0, <2>1, <2>2
  <2> QED BY <2>1, <2>2, <2>3, SubSeqProperties
<1> HIDE DEF First, Final
<1>3. pages \in Seq(Seq(RowRecs)) /\ Len(pages) = count
  BY <1>1, <1>2
<1>4. pages # <<>>
  BY <1>1, <1>3
<1> QED BY <1>3, <1>4 DEF PagesFit, PagesOf, count, First, Final

LEMMA PagesAre ==
    ASSUME ReplicaIInv
    PROVE  PagesFit(Pages(ledger))
<1>1. memo # Nothing => PagesFit(memo)
  BY DEF ReplicaIInv
<1>2. PagesFit(PagesOf(TaskRows(ledger)))
  BY LedgerIs, RowsAre, PagesOfFit
<1> QED BY <1>1, <1>2 DEF Pages

\* What a page of a snapshot makes of a view.
LEMMA SnapshotShows ==
    ASSUME NEW v, Shape(v), NEW m, m.rows \in SUBSET RowRecs
    PROVE  LET w == ApplySnapshot(v, m)
               machine == IF m.first THEN m.cluster ELSE v
               exec == IF m.first THEN ToExecutionState(m.cluster.exec) ELSE v.exec
           IN  /\ Shape(w) /\ w.seq = m.seq /\ ~w.gap /\ ~w.refresh /\ w.left = m.left
               /\ w.nodes = machine.nodes /\ w.queue = machine.queue
               /\ w.paused = machine.paused /\ w.redundancy = machine.redundancy
               /\ w.exec.id = exec.id /\ w.exec.phase = exec.phase
               /\ w.exec.count = exec.count /\ w.exec.stage = exec.stage
<1> DEFINE kept == IF m.first THEN <<>> ELSE v.rows
           sent == ById(m.rows)
           rows == [t \in DOMAIN sent \cup DOMAIN kept |->
                       IF t \in DOMAIN sent THEN sent[t] ELSE kept[t]]
           exec == IF m.first THEN ToExecutionState(m.cluster.exec) ELSE v.exec
           current == {rows[t] : t \in {u \in DOMAIN rows : IsRunOf(rows[u], exec.stage)}}
           base == IdBase(current)
           done == [i \in DOMAIN exec.done |-> IF i # exec.stage + 1 THEN exec.done[i]
                                               ELSE DoneRows(rows, exec.stage)]
           tallied == IF exec.id = 0 THEN exec
                      ELSE [exec EXCEPT !.base = base, !.done = done]
           machine == IF m.first THEN m.cluster ELSE v
           w == ApplySnapshot(v, m)
<1>1. w = [v EXCEPT !.seq = m.seq, !.gap = FALSE, !.refresh = FALSE, !.left = m.left,
                    !.rows = rows, !.exec = tallied, !.nodes = machine.nodes,
                    !.queue = machine.queue, !.paused = machine.paused,
                    !.redundancy = machine.redundancy]
  BY DEF ApplySnapshot
<1>2. DOMAIN v = DOMAIN EmptyView /\ DOMAIN v.exec = DOMAIN EmptyView.exec
  BY DEF Shape
<1>3. \A t \in DOMAIN rows : /\ DOMAIN rows[t] = DOMAIN Placeholder(EmptyView, 0)
                             /\ rows[t].status \in Statuses
  <2>1. \A t \in DOMAIN sent : /\ DOMAIN sent[t] = DOMAIN Placeholder(EmptyView, 0)
                               /\ sent[t].status \in Statuses
    BY ByIdShape
  <2>2. \A t \in DOMAIN kept : /\ DOMAIN kept[t] = DOMAIN Placeholder(EmptyView, 0)
                               /\ kept[t].status \in Statuses
    BY DEF Shape
  <2> HIDE DEF sent, kept
  <2> QED BY <2>1, <2>2
<1> HIDE DEF rows
<1>4. DOMAIN exec = DOMAIN EmptyView.exec
  BY <1>2 DEF ToExecutionState, EmptyView
<1> HIDE DEF exec, base, done
<1>5. /\ DOMAIN tallied = DOMAIN EmptyView.exec /\ tallied.id = exec.id
      /\ tallied.phase = exec.phase /\ tallied.count = exec.count /\ tallied.stage = exec.stage
  BY <1>4 DEF EmptyView, ToExecutionState
<1> HIDE DEF tallied, machine, w
<1>6. /\ DOMAIN w = DOMAIN v /\ w.seq = m.seq /\ w.gap = FALSE /\ w.refresh = FALSE
      /\ w.left = m.left /\ w.rows = rows /\ w.exec = tallied /\ w.nodes = machine.nodes
      /\ w.queue = machine.queue /\ w.paused = machine.paused
      /\ w.redundancy = machine.redundancy
  BY <1>1, <1>2 DEF EmptyView
<1>7. Shape(w)
  BY <1>2, <1>3, <1>5, <1>6 DEF Shape
<1> QED BY <1>5, <1>6, <1>7 DEF w, machine, exec

\* The running execution, as a snapshot shows it.
LEMMA RunningShown ==
    ASSUME NEW l, Sound(l), l.running # 0
    PROVE  LET x == ToExecutionState(IF Shown(l) = 0 THEN NoView ELSE ExecutionView(l, Shown(l)))
           IN  /\ x.id = l.running /\ x.phase \in Phases
               /\ x.count > 0 => x.stage = l.execs[l.running].stage
<1> DEFINE e == l.running
           old == l.execs[e]
           view == ExecutionView(l, e)
           x == ToExecutionState(view)
<1>1. Shown(l) = e /\ e # 0
  BY DEF Shown
<1>2. /\ e \in DOMAIN l.execs /\ old.status = "running" /\ ExecFits(old, e, l.tasks)
      /\ old \in ExecRecs
  BY TypesAre DEF Sound, Queued, Staged
<1>3. old.count \in Nat /\ old.stage \in Int /\ (old.count > 0 => old.stage >= 0)
  BY <1>2 DEF ExecFits, ExecRecs
<1>4. /\ view.id = e /\ view.status = "running" /\ view.count = old.count
      /\ old.count > 0 => view.stage = old.stage
  BY <1>2, <1>3 DEF ExecutionView
<1> HIDE DEF view
<1>5. x.id = view.id /\ x.phase = Phase(view) /\ x.count = view.count /\ x.stage = view.stage
  BY DEF ToExecutionState
<1> HIDE DEF x
<1>6. x.id = e /\ x.phase \in Phases /\ (x.count > 0 => x.stage = old.stage)
  BY <1>4, <1>5 DEF Phase, Phases
<1> QED BY <1>1, <1>6 DEF x, view

\* Whoever reads all pages of a snapshot is up to date.
LEMMA SnapshotIs ==
    ASSUME ReplicaIInv
    PROVE  LET w == ReadAll(page.view, SnapshotPages(ledger))
           IN  UpToDate(w, ledger) /\ ~w.refresh /\ (\E S : SnapshotPages(ledger) \in Seq(S))
<1> DEFINE l == ledger
           pages == Pages(l)
           n == Len(pages)
           exec == IF Shown(l) = 0 THEN NoView ELSE ExecutionView(l, Shown(l))
           cluster == [nodes |-> l.nodes, queue |-> ToSet(l.queue), exec |-> exec,
                       paused |-> l.paused, redundancy |-> l.redundancy]
           Sent(p) == [t |-> "snapshot", seq |-> l.seq, first |-> p = 1, left |-> n - p,
                       rows |-> ToSet(pages[p]), cluster |-> cluster]
           P == SnapshotPages(l)
           f == ReadUpTo(page.view, P)
<1>1. Sound(l) /\ Shape(page.view)
  BY DEF ReplicaIInv
<1>2. pages \in Seq(Seq(RowRecs)) /\ pages # <<>>
  BY PagesAre DEF PagesFit
<1>3. n \in Nat /\ n # 0 /\ DOMAIN pages = 1..n /\ \A p \in 1..n : pages[p] \in Seq(RowRecs)
  BY <1>2
<1>4. P = [p \in DOMAIN pages |-> Sent(p)]
  BY DEF SnapshotPages
<1>5. \A p \in 1..n : ToSet(pages[p]) \in SUBSET RowRecs
  <2> HIDE DEF pages, n
  <2> QED BY <1>3 DEF ToSet
<1>6. /\ cluster.nodes = l.nodes /\ cluster.queue = ToSet(l.queue) /\ cluster.exec = exec
      /\ cluster.paused = l.paused /\ cluster.redundancy = l.redundancy
  OBVIOUS
<1> HIDE DEF pages, n, exec, cluster
<1>7. P \in Seq({P[p] : p \in 1..n}) /\ Len(P) = n
  <2>1. P = [p \in 1..n |-> P[p]]
    BY <1>3, <1>4
  <2> HIDE DEF P
  <2> QED BY <1>3, <2>1
<1>8. ASSUME NEW p \in 1..n
      PROVE  /\ P[p].t = "snapshot" /\ P[p].seq = l.seq /\ P[p].first = (p = 1)
             /\ P[p].left = n - p /\ P[p].rows \in SUBSET RowRecs /\ P[p].cluster = cluster
  BY <1>3, <1>4, <1>5
<1> HIDE DEF P, Sent
<1>9. f[0] = page.view /\ \A i \in 1..n : f[i] = ApplyMessage(f[i - 1], P[i])
  <2> DEFINE v == page.view
  <2>1. Len(P) \in Nat
    BY <1>3, <1>7
  <2> HIDE DEF v
  <2>2. /\ ReadUpTo(v, P)[0] = v
        /\ \A i \in 1..Len(P) : ReadUpTo(v, P)[i] = ApplyMessage(ReadUpTo(v, P)[i - 1], P[i])
    BY <2>1, ReadUpToIs
  <2> QED BY <1>7, <2>2 DEF v
<1> HIDE DEF f
<1> DEFINE Fits(i) == /\ Shape(f[i])
                      /\ i # 0 => /\ f[i].seq = l.seq /\ ~f[i].gap /\ ~f[i].refresh
                                  /\ f[i].left = n - i /\ Matches(f[i], l)
           G == {i \in Nat : i <= n => Fits(i)}
<1>10. 0 \in G
  BY <1>1, <1>9
<1>11. ASSUME NEW i \in G PROVE i + 1 \in G
  <2> SUFFICES ASSUME i \in Nat, i + 1 <= n PROVE Fits(i + 1)
    OBVIOUS
  <2> DEFINE p == i + 1
  <2>1. p \in 1..n /\ i <= n /\ p - 1 = i /\ p # 0 /\ (p = 1 => i = 0) /\ (p # 1 => i # 0)
    BY <1>3
  <2>2. Fits(i)
    BY <2>1
  <2> DEFINE v == f[i]
             m == P[p]
             w == f[p]
             machine == IF m.first THEN m.cluster ELSE v
             x == IF m.first THEN ToExecutionState(m.cluster.exec) ELSE v.exec
  <2> HIDE DEF p
  <2>3. /\ m.t = "snapshot" /\ m.seq = l.seq /\ m.first = (p = 1)
        /\ m.left = n - p /\ m.rows \in SUBSET RowRecs /\ m.cluster = cluster
    BY <1>8, <2>1
  <2>4. w = ApplySnapshot(v, m)
    <3>1. w = ApplyMessage(v, m)
      BY <1>9, <2>1
    <3> QED BY <2>3, <3>1 DEF ApplyMessage
  <2>5. Shape(v)
    BY <2>2
  <2>a. p # 1 => Matches(v, l)
    BY <2>1, <2>2
  <2> HIDE DEF m, v, w
  <2>6. /\ Shape(w) /\ w.seq = m.seq /\ ~w.gap /\ ~w.refresh /\ w.left = m.left
        /\ w.nodes = machine.nodes /\ w.queue = machine.queue
        /\ w.paused = machine.paused /\ w.redundancy = machine.redundancy
        /\ w.exec.id = x.id /\ w.exec.phase = x.phase
        /\ w.exec.count = x.count /\ w.exec.stage = x.stage
    BY <2>3, <2>4, <2>5, SnapshotShows
  <2>7. Matches(w, l)
    <3>1. CASE p = 1
      <4>1. machine = cluster /\ x = ToExecutionState(exec)
        BY <1>6, <2>3, <3>1
      <4>2. l.running # 0 => /\ x.id = l.running /\ x.phase \in Phases
                             /\ x.count > 0 => x.stage = l.execs[l.running].stage
        BY <1>1, <4>1, RunningShown DEF exec
      <4> HIDE DEF machine, x
      <4> QED BY <1>6, <2>6, <4>1, <4>2 DEF Matches
    <3>2. CASE p # 1
      <4>1. machine = v /\ x = v.exec
        BY <2>3, <3>2
      <4>2. Matches(v, l) /\ (p - 1 # 0 => ~v.refresh)
        BY <2>1, <2>2, <2>a, <3>2 DEF v
      <4>3. v.redundancy = l.redundancy
        BY <2>1, <3>2, <4>2 DEF Matches
      <4> HIDE DEF machine, x
      <4> QED BY <2>6, <4>1, <4>2, <4>3 DEF Matches
    <3> QED BY <3>1, <3>2
  <2>8. Fits(p)
    BY <2>3, <2>6, <2>7 DEF w
  <2> QED BY <2>8 DEF p
<1> HIDE DEF G
<1>12. G = Nat
  <2>1. G \in SUBSET Nat
    BY DEF G
  <2> QED BY <1>10, <1>11, <2>1, Induction
<1>13. Fits(n)
  BY <1>3, <1>12 DEF G
<1>14. f[n] = ReadAll(page.view, P)
  BY <1>7 DEF ReadAll, f
<1> DEFINE w == ReadAll(page.view, P)
<1>15. UpToDate(w, l) /\ ~w.refresh
  <2> HIDE DEF w
  <2>1. /\ Shape(f[n]) /\ f[n].seq = l.seq /\ ~f[n].gap /\ ~f[n].refresh /\ f[n].left = n - n
        /\ Matches(f[n], l)
    BY <1>3, <1>13
  <2>2. n - n = 0
    BY <1>3
  <2> QED BY <1>14, <2>1, <2>2 DEF UpToDate, w
<1> QED BY <1>7, <1>15 DEF P

LEMMA SubscribeKeeps ==
    ASSUME ReplicaIInv, Subscribe
    PROVE  ReplicaIInv'
<1> DEFINE l == Advance(ledger, {})
           P == SnapshotPages(ledger)
           w == ReadAll(page.view, P)
           x == Reads(w, l)
           k == Numbered(l)
<1>1. /\ Stays
      /\ page' = [page EXCEPT !.subscribed = TRUE, !.missed = 0,
                              !.view = ReadAll(@, P \o Events(l))]
      /\ memo' = MemoAfter(Pages(ledger), l) /\ ledger' = k
  BY DEF Subscribe
<1>2. UpToDate(w, ledger) /\ \E S : P \in Seq(S)
  BY SnapshotIs
<1>3. Draft(w, TRUE, ledger) /\ ledger \in Ledgers
  <2>1. Draft(page.view, page.subscribed, ledger) /\ ledger \in Ledgers /\ ledger.out = <<>>
    BY LedgerIs
  <2>2. Len(ledger.out) = 0 /\ ledger.seq \in Nat
    BY <2>1, TypesAre
  <2> HIDE DEF w
  <2>3. Reads(w, ledger) = w
    <3>1. Len(Events(ledger)) = 0
      BY <2>1, <2>2, EventsAre
    <3> QED BY <3>1, ReadNone DEF Reads
  <2>4. Follows(w, ledger)
    <3>1. ledger.seq + Len(ledger.out) = ledger.seq
      BY <2>2
    <3> QED BY <1>2, <2>3, <3>1 DEF Follows, UpToDate
  <2> QED BY <2>1, <2>4 DEF Draft, Good
<1> HIDE DEF w
<1>4. Good(w, TRUE, l)
  BY <1>3, AdvanceIs
<1> HIDE DEF l, P
<1>5. Sound(k) /\ k.out = <<>> /\ UpToDate(x, k)
  BY <1>4, NumberedIs
<1>6. ReadAll(page.view, P \o Events(l)) = x
  <2>1. l \in Ledgers
    BY <1>4 DEF Good, Sound
  <2>2. PICK S : P \in Seq(S)
    BY <1>2
  <2>3. PICK T : Events(l) \in Seq(T)
    BY <2>1, EventsAre
  <2>4. P \in Seq(S \cup T) /\ Events(l) \in Seq(S \cup T)
    BY <2>2, <2>3
  <2> QED BY <2>4, ReadBoth DEF Reads, w
<1> HIDE DEF x, k
<1>7. /\ DOMAIN page = {"subscribed", "missed", "view"} /\ page.subscribed \in BOOLEAN
      /\ page.missed \in Nat /\ Shape(page.view)
  BY DEF ReplicaIInv
<1>8. /\ DOMAIN page' = {"subscribed", "missed", "view"} /\ page'.subscribed \in BOOLEAN
      /\ page'.missed \in Nat /\ page'.view = x
  BY <1>1, <1>6, <1>7
<1>9. memo' = Nothing \/ PagesFit(memo')
  BY <1>1, PagesAre, MemoIs
<1>10. trouble' \in 0..MaxTrouble
  BY <1>1, TroubleStays
<1>11. Shape(x)
  BY <1>5 DEF UpToDate
<1> QED BY <1>1, <1>5, <1>8, <1>9, <1>10, <1>11 DEF ReplicaIInv, PagesFit

\* A page that has closed is shown nothing.
LEMMA ClosedKeeps ==
    ASSUME ReplicaIInv, Stays \/ Goes, UNCHANGED <<ledger, memo>>,
           NEW w, Shape(w), page' = [page EXCEPT !.subscribed = FALSE, !.view = w]
    PROVE  ReplicaIInv'
<1>1. /\ DOMAIN page = {"subscribed", "missed", "view"} /\ page.missed \in Nat
      /\ Sound(ledger) /\ ledger.out = <<>> /\ (memo = Nothing \/ PagesFit(memo))
  BY DEF ReplicaIInv
<1>2. /\ DOMAIN page' = {"subscribed", "missed", "view"} /\ page'.subscribed = FALSE
      /\ page'.missed \in Nat /\ page'.view = w
  BY <1>1
<1>3. trouble' \in 0..MaxTrouble
  BY TroubleStays
<1> QED BY <1>1, <1>2, <1>3 DEF ReplicaIInv, PagesFit

LEMMA CloseKeeps ==
    ASSUME ReplicaIInv, Close
    PROVE  ReplicaIInv'
<1>1. /\ DOMAIN page = {"subscribed", "missed", "view"} /\ Shape(page.view)
      /\ page' = [page EXCEPT !.subscribed = FALSE] /\ Goes /\ UNCHANGED <<ledger, memo>>
  BY DEF ReplicaIInv, Close
<1> DEFINE w == page.view
<1>2. page' = [page EXCEPT !.subscribed = FALSE, !.view = w]
  BY <1>1
<1> HIDE DEF w
<1> QED BY <1>1, <1>2, ClosedKeeps DEF w

LEMMA ResubscribeKeeps ==
    ASSUME ReplicaIInv, Resubscribe
    PROVE  ReplicaIInv'
<1> DEFINE w == [page.view EXCEPT !.gap = FALSE, !.refresh = FALSE]
<1>1. /\ DOMAIN page = {"subscribed", "missed", "view"} /\ Shape(page.view) /\ Stays
      /\ page' = [page EXCEPT !.subscribed = FALSE, !.view.gap = FALSE, !.view.refresh = FALSE]
      /\ UNCHANGED <<ledger, memo>>
  BY DEF ReplicaIInv, Resubscribe
<1>2. Shape(w)
  BY <1>1 DEF Shape, EmptyView
<1>3. page' = [page EXCEPT !.subscribed = FALSE, !.view = w]
  BY <1>1 DEF Shape, EmptyView
<1> HIDE DEF w
<1> QED BY <1>1, <1>2, <1>3, ClosedKeeps

\* A successor adopts the ledger with every node and socket gone.
LEMMA AdoptKeeps ==
    ASSUME ReplicaIInv, Adopt
    PROVE  ReplicaIInv'
<1> DEFINE v == page.view
           alone == ReleasedAll(ledger)[Len(NodeOrder)]
           k == [alone EXCEPT !.nodes = {}, !.paused = FALSE]
           n == Numbered(k)
<1>1. /\ ledger' = n /\ memo' = Nothing /\ Goes
      /\ page' = [page EXCEPT !.subscribed = FALSE]
  BY DEF Adopt
<1>2. Draft(v, FALSE, ledger)
  BY LedgerIs DEF Draft, Good
<1>3. Draft(v, FALSE, alone)
  BY <1>2, ReleasedAllKeeps
<1> HIDE DEF alone
<1>4. alone \in Ledgers /\ Queued(alone) /\ Staged(alone.execs, alone.tasks)
  BY <1>3 DEF Draft, Good, Sound
<1>5. /\ k \in Ledgers /\ k.execs = alone.execs /\ k.tasks = alone.tasks
      /\ k.running = alone.running /\ k.queue = alone.queue
  BY <1>4 DEF Ledgers
<1> HIDE DEF k
<1>6. Good(v, FALSE, k)
  BY <1>4, <1>5 DEF Good, Sound, Queued
<1>7. Sound(n) /\ n.out = <<>>
  BY <1>6, NumberedIs
<1> HIDE DEF n
<1>8. /\ DOMAIN page = {"subscribed", "missed", "view"} /\ Shape(page.view) /\ page.missed \in Nat
  BY DEF ReplicaIInv
<1>9. /\ DOMAIN page' = {"subscribed", "missed", "view"} /\ page'.subscribed = FALSE
      /\ page'.missed \in Nat /\ page'.view = page.view
  BY <1>1, <1>8
<1>10. trouble' \in 0..MaxTrouble
  BY <1>1, TroubleStays
<1> QED BY <1>1, <1>7, <1>8, <1>9, <1>10 DEF ReplicaIInv

-----------------------------------------------------------------------------
(* The theorems.                                                           *)

LEMMA InitFits == Init => ReplicaIInv
<1> SUFFICES ASSUME Init PROVE ReplicaIInv
  OBVIOUS
<1>1. /\ ledger = [seq |-> 0, nodes |-> {}, execs |-> <<>>, queue |-> <<>>, running |-> 0,
                   tasks |-> <<>>, paused |-> FALSE, redundancy |-> FALSE, ends |-> 0,
                   out |-> <<>>]
      /\ memo = Nothing /\ trouble = 0
      /\ page = [subscribed |-> FALSE, missed |-> 0, view |-> EmptyView]
  BY DEF Init
<1>2. ledger \in Ledgers
  <2>1. /\ <<>> \in Seq(ExecRecs) /\ <<>> \in Seq(TaskRecs) /\ <<>> \in Seq(Nat)
        /\ <<>> \in Seq(Messages)
    OBVIOUS
  <2> QED BY <1>1, <2>1 DEF Ledgers
<1>3. Queued(ledger)
  BY <1>1 DEF Queued, IsInjective, ToSet
<1>4. Staged(ledger.execs, ledger.tasks)
  BY <1>1 DEF Staged
<1>5. Shape(EmptyView)
  BY DEF Shape, EmptyView
<1>6. trouble \in 0..MaxTrouble
  BY <1>1, ReplicaAssumption
<1> QED BY <1>1, <1>2, <1>3, <1>4, <1>5, <1>6 DEF ReplicaIInv, Sound

LEMMA NextKeeps ==
    ASSUME ReplicaIInv, [Next]_vars
    PROVE  ReplicaIInv'
<1>1. CASE UNCHANGED vars
  BY <1>1 DEF vars, ReplicaIInv, PagesFit
<1>2. CASE \E n \in Nodes : Join(n) \/ Leave(n)
  BY <1>2, JoinKeeps, LeaveKeeps
<1>3. CASE \E awaits \in {"none", "inherit"} : Launch(awaits)
  BY <1>3, LaunchKeeps
<1>4. CASE RootFetched \/ SpecDone \/ ManifestStored
  BY <1>4, RootFetchedKeeps, SpecDoneKeeps, ManifestStoredKeeps
<1>5. CASE \E count \in 1..MaxTasks : SpecFetched(count)
  <2>1. PICK count \in 1..MaxTasks : SpecFetched(count)
    BY <1>5
  <2>2. count \in Nat
    BY ReplicaAssumption
  <2> QED BY <2>1, <2>2, SpecFetchedKeeps
<1>6. CASE \E n \in Nodes, t \in DOMAIN ledger.tasks :
              \/ \E o \in Outputs \cup {Trap} : Report(n, t, o) \/ LateReport(n, t, o)
              \/ GiveUp(n, t)
  <2>1. PICK n \in Nodes, t \in DOMAIN ledger.tasks :
                \/ \E o \in Outputs \cup {Trap} : Report(n, t, o) \/ LateReport(n, t, o)
                \/ GiveUp(n, t)
    BY <1>6
  <2>2. CASE GiveUp(n, t)
    BY <2>2, GiveUpKeeps
  <2>3. CASE \E o \in Outputs \cup {Trap} : Report(n, t, o) \/ LateReport(n, t, o)
    BY <2>3, ReportKeeps, LateReportKeeps
  <2> QED BY <2>1, <2>2, <2>3
<1>7. CASE \E t \in DOMAIN ledger.tasks : Tick(t)
  BY <1>7, TickKeeps
<1>8. CASE \E e \in DOMAIN ledger.execs : Kill(e)
  BY <1>8, KillKeeps
<1>9. CASE Pause \/ Resume \/ RedundancyOn \/ RedundancyOff
  BY <1>9, PauseKeeps, ResumeKeeps, RedundancyOnKeeps, RedundancyOffKeeps
<1>10. CASE Adopt \/ Subscribe \/ Resubscribe \/ Close
  BY <1>10, AdoptKeeps, SubscribeKeeps, ResubscribeKeeps, CloseKeeps
<1> QED BY <1>1, <1>2, <1>3, <1>4, <1>5, <1>6, <1>7, <1>8, <1>9, <1>10 DEF Next

\* A ledger is sound between handlers, and a page that has subscribed and read
\* everything it was sent has a view of it: whatever was retracted, killed,
\* paused or adopted meanwhile, and however old the pages of its snapshot were.
THEOREM ReplicaIsInductive == Spec => []ReplicaIInv
<1>1. ReplicaIInv /\ [Next]_vars => ReplicaIInv'
  BY NextKeeps
<1> QED BY <1>1, InitFits, PTL DEF Spec

\* No event is missed while a socket lives, and the page shows the nodes, the
\* queue, the pause and the redundancy there are, and the running execution at
\* its stage, for any machine, any number of pages and any order of handlers.
THEOREM MachineIsShown == Spec => []MachineShown
<1>1. ReplicaIInv => MachineShown
  <2> SUFFICES ASSUME ReplicaIInv, CaughtUp PROVE MachineShown
    BY DEF MachineShown
  <2>1. UpToDate(page.view, ledger) /\ ~page.view.refresh
    BY DEF ReplicaIInv, CaughtUp
  <2> QED BY <2>1 DEF MachineShown, UpToDate, Matches, IsShown, Phases, Running
<1> QED BY <1>1, ReplicaIsInductive, PTL
=============================================================================
