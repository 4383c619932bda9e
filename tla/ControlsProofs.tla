--------------------------- MODULE ControlsProofs ---------------------------
(***************************************************************************)
(* What is proved of a machine's controls, at both ends.                   *)
(*                                                                         *)
(* At the machine, for any number of observers, of launches and of places  *)
(* in the queue: the queue holds each queued execution once, and the loop  *)
(* keeps out.  A handler is a chain of operators, so there is one lemma    *)
(* per operator: it keeps a ledger good, and it goes `Onward`.             *)
(*                                                                         *)
(* At the page, for any number of clicks and of troubles: a control that   *)
(* was taken is in one place, and the page has one way on.  Again there is *)
(* one lemma per method of the client: it keeps the page `Tidy`.           *)
(***************************************************************************)
EXTENDS Machine, Observer, FilterProofs, FiniteSetTheorems

-----------------------------------------------------------------------------
(* The machine. *)

Typed(l) ==
    /\ l \in Ledger
    /\ Len(l.executions) =< MaxExecutions
    /\ Len(l.queue) =< QueueCap
    /\ l.running \in Ids(l) \cup {None}

Good(l) == Typed(l) /\ Sound(l)

\* Nothing automatic may start: people stopped the loop, or it has yielded to
\* somebody who is still there.
Shut(l) == l.loopStopped \/ (l.loopYielded /\ ~l.quiet)

(* What a handler does from l to m once it has ended what it ends: nobody  *)
(* loses the machine, and an automatic execution only starts if it may.    *)
Onward(l, m) ==
    /\ m.quiet = l.quiet /\ m.loopStopped = l.loopStopped /\ m.held = l.held
    /\ Ids(l) \subseteq Ids(m) /\ \A id \in Ids(l) : IsHuman(m, id) = IsHuman(l, id)
    /\ Shut(l) => m.loopYielded = l.loopYielded
    /\ l.running # None => m.running = l.running /\ m.loopYielded = l.loopYielded
    /\ l.running = None /\ m.running # None /\ ~IsHuman(m, m.running)
        => ~Shut(l) /\ ~l.held /\ ~m.loopYielded

\* What the parts of a good ledger are.
LEMMA Parts ==
    ASSUME NEW l, Good(l)
    PROVE  /\ l \in Ledger /\ l.executions \in Seq(Execution) /\ l.queue \in Seq(Nat)
           /\ Len(l.executions) \in Nat /\ Ids(l) = 1..Len(l.executions)
           /\ None \notin Ids(l)
           /\ \A id \in Ids(l) : /\ l.executions[id] \in Execution
                                 /\ IsHuman(l, id) \in BOOLEAN
           /\ {l.loopStopped, l.loopYielded, l.held, l.quiet, l.awake} \subseteq BOOLEAN
           /\ l.pausedBy \in Observers \cup {Nobody} /\ l.observers \in SUBSET Observers
           /\ Range(l.queue) \subseteq Ids(l)
<1>1. l \in Ledger /\ Range(l.queue) \subseteq Ids(l)
  BY DEF Good, Typed, Sound
<1>2. /\ l.executions \in Seq(Execution) /\ l.queue \in Seq(Nat)
      /\ l.loopStopped \in BOOLEAN /\ l.loopYielded \in BOOLEAN /\ l.held \in BOOLEAN
      /\ l.quiet \in BOOLEAN /\ l.awake \in BOOLEAN
      /\ l.pausedBy \in Observers \cup {Nobody} /\ l.observers \in SUBSET Observers
  BY <1>1 DEF Ledger
<1>3. Len(l.executions) \in Nat /\ Ids(l) = 1..Len(l.executions)
  BY <1>2 DEF Ids
<1>4. None \notin Ids(l)
  BY <1>3 DEF None
<1>5. ASSUME NEW id \in Ids(l)
      PROVE  l.executions[id] \in Execution /\ IsHuman(l, id) \in BOOLEAN
  <2>1. l.executions[id] \in Execution
    BY <1>2, <1>3
  <2> QED BY <2>1 DEF Execution, IsHuman
<1> QED BY <1>1, <1>2, <1>3, <1>4, <1>5

\* A ledger with the same executions and the same queue is as good.
LEMMA SameQueue ==
    ASSUME NEW l, Good(l), NEW m \in Ledger,
           m.executions = l.executions, m.queue = l.queue, m.running = l.running
    PROVE  Good(m)
BY DEF Good, Typed, Sound, Ids

\* Onward is one step after another.
LEMMA OnwardAgain ==
    ASSUME NEW l, NEW m, NEW n, Good(l), Good(m), Good(n), Onward(l, m), Onward(m, n)
    PROVE  Onward(l, n)
<1>1. {l.loopYielded, m.loopYielded, n.loopYielded} \subseteq BOOLEAN
  BY Parts
<1>2. m.running \in Ids(m) \cup {None} /\ l.running \in Ids(l) \cup {None}
  BY DEF Good, Typed
<1>3. Shut(l) => Shut(m)
  BY DEF Onward, Shut
<1>4. /\ n.quiet = l.quiet /\ n.loopStopped = l.loopStopped /\ n.held = l.held
      /\ Ids(l) \subseteq Ids(n) /\ \A id \in Ids(l) : IsHuman(n, id) = IsHuman(l, id)
      /\ Shut(l) => n.loopYielded = l.loopYielded
      /\ l.running # None => n.running = l.running /\ n.loopYielded = l.loopYielded
  BY <1>3 DEF Onward
<1>5. ASSUME l.running = None, n.running # None, ~IsHuman(n, n.running)
      PROVE  ~Shut(l) /\ ~l.held /\ ~n.loopYielded
  <2>1. CASE m.running = None
    BY <1>3, <1>5, <2>1 DEF Onward
  <2>2. CASE m.running # None
    <3>1. n.running = m.running /\ n.loopYielded = m.loopYielded /\ m.running \in Ids(m)
      BY <1>2, <2>2 DEF Onward
    <3>2. ~IsHuman(m, m.running)
      BY <1>5, <3>1 DEF Onward
    <3> QED BY <1>5, <2>2, <3>1, <3>2 DEF Onward
  <2> QED BY <2>1, <2>2
<1> QED BY <1>4, <1>5 DEF Onward

\* The parts of a ledger that no queue is made of.
LEMMA OnwardBeside ==
    ASSUME NEW l, Good(l), NEW m, m.executions = l.executions, m.running = l.running,
           m.quiet = l.quiet, m.loopStopped = l.loopStopped, m.held = l.held,
           m.loopYielded = l.loopYielded
    PROVE  Onward(l, m)
BY DEF Onward, Ids, IsHuman, Shut
-----------------------------------------------------------------------------
(* Lists. *)

\* InsertAt puts an element at its place.
LEMMA InsertAtIs ==
    ASSUME NEW T, NEW s \in Seq(T), NEW e \in T, NEW p \in 1..Len(s) + 1
    PROVE  /\ InsertAt(s, p, e) \in Seq(T) /\ Len(InsertAt(s, p, e)) = Len(s) + 1
           /\ Range(InsertAt(s, p, e)) = Range(s) \cup {e}
           /\ IsInjective(s) /\ e \notin Range(s) => IsInjective(InsertAt(s, p, e))
<1> DEFINE a == SubSeq(s, 1, p - 1)
           b == SubSeq(s, p, Len(s))
           r == InsertAt(s, p, e)
           n == Len(s)
<1>1. n \in Nat /\ p \in Nat /\ 1 <= p /\ p <= n + 1 /\ DOMAIN s = 1..n /\ \A i \in 1..n : s[i] \in T
  OBVIOUS
<1>2. a \in Seq(T) /\ Len(a) = p - 1 /\ \A i \in 1..p - 1 : a[i] = s[i]
  <2>1. \A i \in 1..p - 1 : s[i] \in T
    BY <1>1
  <2>2. 1 \in Int /\ p - 1 \in Int
    BY <1>1
  <2>3. /\ a \in Seq(T) /\ Len(a) = IF 1 <= p - 1 THEN p - 1 - 1 + 1 ELSE 0
        /\ \A i \in 1..p - 1 - 1 + 1 : a[i] = s[1 + i - 1]
    BY <2>1, <2>2, SubSeqProperties
  <2> HIDE DEF a
  <2> QED BY <1>1, <2>3
<1>3. b \in Seq(T) /\ Len(b) = n + 1 - p /\ \A i \in 1..n + 1 - p : b[i] = s[p + i - 1]
  <2>1. \A i \in p..n : s[i] \in T
    BY <1>1
  <2>2. p \in Int /\ n \in Int
    BY <1>1
  <2>3. /\ b \in Seq(T) /\ Len(b) = IF p <= n THEN n - p + 1 ELSE 0
        /\ \A i \in 1..n - p + 1 : b[i] = s[p + i - 1]
    BY <2>1, <2>2, SubSeqProperties
  <2> HIDE DEF b
  <2> QED BY <1>1, <2>3
<1>4. r = a \o <<e>> \o b
  BY DEF InsertAt
<1> HIDE DEF a, b, r, n
<1>5. LET c == a \o <<e>>
      IN /\ c \in Seq(T) /\ Len(c) = p
         /\ \A i \in 1..p : c[i] = IF i <= p - 1 THEN s[i] ELSE e
  BY <1>1, <1>2
<1>6. /\ r \in Seq(T) /\ Len(r) = n + 1
      /\ \A i \in 1..n + 1 : r[i] = IF i < p THEN s[i] ELSE IF i = p THEN e ELSE s[i - 1]
  <2> DEFINE c == a \o <<e>>
  <2>1. c \in Seq(T) /\ Len(c) = p /\ \A i \in 1..p : c[i] = IF i <= p - 1 THEN s[i] ELSE e
    BY <1>5
  <2>2. r = c \o b
    BY <1>4
  <2> HIDE DEF c
  <2>3. r \in Seq(T) /\ Len(r) = n + 1
    <3>1. Len(c \o b) = p + (n + 1 - p) /\ c \o b \in Seq(T)
      BY <1>3, <2>1, ConcatProperties
    <3> QED BY <1>1, <2>2, <3>1
  <2>4. \A i \in 1..n + 1 : r[i] = IF i <= p THEN c[i] ELSE b[i - p]
    BY <1>1, <1>3, <2>1, <2>2, ConcatProperties
  <2>5. ASSUME NEW i \in 1..n + 1, i > p PROVE r[i] = s[i - 1]
    <3>1. i - p \in 1..n + 1 - p /\ p + (i - p) - 1 = i - 1
      BY <1>1, <2>5
    <3>2. b[i - p] = s[p + (i - p) - 1]
      BY <1>3, <3>1
    <3> QED BY <1>1, <2>4, <2>5, <3>1, <3>2
  <2> QED BY <1>1, <2>1, <2>3, <2>4, <2>5
<1>7. DOMAIN r = 1..n + 1
  BY <1>1, <1>6
<1>8. Range(r) = Range(s) \cup {e}
  <2>1. ASSUME NEW i \in 1..n + 1 PROVE r[i] \in Range(s) \cup {e}
    <3>1. i < p => i \in 1..n
      BY <1>1
    <3>2. i > p => i - 1 \in 1..n
      BY <1>1
    <3>3. i < p \/ i = p \/ i > p
      BY <1>1
    <3> QED BY <1>1, <1>6, <3>1, <3>2, <3>3 DEF Range
  <2>2. ASSUME NEW i \in 1..n PROVE s[i] \in Range(r)
    <3>1. CASE i < p
      <4>1. i \in 1..n + 1 /\ r[i] = s[i]
        BY <1>1, <1>6, <3>1
      <4> QED BY <1>7, <4>1 DEF Range
    <3>2. CASE ~(i < p)
      <4>1. i + 1 \in 1..n + 1 /\ i + 1 > p /\ (i + 1) - 1 = i
        BY <1>1, <3>2
      <4>2. r[i + 1] = s[i]
        BY <1>1, <1>6, <4>1
      <4> QED BY <1>7, <4>1, <4>2 DEF Range
    <3> QED BY <3>1, <3>2
  <2>3. p \in 1..n + 1 /\ r[p] = e
    BY <1>1, <1>6
  <2>4. e \in Range(r)
    BY <1>7, <2>3 DEF Range
  <2> QED BY <1>1, <1>7, <2>1, <2>2, <2>4 DEF Range
<1>9. ASSUME IsInjective(s), e \notin Range(s) PROVE IsInjective(r)
  <2>1. /\ \A i, j \in 1..n : s[i] = s[j] => i = j
        /\ \A i \in 1..n : s[i] # e
    BY <1>1, <1>9 DEF IsInjective, Range
  <2>2. ASSUME NEW i \in 1..n + 1, NEW j \in 1..n + 1, r[i] = r[j] PROVE i = j
    <3>1. /\ i < p => i \in 1..n
          /\ i > p => i - 1 \in 1..n
          /\ j < p => j \in 1..n
          /\ j > p => j - 1 \in 1..n
      BY <1>1
    <3> QED BY <1>1, <1>6, <2>1, <2>2, <3>1
  <2> QED BY <1>7, <2>2 DEF IsInjective
<1> QED BY <1>6, <1>8, <1>9 DEF r, n
-----------------------------------------------------------------------------
(* The operators. *)

\* The head of the queue starts.
Started(l, h) ==
    [l EXCEPT !.queue = Tail(l.queue), !.running = h,
              !.executions[h].status = "running",
              !.loopYielded = l.loopYielded /\ IsHuman(l, h)]

LEMMA StartedIs ==
    ASSUME NEW l, Good(l), l.queue # <<>>, l.running = None, NEW h, h = Head(l.queue)
    PROVE  /\ Good(Started(l, h)) /\ h \in Ids(l)
           /\ Started(l, h).running = h
           /\ Started(l, h).loopYielded = (l.loopYielded /\ IsHuman(l, h))
           /\ Started(l, h).quiet = l.quiet /\ Started(l, h).loopStopped = l.loopStopped
           /\ Started(l, h).held = l.held
           /\ Ids(Started(l, h)) = Ids(l)
           /\ \A id \in Ids(l) : IsHuman(Started(l, h), id) = IsHuman(l, id)
<1> DEFINE m == Started(l, h)
           q == Tail(l.queue)
           x == [l.executions EXCEPT ![h].status = "running"]
           y == l.loopYielded /\ IsHuman(l, h)
<1>1. /\ l \in Ledger /\ l.executions \in Seq(Execution) /\ l.queue \in Seq(Nat)
      /\ Len(l.executions) \in Nat /\ Ids(l) = 1..Len(l.executions)
      /\ None \notin Ids(l)
      /\ \A id \in Ids(l) : l.executions[id] \in Execution /\ IsHuman(l, id) \in BOOLEAN
      /\ l.loopYielded \in BOOLEAN
      /\ Range(l.queue) \subseteq Ids(l)
  BY Parts
<1>2. /\ h \in Range(l.queue) /\ h \in Nat
      /\ q \in Seq(Nat) /\ Len(q) = Len(l.queue) - 1 /\ Len(l.queue) \in Nat
      /\ Range(l.queue) = Range(q) \cup {h}
      /\ IsInjective(q) /\ h \notin Range(q)
  <2>1. IsInjective(l.queue)
    BY DEF Good, Sound
  <2> QED BY <1>1, <2>1, TailIs
<1>3. h \in Ids(l)
  BY <1>1, <1>2
<1>4. /\ x \in Seq(Execution) /\ Len(x) = Len(l.executions) /\ DOMAIN x = Ids(l)
      /\ \A id \in Ids(l) : /\ x[id].human = l.executions[id].human
                            /\ x[id].status = IF id = h THEN "running" ELSE l.executions[id].status
  <2>1. [l.executions[h] EXCEPT !.status = "running"] \in Execution
    BY <1>1, <1>3 DEF Execution
  <2>2. x \in [1..Len(l.executions) -> Execution]
    BY <1>1, <1>3, <2>1
  <2>3. x \in Seq(Execution) /\ Len(x) = Len(l.executions) /\ DOMAIN x = Ids(l)
    BY <1>1, <2>2
  <2>4. \A id \in Ids(l) : x[id] = IF id = h THEN [l.executions[h] EXCEPT !.status = "running"]
                                   ELSE l.executions[id]
    BY <1>1, <1>3
  <2>5. \A id \in Ids(l) : l.executions[id] \in [human : BOOLEAN, status : {"queued", "running", "ended"}]
    BY <1>1 DEF Execution
  <2> HIDE DEF x
  <2> QED BY <1>3, <2>3, <2>4, <2>5
<1>5. y \in BOOLEAN
  OBVIOUS
<1>6. /\ m.executions = x /\ m.queue = q /\ m.running = h /\ m.loopYielded = y
      /\ m.quiet = l.quiet /\ m.loopStopped = l.loopStopped /\ m.held = l.held
      /\ m \in Ledger
  <2>1. m = [l EXCEPT !.queue = q, !.running = h, !.executions = x, !.loopYielded = y]
    BY <1>1 DEF Started, Ledger
  <2> HIDE DEF m, q, x, y
  <2> QED BY <1>1, <1>2, <1>4, <1>5, <2>1 DEF Ledger
<1> HIDE DEF m, x, q
<1>7. Ids(m) = Ids(l)
  BY <1>4, <1>6 DEF Ids
<1>8. \A id \in Ids(l) : IsHuman(m, id) = IsHuman(l, id)
  BY <1>4, <1>6 DEF IsHuman
<1>9. Typed(m)
  BY <1>1, <1>2, <1>3, <1>4, <1>6, <1>7, MachineAssumption DEF Typed, Good
<1>10. Sound(m)
  <2>1. \A id \in Ids(l) : /\ id \in Range(l.queue) <=> l.executions[id].status = "queued"
                           /\ id = l.running <=> l.executions[id].status = "running"
    BY DEF Good, Sound
  <2>2. ASSUME NEW id \in Ids(l)
        PROVE  /\ id \in Range(q) <=> x[id].status = "queued"
               /\ id = h <=> x[id].status = "running"
    <3> HIDE DEF y
    <3>1. CASE id = h
      BY <1>2, <1>3, <1>4, <3>1
    <3>2. CASE id # h
      BY <1>1, <1>2, <1>4, <2>1, <3>2
    <3> QED BY <3>1, <3>2
  <2> QED BY <1>1, <1>2, <1>6, <1>7, <2>2 DEF Sound
<1> QED BY <1>3, <1>6, <1>7, <1>8, <1>9, <1>10 DEF Good, m

LEMMA MaybeStartGood ==
    ASSUME NEW l, Good(l)
    PROVE  /\ Good(MaybeStart(l)) /\ Onward(l, MaybeStart(l))
           /\ ~l.loopYielded => ~MaybeStart(l).loopYielded
<1> DEFINE h == Head(l.queue)
<1>1. CASE MaybeStart(l) = l
  BY <1>1 DEF Onward
<1>2. CASE MaybeStart(l) # l
  <2>1. /\ l.running = None /\ l.queue # <<>>
        /\ IsHuman(l, h) \/ (LoopMayRun(l) /\ ~l.held)
        /\ MaybeStart(l) = Started(l, h)
    BY <1>2 DEF MaybeStart, Started
  <2> DEFINE m == Started(l, h)
  <2>2. /\ Good(m) /\ h \in Ids(l) /\ m.running = h
        /\ m.loopYielded = (l.loopYielded /\ IsHuman(l, h))
        /\ m.quiet = l.quiet /\ m.loopStopped = l.loopStopped
        /\ m.held = l.held /\ Ids(m) = Ids(l)
        /\ \A id \in Ids(l) : IsHuman(m, id) = IsHuman(l, id)
    BY <2>1, StartedIs
  <2> HIDE DEF m, h
  <2>3. l.loopYielded \in BOOLEAN /\ IsHuman(l, h) \in BOOLEAN
    BY <2>2, Parts
  <2>4. LoopMayRun(l) => ~Shut(l)
    BY DEF LoopMayRun, Shut
  <2>5. Shut(l) => m.loopYielded = l.loopYielded
    BY <2>1, <2>2, <2>3, <2>4
  <2>6. ~IsHuman(m, m.running) => ~Shut(l) /\ ~l.held /\ ~m.loopYielded
    BY <2>1, <2>2, <2>4
  <2>7. Onward(l, m)
    BY <2>1, <2>2, <2>5, <2>6 DEF Onward
  <2>8. ~l.loopYielded => ~m.loopYielded
    BY <2>2
  <2> QED BY <2>1, <2>2, <2>7, <2>8 DEF m
<1> QED BY <1>1, <1>2

\* A launch that is not refused, before anything starts.
Placed(l, human, p) ==
    [l EXCEPT !.executions = Append(l.executions, [human |-> human, status |-> "queued"]),
              !.queue = InsertAt(l.queue, p, Len(l.executions) + 1)]

LEMMA PlacedIs ==
    ASSUME NEW l, Good(l), ~Refused(l), NEW human \in BOOLEAN, NEW p \in 1..Len(l.queue) + 1
    PROVE  Good(Placed(l, human, p)) /\ Onward(l, Placed(l, human, p))
           /\ Placed(l, human, p).loopYielded = l.loopYielded
<1> DEFINE m == Placed(l, human, p)
           new == Len(l.executions) + 1
           e == [human |-> human, status |-> "queued"]
           x == Append(l.executions, e)
           q == InsertAt(l.queue, p, new)
<1>1. /\ l \in Ledger /\ l.executions \in Seq(Execution) /\ l.queue \in Seq(Nat)
      /\ Len(l.executions) \in Nat /\ Ids(l) = 1..Len(l.executions)
      /\ None \notin Ids(l)
      /\ Range(l.queue) \subseteq Ids(l)
  BY Parts
<1>2. new \in Nat /\ new \notin Ids(l) /\ new # None /\ new \notin Range(l.queue)
  BY <1>1 DEF None
<1>3. /\ x \in Seq(Execution) /\ Len(x) = new /\ DOMAIN x = Ids(l) \cup {new}
      /\ \A id \in Ids(l) : x[id] = l.executions[id]
      /\ x[new] = e /\ e.status = "queued"
  <2>1. e \in Execution
    BY DEF Execution
  <2> HIDE DEF e
  <2>2. /\ x \in Seq(Execution) /\ Len(x) = new /\ DOMAIN x = 1..new
        /\ \A id \in DOMAIN l.executions : x[id] = l.executions[id]
        /\ x[new] = e
    BY <1>1, <2>1, AppendIs
  <2>3. 1..new = Ids(l) \cup {new}
    BY <1>1
  <2>4. e.status = "queued"
    BY DEF e
  <2> QED BY <2>2, <2>3, <2>4 DEF Ids
<1>4. /\ q \in Seq(Nat) /\ Len(q) = Len(l.queue) + 1 /\ Range(q) = Range(l.queue) \cup {new}
      /\ IsInjective(q)
  <2>1. IsInjective(l.queue)
    BY DEF Good, Sound
  <2> HIDE DEF new
  <2>2. /\ q \in Seq(Nat) /\ Len(q) = Len(l.queue) + 1 /\ Range(q) = Range(l.queue) \cup {new}
        /\ IsInjective(l.queue) /\ new \notin Range(l.queue) => IsInjective(q)
    <3>1. l.queue \in Seq(Nat) /\ new \in Nat
      BY <1>1, <1>2
    <3> DEFINE s == l.queue
    <3>2. s \in Seq(Nat) /\ p \in 1..Len(s) + 1
      BY <3>1
    <3> HIDE DEF s
    <3>3. /\ InsertAt(s, p, new) \in Seq(Nat) /\ Len(InsertAt(s, p, new)) = Len(s) + 1
          /\ Range(InsertAt(s, p, new)) = Range(s) \cup {new}
          /\ IsInjective(s) /\ new \notin Range(s) => IsInjective(InsertAt(s, p, new))
      BY <3>1, <3>2, InsertAtIs
    <3> QED BY <3>3 DEF s
  <2> QED BY <1>2, <2>1, <2>2
<1>5. /\ m.executions = x /\ m.queue = q /\ m.running = l.running
      /\ m.loopYielded = l.loopYielded
      /\ m.quiet = l.quiet /\ m.loopStopped = l.loopStopped /\ m.held = l.held
      /\ m \in Ledger
  <2>1. m = [l EXCEPT !.executions = x, !.queue = q]
    BY DEF Placed
  <2> HIDE DEF m, q, x
  <2> QED BY <1>1, <1>3, <1>4, <2>1 DEF Ledger
<1>6. new <= MaxExecutions /\ Len(l.queue) + 1 <= QueueCap
  BY <1>1, MachineAssumption DEF Refused, Good, Typed
<1> HIDE DEF m, x, q, e, new
<1>7. Ids(m) = Ids(l) \cup {new}
  BY <1>3, <1>5 DEF Ids
<1>8. \A id \in Ids(l) : IsHuman(m, id) = IsHuman(l, id)
  BY <1>3, <1>5 DEF IsHuman
<1>9. Typed(m)
  BY <1>3, <1>4, <1>5, <1>6, <1>7 DEF Typed, Good
<1>10. Sound(m)
  <2>1. \A id \in Ids(l) : /\ id \in Range(l.queue) <=> l.executions[id].status = "queued"
                           /\ id = l.running <=> l.executions[id].status = "running"
    BY DEF Good, Sound
  <2>2. l.running # new
    BY <1>2 DEF Good, Typed
  <2>3. ASSUME NEW id \in Ids(m)
        PROVE  /\ id \in Range(q) <=> x[id].status = "queued"
               /\ id = l.running <=> x[id].status = "running"
    BY <1>2, <1>3, <1>4, <1>7, <2>1, <2>2, <2>3
  <2>4. Range(q) \subseteq Ids(m)
    BY <1>1, <1>4, <1>7
  <2> QED BY <1>4, <1>5, <2>3, <2>4 DEF Sound
<1>11. Onward(l, m)
  BY <1>5, <1>7, <1>8 DEF Onward
<1> QED BY <1>5, <1>9, <1>10, <1>11 DEF Good, m

LEMMA EnqueueGood ==
    ASSUME NEW l, Good(l), NEW human \in BOOLEAN
    PROVE  /\ Good(Enqueue(l, human)) /\ Onward(l, Enqueue(l, human))
           /\ ~l.loopYielded => ~Enqueue(l, human).loopYielded
<1>1. CASE Refused(l)
  BY <1>1 DEF Enqueue, Onward
<1>2. CASE ~Refused(l)
  <2> DEFINE automatic == {i \in DOMAIN l.queue : ~IsHuman(l, l.queue[i])}
             p == IF human /\ automatic # {} THEN Min(automatic) ELSE Len(l.queue) + 1
  <2>1. l.queue \in Seq(Nat) /\ Len(l.queue) \in Nat /\ DOMAIN l.queue = 1..Len(l.queue)
    BY Parts
  <2>2. automatic # {} => Min(automatic) \in automatic
    <3>1. automatic \in SUBSET Nat
      BY <2>1
    <3>2. automatic # {} => \E i \in automatic : \A j \in automatic : i <= j
      BY <3>1, Least
    <3> HIDE DEF automatic
    <3> QED BY <3>2 DEF Min
  <2>3. p \in 1..Len(l.queue) + 1
    BY <2>1, <2>2
  <2> DEFINE m == Placed(l, human, p)
  <2>4. Enqueue(l, human) = MaybeStart(m)
    BY <1>2 DEF Enqueue, Placed
  <2> HIDE DEF p
  <2>5. Good(m) /\ Onward(l, m) /\ m.loopYielded = l.loopYielded
    BY <1>2, <2>3, PlacedIs
  <2> HIDE DEF m
  <2>6. /\ Good(MaybeStart(m)) /\ Onward(m, MaybeStart(m))
        /\ ~m.loopYielded => ~MaybeStart(m).loopYielded
    BY <2>5, MaybeStartGood
  <2>7. Onward(l, MaybeStart(m))
    BY <2>5, <2>6, OnwardAgain
  <2> QED BY <2>4, <2>5, <2>6, <2>7
<1> QED BY <1>1, <1>2

LEMMA AdvanceGood ==
    ASSUME NEW l, Good(l)
    PROVE  Good(Advance(l)) /\ Onward(l, Advance(l))
<1>1. CASE ~LoopLaunches(l)
  <2>1. Advance(l) = MaybeStart(l)
    BY <1>1 DEF Advance
  <2> QED BY <2>1, MaybeStartGood
<1>2. CASE LoopLaunches(l)
  <2> DEFINE r == [l EXCEPT !.loopYielded = FALSE]
             m == Enqueue(r, FALSE)
             n == MaybeStart(m)
  <2>1. Advance(l) = n
    BY <1>2 DEF Advance
  <2>2. /\ r \in Ledger /\ r.executions = l.executions /\ r.queue = l.queue
        /\ r.running = l.running /\ ~r.loopYielded
        /\ r.quiet = l.quiet /\ r.loopStopped = l.loopStopped /\ r.held = l.held
    <3>1. l \in Ledger
      BY Parts
    <3> QED BY <3>1 DEF Ledger
  <2> HIDE DEF r
  <2>3. Good(r)
    BY <2>2, SameQueue
  <2>4. Good(m) /\ Onward(r, m) /\ ~m.loopYielded
    BY <2>2, <2>3, EnqueueGood
  <2> HIDE DEF m
  <2>5. Good(n) /\ Onward(m, n) /\ ~n.loopYielded
    BY <2>4, MaybeStartGood
  <2> HIDE DEF n
  <2>6. Onward(r, n)
    BY <2>3, <2>4, <2>5, OnwardAgain
  <2>7. l.running = None /\ ~l.held /\ ~Shut(l)
    BY <1>2 DEF LoopLaunches, LoopMayRun, Shut
  <2>8. Ids(r) = Ids(l) /\ \A id \in Ids(l) : IsHuman(r, id) = IsHuman(l, id)
    BY <2>2 DEF Ids, IsHuman
  <2>9. Onward(l, n)
    BY <2>2, <2>5, <2>6, <2>7, <2>8 DEF Onward
  <2> QED BY <2>1, <2>5, <2>9
<1> QED BY <1>1, <1>2

\* The relaunch at the front.
LEMMA ToFrontGood ==
    ASSUME NEW l, Good(l), NEW id
    PROVE  Good(ToFront(l, id)) /\ Onward(l, ToFront(l, id))
<1>1. CASE ~Contains(l.queue, id)
  BY <1>1 DEF ToFront, Onward
<1>2. CASE Contains(l.queue, id)
  <2> DEFINE w == Without(l.queue, {id})
             q == <<id>> \o w
             m == [l EXCEPT !.queue = q]
  <2>1. ToFront(l, id) = m
    BY <1>2 DEF ToFront
  <2>2. l \in Ledger /\ l.queue \in Seq(Nat) /\ Len(l.queue) \in Nat /\ DOMAIN l.queue = 1..Len(l.queue)
    BY Parts
  <2>3. id \in Range(l.queue) /\ id \in Nat
    BY <1>2, <2>2 DEF Contains, Range
  <2>4. /\ w \in Seq(Nat) /\ Len(w) < Len(l.queue) /\ Range(w) = Range(l.queue) \ {id}
        /\ IsInjective(w)
    <3>1. IsInjective(l.queue)
      BY DEF Good, Sound
    <3>2. Range(l.queue) \cap {id} # {}
      BY <2>3
    <3> QED BY <2>2, <3>1, <3>2, WithoutIs
  <2> HIDE DEF w
  <2>5. /\ q \in Seq(Nat) /\ Len(q) = Len(w) + 1 /\ Len(w) \in Nat /\ q[1] = id
        /\ \A i \in 1..Len(w) : q[i + 1] = w[i]
        /\ DOMAIN q = 1..Len(w) + 1 /\ DOMAIN w = 1..Len(w)
    BY <2>3, <2>4
  <2> HIDE DEF q
  <2>6. /\ 1 \in 1..Len(w) + 1
        /\ \A i \in 1..Len(w) : i + 1 \in 1..Len(w) + 1 /\ i + 1 # 1
        /\ \A i \in 1..Len(w) + 1 : i = 1 \/ (i - 1 \in 1..Len(w) /\ (i - 1) + 1 = i)
    BY <2>5
  <2>6a. \A i \in 1..Len(w) + 1 :
            \/ i = 1 /\ q[i] = id
            \/ i # 1 /\ i - 1 \in 1..Len(w) /\ q[i] = w[i - 1]
    BY <2>5, <2>6
  <2>7. Range(q) = Range(l.queue)
    <3>1. ASSUME NEW i \in 1..Len(w) + 1 PROVE q[i] \in Range(w) \cup {id}
      BY <2>5, <2>6a, <3>1 DEF Range
    <3>2. ASSUME NEW i \in 1..Len(w) PROVE w[i] \in Range(q)
      <4>1. i + 1 \in DOMAIN q /\ q[i + 1] = w[i]
        BY <2>5, <2>6
      <4> QED BY <4>1 DEF Range
    <3>3. id \in Range(q)
      BY <2>5, <2>6 DEF Range
    <3>4. Range(q) = Range(w) \cup {id}
      BY <2>5, <3>1, <3>2, <3>3 DEF Range
    <3> QED BY <2>3, <2>4, <3>4
  <2>8. IsInjective(q)
    <3>1. \A i \in 1..Len(w) : w[i] # id
      BY <2>4, <2>5 DEF Range
    <3>2. \A i, j \in 1..Len(w) : w[i] = w[j] => i = j
      BY <2>4, <2>5 DEF IsInjective
    <3>3. ASSUME NEW i \in 1..Len(w) + 1, NEW j \in 1..Len(w) + 1, q[i] = q[j] PROVE i = j
      <4>1. CASE i = 1 \/ j = 1
        BY <2>6a, <3>1, <3>3, <4>1
      <4>2. CASE i # 1 /\ j # 1
        <5>1. i - 1 \in 1..Len(w) /\ j - 1 \in 1..Len(w) /\ q[i] = w[i - 1] /\ q[j] = w[j - 1]
          BY <2>5, <2>6, <4>2
        <5>2. i - 1 = j - 1
          BY <3>2, <3>3, <5>1
        <5> QED BY <5>1, <5>2
      <4> QED BY <4>1, <4>2
    <3> QED BY <2>5, <3>3 DEF IsInjective
  <2>9. /\ m \in Ledger /\ m.queue = q /\ m.executions = l.executions /\ m.running = l.running
        /\ m.quiet = l.quiet /\ m.loopStopped = l.loopStopped /\ m.held = l.held
        /\ m.loopYielded = l.loopYielded
    BY <2>2, <2>5 DEF Ledger
  <2> HIDE DEF m
  <2>10. Good(m)
    <3>1. Len(q) <= Len(l.queue)
      BY <2>2, <2>4, <2>5
    <3>2. Typed(m)
      BY <2>2, <2>5, <2>9, <3>1, MachineAssumption DEF Good, Typed, Ids
    <3>3. Sound(m)
      BY <2>7, <2>8, <2>9 DEF Good, Sound, Ids
    <3> QED BY <3>2, <3>3 DEF Good
  <2>11. Onward(l, m)
    BY <2>9, OnwardBeside
  <2> QED BY <2>1, <2>10, <2>11
<1> QED BY <1>1, <1>2
-----------------------------------------------------------------------------
(* What a handler does first. *)

(* What ends, ends: whoever runs or nobody does afterwards, and the loop   *)
(* has yielded if it had, or if a person's execution stopped running.      *)
Ending(l, m) ==
    /\ m.running \in {l.running, None}
    /\ \/ l.loopYielded
       \/ l.running # None /\ IsHuman(l, l.running) /\ m.running = None
       => m.loopYielded

LEMMA EndAllGood ==
    ASSUME NEW l, Good(l), NEW ids
    PROVE  Good(EndAll(l, ids)) /\ Ending(l, EndAll(l, ids))
<1> DEFINE m == EndAll(l, ids)
           x == Closed(l, ids)
           q == Without(l.queue, ids)
           r == IF l.running \in ids THEN None ELSE l.running
           y == l.loopYielded \/ \E id \in ids : IsHuman(l, id)
<1>1. /\ l \in Ledger /\ l.executions \in Seq(Execution) /\ l.queue \in Seq(Nat)
      /\ Len(l.executions) \in Nat /\ Ids(l) = 1..Len(l.executions)
      /\ None \notin Ids(l)
      /\ \A id \in Ids(l) : l.executions[id] \in Execution /\ IsHuman(l, id) \in BOOLEAN
      /\ l.loopYielded \in BOOLEAN
      /\ Range(l.queue) \subseteq Ids(l)
      /\ l.running \in Nat /\ None \in Nat
  BY Parts DEF Ledger, None
<1>2. /\ q \in Seq(Nat) /\ Len(q) <= Len(l.queue) /\ Len(q) \in Nat /\ Len(l.queue) \in Nat
      /\ Range(q) = Range(l.queue) \ ids /\ IsInjective(q)
  <2>1. IsInjective(l.queue)
    BY DEF Good, Sound
  <2> QED BY <1>1, <2>1, WithoutIs
<1>3. /\ x \in Seq(Execution) /\ Len(x) = Len(l.executions) /\ DOMAIN x = Ids(l)
      /\ \A id \in Ids(l) : x[id].status = IF id \in ids THEN "ended" ELSE l.executions[id].status
  <2>1. DOMAIN l.executions = Ids(l)
    BY DEF Ids
  <2>2. \A id \in Ids(l) : l.executions[id].status \in {"queued", "running", "ended"}
    BY <1>1 DEF Execution
  <2>3. x \in [Ids(l) -> Execution]
    BY <1>1, <2>1, <2>2 DEF Closed, Execution
  <2>4. \A id \in Ids(l) : x[id].status = IF id \in ids THEN "ended" ELSE l.executions[id].status
    BY <2>1 DEF Closed
  <2> HIDE DEF x
  <2>5. x \in Seq(Execution) /\ Len(x) = Len(l.executions)
    <3> DEFINE n == Len(l.executions)
    <3>1. n \in Nat /\ x \in [1..n -> Execution]
      BY <1>1, <2>3
    <3> HIDE DEF n
    <3>2. x \in Seq(Execution) /\ Len(x) = n
      BY <3>1
    <3> QED BY <3>2 DEF n
  <2> QED BY <2>3, <2>4, <2>5
<1>4. y \in BOOLEAN /\ r \in Nat
  BY <1>1
<1>5. m = [l EXCEPT !.executions = x, !.queue = q, !.running = r, !.loopYielded = y]
  BY DEF EndAll
<1> HIDE DEF m, x, q, y
<1>6. m \in Ledger /\ m.executions = x /\ m.queue = q /\ m.running = r /\ m.loopYielded = y
  <2> HIDE DEF r
  <2> QED BY <1>1, <1>2, <1>3, <1>4, <1>5 DEF Ledger
<1>7. Ids(m) = Ids(l)
  BY <1>3, <1>6 DEF Ids
<1>8. Typed(m)
  BY <1>1, <1>2, <1>3, <1>6, <1>7, MachineAssumption DEF Good, Typed
<1>9. Sound(m)
  <2>1. \A id \in Ids(l) : /\ id \in Range(l.queue) <=> l.executions[id].status = "queued"
                           /\ id = l.running <=> l.executions[id].status = "running"
    BY DEF Good, Sound
  <2>2. ASSUME NEW id \in Ids(l)
        PROVE  /\ id \in Range(q) <=> x[id].status = "queued"
               /\ id = r <=> x[id].status = "running"
    <3>1. CASE id \in ids
      BY <1>1, <1>2, <1>3, <3>1
    <3>2. CASE id \notin ids
      BY <1>1, <1>2, <1>3, <2>1, <3>2
    <3> QED BY <3>1, <3>2
  <2>3. Range(q) \subseteq Ids(m)
    BY <1>1, <1>2, <1>7
  <2> HIDE DEF r
  <2> QED BY <1>2, <1>6, <1>7, <2>2, <2>3 DEF Sound
<1>10. Ending(l, m)
  <2>1. l.running # None /\ IsHuman(l, l.running) /\ r = None => y
    BY DEF y
  <2>2. l.loopYielded => y
    BY DEF y
  <2> QED BY <1>6, <2>1, <2>2 DEF Ending
<1> QED BY <1>8, <1>9, <1>10 DEF Good, m

\* A ledger with the same executions, which yields and runs as before.
LEMMA EndingBeside ==
    ASSUME NEW l, Good(l), NEW k, k.executions = l.executions, k.running = l.running,
           k.loopYielded = l.loopYielded
    PROVE  /\ Ending(l, k)
           /\ \A m : Ending(k, m) => Ending(l, m)
BY DEF Ending, IsHuman

LEMMA EndGood ==
    ASSUME NEW l, Good(l), NEW id, NEW how
    PROVE  Good(End(l, id, how)) /\ Ending(l, End(l, id, how))
<1> DEFINE e == EndAll(l, {id})
           b == e.held \/ (how = "failed" /\ ~IsHuman(l, id))
           m == [e EXCEPT !.held = b]
<1>1. Good(e) /\ Ending(l, e)
  BY EndAllGood
<1>2. End(l, id, how) = m
  BY DEF End
<1>3. b \in BOOLEAN
  OBVIOUS
<1> HIDE DEF e, b
<1>4. e \in Ledger
  BY <1>1, Parts
<1>5. /\ m \in Ledger /\ m.executions = e.executions /\ m.queue = e.queue
      /\ m.running = e.running /\ m.loopYielded = e.loopYielded
  BY <1>3, <1>4 DEF Ledger
<1> HIDE DEF m
<1>6. Good(m)
  BY <1>1, <1>5, SameQueue
<1>7. Ending(l, m)
  BY <1>1, <1>5 DEF Ending
<1> QED BY <1>2, <1>6, <1>7

LEMMA CancelGood ==
    ASSUME NEW l, Good(l), NEW ids
    PROVE  Good(Cancel(l, ids)) /\ Ending(l, Cancel(l, ids))
BY EndAllGood DEF Cancel

LEMMA FinishGood ==
    ASSUME NEW l, Good(l), NEW id, NEW followUp
    PROVE  Good(Finish(l, id, followUp)) /\
           \E m : Good(m) /\ Ending(l, m) /\ Onward(m, Finish(l, id, followUp))
<1> DEFINE m == End(l, id, "done")
<1>1. Good(m) /\ Ending(l, m)
  BY EndGood
<1>2. Finish(l, id, followUp) = m \/ Finish(l, id, followUp) = Enqueue(m, FALSE)
  BY DEF Finish
<1> HIDE DEF m
<1>3. Onward(m, m)
  BY DEF Onward
<1>4. Good(Enqueue(m, FALSE)) /\ Onward(m, Enqueue(m, FALSE))
  BY <1>1, EnqueueGood
<1> QED BY <1>1, <1>2, <1>3, <1>4

LEMMA ForgetGood ==
    ASSUME NEW l, Good(l), NEW gone
    PROVE  Good(Forget(l, gone)) /\ Onward(l, Forget(l, gone))
<1> DEFINE r == [l EXCEPT !.pausedBy = Nobody]
           a == IF l.pausedBy \in gone THEN Advance(r) ELSE l
           m == [a EXCEPT !.observers = a.observers \ gone]
<1>1. Forget(l, gone) = m
  BY DEF Forget
<1>2. /\ r \in Ledger /\ r.executions = l.executions /\ r.queue = l.queue
      /\ r.running = l.running /\ r.quiet = l.quiet /\ r.loopStopped = l.loopStopped
      /\ r.held = l.held /\ r.loopYielded = l.loopYielded
  <2>1. l \in Ledger
    BY Parts
  <2> QED BY <2>1 DEF Ledger
<1> HIDE DEF r
<1>3. Good(r) /\ Onward(l, r)
  BY <1>2, SameQueue, OnwardBeside
<1>4. Good(Advance(r)) /\ Onward(l, Advance(r))
  BY <1>3, AdvanceGood, OnwardAgain
<1>5. Good(a) /\ Onward(l, a)
  BY <1>4 DEF Onward
<1> HIDE DEF a
<1>6. /\ m \in Ledger /\ m.executions = a.executions /\ m.queue = a.queue
      /\ m.running = a.running /\ m.quiet = a.quiet /\ m.loopStopped = a.loopStopped
      /\ m.held = a.held /\ m.loopYielded = a.loopYielded
  <2>1. a \in Ledger /\ a.observers \ gone \in SUBSET Observers
    BY <1>5, Parts
  <2> QED BY <2>1 DEF Ledger
<1> HIDE DEF m
<1>7. Good(m) /\ Onward(a, m)
  BY <1>5, <1>6, SameQueue, OnwardBeside
<1> QED BY <1>1, <1>5, <1>7, OnwardAgain

LEMMA LaunchHumanGood ==
    ASSUME NEW l, Good(l)
    PROVE  Good(LaunchHuman(l)) /\ Onward(l, LaunchHuman(l))
<1>1. CASE Refused(l)
  BY <1>1 DEF LaunchHuman, Onward
<1>2. CASE ~Refused(l)
  <2> DEFINE m == Enqueue(l, TRUE)
  <2>1. Good(m) /\ Onward(l, m)
    BY EnqueueGood
  <2>2. LaunchHuman(l) = Advance(m)
    BY <1>2 DEF LaunchHuman
  <2> HIDE DEF m
  <2>3. Good(Advance(m)) /\ Onward(m, Advance(m))
    BY <2>1, AdvanceGood
  <2> QED BY <2>1, <2>2, <2>3, OnwardAgain
<1> QED BY <1>1, <1>2
-----------------------------------------------------------------------------
(* The actions. *)

\* Every handler ends something first, or is Start, and then goes onward.
Handled ==
    /\ Good(ledger')
    /\ \E m : /\ Good(m) /\ Onward(m, ledger')
              /\ Ending(ledger, m) \/ (StartLoop /\ m.running = ledger.running)

\* A handler that goes onward from where it has ended what it ends.
LEMMA HandledFrom ==
    ASSUME Good(ledger), NEW m, Good(m), Ending(ledger, m), Good(ledger'), Onward(m, ledger')
    PROVE  Handled
BY DEF Handled

\* A handler that ends nothing changes flags, and then goes onward.
LEMMA HandledBeside ==
    ASSUME Good(ledger), NEW m \in Ledger,
           m.executions = ledger.executions, m.queue = ledger.queue, m.running = ledger.running,
           m.loopYielded = ledger.loopYielded,
           ledger' = m \/ ledger' = Advance(m)
    PROVE  Handled
<1>1. Good(m) /\ Ending(ledger, m)
  BY SameQueue, EndingBeside
<1>2. Good(ledger') /\ Onward(m, ledger')
  <2>1. CASE ledger' = m
    BY <1>1, <2>1 DEF Onward
  <2>2. CASE ledger' = Advance(m)
    BY <1>1, <2>2, AdvanceGood
  <2> QED BY <2>1, <2>2
<1> QED BY <1>1, <1>2, HandledFrom

\* Somebody touched the page.
LEMMA TouchedGood ==
    ASSUME Good(ledger)
    PROVE  /\ Touched \in Ledger /\ Good(Touched)
           /\ Touched.executions = ledger.executions /\ Touched.queue = ledger.queue
           /\ Touched.running = ledger.running /\ Touched.loopYielded = ledger.loopYielded
           /\ Touched.observers = ledger.observers
           /\ \A m : Ending(Touched, m) => Ending(ledger, m)
<1>1. ledger \in Ledger
  BY Parts
<1>2. /\ Touched \in Ledger
      /\ Touched.executions = ledger.executions /\ Touched.queue = ledger.queue
      /\ Touched.running = ledger.running /\ Touched.loopYielded = ledger.loopYielded
      /\ Touched.observers = ledger.observers
  BY <1>1 DEF Touched, Ledger
<1> QED BY <1>2, SameQueue, EndingBeside

\* Observers come, hold the machine and let go of it; time passes; a successor
\* adopts.
LEMMA FlagsHandled ==
    ASSUME Good(ledger),
           \/ \E o \in Observers : Subscribe(o) \/ Pause(o)
           \/ Touch \/ Resume \/ BecomeQuiet \/ BackoffOver \/ Adopt
    PROVE  Handled
<1>1. /\ Touched \in Ledger /\ ledger \in Ledger
      /\ Touched.executions = ledger.executions /\ Touched.queue = ledger.queue
      /\ Touched.running = ledger.running /\ Touched.loopYielded = ledger.loopYielded
  BY TouchedGood, Parts
<1> USE DEF Ledger
<1>2. ASSUME NEW o \in Observers, Subscribe(o) PROVE Handled
  <2> DEFINE m == [Touched EXCEPT !.observers = Touched.observers \cup {o}]
  <2>1. /\ m \in Ledger /\ m.executions = ledger.executions /\ m.queue = ledger.queue
        /\ m.running = ledger.running /\ m.loopYielded = ledger.loopYielded
    BY <1>1
  <2>2. ledger' = Advance(m)
    BY <1>2 DEF Subscribe
  <2> QED BY <2>1, <2>2, HandledBeside
<1>3. ASSUME NEW o \in Observers, Pause(o) PROVE Handled
  <2> DEFINE m == [Touched EXCEPT !.pausedBy = o]
  <2>1. /\ m \in Ledger /\ m.executions = ledger.executions /\ m.queue = ledger.queue
        /\ m.running = ledger.running /\ m.loopYielded = ledger.loopYielded
    BY <1>1
  <2>2. ledger' = m
    BY <1>3 DEF Pause
  <2> QED BY <2>1, <2>2, HandledBeside
<1>4. ASSUME Touch PROVE Handled
  BY <1>1, <1>4, HandledBeside DEF Touch
<1>5. ASSUME Resume PROVE Handled
  <2> DEFINE m == [Touched EXCEPT !.pausedBy = Nobody]
  <2>1. /\ m \in Ledger /\ m.executions = ledger.executions /\ m.queue = ledger.queue
        /\ m.running = ledger.running /\ m.loopYielded = ledger.loopYielded
    BY <1>1
  <2>2. ledger' = Advance(m)
    BY <1>5 DEF Resume
  <2> QED BY <2>1, <2>2, HandledBeside
<1>6. ASSUME BecomeQuiet \/ BackoffOver \/ Adopt PROVE Handled
  <2> DEFINE q == [ledger EXCEPT !.quiet = TRUE]
             b == [ledger EXCEPT !.held = FALSE]
             a == [ledger EXCEPT !.observers = {}, !.pausedBy = Nobody]
  <2>1. \A m \in {q, b, a} :
           /\ m \in Ledger /\ m.executions = ledger.executions /\ m.queue = ledger.queue
           /\ m.running = ledger.running /\ m.loopYielded = ledger.loopYielded
    BY <1>1
  <2>2. ledger' \in {q, b, a}
    BY <1>6 DEF BecomeQuiet, BackoffOver, Adopt
  <2> HIDE DEF q, b, a
  <2> QED BY <2>1, <2>2, HandledBeside
<1> QED BY <1>2, <1>3, <1>4, <1>5, <1>6

\* Observers go, and the process ticks.
LEMMA ForgetHandled ==
    ASSUME Good(ledger),
           \/ \E o \in Observers : Leave(o)
           \/ \E silent \in SUBSET ledger.observers, awake \in BOOLEAN : Tick(silent, awake)
    PROVE  Handled
<1>1. Ending(ledger, ledger)
  BY EndingBeside
<1>2. ASSUME NEW o \in Observers, Leave(o) PROVE Handled
  <2>1. ledger' = Forget(ledger, {o})
    BY <1>2 DEF Leave
  <2>2. Good(ledger') /\ Onward(ledger, ledger')
    BY <2>1, ForgetGood
  <2> QED BY <1>1, <2>2, HandledFrom
<1>3. ASSUME NEW silent \in SUBSET ledger.observers, NEW awake \in BOOLEAN, Tick(silent, awake)
      PROVE  Handled
  <2> DEFINE l == Forget(ledger, silent)
             m == [l EXCEPT !.awake = awake]
  <2>1. Good(l) /\ Onward(ledger, l)
    BY ForgetGood
  <2>2. ledger' = Advance(m)
    BY <1>3 DEF Tick
  <2> HIDE DEF l
  <2>3. /\ m \in Ledger /\ m.executions = l.executions /\ m.queue = l.queue
        /\ m.running = l.running /\ m.quiet = l.quiet /\ m.loopStopped = l.loopStopped
        /\ m.held = l.held /\ m.loopYielded = l.loopYielded
    <3>1. l \in Ledger
      BY <2>1, Parts
    <3> QED BY <3>1 DEF Ledger
  <2> HIDE DEF m
  <2>4. Good(m) /\ Onward(l, m)
    BY <2>1, <2>3, SameQueue, OnwardBeside
  <2>5. Good(ledger') /\ Onward(m, ledger')
    BY <2>2, <2>4, AdvanceGood
  <2>6. Onward(ledger, m)
    BY <2>1, <2>4, OnwardAgain
  <2>7. Onward(ledger, ledger')
    BY <2>4, <2>5, <2>6, OnwardAgain
  <2> QED BY <1>1, <2>5, <2>7, HandledFrom
<1> QED BY <1>2, <1>3

\* A person launches.
LEMMA LaunchHandled ==
    ASSUME Good(ledger), Launch \/ LaunchUploaded PROVE Handled
<1>1. ASSUME Launch PROVE Handled
  <2>1. Good(Touched) /\ Ending(ledger, Touched)
    BY TouchedGood, EndingBeside
  <2>2. Good(ledger') /\ Onward(Touched, ledger')
    BY <1>1, <2>1, LaunchHumanGood DEF Launch
  <2> QED BY <2>1, <2>2, HandledFrom
<1>2. ASSUME LaunchUploaded PROVE Handled
  <2> DEFINE m == Advance(ledger)
  <2>1. Good(m) /\ Onward(ledger, m) /\ Ending(ledger, ledger)
    BY AdvanceGood, EndingBeside
  <2>2. ledger' = LaunchHuman(m)
    BY <1>2 DEF LaunchUploaded
  <2> HIDE DEF m
  <2>3. Good(ledger') /\ Onward(m, ledger')
    BY <2>1, <2>2, LaunchHumanGood
  <2>4. Onward(ledger, ledger')
    BY <2>1, <2>3, OnwardAgain
  <2> QED BY <2>1, <2>3, <2>4, HandledFrom
<1> QED BY <1>1, <1>2

\* What is cancelled ends, and the next starts.
LEMMA CancelHandled ==
    ASSUME Good(ledger), NEW l, Good(l), \A m : Ending(l, m) => Ending(ledger, m),
           NEW ids, ledger' = Advance(Cancel(l, ids))
    PROVE  Handled
<1> DEFINE m == Cancel(l, ids)
<1>1. Good(m) /\ Ending(ledger, m)
  BY CancelGood
<1> HIDE DEF m
<1>2. Good(Advance(m)) /\ Onward(m, Advance(m))
  BY <1>1, AdvanceGood
<1> QED BY <1>1, <1>2, HandledFrom DEF m

LEMMA EndsHandled ==
    ASSUME Good(ledger), Skip \/ Stop \/ \E id : Kill(id) PROVE Handled
<1>1. Good(Touched) /\ \A m : Ending(Touched, m) => Ending(ledger, m)
  BY TouchedGood
<1>2. ASSUME Skip \/ \E id : Kill(id) PROVE Handled
  <2>1. PICK ids : ledger' = Advance(Cancel(Touched, ids))
    BY <1>2 DEF Skip, Kill
  <2> QED BY <1>1, <2>1, CancelHandled
<1>3. ASSUME Stop PROVE Handled
  <2> DEFINE l == [Touched EXCEPT !.loopStopped = TRUE]
  <2>1. PICK ids : ledger' = Advance(Cancel(l, ids))
    BY <1>3 DEF Stop
  <2>2. /\ l \in Ledger /\ l.executions = Touched.executions /\ l.queue = Touched.queue
        /\ l.running = Touched.running /\ l.loopYielded = Touched.loopYielded
    <3>1. Touched \in Ledger
      BY TouchedGood
    <3> QED BY <3>1 DEF Ledger
  <2> HIDE DEF l
  <2>3. Good(l) /\ \A m : Ending(l, m) => Ending(Touched, m)
    BY <1>1, <2>2, SameQueue, EndingBeside
  <2> QED BY <1>1, <2>1, <2>3, CancelHandled
<1> QED BY <1>2, <1>3

\* A relaunch goes on from where its execution ended.
LEMMA RestartHandled ==
    ASSUME Good(ledger), Restart PROVE Handled
<1>1. Good(Touched) /\ \A m : Ending(Touched, m) => Ending(ledger, m)
  BY TouchedGood
<1> DEFINE l == Cancel(Touched, {ledger.running})
           human == IsHuman(l, ledger.running)
           r == Enqueue(l, human)
           f == IF Refused(l) THEN l ELSE ToFront(r, Len(r.executions))
<1>2. ledger' = Advance(f) /\ ledger.running # None
  BY DEF Restart
<1>3. Good(l) /\ Ending(ledger, l)
  BY <1>1, CancelGood
<1>4. human \in BOOLEAN
  <2>1. IsHuman(l, ledger.running) = IsHuman(ledger, ledger.running)
    <3>1. ledger.running \in DOMAIN Touched.executions
      BY <1>2, TouchedGood DEF Good, Typed, Ids
    <3> QED BY <3>1, TouchedGood DEF Cancel, EndAll, Closed, IsHuman
  <2>2. ledger.running \in Ids(ledger)
    BY <1>2 DEF Good, Typed
  <2> QED BY <2>1, <2>2, Parts
<1> HIDE DEF l, human
<1>5. Good(r) /\ Onward(l, r)
  BY <1>3, <1>4, EnqueueGood
<1> HIDE DEF r
<1>6. Good(f) /\ Onward(l, f)
  <2>1. Onward(l, l)
    BY DEF Onward
  <2>2. Good(ToFront(r, Len(r.executions))) /\ Onward(r, ToFront(r, Len(r.executions)))
    BY <1>5, ToFrontGood
  <2>3. Onward(l, ToFront(r, Len(r.executions)))
    BY <1>3, <1>5, <2>2, OnwardAgain
  <2> QED BY <1>3, <2>1, <2>2, <2>3
<1> HIDE DEF f
<1>7. Good(Advance(f)) /\ Onward(f, Advance(f))
  BY <1>6, AdvanceGood
<1>8. Onward(l, Advance(f))
  BY <1>3, <1>6, <1>7, OnwardAgain
<1> QED BY <1>2, <1>3, <1>7, <1>8, HandledFrom

\* The running execution finishes, maybe with a follow-up, or fails.
LEMMA RunEndsHandled ==
    ASSUME Good(ledger), RunEnds PROVE Handled
<1>1. CASE \E followUp \in BOOLEAN : ledger' = Advance(Finish(ledger, ledger.running, followUp))
  <2>1. PICK followUp : ledger' = Advance(Finish(ledger, ledger.running, followUp))
    BY <1>1
  <2> DEFINE f == Finish(ledger, ledger.running, followUp)
  <2>2. Good(f) /\ \E m : Good(m) /\ Ending(ledger, m) /\ Onward(m, f)
    BY FinishGood
  <2> HIDE DEF f
  <2>3. PICK m : Good(m) /\ Ending(ledger, m) /\ Onward(m, f)
    BY <2>2
  <2>4. Good(Advance(f)) /\ Onward(f, Advance(f))
    BY <2>2, AdvanceGood
  <2>5. Onward(m, Advance(f))
    BY <2>2, <2>3, <2>4, OnwardAgain
  <2> QED BY <2>1, <2>3, <2>4, <2>5, HandledFrom DEF f
<1>2. CASE ledger' = Advance(End(ledger, ledger.running, "failed"))
  <2> DEFINE m == End(ledger, ledger.running, "failed")
  <2>1. Good(m) /\ Ending(ledger, m)
    BY EndGood
  <2> HIDE DEF m
  <2>2. Good(Advance(m)) /\ Onward(m, Advance(m))
    BY <2>1, AdvanceGood
  <2> QED BY <1>2, <2>1, <2>2, HandledFrom DEF m
<1> QED BY <1>1, <1>2 DEF RunEnds

\* Start lets the loop run at once.
LEMMA StartHandled ==
    ASSUME Good(ledger), StartLoop PROVE Handled
<1> DEFINE m == [Touched EXCEPT !.loopStopped = FALSE, !.loopYielded = FALSE, !.held = FALSE]
<1>1. ledger' = Advance(m)
  BY DEF StartLoop
<1>2. /\ m \in Ledger /\ m.executions = ledger.executions /\ m.queue = ledger.queue
      /\ m.running = ledger.running
  BY TouchedGood DEF Ledger
<1> HIDE DEF m
<1>3. Good(m)
  BY <1>2, SameQueue
<1>4. Good(ledger') /\ Onward(m, ledger')
  BY <1>1, <1>3, AdvanceGood
<1> QED BY <1>2, <1>3, <1>4 DEF Handled
-----------------------------------------------------------------------------
(* The theorems. *)

LEMMA NextHandled ==
    ASSUME Good(ledger), Next PROVE Handled
<1>1. ASSUME \E o \in Observers : Subscribe(o) \/ Pause(o) PROVE Handled
  BY <1>1, FlagsHandled
<1>2. ASSUME \/ \E o \in Observers : Leave(o)
             \/ \E silent \in SUBSET ledger.observers, awake \in BOOLEAN : Tick(silent, awake)
      PROVE  Handled
  BY <1>2, ForgetHandled
<1>3. ASSUME Launch \/ LaunchUploaded PROVE Handled
  BY <1>3, LaunchHandled
<1>4. ASSUME Touch \/ Resume \/ BecomeQuiet \/ BackoffOver \/ Adopt PROVE Handled
  BY <1>4, FlagsHandled
<1>5. ASSUME Skip \/ Stop \/ \E id : Kill(id) PROVE Handled
  BY <1>5, EndsHandled
<1> QED BY <1>1, <1>2, <1>3, <1>4, <1>5, RestartHandled, RunEndsHandled, StartHandled DEF Next

\* Typed and Sound are what the runs check.
LEMMA GoodIs == Good(ledger) <=> TypeOK /\ QueueSound
BY DEF Good, Typed, TypeOK, QueueSound

LEMMA InitGood ==
    ASSUME Init PROVE Good(ledger)
<1>1. ledger \in Ledger
  BY DEF Init, Ledger, None
<1>2. ledger.executions = <<>> /\ ledger.queue = <<>> /\ ledger.running = None
  BY DEF Init
<1>3. Ids(ledger) = {} /\ IsInjective(<<>>) /\ Range(<<>>) = {} /\ Len(<<>>) = 0
  BY <1>2 DEF Ids, IsInjective, Range
<1>4. Typed(ledger)
  BY <1>1, <1>2, <1>3, MachineAssumption DEF Typed
<1>5. Sound(ledger)
  BY <1>2, <1>3 DEF Sound
<1> QED BY <1>4, <1>5 DEF Good

LEMMA GoodAlways == Spec => []Good(ledger)
<1>1. Init => Good(ledger)
  BY InitGood
<1>2. Good(ledger) /\ [Next]_ledger => Good(ledger)'
  BY NextHandled DEF Handled, Good, Typed, Sound, Ids
<1> QED BY <1>1, <1>2, PTL DEF Spec

(* A ledger has its types: never more queued than the cap, never more      *)
(* executions than were launched, and what runs was launched.              *)
THEOREM MachineTypes == Spec => []TypeOK
<1>1. Good(ledger) => TypeOK
  BY GoodIs
<1> QED BY <1>1, GoodAlways, PTL

(* Whatever people and the loop launch, restart, kill, stop or leave, the  *)
(* queue holds each queued execution exactly once and nothing that ended,  *)
(* and the one that runs is the only one that does.                        *)
THEOREM QueueHoldsTheQueued == Spec => []QueueSound
<1>1. Good(ledger) => QueueSound
  BY GoodIs
<1> QED BY <1>1, GoodAlways, PTL

(* No handler, however long its chain of ends, launches and starts, starts *)
(* an automatic execution while people have stopped the loop, while it     *)
(* backs off, or while it has yielded to somebody who is still there.      *)
THEOREM TheLoopKeepsOut == Spec => LoopKeepsOut
<1>1. ASSUME Good(ledger), Next PROVE KeepsOut
  <2> SUFFICES ASSUME NEW id \in 1..MaxExecutions, Starts(id), ~IsHuman(ledger', id)
               PROVE  /\ ~ledger'.loopStopped /\ ~ledger'.held /\ ~ledger'.loopYielded
                      /\ \/ ledger.loopYielded
                         \/ ledger.running # None /\ IsHuman(ledger, ledger.running)
                         => ledger'.quiet \/ StartLoop
    BY DEF KeepsOut
  <2>1. PICK m : /\ Good(m) /\ Onward(m, ledger')
                 /\ Ending(ledger, m) \/ (StartLoop /\ m.running = ledger.running)
    BY <1>1, NextHandled DEF Handled
  <2>2. ledger'.running = id /\ ledger.running # id /\ id # None
    BY DEF Starts, None
  <2>3. m.running \in {ledger.running, None}
    BY <2>1 DEF Ending
  <2>4. m.running = None
    BY <2>1, <2>2, <2>3 DEF Onward
  <2>5. ~Shut(m) /\ ~m.held /\ ~ledger'.loopYielded
    BY <2>1, <2>2, <2>4 DEF Onward
  <2>6. ~ledger'.loopStopped /\ ~ledger'.held
    BY <2>1, <2>5 DEF Onward, Shut
  <2>7. ASSUME ledger.loopYielded \/ (ledger.running # None /\ IsHuman(ledger, ledger.running)),
               ~StartLoop
        PROVE  ledger'.quiet
    <3>1. m.loopYielded
      BY <2>1, <2>4, <2>7 DEF Ending
    <3>2. m.quiet /\ ledger'.quiet = m.quiet
      BY <2>1, <2>5, <3>1 DEF Shut, Onward
    <3> QED BY <3>2
  <2> QED BY <2>5, <2>6, <2>7
<1>2. Good(ledger) /\ [Next]_ledger => [KeepsOut]_ledger
  BY <1>1
<1> QED BY <1>2, GoodAlways, PTL DEF Spec, LoopKeepsOut
-----------------------------------------------------------------------------
(* The page.  Lists whose elements have an identity come first. *)
LEMMA OnceNone == ASSUME NEW f PROVE Once(<<>>, f) /\ Of(<<>>, f) = {}
BY DEF Once, Of, ToSet

LEMMA Joined ==
    ASSUME NEW T, NEW s \in Seq(T), NEW t \in Seq(T)
    PROVE  /\ s \o t \in Seq(T)
           /\ ToSet(s \o t) = ToSet(s) \cup ToSet(t)
<1> DEFINE u == s \o t
<1>1. /\ u \in Seq(T) /\ Len(u) = Len(s) + Len(t) /\ Len(s) \in Nat /\ Len(t) \in Nat
      /\ DOMAIN u = 1..Len(s) + Len(t) /\ DOMAIN s = 1..Len(s) /\ DOMAIN t = 1..Len(t)
      /\ \A i \in DOMAIN s : u[i] = s[i]
      /\ \A i \in DOMAIN t : u[Len(s) + i] = t[i]
  OBVIOUS
<1> HIDE DEF u
<1>2. \A i \in DOMAIN u : i \in DOMAIN s \/ (i - Len(s) \in DOMAIN t /\ i = Len(s) + (i - Len(s)))
  BY <1>1
<1>3. ToSet(u) = ToSet(s) \cup ToSet(t)
  <2>1. \A e \in ToSet(u) : e \in ToSet(s) \cup ToSet(t)
    BY <1>1, <1>2 DEF ToSet
  <2>2. ToSet(s) \subseteq ToSet(u)
    BY <1>1 DEF ToSet
  <2>3. ToSet(t) \subseteq ToSet(u)
    <3> SUFFICES ASSUME NEW i \in DOMAIN t PROVE t[i] \in ToSet(u)
      BY DEF ToSet
    <3>1. Len(s) + i \in DOMAIN u /\ u[Len(s) + i] = t[i]
      BY <1>1
    <3> QED BY <3>1 DEF ToSet
  <2> QED BY <2>1, <2>2, <2>3
<1> QED BY <1>1, <1>3 DEF u

\* Lists that share no identity, one after the other.
LEMMA OnceJoins ==
    ASSUME NEW T, NEW N, NEW f \in [T -> N], NEW s \in Seq(T), NEW t \in Seq(T)
    PROVE  /\ s \o t \in Seq(T)
           /\ ToSet(s \o t) = ToSet(s) \cup ToSet(t)
           /\ Of(s \o t, f) = Of(s, f) \cup Of(t, f)
           /\ Once(s, f) /\ Once(t, f) /\ Of(s, f) \cap Of(t, f) = {} => Once(s \o t, f)
<1> DEFINE u == s \o t
<1>1. /\ u \in Seq(T) /\ Len(u) = Len(s) + Len(t) /\ Len(s) \in Nat /\ Len(t) \in Nat
      /\ DOMAIN u = 1..Len(s) + Len(t) /\ DOMAIN s = 1..Len(s) /\ DOMAIN t = 1..Len(t)
      /\ \A i \in DOMAIN s : u[i] = s[i]
      /\ \A i \in DOMAIN t : u[Len(s) + i] = t[i]
  OBVIOUS
<1> HIDE DEF u
<1>2. \A i \in DOMAIN u : i \in DOMAIN s \/ (i - Len(s) \in DOMAIN t /\ i = Len(s) + (i - Len(s)))
  BY <1>1
<1>3. ToSet(u) = ToSet(s) \cup ToSet(t)
  BY Joined DEF u
<1>4. Of(u, f) = Of(s, f) \cup Of(t, f)
  BY <1>3 DEF Of
<1>5. ASSUME Once(s, f), Once(t, f), Of(s, f) \cap Of(t, f) = {}
      PROVE  Once(u, f)
  <2> SUFFICES ASSUME NEW i \in DOMAIN u, NEW j \in DOMAIN u, f[u[i]] = f[u[j]] PROVE i = j
    BY DEF Once
  <2>1. CASE i \in DOMAIN s /\ j \in DOMAIN s
    BY <1>1, <1>5, <2>1 DEF Once
  <2>2. CASE i - Len(s) \in DOMAIN t /\ j - Len(s) \in DOMAIN t
    <3>1. i = Len(s) + (i - Len(s)) /\ j = Len(s) + (j - Len(s))
      BY <1>1
    <3>2. u[i] = t[i - Len(s)] /\ u[j] = t[j - Len(s)]
      BY <1>1, <2>2, <3>1
    <3>3. i - Len(s) = j - Len(s)
      BY <1>5, <2>2, <3>2 DEF Once
    <3> QED BY <3>1, <3>3
  <2>3. CASE i \in DOMAIN s /\ j - Len(s) \in DOMAIN t
    <3>1. f[s[i]] = f[t[j - Len(s)]]
      BY <1>1, <2>3
    <3> QED BY <1>5, <2>3, <3>1 DEF Of, ToSet
  <2>4. CASE j \in DOMAIN s /\ i - Len(s) \in DOMAIN t
    <3>1. f[s[j]] = f[t[i - Len(s)]]
      BY <1>1, <2>4
    <3> QED BY <1>5, <2>4, <3>1 DEF Of, ToSet
  <2> QED BY <1>2, <2>1, <2>2, <2>3, <2>4
<1> QED BY <1>1, <1>3, <1>4, <1>5 DEF u

\* A list with an element more.
LEMMA OnceAppends ==
    ASSUME NEW T, NEW N, NEW f \in [T -> N], NEW s \in Seq(T), NEW e \in T
    PROVE  /\ Append(s, e) \in Seq(T)
           /\ ToSet(Append(s, e)) = ToSet(s) \cup {e}
           /\ Of(Append(s, e), f) = Of(s, f) \cup {f[e]}
           /\ Once(s, f) /\ f[e] \notin Of(s, f) => Once(Append(s, e), f)
<1> DEFINE a == Append(s, e)
           n == Len(s) + 1
<1>1. /\ a \in Seq(T) /\ DOMAIN a = 1..n /\ DOMAIN s = 1..Len(s) /\ Len(s) \in Nat
      /\ \A i \in DOMAIN s : a[i] = s[i]
      /\ a[n] = e
  BY AppendIs
<1> HIDE DEF a
<1>2. \A i \in DOMAIN a : i \in DOMAIN s \/ i = n
  BY <1>1
<1>3. n \in DOMAIN a /\ n \notin DOMAIN s /\ DOMAIN s \subseteq DOMAIN a
  BY <1>1
<1> HIDE DEF n
<1>4. ToSet(a) = ToSet(s) \cup {e}
  <2>1. ToSet(a) \subseteq ToSet(s) \cup {e}
    BY <1>1, <1>2 DEF ToSet
  <2>2. ToSet(s) \subseteq ToSet(a)
    BY <1>1, <1>3 DEF ToSet
  <2>3. e \in ToSet(a)
    BY <1>1, <1>3 DEF ToSet
  <2> QED BY <2>1, <2>2, <2>3
<1>5. Of(a, f) = Of(s, f) \cup {f[e]}
  BY <1>4 DEF Of
<1>6. ASSUME Once(s, f), f[e] \notin Of(s, f) PROVE Once(a, f)
  <2>1. \A i \in DOMAIN s : f[s[i]] # f[e]
    BY <1>6 DEF Of, ToSet
  <2>2. ASSUME NEW i \in DOMAIN a, NEW j \in DOMAIN a, f[a[i]] = f[a[j]] PROVE i = j
    <3>1. CASE i \in DOMAIN s /\ j \in DOMAIN s
      BY <1>1, <1>6, <2>2, <3>1 DEF Once
    <3>2. CASE i = n \/ j = n
      BY <1>1, <1>2, <2>1, <2>2, <3>2
    <3> QED BY <1>2, <3>1, <3>2
  <2> QED BY <2>2 DEF Once
<1> QED BY <1>1, <1>4, <1>5, <1>6 DEF a

\* A list without its head.
LEMMA OnceTails ==
    ASSUME NEW T, NEW N, NEW f \in [T -> N], NEW s \in Seq(T), s # <<>>
    PROVE  /\ Head(s) \in T /\ Tail(s) \in Seq(T)
           /\ ToSet(s) = ToSet(Tail(s)) \cup {Head(s)}
           /\ Of(s, f) = Of(Tail(s), f) \cup {f[Head(s)]}
           /\ Once(s, f) => Once(Tail(s), f) /\ f[Head(s)] \notin Of(Tail(s), f)
<1> DEFINE t == Tail(s)
           h == Head(s)
<1>1. /\ t \in Seq(T) /\ Len(s) \in Nat /\ Len(s) > 0 /\ Len(t) = Len(s) - 1 /\ h \in T
      /\ h = s[1] /\ \A i \in DOMAIN t : t[i] = s[i + 1] /\ i + 1 \in DOMAIN s
      /\ DOMAIN s = 1..Len(s) /\ DOMAIN t = 1..Len(t)
  OBVIOUS
<1> HIDE DEF t, h
<1>2. \A i \in DOMAIN s : i = 1 \/ (i - 1 \in DOMAIN t /\ s[i] = t[i - 1])
  BY <1>1
<1>3. ToSet(s) = ToSet(t) \cup {h}
  <2>1. ToSet(s) \subseteq ToSet(t) \cup {h}
    BY <1>1, <1>2 DEF ToSet
  <2>2. ToSet(t) \subseteq ToSet(s)
    BY <1>1 DEF ToSet
  <2>3. h \in ToSet(s)
    BY <1>1 DEF ToSet
  <2> QED BY <2>1, <2>2, <2>3
<1>4. Of(s, f) = Of(t, f) \cup {f[h]}
  BY <1>3 DEF Of
<1>5. ASSUME Once(s, f) PROVE Once(t, f) /\ f[h] \notin Of(t, f)
  <2>1. ASSUME NEW i \in DOMAIN t, NEW j \in DOMAIN t, f[t[i]] = f[t[j]] PROVE i = j
    <3>1. i + 1 = j + 1
      BY <1>1, <1>5, <2>1 DEF Once
    <3> QED BY <1>1, <3>1
  <2>2. ASSUME NEW i \in DOMAIN t, f[t[i]] = f[h] PROVE FALSE
    <3>1. i + 1 = 1
      BY <1>1, <1>5, <2>2 DEF Once
    <3> QED BY <1>1, <3>1
  <2> QED BY <2>1, <2>2 DEF Once, Of, ToSet
<1> QED BY <1>1, <1>3, <1>4, <1>5 DEF t, h

\* A list without some of its elements.
LEMMA OnceWithout ==
    ASSUME NEW T, NEW N, NEW f \in [T -> N], NEW s \in Seq(T), NEW S
    PROVE  /\ Without(s, S) \in Seq(T)
           /\ ToSet(Without(s, S)) = ToSet(s) \ S
           /\ Of(Without(s, S), f) \subseteq Of(s, f)
           /\ Once(s, f) => Once(Without(s, S), f)
<1> DEFINE w == Without(s, S)
<1>1. /\ w \in Seq(T) /\ ToSet(w) = ToSet(s) \ S
      /\ IsInjective(s) => IsInjective(w)
  <2>1. \A t : Range(t) = ToSet(t)
    BY DEF Range, ToSet
  <2> QED BY <2>1, WithoutIs
<1> HIDE DEF w
<1>2. Of(w, f) \subseteq Of(s, f)
  BY <1>1 DEF Of
<1>3. ASSUME Once(s, f) PROVE Once(w, f)
  <2>1. IsInjective(s)
    BY <1>3 DEF Once, IsInjective
  <2> SUFFICES ASSUME NEW i \in DOMAIN w, NEW j \in DOMAIN w, f[w[i]] = f[w[j]] PROVE i = j
    BY DEF Once
  <2>2. w[i] \in ToSet(s) /\ w[j] \in ToSet(s)
    BY <1>1 DEF ToSet
  <2>3. w[i] = w[j]
    BY <1>3, <2>2 DEF Once, ToSet
  <2> QED BY <1>1, <2>1, <2>3 DEF IsInjective
<1> QED BY <1>1, <1>2, <1>3 DEF w

\* A list of other elements with the same identities.
LEMMA OnceMaps ==
    ASSUME NEW f, NEW h, NEW s, NEW m, DOMAIN m = DOMAIN s,
           \A i \in DOMAIN s : h[m[i]] = f[s[i]]
    PROVE  Of(m, h) = Of(s, f) /\ (Once(s, f) => Once(m, h))
<1>1. Of(m, h) \subseteq Of(s, f)
  <2> SUFFICES ASSUME NEW i \in DOMAIN m PROVE h[m[i]] \in Of(s, f)
    BY DEF Of, ToSet
  <2>1. i \in DOMAIN s /\ s[i] \in ToSet(s)
    BY DEF ToSet
  <2> QED BY <2>1 DEF Of
<1>2. Of(s, f) \subseteq Of(m, h)
  <2> SUFFICES ASSUME NEW i \in DOMAIN s PROVE f[s[i]] \in Of(m, h)
    BY DEF Of, ToSet
  <2>1. h[m[i]] = f[s[i]] /\ m[i] \in ToSet(m)
    BY DEF ToSet
  <2> QED BY <2>1 DEF Of
<1>3. Once(s, f) => Once(m, h)
  BY DEF Once
<1> QED BY <1>1, <1>2, <1>3
-----------------------------------------------------------------------------
(* What the client's methods keep. *)

\* The identities of clicks, held clicks and what was sent.
LEMMA IdsFit ==
    /\ ClickId \in [Clicks -> ClickIds] /\ HoldId \in [Holds -> ClickIds]
    /\ SentId \in [ClickIds -> ClickIds]
BY DEF ClickId, HoldId, SentId, Clicks, Holds

LEMMA IdsAre ==
    /\ \A o \in Clicks : ClickId[o] = o.id /\ Held(o) \in Holds /\ HoldId[Held(o)] = o.id
                          /\ Held(o).click = o /\ o.id \in ClickIds
    /\ \A h \in Holds : HoldId[h] = h.click.id /\ h.click \in Clicks
    /\ \A id \in ClickIds : SentId[id] = id
BY DEF ClickId, HoldId, SentId, Clicks, Holds, Held

\* The same of the clicks, the held clicks and what was sent.
LEMMA ClicksJoin ==
    ASSUME NEW s \in Seq(Clicks), NEW t \in Seq(Clicks)
    PROVE  /\ s \o t \in Seq(Clicks)
           /\ ToSet(s \o t) = ToSet(s) \cup ToSet(t)
           /\ Of(s \o t, ClickId) = Of(s, ClickId) \cup Of(t, ClickId)
           /\ Once(s, ClickId) /\ Once(t, ClickId) /\ Of(s, ClickId) \cap Of(t, ClickId) = {}
                => Once(s \o t, ClickId)
BY IdsFit, OnceJoins

LEMMA HoldsJoin ==
    ASSUME NEW s \in Seq(Holds), NEW t \in Seq(Holds)
    PROVE  /\ s \o t \in Seq(Holds)
           /\ ToSet(s \o t) = ToSet(s) \cup ToSet(t)
           /\ Of(s \o t, HoldId) = Of(s, HoldId) \cup Of(t, HoldId)
           /\ Once(s, HoldId) /\ Once(t, HoldId) /\ Of(s, HoldId) \cap Of(t, HoldId) = {}
                => Once(s \o t, HoldId)
BY IdsFit, OnceJoins

LEMMA SentJoin ==
    ASSUME NEW s \in Seq(ClickIds), NEW t \in Seq(ClickIds)
    PROVE  /\ s \o t \in Seq(ClickIds)
           /\ ToSet(s \o t) = ToSet(s) \cup ToSet(t)
           /\ Of(s \o t, SentId) = Of(s, SentId) \cup Of(t, SentId)
           /\ Once(s, SentId) /\ Once(t, SentId) /\ Of(s, SentId) \cap Of(t, SentId) = {}
                => Once(s \o t, SentId)
BY IdsFit, OnceJoins

LEMMA ClicksAppend ==
    ASSUME NEW s \in Seq(Clicks), NEW o \in Clicks
    PROVE  /\ Append(s, o) \in Seq(Clicks)
           /\ ToSet(Append(s, o)) = ToSet(s) \cup {o}
           /\ Of(Append(s, o), ClickId) = Of(s, ClickId) \cup {ClickId[o]}
           /\ Once(s, ClickId) /\ ClickId[o] \notin Of(s, ClickId)
                => Once(Append(s, o), ClickId)
BY IdsFit, OnceAppends

LEMMA HoldsAppend ==
    ASSUME NEW s \in Seq(Holds), NEW h \in Holds
    PROVE  /\ Append(s, h) \in Seq(Holds)
           /\ ToSet(Append(s, h)) = ToSet(s) \cup {h}
           /\ Of(Append(s, h), HoldId) = Of(s, HoldId) \cup {HoldId[h]}
           /\ Once(s, HoldId) /\ HoldId[h] \notin Of(s, HoldId)
                => Once(Append(s, h), HoldId)
BY IdsFit, OnceAppends

LEMMA ClicksTail ==
    ASSUME NEW s \in Seq(Clicks), s # <<>>
    PROVE  /\ Head(s) \in Clicks /\ Tail(s) \in Seq(Clicks)
           /\ ToSet(s) = ToSet(Tail(s)) \cup {Head(s)}
           /\ Of(s, ClickId) = Of(Tail(s), ClickId) \cup {ClickId[Head(s)]}
           /\ Once(s, ClickId) =>
                Once(Tail(s), ClickId) /\ ClickId[Head(s)] \notin Of(Tail(s), ClickId)
BY IdsFit, OnceTails

LEMMA HoldsWithout ==
    ASSUME NEW s \in Seq(Holds), NEW S
    PROVE  /\ Without(s, S) \in Seq(Holds)
           /\ ToSet(Without(s, S)) = ToSet(s) \ S
           /\ Of(Without(s, S), HoldId) \subseteq Of(s, HoldId)
           /\ Once(s, HoldId) => Once(Without(s, S), HoldId)
BY IdsFit, OnceWithout

Tidy(c, k) == c \in Client /\ OnePlace(c, k)

\* What none of them but the socket's own handlers touch.
Steady(c, d) ==
    /\ d.socket = c.socket /\ d.timer = c.timer /\ d.fetching = c.fetching /\ d.pill = c.pill
    /\ d.off = c.off /\ d.echo = c.echo

\* A list of clicks, held.
LEMMA ClicksHeld ==
    ASSUME NEW s \in Seq(Clicks)
    PROVE  LET m == [i \in DOMAIN s |-> Held(s[i])]
           IN  /\ m \in Seq(Holds)
               /\ ToSet(m) = {Held(o) : o \in ToSet(s)}
               /\ Of(m, HoldId) = Of(s, ClickId)
               /\ Once(s, ClickId) => Once(m, HoldId)
<1> DEFINE m == [i \in DOMAIN s |-> Held(s[i])]
<1>1. /\ Len(s) \in Nat /\ DOMAIN s = 1..Len(s)
      /\ \A i \in DOMAIN s : s[i] \in Clicks /\ Held(s[i]) \in Holds
                             /\ HoldId[Held(s[i])] = ClickId[s[i]]
  BY IdsAre
<1>2. DOMAIN m = DOMAIN s /\ \A i \in DOMAIN s : m[i] = Held(s[i])
  OBVIOUS
<1>3. m \in Seq(Holds)
  BY <1>1
<1> HIDE DEF m
<1>4. ToSet(m) = {Held(o) : o \in ToSet(s)}
  BY <1>2 DEF ToSet
<1>5. \A i \in DOMAIN s : HoldId[m[i]] = ClickId[s[i]]
  BY <1>1, <1>2
<1>6. Of(m, HoldId) = Of(s, ClickId) /\ (Once(s, ClickId) => Once(m, HoldId))
  BY <1>2, <1>5, OnceMaps
<1> QED BY <1>3, <1>4, <1>6 DEF m

\* The outbox as what is held of it.
LEMMA WaitingIs ==
    ASSUME NEW c \in Client
    PROVE  /\ Waiting(c) \in Seq(Holds)
           /\ ToSet(Waiting(c)) = {Held(o) : o \in ToSet(c.outbox)}
           /\ Of(Waiting(c), HoldId) = Of(c.outbox, ClickId)
           /\ Once(c.outbox, ClickId) => Once(Waiting(c), HoldId)
<1>1. c.outbox \in Seq(Clicks)
  BY DEF Client
<1> QED BY <1>1, ClicksHeld DEF Waiting

\* Nothing is lost in holding the outbox but presigns.
LEMMA HoldAllTidy ==
    ASSUME NEW c, NEW k \in Fate, Tidy(c, k)
    PROVE  /\ Tidy(HoldAll(c), k) /\ Steady(c, HoldAll(c))
           /\ HoldAll(c).outbox = <<>> /\ HoldAll(c).out = c.out
           /\ HoldAll(c).told = c.told /\ HoldAll(c).cleared = c.cleared
<1> DEFINE w == Waiting(c)
           v == Without(w, Presigns(w))
           d == HoldAll(c)
<1>1. c \in Client /\ OnePlace(c, k) /\ c.outbox \in Seq(Clicks) /\ c.held \in Seq(Holds)
  BY DEF Tidy, Client
<1>2. /\ w \in Seq(Holds) /\ ToSet(w) = {Held(o) : o \in ToSet(c.outbox)}
      /\ Of(w, HoldId) = Of(c.outbox, ClickId) /\ Once(w, HoldId)
  BY <1>1, WaitingIs DEF OnePlace
<1> HIDE DEF w
<1>3. /\ v \in Seq(Holds) /\ ToSet(v) = ToSet(w) \ Presigns(w)
      /\ Of(v, HoldId) \subseteq Of(w, HoldId) /\ Once(v, HoldId)
  BY <1>2, HoldsWithout
<1> HIDE DEF v
<1>4. Of(c.outbox, ClickId) \cap k.taken \subseteq Of(v, HoldId)
  <2> SUFFICES ASSUME NEW o \in ToSet(c.outbox), ClickId[o] \in k.taken
               PROVE  ClickId[o] \in Of(v, HoldId)
    BY DEF Of
  <2>1. o \in Clicks
    BY <1>1 DEF ToSet
  <2>2. ~IsPresign(o)
    BY <1>1, <2>1, IdsAre DEF OnePlace
  <2>3. Held(o) \in ToSet(v) /\ HoldId[Held(o)] = ClickId[o]
    BY <1>2, <1>3, <2>1, <2>2, IdsAre DEF Presigns
  <2> QED BY <2>3 DEF Of
<1>5. \A h \in ToSet(v) : ~IsPresign(h.click)
  BY <1>3 DEF Presigns
<1>6. d = [c EXCEPT !.outbox = <<>>, !.held = c.held \o v]
  BY DEF HoldAll, v, w
<1> HIDE DEF d
<1>7. /\ c.held \o v \in Seq(Holds) /\ ToSet(c.held \o v) = ToSet(c.held) \cup ToSet(v)
      /\ Of(c.held \o v, HoldId) = Of(c.held, HoldId) \cup Of(v, HoldId)
      /\ Once(c.held \o v, HoldId)
  <2>1. Of(c.held, HoldId) \cap Of(v, HoldId) = {} /\ Once(c.held, HoldId)
    BY <1>1, <1>2, <1>3 DEF OnePlace, Apart
  <2> QED BY <1>1, <1>3, <2>1, HoldsJoin
<1> DEFINE j == c.held \o v
<1> HIDE DEF j
<1>8. /\ d \in Client /\ d.outbox = <<>> /\ d.held = j /\ d.out = c.out /\ d.told = c.told
      /\ d.cleared = c.cleared /\ Steady(c, d)
  <2>1. j \in Seq(Holds) /\ <<>> \in Seq(Clicks)
    BY <1>7 DEF j
  <2>2. d = [c EXCEPT !.outbox = <<>>, !.held = j]
    BY <1>6 DEF j
  <2> QED BY <1>1, <2>1, <2>2 DEF Client, Steady
<1>9. Once(<<>>, ClickId) /\ Of(<<>>, ClickId) = {} /\ ToSet(<<>>) = {}
  BY OnceNone DEF ToSet
<1>10. OnePlace(d, k)
  <2>1. j \in Seq(Holds) /\ ToSet(j) = ToSet(c.held) \cup ToSet(v) /\ Once(j, HoldId)
        /\ Of(j, HoldId) = Of(c.held, HoldId) \cup Of(v, HoldId)
    BY <1>7 DEF j
  <2> QED BY <1>1, <1>2, <1>3, <1>4, <1>5, <1>8, <1>9, <2>1 DEF OnePlace, Apart, Gone, Dropped
<1> QED BY <1>8, <1>10 DEF Tidy, d

\* The presign that is pending concerns no queue.
LEMMA SettlePresignTidy ==
    ASSUME NEW c, NEW k \in Fate, Tidy(c, k)
    PROVE  /\ Tidy(SettlePresign(c), k) /\ Steady(c, SettlePresign(c))
           /\ SettlePresign(c).out = c.out /\ SettlePresign(c).told = c.told
           /\ SettlePresign(c).cleared = c.cleared
<1> DEFINE d == SettlePresign(c)
<1>1. 0 \in 0..MaxClicks
  BY ObserverAssumption
<1>2. /\ d \in Client /\ Steady(c, d) /\ d.outbox = c.outbox /\ d.held = c.held
      /\ d.out = c.out /\ d.told = c.told /\ d.cleared = c.cleared
  BY <1>1 DEF Tidy, SettlePresign, Client, Steady
<1> HIDE DEF d
<1> QED BY <1>2 DEF Tidy, OnePlace, Gone, Dropped, d

\* The first of the outbox goes out.
LEMMA SendTidy ==
    ASSUME NEW c, NEW k \in Fate, Tidy(c, k), c.outbox # <<>>
    PROVE  Tidy(Send(c), k) /\ Steady(c, Send(c))
<1> DEFINE h == Head(c.outbox)
           t == Tail(c.outbox)
           a == Append(c.out, h)
           sent == [c EXCEPT !.out = a, !.outbox = t, !.justSent = TRUE]
           d == Send(c)
<1>1. c \in Client /\ OnePlace(c, k) /\ c.outbox \in Seq(Clicks) /\ c.out \in Seq(Clicks)
  BY DEF Tidy, Client
<1>2. /\ h \in Clicks /\ t \in Seq(Clicks) /\ ToSet(c.outbox) = ToSet(t) \cup {h}
      /\ Of(c.outbox, ClickId) = Of(t, ClickId) \cup {ClickId[h]}
      /\ Once(t, ClickId) /\ ClickId[h] \notin Of(t, ClickId)
  BY <1>1, ClicksTail DEF OnePlace
<1>3. d = [sent EXCEPT !.spacing = Waits(sent)]
  BY DEF Send
<1> HIDE DEF h, t
<1>4. /\ a \in Seq(Clicks) /\ Of(a, ClickId) = Of(c.out, ClickId) \cup {ClickId[h]}
      /\ Once(a, ClickId)
  <2>1. ClickId[h] \notin Of(c.out, ClickId) /\ Once(c.out, ClickId)
    BY <1>1, <1>2 DEF OnePlace, Apart
  <2> QED BY <1>1, <1>2, <2>1, ClicksAppend
<1> HIDE DEF a, d
<1>5. /\ sent \in Client /\ sent.outbox = t /\ sent.out = a /\ sent.held = c.held
      /\ sent.told = c.told /\ sent.cleared = c.cleared /\ Steady(c, sent) /\ sent.justSent
  BY <1>1, <1>2, <1>4 DEF Client, Steady
<1> HIDE DEF sent
<1>6. Waits(sent) \in BOOLEAN
  BY <1>5 DEF Waits
<1>7. /\ d \in Client /\ d.outbox = t /\ d.out = a /\ d.held = c.held
      /\ d.told = c.told /\ d.cleared = c.cleared /\ Steady(c, d)
  BY <1>3, <1>5, <1>6 DEF Client, Steady
<1>8. OnePlace(d, k)
  BY <1>1, <1>2, <1>4, <1>7 DEF OnePlace, Apart, Gone, Dropped
<1> QED BY <1>7, <1>8 DEF Tidy, d

\* Draining sends the first click, waits, or holds them all.
LEMMA DrainTidy ==
    ASSUME NEW c, NEW k \in Fate, Tidy(c, k)
    PROVE  Tidy(Drain(c), k) /\ Steady(c, Drain(c))
<1>1. c \in Client /\ c.spacing \in BOOLEAN /\ c.justSent \in BOOLEAN
  BY DEF Tidy, Client
<1>2. CASE c.spacing \/ c.outbox = <<>>
  <2>1. Drain(c) = c
    BY <1>2 DEF Drain, Waits
  <2> QED BY <2>1 DEF Steady
<1>3. CASE ~c.spacing /\ Waits(c)
  <2> DEFINE d == [c EXCEPT !.spacing = TRUE]
  <2>1. Drain(c) = d
    BY <1>3 DEF Drain, Waits
  <2>2. /\ d \in Client /\ Steady(c, d) /\ d.outbox = c.outbox /\ d.held = c.held
        /\ d.out = c.out /\ d.told = c.told /\ d.cleared = c.cleared
    BY <1>1 DEF Client, Steady
  <2> HIDE DEF d
  <2> QED BY <2>1, <2>2 DEF Tidy, OnePlace, Gone, Dropped
<1>4. CASE ~c.spacing /\ c.outbox # <<>> /\ ~c.justSent
  <2>1. Drain(c) = IF Connected(c) THEN Send(c) ELSE SettlePresign(HoldAll(c))
    BY <1>4 DEF Drain, Waits
  <2>2. Tidy(Send(c), k) /\ Steady(c, Send(c))
    BY <1>4, SendTidy
  <2>3. Tidy(HoldAll(c), k) /\ Steady(c, HoldAll(c))
    BY HoldAllTidy
  <2>4. Tidy(SettlePresign(HoldAll(c)), k) /\ Steady(HoldAll(c), SettlePresign(HoldAll(c)))
    BY <2>3, SettlePresignTidy
  <2> QED BY <2>1, <2>2, <2>3, <2>4 DEF Steady
<1> QED BY <1>1, <1>2, <1>3, <1>4 DEF Waits

\* The queues and the fates are as they were.
SameQueues(c, d) ==
    /\ d.outbox = c.outbox /\ d.held = c.held /\ d.out = c.out
    /\ d.told = c.told /\ d.cleared = c.cleared

LEMMA QueuesTidy ==
    ASSUME NEW c, NEW d \in Client, NEW k, Tidy(c, k), SameQueues(c, d)
    PROVE  Tidy(d, k)
BY DEF Tidy, OnePlace, Gone, Dropped, SameQueues

\* Timers concern no queue.
LEMMA ClearTimersTidy ==
    ASSUME NEW c, NEW k, Tidy(c, k)
    PROVE  LET d == ClearTimers(c)
           IN  /\ Tidy(d, k) /\ SameQueues(c, d) /\ d.timer = "none"
               /\ d.socket = c.socket /\ d.fetching = c.fetching /\ d.pill = c.pill
               /\ d.echo = c.echo /\ d.resubscribing = c.resubscribing
<1> DEFINE d == ClearTimers(c)
<1>1. /\ d \in Client /\ SameQueues(c, d) /\ d.timer = "none"
      /\ d.socket = c.socket /\ d.fetching = c.fetching /\ d.pill = c.pill
      /\ d.echo = c.echo /\ d.resubscribing = c.resubscribing
  BY DEF Tidy, ClearTimers, Client, SameQueues
<1> HIDE DEF d
<1>2. Tidy(d, k)
  BY <1>1, QueuesTidy
<1> QED BY <1>1, <1>2 DEF d

\* The silent resubscribe holds what waits, on a socket still open.
LEMMA ResubscribeTidy ==
    ASSUME NEW c, NEW k \in Fate, Tidy(c, k), OneWay(c), c.socket # "none"
    PROVE  LET d == Resubscribe(c)
           IN  /\ Tidy(d, k) /\ OneWay(d) /\ d.socket = c.socket /\ d.echo = c.echo
<1> DEFINE b == ClearTimers(c)
           h == HoldAll(b)
           d == [h EXCEPT !.resubscribing = TRUE, !.timer = "resubscribe"]
<1>1. CASE c.resubscribing
  BY <1>1 DEF Resubscribe
<1>2. CASE ~c.resubscribing
  <2>1. Resubscribe(c) = d
    BY <1>2 DEF Resubscribe
  <2>2. /\ Tidy(b, k) /\ b.timer = "none" /\ b.socket = c.socket
        /\ b.fetching = c.fetching /\ b.pill = c.pill /\ b.echo = c.echo
    BY ClearTimersTidy
  <2> HIDE DEF b
  <2>3. Tidy(h, k) /\ Steady(b, h) /\ h \in Client
    BY <2>2, HoldAllTidy DEF Tidy
  <2> HIDE DEF h
  <2>4. /\ d \in Client /\ SameQueues(h, d) /\ d.timer = "resubscribe"
        /\ d.socket = h.socket /\ d.fetching = h.fetching /\ d.pill = h.pill
        /\ d.echo = h.echo
    BY <2>3 DEF Client, SameQueues
  <2> HIDE DEF d
  <2>5. Tidy(d, k)
    BY <2>3, <2>4, QueuesTidy
  <2>6. OneWay(d)
    BY <2>2, <2>3, <2>4 DEF OneWay, Steady
  <2> QED BY <2>1, <2>2, <2>3, <2>4, <2>5, <2>6 DEF Steady
<1> QED BY <1>1, <1>2

\* A list of held clicks, released.
LEMMA HoldsClicked ==
    ASSUME NEW s \in Seq(Holds)
    PROVE  /\ Clicked(s) \in Seq(Clicks)
           /\ ToSet(Clicked(s)) = {h.click : h \in ToSet(s)}
           /\ Of(Clicked(s), ClickId) = Of(s, HoldId)
           /\ Once(s, HoldId) => Once(Clicked(s), ClickId)
<1> DEFINE m == Clicked(s)
<1>1. /\ Len(s) \in Nat /\ DOMAIN s = 1..Len(s)
      /\ \A i \in DOMAIN s : s[i] \in Holds /\ s[i].click \in Clicks
                             /\ ClickId[s[i].click] = HoldId[s[i]]
  BY IdsAre
<1>2. DOMAIN m = DOMAIN s /\ \A i \in DOMAIN s : m[i] = s[i].click
  BY DEF Clicked
<1>3. m \in Seq(Clicks)
  BY <1>1 DEF Clicked
<1> HIDE DEF m
<1>4. ToSet(m) = {h.click : h \in ToSet(s)}
  BY <1>2 DEF ToSet
<1>5. \A i \in DOMAIN s : ClickId[m[i]] = HoldId[s[i]]
  BY <1>1, <1>2
<1>6. Of(m, ClickId) = Of(s, HoldId) /\ (Once(s, HoldId) => Once(m, ClickId))
  BY <1>2, <1>5, OnceMaps
<1> QED BY <1>3, <1>4, <1>6 DEF m

\* What was held goes out or is dropped with a word.
LEMMA FreshIs ==
    ASSUME NEW c \in Client, Once(c.held, HoldId)
    PROVE  /\ Fresh(c) \in Seq(Clicks) /\ Once(Fresh(c), ClickId)
           /\ Of(Fresh(c), ClickId) \subseteq Of(c.held, HoldId)
           /\ TooOld(c) = Of(c.held, HoldId) \ Of(Fresh(c), ClickId)
           /\ \A o \in ToSet(Fresh(c)) : \E h \in ToSet(c.held) : o = h.click
<1> DEFINE s == c.held
           w == Without(s, {h \in ToSet(s) : h.old})
           r == Clicked(w)
<1>1. s \in Seq(Holds) /\ Once(s, HoldId)
  BY DEF Client
<1>2. Fresh(c) = r /\ TooOld(c) = {h.click.id : h \in ToSet(s)} \ {o.id : o \in ToSet(r)}
  BY DEF Fresh, TooOld, HeldIds
<1> HIDE DEF s
<1>3. /\ w \in Seq(Holds) /\ ToSet(w) \subseteq ToSet(s)
      /\ Of(w, HoldId) \subseteq Of(s, HoldId) /\ Once(w, HoldId)
  BY <1>1, HoldsWithout
<1> HIDE DEF w
<1>4. /\ r \in Seq(Clicks) /\ ToSet(r) = {h.click : h \in ToSet(w)}
      /\ Of(r, ClickId) = Of(w, HoldId) /\ Once(r, ClickId)
  BY <1>3, HoldsClicked
<1> HIDE DEF r
<1>5. {h.click.id : h \in ToSet(s)} = Of(s, HoldId)
  <2>1. \A h \in ToSet(s) : HoldId[h] = h.click.id
    BY <1>1, IdsAre DEF ToSet
  <2> QED BY <2>1 DEF Of
<1>6. {o.id : o \in ToSet(r)} = Of(r, ClickId)
  <2>1. \A o \in ToSet(r) : ClickId[o] = o.id
    BY <1>4, IdsAre DEF ToSet
  <2> QED BY <2>1 DEF Of
<1>7. \A o \in ToSet(r) : \E h \in ToSet(s) : o = h.click
  BY <1>3, <1>4
<1> QED BY <1>2, <1>3, <1>4, <1>5, <1>6, <1>7 DEF s

\* What was held is in the outbox, out, or dropped with a word.
LEMMA ReleaseHeldTidy ==
    ASSUME NEW c, NEW k \in Fate, Tidy(c, k), c.told = {}
    PROVE  Tidy(ReleaseHeld(c), k) /\ Steady(c, ReleaseHeld(c))
<1> DEFINE f == Fresh(c)
           t == Toggles(f)
           x == c.outbox \o f
           old == TooOld(c)
           b == IF t = <<>> THEN c.shown ELSE Last(t).on
           d == [c EXCEPT !.held = <<>>, !.outbox = x, !.told = old, !.shown = b]
<1>1. /\ c \in Client /\ OnePlace(c, k) /\ c.outbox \in Seq(Clicks) /\ c.shown \in BOOLEAN
      /\ Once(c.held, HoldId) /\ Once(c.outbox, ClickId) /\ c.held \in Seq(Holds)
  BY DEF Tidy, Client, OnePlace
<1>2. ReleaseHeld(c) = Drain(d)
  BY DEF ReleaseHeld
<1>3. /\ f \in Seq(Clicks) /\ Once(f, ClickId)
      /\ Of(f, ClickId) \subseteq Of(c.held, HoldId)
      /\ old = Of(c.held, HoldId) \ Of(f, ClickId)
      /\ \A o \in ToSet(f) : \E h \in ToSet(c.held) : o = h.click
  BY <1>1, FreshIs
<1> HIDE DEF f, old
<1>4. b \in BOOLEAN
  <2>1. t \in Seq(Clicks)
    BY <1>3, WithoutIs DEF Toggles
  <2> HIDE DEF t
  <2>2. t # <<>> => Last(t) \in Clicks
    BY <2>1 DEF Last
  <2> QED BY <1>1, <2>2 DEF Clicks
<1> HIDE DEF b
<1>5. /\ x \in Seq(Clicks) /\ ToSet(x) = ToSet(c.outbox) \cup ToSet(f)
      /\ Of(x, ClickId) = Of(c.outbox, ClickId) \cup Of(f, ClickId)
      /\ Once(x, ClickId)
  <2>1. Of(c.outbox, ClickId) \cap Of(f, ClickId) = {}
    BY <1>1, <1>3 DEF OnePlace, Apart
  <2> QED BY <1>1, <1>3, <2>1, ClicksJoin
<1> HIDE DEF x
<1>6. old \subseteq ClickIds
  <2>1. Of(c.held, HoldId) \subseteq ClickIds
    BY <1>1, IdsFit DEF Of, ToSet
  <2> QED BY <1>3, <2>1
<1>7. /\ d \in Client /\ Steady(c, d) /\ d.held = <<>> /\ d.outbox = x /\ d.told = old
      /\ d.out = c.out /\ d.cleared = c.cleared
  <2>1. x \in Seq(Clicks) /\ <<>> \in Seq(Holds)
    BY <1>5
  <2>2. d \in Client
    BY <1>1, <1>4, <1>6, <2>1 DEF Client
  <2> QED BY <1>1, <2>2 DEF Client, Steady
<1> HIDE DEF d
<1>8. Once(<<>>, HoldId) /\ Of(<<>>, HoldId) = {} /\ ToSet(<<>>) = {}
  BY OnceNone DEF ToSet
<1>9. \A o \in ToSet(f) : ~IsPresign(o)
  BY <1>1, <1>3 DEF OnePlace
<1>10. OnePlace(d, k)
  BY <1>1, <1>3, <1>5, <1>7, <1>8, <1>9 DEF OnePlace, Apart, Gone, Dropped
<1>11. Tidy(Drain(d), k) /\ Steady(d, Drain(d))
  BY <1>7, <1>10, DrainTidy DEF Tidy
<1> QED BY <1>2, <1>7, <1>11 DEF Steady

\* A click that nobody has seen joins a queue of its own.
Joins(k, n, o) ==
    /\ n.sent = k.sent /\ n.told = k.told /\ n.cleared = k.cleared
    /\ o.id = k.asked + 1 /\ n.asked = o.id
    /\ n.taken = IF IsPresign(o) THEN k.taken ELSE k.taken \cup {o.id}

\* A new click waits in the outbox.
LEMMA OutboxJoined ==
    ASSUME NEW c, NEW k \in Fate, NEW n \in Fate, NEW o \in Clicks, Tidy(c, k), Joins(k, n, o)
    PROVE  LET d == [c EXCEPT !.outbox = Append(@, o)]
           IN  Tidy(d, n) /\ Steady(c, d)
<1> DEFINE x == Append(c.outbox, o)
           d == [c EXCEPT !.outbox = x]
<1>1. /\ c \in Client /\ OnePlace(c, k) /\ c.outbox \in Seq(Clicks) /\ k.asked \in Nat
      /\ ClickId[o] = o.id
  BY IdsAre, ObserverAssumption DEF Tidy, Client, Fate
<1>2. o.id \notin 1..k.asked /\ 1..n.asked = (1..k.asked) \cup {o.id}
  BY <1>1 DEF Joins
<1>3. /\ x \in Seq(Clicks) /\ ToSet(x) = ToSet(c.outbox) \cup {o}
      /\ Of(x, ClickId) = Of(c.outbox, ClickId) \cup {o.id} /\ Once(x, ClickId)
  <2>1. ClickId[o] \notin Of(c.outbox, ClickId) /\ Once(c.outbox, ClickId)
    BY <1>1, <1>2 DEF OnePlace
  <2> QED BY <1>1, <2>1, ClicksAppend
<1> HIDE DEF x
<1>4. /\ d \in Client /\ Steady(c, d) /\ d.outbox = x /\ d.held = c.held
      /\ d.out = c.out /\ d.told = c.told /\ d.cleared = c.cleared
  BY <1>1, <1>3 DEF Client, Steady
<1> HIDE DEF d
<1>5. /\ o.id \notin k.taken
      /\ \A p \in ToSet(c.outbox) : p.id # o.id
  <2>1. \A p \in ToSet(c.outbox) : p.id \in Of(c.outbox, ClickId)
    <3> TAKE p \in ToSet(c.outbox)
    <3>1. ClickId[p] = p.id
      BY <1>1, IdsAre DEF ToSet
    <3> QED BY <3>1 DEF Of
  <2> QED BY <1>1, <1>2, <2>1 DEF OnePlace
<1>6. /\ Once(x, ClickId) /\ Once(c.held, HoldId) /\ Once(k.sent, SentId) /\ Once(c.out, ClickId)
      /\ Apart(Of(x, ClickId), Of(c.held, HoldId), Of(k.sent, SentId),
               Of(c.out, ClickId), k.told \cup c.told, k.cleared \cup c.cleared)
  BY <1>1, <1>2, <1>3 DEF OnePlace, Apart, Gone, Dropped
<1>7. /\ Of(x, ClickId) \cup Of(c.held, HoldId) \cup Gone(c, k) \cup Dropped(c, k)
          \subseteq 1..n.asked
      /\ n.taken \subseteq
          Of(x, ClickId) \cup Of(c.held, HoldId) \cup Gone(c, k) \cup Dropped(c, k)
  <2>1. n.taken \subseteq k.taken \cup {o.id}
    BY DEF Joins
  <2> QED BY <1>1, <1>2, <1>3, <2>1 DEF OnePlace
<1>8. \A p \in ToSet(x) : IsPresign(p) => p.id \notin n.taken
  BY <1>1, <1>3, <1>5 DEF OnePlace, Joins
<1>9. \A h \in ToSet(c.held) : ~IsPresign(h.click)
  BY <1>1 DEF OnePlace
<1>10. OnePlace(d, n)
  BY <1>4, <1>6, <1>7, <1>8, <1>9 DEF OnePlace, Gone, Dropped, Joins
<1> QED BY <1>4, <1>10 DEF Tidy, d, x

\* A new control is held.
LEMMA HeldJoined ==
    ASSUME NEW c, NEW k \in Fate, NEW n \in Fate, NEW o \in Clicks, Tidy(c, k), Joins(k, n, o),
           ~IsPresign(o)
    PROVE  LET d == [c EXCEPT !.held = Append(@, Held(o))]
           IN  Tidy(d, n) /\ Steady(c, d)
<1> DEFINE x == Append(c.held, Held(o))
           d == [c EXCEPT !.held = x]
<1>1. /\ c \in Client /\ OnePlace(c, k) /\ c.held \in Seq(Holds) /\ k.asked \in Nat
      /\ Held(o) \in Holds /\ HoldId[Held(o)] = o.id /\ Held(o).click = o
      /\ c.outbox \in Seq(Clicks)
  BY IdsAre, ObserverAssumption DEF Tidy, Client, Fate
<1>2. o.id \notin 1..k.asked /\ 1..n.asked = (1..k.asked) \cup {o.id}
  BY <1>1 DEF Joins
<1>3. /\ x \in Seq(Holds) /\ ToSet(x) = ToSet(c.held) \cup {Held(o)}
      /\ Of(x, HoldId) = Of(c.held, HoldId) \cup {o.id} /\ Once(x, HoldId)
  <2>1. HoldId[Held(o)] \notin Of(c.held, HoldId) /\ Once(c.held, HoldId)
    BY <1>1, <1>2 DEF OnePlace
  <2> QED BY <1>1, <2>1, HoldsAppend
<1> HIDE DEF x
<1>4. /\ d \in Client /\ Steady(c, d) /\ d.outbox = c.outbox /\ d.held = x
      /\ d.out = c.out /\ d.told = c.told /\ d.cleared = c.cleared
  BY <1>1, <1>3 DEF Client, Steady
<1> HIDE DEF d
<1>5. \A p \in ToSet(c.outbox) : p.id # o.id
  <2>1. \A p \in ToSet(c.outbox) : p.id \in Of(c.outbox, ClickId)
    <3> TAKE p \in ToSet(c.outbox)
    <3>1. ClickId[p] = p.id
      BY <1>1, IdsAre DEF ToSet
    <3> QED BY <3>1 DEF Of
  <2> QED BY <1>1, <1>2, <2>1 DEF OnePlace
<1>6. /\ Once(c.outbox, ClickId) /\ Once(x, HoldId) /\ Once(k.sent, SentId)
      /\ Once(c.out, ClickId)
      /\ Apart(Of(c.outbox, ClickId), Of(x, HoldId), Of(k.sent, SentId),
               Of(c.out, ClickId), k.told \cup c.told, k.cleared \cup c.cleared)
  BY <1>1, <1>2, <1>3 DEF OnePlace, Apart, Gone, Dropped
<1>7. /\ Of(c.outbox, ClickId) \cup Of(x, HoldId) \cup Gone(c, k) \cup Dropped(c, k)
          \subseteq 1..n.asked
      /\ n.taken \subseteq
          Of(c.outbox, ClickId) \cup Of(x, HoldId) \cup Gone(c, k) \cup Dropped(c, k)
  <2>1. n.taken \subseteq k.taken \cup {o.id}
    BY DEF Joins
  <2> QED BY <1>1, <1>2, <1>3, <2>1 DEF OnePlace
<1>8. \A p \in ToSet(c.outbox) : IsPresign(p) => p.id \notin n.taken
  BY <1>1, <1>5 DEF OnePlace, Joins
<1>9. \A h \in ToSet(x) : ~IsPresign(h.click)
  BY <1>1, <1>3 DEF OnePlace
<1>10. OnePlace(d, n)
  BY <1>4, <1>6, <1>7, <1>8, <1>9 DEF OnePlace, Gone, Dropped, Joins
<1> QED BY <1>4, <1>10 DEF Tidy, d, x

\* The page knows the redundancy it asked for.
LEMMA AnticipateTidy ==
    ASSUME NEW c, NEW k, NEW o \in Clicks, Tidy(c, k)
    PROVE  LET d == Anticipate(c, o)
           IN  /\ Tidy(d, k) /\ d.echo <= c.echo + 1 /\ d.socket = c.socket
               /\ OneWay(c) => OneWay(d)
<1> DEFINE d == Anticipate(c, o)
<1>0. c \in Client /\ o.on \in BOOLEAN /\ c.echo \in Nat
  BY DEF Tidy, Client, Clicks
<1>1. /\ d \in Client /\ SameQueues(c, d) /\ d.echo <= c.echo + 1
      /\ d.socket = c.socket /\ d.timer = c.timer /\ d.fetching = c.fetching
      /\ d.pill = c.pill
  <2>1. CASE o.kind # "toggle"
    BY <1>0, <2>1 DEF Anticipate, SameQueues
  <2>2. CASE o.kind = "toggle"
    <3>1. d = [c EXCEPT !.echo = c.echo + 1, !.shown = o.on]
      BY <2>2 DEF Anticipate
    <3>2. c.echo + 1 \in Nat
      BY <1>0
    <3>3. d \in Client
      BY <1>0, <3>1, <3>2 DEF Client
    <3>4. d.echo = c.echo + 1
      BY <1>0, <3>1 DEF Client
    <3>5. d.echo <= c.echo + 1
      BY <1>0, <3>4
    <3> QED BY <1>0, <3>1, <3>3, <3>5 DEF Client, SameQueues
  <2> QED BY <2>1, <2>2
<1> HIDE DEF d
<1>2. Tidy(d, k)
  BY <1>1, QueuesTidy
<1>3. OneWay(c) => OneWay(d)
  BY <1>1 DEF OneWay
<1> QED BY <1>1, <1>2, <1>3 DEF d

\* What touches only the queues leaves the page its way on.
LEMMA SteadyWay ==
    ASSUME NEW c, NEW d, Steady(c, d), OneWay(c)
    PROVE  OneWay(d)
BY DEF Steady, OneWay

\* A control: ahead of its echo, and into one of the queues.
LEMMA SendStatusTidy ==
    ASSUME NEW c, NEW k \in Fate, NEW n \in Fate, NEW o \in Clicks, Tidy(c, k), Joins(k, n, o),
           ~IsPresign(o), OneWay(c)
    PROVE  LET d == SendStatus(c, o)
           IN  Tidy(d, n) /\ OneWay(d) /\ d.socket = c.socket /\ d.echo <= c.echo + 1
<1> DEFINE a == Anticipate(c, o)
           x == [a EXCEPT !.outbox = Append(@, o)]
           y == [a EXCEPT !.held = Append(@, Held(o))]
           d == SendStatus(c, o)
<1>1. Tidy(a, k) /\ OneWay(a) /\ a.socket = c.socket /\ a.echo <= c.echo + 1
  BY AnticipateTidy
<1>2. d = IF Connected(c) THEN Drain(x) ELSE y
  BY DEF SendStatus
<1> HIDE DEF a, d
<1>3. Tidy(x, n) /\ Steady(a, x)
  BY <1>1, OutboxJoined
<1>4. Tidy(y, n) /\ Steady(a, y)
  BY <1>1, HeldJoined
<1> HIDE DEF x, y
<1>5. Tidy(Drain(x), n) /\ Steady(x, Drain(x))
  BY <1>3, DrainTidy
<1>6. Tidy(d, n) /\ Steady(a, d)
  BY <1>2, <1>3, <1>4, <1>5 DEF Steady
<1>7. OneWay(d)
  BY <1>1, <1>6, SteadyWay
<1> QED BY <1>1, <1>6, <1>7 DEF Steady, d

\* The presign of an upload.
LEMMA PresignTidy ==
    ASSUME NEW c, NEW k \in Fate, NEW n \in Fate, NEW o \in Clicks, Tidy(c, k), Joins(k, n, o)
    PROVE  Tidy(Presign(c, o), n) /\ Steady(c, Presign(c, o))
<1> DEFINE x == [c EXCEPT !.presign = o.id]
           y == [x EXCEPT !.outbox = Append(@, o)]
<1>1. o.id \in 0..MaxClicks /\ c \in Client
  BY ObserverAssumption DEF Clicks, ClickIds, Tidy
<1>2. x \in Client /\ SameQueues(c, x) /\ Steady(c, x)
  BY <1>1 DEF Client, SameQueues, Steady
<1>3. Presign(c, o) = Drain(y)
  <2>1. [c EXCEPT !.presign = o.id, !.outbox = Append(@, o)] = y
    BY <1>1 DEF Client
  <2> QED BY <2>1 DEF Presign
<1> HIDE DEF x
<1>4. Tidy(x, k)
  BY <1>2, QueuesTidy
<1>5. Tidy(y, n) /\ Steady(x, y)
  BY <1>4, OutboxJoined
<1> HIDE DEF y
<1>6. Tidy(Drain(y), n) /\ Steady(y, Drain(y))
  BY <1>5, DrainTidy
<1> QED BY <1>2, <1>3, <1>5, <1>6 DEF Steady

\* A message of the socket, which is open.
LEMMA OnMessageTidy ==
    ASSUME NEW c, NEW k \in Fate, NEW m \in Answers, Tidy(c, k), OneWay(c),
           c.socket = "open", c.told = {}
    PROVE  LET d == OnMessage(c, m)
           IN  Tidy(d, k) /\ OneWay(d) /\ d.socket = c.socket /\ d.echo <= c.echo
<1> DEFINE d == OnMessage(c, m)
<1>1. c \in Client /\ c.echo \in Nat /\ c.echo <= c.echo
  BY DEF Tidy, Client
<1>2. CASE m.kind = "snapshot"
  <2> DEFINE x == [c EXCEPT !.shown = m.on, !.resubscribing = FALSE, !.pill = "live"]
  <2>1. m.on \in BOOLEAN
    BY <1>2 DEF Answers
  <2>2. /\ x \in Client /\ SameQueues(c, x) /\ x.socket = c.socket /\ x.timer = c.timer
        /\ x.fetching = c.fetching /\ x.pill = "live" /\ x.echo = c.echo
    BY <1>1, <2>1 DEF Client, SameQueues
  <2>3. d = ReleaseHeld(x)
    BY <1>2 DEF OnMessage, ReadSnapshot
  <2> HIDE DEF x, d
  <2>4. Tidy(x, k) /\ x.told = {} /\ OneWay(x)
    BY <2>2, QueuesTidy DEF SameQueues, OneWay
  <2>5. Tidy(d, k) /\ Steady(x, d)
    BY <2>3, <2>4, ReleaseHeldTidy
  <2>6. OneWay(d)
    BY <2>4, <2>5, SteadyWay
  <2> QED BY <1>1, <2>2, <2>5, <2>6 DEF Steady, d
<1>3. CASE m.kind = "applied"
  <2>1. d = ReadEcho(c)
    BY <1>3 DEF OnMessage
  <2>2. CASE c.echo > 0
    <3> DEFINE x == [c EXCEPT !.echo = c.echo - 1]
    <3>1. c.echo - 1 \in Nat /\ c.echo - 1 <= c.echo
      BY <1>1, <2>2
    <3>2. /\ x \in Client /\ SameQueues(c, x) /\ x.socket = c.socket /\ x.timer = c.timer
          /\ x.fetching = c.fetching /\ x.pill = c.pill /\ x.echo = c.echo - 1
      BY <1>1, <3>1 DEF Client, SameQueues
    <3>3. d = x
      BY <2>1, <2>2 DEF ReadEcho
    <3> HIDE DEF x, d
    <3>4. Tidy(x, k)
      BY <3>2, QueuesTidy
    <3>5. OneWay(x)
      BY <3>2 DEF OneWay
    <3> QED BY <3>1, <3>2, <3>3, <3>4, <3>5 DEF d
  <2>3. CASE ~(c.echo > 0)
    <3>1. d = Resubscribe(c)
      BY <2>1, <2>3 DEF ReadEcho
    <3> HIDE DEF d
    <3>2. Tidy(d, k) /\ OneWay(d) /\ d.socket = c.socket /\ d.echo = c.echo
      BY <3>1, ResubscribeTidy
    <3> QED BY <1>1, <3>2 DEF d
  <2> QED BY <2>2, <2>3
<1>4. CASE m.kind = "presigned"
  <2>1. d = IF c.presign = m.id THEN SettlePresign(c) ELSE c
    BY <1>4 DEF OnMessage, ReadAnswer
  <2>2. Tidy(SettlePresign(c), k) /\ Steady(c, SettlePresign(c))
    BY SettlePresignTidy
  <2>3. Tidy(d, k) /\ Steady(c, d)
    BY <2>1, <2>2 DEF Steady
  <2> HIDE DEF d
  <2>4. OneWay(d)
    BY <2>3, SteadyWay
  <2> QED BY <1>1, <2>3, <2>4 DEF Steady, d
<1> QED BY <1>2, <1>3, <1>4 DEF Answers

Reasons == {"outdated", "rotating", "full", "lost"}
SessionAnswer == {"error", "off", "starting", "on"}

\* A close leaves a timer to connect, or the page outdated.
LEMMA OnCloseTidy ==
    ASSUME NEW c, NEW k \in Fate, NEW why \in Reasons, Tidy(c, k), OneWay(c),
           c.socket # "none"
    PROVE  LET d == OnClose(c, why)
           IN  /\ Tidy(d, k) /\ OneWay(d) /\ d.socket = "none" /\ d.echo = c.echo
               /\ d.out = c.out /\ d.told = c.told /\ d.cleared = c.cleared
<1> DEFINE a == ClearTimers(c)
           b == [a EXCEPT !.socket = "none"]
           h == HoldAll(b)
           s == SettlePresign(h)
           d == OnClose(c, why)
<1>1. /\ Tidy(a, k) /\ SameQueues(c, a) /\ a.timer = "none" /\ a \in Client
      /\ a.fetching = FALSE /\ a.pill # "outdated" /\ a.echo = c.echo
  <2>1. c.fetching \in BOOLEAN
    BY DEF Tidy, Client
  <2>2. /\ Tidy(a, k) /\ SameQueues(c, a) /\ a.timer = "none"
        /\ a.fetching = c.fetching /\ a.pill = c.pill /\ a.echo = c.echo
    BY ClearTimersTidy
  <2> HIDE DEF a
  <2> QED BY <2>1, <2>2 DEF Tidy, OneWay
<1> HIDE DEF a
<1>2. /\ b \in Client /\ SameQueues(a, b) /\ b.socket = "none" /\ b.timer = a.timer
      /\ b.fetching = a.fetching /\ b.pill = a.pill /\ b.echo = a.echo
  BY <1>1 DEF Client, SameQueues
<1> HIDE DEF b
<1>3. Tidy(b, k)
  BY <1>1, <1>2, QueuesTidy
<1>4. /\ Tidy(h, k) /\ Steady(b, h)
      /\ h.out = b.out /\ h.told = b.told /\ h.cleared = b.cleared
  BY <1>3, HoldAllTidy
<1> HIDE DEF h
<1>5. /\ Tidy(s, k) /\ Steady(h, s)
      /\ s.out = h.out /\ s.told = h.told /\ s.cleared = h.cleared
  BY <1>4, SettlePresignTidy
<1> HIDE DEF s
<1>6. /\ s \in Client /\ s.socket = "none" /\ s.timer = "none" /\ s.fetching = FALSE
      /\ s.pill # "outdated" /\ s.echo = c.echo
      /\ s.out = c.out /\ s.told = c.told /\ s.cleared = c.cleared
  BY <1>1, <1>2, <1>4, <1>5 DEF Steady, SameQueues, Tidy
<1>7. d = CASE why = "outdated" -> [s EXCEPT !.pill = "outdated"]
            [] why = "rotating" -> Later([s EXCEPT !.pill = "connecting"])
            [] why = "full" -> Later([s EXCEPT !.pill = "full", !.resubscribing = FALSE])
            [] why = "lost" -> Later([s EXCEPT !.resubscribing = FALSE])
  BY DEF OnClose, s, h, b, a
<1> HIDE DEF d
<1>8. /\ d \in Client /\ SameQueues(s, d) /\ d.socket = "none" /\ d.fetching = FALSE
      /\ d.echo = s.echo
      /\ \/ d.timer = "connect" /\ d.pill # "outdated"
         \/ d.timer = "none" /\ d.pill = "outdated"
  <2>1. CASE why = "outdated"
    BY <1>6, <1>7, <2>1 DEF Client, SameQueues
  <2>2. CASE why = "rotating"
    BY <1>6, <1>7, <2>2 DEF Client, SameQueues, Later
  <2>3. CASE why = "full"
    BY <1>6, <1>7, <2>3 DEF Client, SameQueues, Later
  <2>4. CASE why = "lost"
    BY <1>6, <1>7, <2>4 DEF Client, SameQueues, Later
  <2> QED BY <2>1, <2>2, <2>3, <2>4 DEF Reasons
<1>9. Tidy(d, k)
  BY <1>5, <1>8, QueuesTidy
<1>10. OneWay(d)
  BY <1>8 DEF OneWay
<1> QED BY <1>6, <1>8, <1>9, <1>10 DEF SameQueues, d

\* A session is fetched by a page with no socket and no timer.
LEMMA OnSessionTidy ==
    ASSUME NEW c, NEW k \in Fate, NEW answer \in SessionAnswer, Tidy(c, k), OneWay(c),
           c.fetching, c.cleared = {}
    PROVE  LET d == OnSession(c, answer)
           IN  Tidy(d, k) /\ OneWay(d) /\ d.socket # "open" /\ d.echo = c.echo
<1> DEFINE got == [c EXCEPT !.fetching = FALSE, !.off = answer = "off"]
           d == OnSession(c, answer)
<1>1. /\ c \in Client /\ c.socket = "none" /\ c.timer = "none" /\ c.pill # "outdated"
      /\ OnePlace(c, k) /\ (answer = "off") \in BOOLEAN
  BY DEF Tidy, OneWay, Client
<1>2. CASE answer = "off"
  <2> DEFINE old == HeldIds(c)
  <2>1. c.held \in Seq(Holds) /\ <<>> \in Seq(Holds)
    BY <1>1 DEF Client
  <2>2. old = Of(c.held, HoldId)
    <3>1. \A h \in ToSet(c.held) : HoldId[h] = h.click.id
      BY <2>1, IdsAre DEF ToSet
    <3> QED BY <3>1 DEF Of, HeldIds
  <2>3. old \subseteq ClickIds
    BY <2>1, <2>2, IdsFit DEF Of, ToSet
  <2>4. d = Later([got EXCEPT !.held = <<>>, !.pill = "off", !.cleared = old])
    BY <1>2 DEF OnSession
  <2> HIDE DEF old, d
  <2>5. /\ d \in Client /\ d.outbox = c.outbox /\ d.held = <<>> /\ d.out = c.out
        /\ d.told = c.told /\ d.cleared = old /\ d.socket = "none" /\ d.timer = "connect"
        /\ d.fetching = FALSE /\ d.pill = "off" /\ d.echo = c.echo
    <3> DEFINE e == [got EXCEPT !.held = <<>>]
    <3>0. got \in Client
      <4>1. FALSE \in BOOLEAN
        OBVIOUS
      <4> QED BY <1>1, <4>1, ZenonT(30) DEF Client
    <3>1. /\ got \in Client /\ got.outbox = c.outbox /\ got.out = c.out /\ got.told = c.told
          /\ got.socket = "none" /\ got.fetching = FALSE /\ got.echo = c.echo
      BY <1>1, <3>0 DEF Client
    <3> HIDE DEF got
    <3>2. e \in Client
      BY <2>1, <3>1 DEF Client
    <3>3. /\ e.outbox = c.outbox /\ e.out = c.out /\ e.told = c.told /\ e.held = <<>>
          /\ e.socket = "none" /\ e.fetching = FALSE /\ e.echo = c.echo
      BY <3>1 DEF Client
    <3>4. d = [e EXCEPT !.pill = "off", !.cleared = old, !.timer = "connect"]
      BY <2>4, <3>1 DEF Later, Client
    <3> HIDE DEF e
    <3> QED BY <2>3, <3>2, <3>3, <3>4 DEF Client
  <2>6. Once(<<>>, HoldId) /\ Of(<<>>, HoldId) = {} /\ ToSet(<<>>) = {}
    BY OnceNone DEF ToSet
  <2>7. OnePlace(d, k)
    BY <1>1, <2>2, <2>5, <2>6 DEF OnePlace, Apart, Gone, Dropped
  <2>8. OneWay(d)
    BY <2>5 DEF OneWay
  <2> QED BY <2>5, <2>7, <2>8 DEF Tidy, d
<1>3. CASE answer # "off"
  <2>1. /\ d \in Client /\ SameQueues(c, d) /\ d.echo = c.echo /\ d.fetching = FALSE
        /\ d.pill # "outdated"
        /\ \/ d.timer = "connect" /\ d.socket = "none"
           \/ d.timer = "none" /\ d.socket = "opening"
    <3>1. CASE answer = "error"
      <4> DEFINE p == IF c.resubscribing THEN "connecting" ELSE c.pill
                 e == [c EXCEPT !.fetching = FALSE, !.resubscribing = FALSE, !.pill = p]
      <4>1. p # "outdated" /\ p \in {"connecting", "starting", "off", "live", "outdated", "full"}
        BY <1>1 DEF Client
      <4>2. d = Later(e)
        BY <3>1 DEF OnSession
      <4> HIDE DEF p, d
      <4>3. /\ e \in Client /\ SameQueues(c, e) /\ e.echo = c.echo /\ e.fetching = FALSE
            /\ e.pill = p /\ e.socket = "none"
        BY <1>1, <4>1 DEF Client, SameQueues
      <4> HIDE DEF e
      <4> QED BY <4>1, <4>2, <4>3 DEF Later, Client, SameQueues
    <3>2. CASE answer = "starting"
      <4>1. d = Later([[c EXCEPT !.fetching = FALSE, !.off = FALSE] EXCEPT !.pill = "starting"])
        BY <3>2 DEF OnSession
      <4> HIDE DEF d
      <4> QED BY <1>1, <4>1 DEF Later, Client, SameQueues
    <3>3. CASE answer = "on"
      <4>1. d = [[c EXCEPT !.fetching = FALSE, !.off = FALSE] EXCEPT !.socket = "opening"]
        BY <3>3 DEF OnSession
      <4> HIDE DEF d
      <4> QED BY <1>1, <4>1 DEF Client, SameQueues
    <3> QED BY <1>3, <3>1, <3>2, <3>3 DEF SessionAnswer
  <2> HIDE DEF d
  <2>2. Tidy(d, k)
    BY <2>1, QueuesTidy
  <2>3. OneWay(d)
    BY <2>1 DEF OneWay
  <2> QED BY <2>1, <2>2, <2>3 DEF d
<1> QED BY <1>2, <1>3

\* What a method leaves behind it: its sends and drops are in the record.
Recorded(c, k) ==
    [k EXCEPT !.sent = @ \o [i \in DOMAIN c.out |-> c.out[i].id],
              !.told = @ \cup c.told, !.cleared = @ \cup c.cleared]

LEMMA CleanTidy ==
    ASSUME NEW c, NEW k \in Fate, NEW n, Tidy(c, k), n = Recorded(c, k)
    PROVE  /\ n \in Fate /\ n.asked = k.asked /\ n.taken = k.taken /\ Tidy(Clean(c), n)
           /\ LET d == Clean(c)
              IN  /\ d.out = <<>> /\ d.told = {} /\ d.cleared = {} /\ Steady(c, d)
<1> DEFINE s == c.out
           m == [i \in DOMAIN s |-> s[i].id]
           x == k.sent \o m
           d == Clean(c)
<1>1. /\ c \in Client /\ OnePlace(c, k) /\ s \in Seq(Clicks) /\ k.sent \in Seq(ClickIds)
      /\ c.told \subseteq ClickIds /\ c.cleared \subseteq ClickIds
      /\ k.told \subseteq ClickIds /\ k.cleared \subseteq ClickIds
      /\ Once(s, ClickId)
  BY DEF Tidy, Client, Fate, OnePlace
<1>2. n = [k EXCEPT !.sent = x, !.told = k.told \cup c.told, !.cleared = k.cleared \cup c.cleared]
  BY DEF Recorded
<1> HIDE DEF s
<1>3. /\ Len(s) \in Nat /\ DOMAIN s = 1..Len(s)
      /\ \A i \in DOMAIN s : s[i] \in Clicks /\ s[i].id \in ClickIds /\ ClickId[s[i]] = s[i].id
  BY <1>1, IdsAre
<1>4. DOMAIN m = DOMAIN s /\ \A i \in DOMAIN s : m[i] = s[i].id
  OBVIOUS
<1>5. m \in Seq(ClickIds)
  BY <1>3
<1> HIDE DEF m
<1>6. \A i \in DOMAIN s : SentId[m[i]] = ClickId[s[i]]
  BY <1>3, <1>4, IdsAre
<1>7. Of(m, SentId) = Of(s, ClickId) /\ Once(m, SentId)
  BY <1>1, <1>4, <1>6, OnceMaps
<1>8. Of(k.sent, SentId) \cap Of(s, ClickId) = {} /\ Once(k.sent, SentId)
  BY <1>1 DEF OnePlace, Apart, s
<1>9. /\ x \in Seq(ClickIds) /\ Of(x, SentId) = Of(k.sent, SentId) \cup Of(s, ClickId)
      /\ Once(x, SentId)
  BY <1>1, <1>5, <1>7, <1>8, SentJoin
<1> HIDE DEF x
<1>10. /\ n \in Fate /\ n.asked = k.asked /\ n.taken = k.taken /\ n.sent = x
       /\ n.told = k.told \cup c.told /\ n.cleared = k.cleared \cup c.cleared
  BY <1>1, <1>2, <1>9 DEF Fate
<1>11. /\ d \in Client /\ d.out = <<>> /\ d.told = {} /\ d.cleared = {} /\ Steady(c, d)
       /\ d.outbox = c.outbox /\ d.held = c.held
  <2>1. <<>> \in Seq(Clicks) /\ {} \in SUBSET ClickIds
    OBVIOUS
  <2>2. d \in Client
    BY <1>1, <2>1 DEF Clean, Client
  <2> QED BY <1>1, <2>2 DEF Clean, Client, Steady
<1> HIDE DEF d
<1>12. Once(<<>>, ClickId) /\ Of(<<>>, ClickId) = {}
  BY OnceNone
<1>13. OnePlace(d, n)
  BY <1>1, <1>9, <1>10, <1>11, <1>12 DEF OnePlace, Apart, Gone, Dropped, s
<1> QED BY <1>10, <1>11, <1>13 DEF Tidy, d
-----------------------------------------------------------------------------
(* The actions.  The invariant in two halves: the page, and what is between    *)
(* it and the machine.                                                         *)
Wire == Clicks \cup {Subscription}
Page ==
    /\ client \in Client /\ client.out = <<>> /\ client.told = {} /\ client.cleared = {}
    /\ client.echo <= clicks.asked /\ clicks \in Fate
    /\ OneWay(client) /\ OnePlace(client, clicks)
Line ==
    /\ up \in Seq(Wire) /\ down \in Seq(Answers)
    /\ machine \in [subscribed : BOOLEAN, redundancy : BOOLEAN]
    /\ trouble \in 0..MaxTrouble /\ Carried

LEMMA Halves == ObserverIInv <=> Page /\ Line
BY DEF ObserverIInv, ObserverTypeOK, Page, Line, Wire

\* A click is not a subscription.
LEMMA ClickIsNot == \A o \in Clicks : o # Subscription /\ o.kind # "subscribe"
BY DEF Clicks, Kinds, Subscription

LEMMA PageIs ==
    ASSUME Page
    PROVE  /\ Tidy(client, clicks) /\ OneWay(client) /\ clicks \in Fate /\ client \in Client
           /\ client.echo \in Nat /\ client.echo <= clicks.asked /\ clicks.asked \in 0..MaxClicks
           /\ client.out = <<>> /\ client.told = {} /\ client.cleared = {}
BY DEF Page, Tidy, Client, Fate

LEMMA WireJoins ==
    ASSUME NEW s \in Seq(Wire), NEW t \in Seq(Wire)
    PROVE  s \o t \in Seq(Wire) /\ ToSet(s \o t) = ToSet(s) \cup ToSet(t)
BY Joined

LEMMA WireTails ==
    ASSUME NEW s \in Seq(Wire), s # <<>>
    PROVE  Head(s) \in Wire /\ Tail(s) \in Seq(Wire) /\ ToSet(s) = ToSet(Tail(s)) \cup {Head(s)}
<1>1. \A t : Range(t) = ToSet(t)
  BY DEF Range, ToSet
<1> QED BY <1>1, TailIs

\* A method that leaves `left`, of the clicks k.
LEMMA MethodRuns ==
    ASSUME NEW k \in Fate, NEW left, Tidy(left, k), OneWay(left), left.echo <= k.asked,
           up \in Seq(Wire), client' = Clean(left), up' = up \o left.out,
           clicks' = Recorded(left, k)
    PROVE  /\ Page' /\ client'.socket = left.socket /\ up' \in Seq(Wire)
           /\ Subscription \notin ToSet(up) => Subscription \notin ToSet(up')
<1>1. /\ clicks' \in Fate /\ clicks'.asked = k.asked /\ Tidy(client', clicks')
      /\ client'.out = <<>> /\ client'.told = {} /\ client'.cleared = {} /\ Steady(left, client')
  BY CleanTidy
<1>2. OneWay(client')
  BY <1>1, SteadyWay
<1>3. Page'
  BY <1>1, <1>2 DEF Page, Tidy, Steady
<1> DEFINE s == left.out
<1>4. s \in Seq(Clicks)
  BY DEF Tidy, Client
<1> HIDE DEF s
<1>5. up' \in Seq(Wire) /\ ToSet(up') = ToSet(up) \cup ToSet(s)
  <2>1. s \in Seq(Wire)
    BY <1>4 DEF Wire
  <2>2. up' = up \o s
    BY DEF s
  <2>3. up \o s \in Seq(Wire) /\ ToSet(up \o s) = ToSet(up) \cup ToSet(s)
    BY <2>1, WireJoins
  <2> QED BY <2>2, <2>3
<1>6. Subscription \notin ToSet(s)
  BY <1>4, ClickIsNot DEF ToSet
<1> QED BY <1>1, <1>3, <1>5, <1>6 DEF Steady

LEMMA RunKeeps ==
    ASSUME Page, up \in Seq(Wire), NEW left, Tidy(left, clicks), OneWay(left),
           left.echo <= client.echo, Run(left)
    PROVE  /\ Page' /\ client'.socket = left.socket /\ up' \in Seq(Wire)
           /\ Subscription \notin ToSet(up) => Subscription \notin ToSet(up')
<1>1. /\ client' = Clean(left) /\ up' = up \o left.out /\ clicks' = Fates(left)
  BY DEF Run
<1>2. left.echo <= clicks.asked /\ clicks \in Fate
  BY PageIs DEF Tidy, Client, Fate
<1>3. clicks' = Recorded(left, clicks)
  BY <1>1 DEF Fates, Recorded
<1> QED BY <1>1, <1>2, <1>3, MethodRuns

\* The line is as it was, and the socket not less open.
LEMMA LineStays ==
    ASSUME Line, up' \in Seq(Wire), Subscription \notin ToSet(up) => Subscription \notin ToSet(up'),
           client'.socket # "open" => client.socket # "open",
           UNCHANGED <<down, machine>>, trouble' \in 0..MaxTrouble
    PROVE  Line'
BY DEF Line, Carried

LEMMA TroubleIs ==
    ASSUME Line, Stays \/ Goes
    PROVE  trouble' \in 0..MaxTrouble
BY ObserverAssumption DEF Line, Stays, Goes

\* The order in which the fates are written is no matter.
LEMMA FateSets ==
    ASSUME NEW k \in Fate, NEW x, NEW t, NEW r, NEW a, NEW y
    PROVE  [[k EXCEPT !.sent = x, !.told = t, !.cleared = r] EXCEPT !.asked = a, !.taken = y]
           = [[k EXCEPT !.asked = a, !.taken = y] EXCEPT !.sent = x, !.told = t, !.cleared = r]
BY DEF Fate

\* A person clicks.
LEMMA PressKeeps ==
    ASSUME ObserverIInv, NEW kind \in {"toggle", "plain"}, NEW on \in BOOLEAN, Press(kind, on)
    PROVE  ObserverIInv'
<1> DEFINE id == clicks.asked + 1
           o == Click(id, kind, on)
           c == IF ~client.off THEN SendStatus(client, o) ELSE client
           n == [clicks EXCEPT !.asked = id, !.taken = IF ~client.off THEN @ \cup {id} ELSE @]
<1>1. Page /\ Line /\ (Stays \/ Goes) /\ up \in Seq(Wire)
  BY Halves DEF Press, Line
<1>2. /\ clicks \in Fate /\ clicks.asked \in Nat /\ clicks.asked < MaxClicks
      /\ client.echo \in Nat /\ client.echo <= clicks.asked /\ client \in Client
      /\ Tidy(client, clicks) /\ OneWay(client) /\ client.off \in BOOLEAN
  BY <1>1, PageIs DEF Press, Client
<1>3. id \in ClickIds /\ id \in 0..MaxClicks
  BY <1>2, ObserverAssumption DEF ClickIds
<1>4. /\ client' = Clean(c) /\ up' = up \o c.out
      /\ clicks' = [Fates(c) EXCEPT !.asked = id, !.taken = IF ~client.off THEN @ \cup {id} ELSE @]
  BY DEF Press
<1> HIDE DEF id
<1>5. /\ o \in Clicks /\ ~IsPresign(o) /\ o.id = id
  BY <1>3 DEF Click, Clicks, Kinds, IsPresign
<1>6. /\ n \in Fate /\ n.asked = id /\ n.sent = clicks.sent /\ n.told = clicks.told
      /\ n.cleared = clicks.cleared
      /\ n.taken = IF ~client.off THEN clicks.taken \cup {id} ELSE clicks.taken
  BY <1>2, <1>3 DEF Fate
<1>7. Tidy(c, n) /\ OneWay(c) /\ c.socket = client.socket /\ c.echo <= n.asked
  <2>1. CASE ~client.off
    <3>1. Joins(clicks, n, o)
      BY <1>5, <1>6, <2>1 DEF Joins, id
    <3>2. /\ Tidy(c, n) /\ OneWay(c) /\ c.socket = client.socket
          /\ c.echo <= client.echo + 1
      BY <1>2, <1>5, <1>6, <2>1, <3>1, SendStatusTidy
    <3>3. c.echo \in Nat
      BY <3>2 DEF Tidy, Client
    <3> QED BY <1>2, <1>6, <3>2, <3>3 DEF id
  <2>2. CASE client.off
    <3>1. c = client /\ n.taken = clicks.taken /\ 1..clicks.asked \subseteq 1..n.asked
      BY <1>2, <1>6, <2>2 DEF id
    <3>2. OnePlace(c, n)
      BY <1>2, <1>6, <3>1 DEF Tidy, OnePlace, Gone, Dropped
    <3> QED BY <1>2, <1>6, <3>1, <3>2 DEF Tidy, id
  <2> QED BY <1>2, <2>1, <2>2
<1>8. clicks' = Recorded(c, n)
  <2> DEFINE x == clicks.sent \o [i \in DOMAIN c.out |-> c.out[i].id]
             t == clicks.told \cup c.told
             r == clicks.cleared \cup c.cleared
             y == IF ~client.off THEN clicks.taken \cup {id} ELSE clicks.taken
  <2>1. Fates(c) = [clicks EXCEPT !.sent = x, !.told = t, !.cleared = r]
    BY DEF Fates
  <2>2. Recorded(c, n) = [n EXCEPT !.sent = x, !.told = t, !.cleared = r]
    BY <1>6 DEF Recorded
  <2>3. n = [clicks EXCEPT !.asked = id, !.taken = y]
    BY <1>2
  <2>4. clicks' = [Fates(c) EXCEPT !.asked = id, !.taken = y]
    BY <1>2, <1>4, <2>1 DEF Fate
  <2> HIDE DEF x, t, r, y, n
  <2>5. [[clicks EXCEPT !.sent = x, !.told = t, !.cleared = r] EXCEPT !.asked = id, !.taken = y]
        = [[clicks EXCEPT !.asked = id, !.taken = y] EXCEPT !.sent = x, !.told = t, !.cleared = r]
    BY <1>2, FateSets
  <2> QED BY <2>1, <2>2, <2>3, <2>4, <2>5
<1> HIDE DEF c, n, o
<1>9. /\ Page' /\ client'.socket = c.socket /\ up' \in Seq(Wire)
      /\ Subscription \notin ToSet(up) => Subscription \notin ToSet(up')
  BY <1>1, <1>4, <1>6, <1>7, <1>8, MethodRuns
<1>10. UNCHANGED <<down, machine>> /\ trouble' \in 0..MaxTrouble
  BY <1>1, TroubleIs DEF Press
<1>11. Line'
  BY <1>1, <1>7, <1>9, <1>10, LineStays
<1> QED BY <1>9, <1>11, Halves, PTL

LEMMA UploadKeeps ==
    ASSUME ObserverIInv, Upload
    PROVE  ObserverIInv'
<1> DEFINE id == clicks.asked + 1
           o == Click(id, "presign", FALSE)
           c == Presign(client, o)
           n == [clicks EXCEPT !.asked = id]
<1>1. Page /\ Line /\ (Stays \/ Goes) /\ up \in Seq(Wire)
  BY Halves DEF Upload, Line
<1>2. /\ clicks \in Fate /\ clicks.asked \in Nat /\ clicks.asked < MaxClicks
      /\ client.echo \in Nat /\ client.echo <= clicks.asked
      /\ Tidy(client, clicks) /\ OneWay(client)
  BY <1>1, PageIs DEF Upload
<1>3. id \in ClickIds /\ id \in 0..MaxClicks
  BY <1>2, ObserverAssumption DEF ClickIds
<1>4. /\ client' = Clean(c) /\ up' = up \o c.out
      /\ clicks' = [Fates(c) EXCEPT !.asked = clicks.asked + 1]
  BY <1>2 DEF Upload, Fates, Fate
<1>5. clicks' = Recorded(c, n)
  BY <1>2, <1>4 DEF Fates, Fate, Recorded
<1> HIDE DEF id
<1>6. o \in Clicks /\ IsPresign(o) /\ o.id = id
  BY <1>3 DEF Click, Clicks, Kinds, IsPresign
<1>7. /\ n \in Fate /\ n.asked = id /\ n.sent = clicks.sent /\ n.told = clicks.told
      /\ n.cleared = clicks.cleared /\ n.taken = clicks.taken
  BY <1>2, <1>3 DEF Fate
<1>8. Joins(clicks, n, o)
  BY <1>6, <1>7 DEF Joins, id
<1> HIDE DEF n, o
<1>9. Tidy(c, n) /\ Steady(client, c)
  BY <1>2, <1>6, <1>7, <1>8, PresignTidy
<1> HIDE DEF c
<1>10. OneWay(c)
  BY <1>2, <1>9, SteadyWay
<1>11. c.echo <= n.asked
  BY <1>2, <1>7, <1>9 DEF Steady, id
<1>12. /\ Page' /\ client'.socket = c.socket /\ up' \in Seq(Wire)
       /\ Subscription \notin ToSet(up) => Subscription \notin ToSet(up')
  BY <1>1, <1>4, <1>5, <1>7, <1>9, <1>10, <1>11, MethodRuns
<1>13. UNCHANGED <<down, machine>> /\ trouble' \in 0..MaxTrouble
  BY <1>1, TroubleIs DEF Upload
<1>14. Line'
  BY <1>1, <1>9, <1>12, <1>13, LineStays DEF Steady
<1> QED BY <1>12, <1>14, Halves, PTL

\* A handler that only changes the client.
LEMMA PageStays ==
    ASSUME Page, Tidy(client', clicks), OneWay(client'), client'.out = <<>>,
           client'.told = {}, client'.cleared = {}, client'.echo <= client.echo,
           clicks' = clicks
    PROVE  Page'
<1>1. client'.echo \in Nat /\ client.echo \in Nat /\ clicks.asked \in Nat
  BY ObserverAssumption DEF Page, Tidy, Client, Fate
<1> QED BY <1>1 DEF Page, Tidy

LEMMA UploadTimesOutKeeps ==
    ASSUME ObserverIInv, UploadTimesOut
    PROVE  ObserverIInv'
<1>1. Page /\ Line /\ (Stays \/ Goes) /\ up \in Seq(Wire)
  BY Halves DEF UploadTimesOut, Line
<1>2. client' = SettlePresign(client) /\ UNCHANGED <<up, down, machine, clicks>>
  BY DEF UploadTimesOut
<1>3. /\ Tidy(client', clicks) /\ Steady(client, client') /\ client'.out = client.out
      /\ client'.told = client.told /\ client'.cleared = client.cleared
  BY <1>1, <1>2, PageIs, SettlePresignTidy
<1>4. OneWay(client')
  BY <1>1, <1>3, PageIs, SteadyWay
<1>5. client'.echo <= client.echo
  BY <1>1, <1>3, PageIs DEF Steady
<1>6. Page'
  BY <1>1, <1>2, <1>3, <1>4, <1>5, PageIs, PageStays
<1>7. Line'
  BY <1>1, <1>2, <1>3, TroubleIs, LineStays DEF Steady
<1> QED BY <1>6, <1>7, Halves, PTL

LEMMA SpacingOverKeeps ==
    ASSUME ObserverIInv, SpacingOver
    PROVE  ObserverIInv'
<1> DEFINE r == [client EXCEPT !.justSent = FALSE, !.spacing = FALSE]
           left == IF client.spacing THEN Drain(r) ELSE r
<1>1. Page /\ Line /\ (Stays \/ Goes) /\ up \in Seq(Wire)
  BY Halves DEF SpacingOver, Line
<1>2. Run(left) /\ UNCHANGED <<down, machine>>
  BY DEF SpacingOver
<1>3. r \in Client /\ SameQueues(client, r) /\ Steady(client, r)
  BY <1>1, PageIs DEF Client, SameQueues, Steady
<1> HIDE DEF r
<1>4. Tidy(r, clicks) /\ clicks \in Fate
  BY <1>1, <1>3, PageIs, QueuesTidy
<1>5. Tidy(Drain(r), clicks) /\ Steady(r, Drain(r))
  BY <1>4, DrainTidy
<1>6. Tidy(left, clicks) /\ Steady(client, left)
  BY <1>3, <1>4, <1>5 DEF Steady
<1> HIDE DEF left
<1>7. OneWay(left) /\ left.echo <= client.echo
  BY <1>1, <1>6, PageIs, SteadyWay DEF Steady
<1>8. /\ Page' /\ client'.socket = left.socket /\ up' \in Seq(Wire)
      /\ Subscription \notin ToSet(up) => Subscription \notin ToSet(up')
  BY <1>1, <1>2, <1>6, <1>7, RunKeeps
<1>9. Line'
  BY <1>1, <1>2, <1>6, <1>8, TroubleIs, LineStays DEF Steady
<1> QED BY <1>8, <1>9, Halves, PTL

\* What is held grows old where it is.
LEMMA HoldsAged ==
    ASSUME NEW s \in Seq(Holds)
    PROVE  LET m == [i \in DOMAIN s |-> [s[i] EXCEPT !.old = TRUE]]
           IN  /\ m \in Seq(Holds) /\ Of(m, HoldId) = Of(s, HoldId)
               /\ Once(s, HoldId) => Once(m, HoldId)
               /\ \A h \in ToSet(m) : \E g \in ToSet(s) : h.click = g.click
<1> DEFINE m == [i \in DOMAIN s |-> [s[i] EXCEPT !.old = TRUE]]
<1>1. /\ Len(s) \in Nat /\ DOMAIN s = 1..Len(s) /\ \A i \in DOMAIN s : s[i] \in Holds
  OBVIOUS
<1>2. ASSUME NEW h \in Holds
      PROVE  LET g == [h EXCEPT !.old = TRUE] IN g \in Holds /\ g.click = h.click
  BY DEF Holds
<1>3. DOMAIN m = DOMAIN s /\ \A i \in DOMAIN s : m[i] = [s[i] EXCEPT !.old = TRUE]
  OBVIOUS
<1>4. \A i \in DOMAIN s : m[i] \in Holds /\ m[i].click = s[i].click
  BY <1>1, <1>2, <1>3
<1>5. m \in Seq(Holds)
  <2>1. m \in [1..Len(s) -> Holds]
    BY <1>1, <1>4
  <2> QED BY <1>1, <2>1
<1> HIDE DEF m
<1>6. \A i \in DOMAIN s : HoldId[m[i]] = HoldId[s[i]]
  BY <1>1, <1>4, IdsAre
<1>7. Of(m, HoldId) = Of(s, HoldId) /\ (Once(s, HoldId) => Once(m, HoldId))
  BY <1>3, <1>6, OnceMaps
<1>8. \A h \in ToSet(m) : \E g \in ToSet(s) : h.click = g.click
  BY <1>3, <1>4 DEF ToSet
<1> QED BY <1>5, <1>7, <1>8 DEF m

LEMMA WaitLongKeeps ==
    ASSUME ObserverIInv, WaitLong
    PROVE  ObserverIInv'
<1> DEFINE s == client.held
           m == [i \in DOMAIN s |-> [s[i] EXCEPT !.old = TRUE]]
           c == [client EXCEPT !.held = m]
<1>1. Page /\ Line /\ (Stays \/ Goes) /\ up \in Seq(Wire)
  BY Halves DEF WaitLong, Line
<1>2. client' = c /\ UNCHANGED <<up, down, machine, clicks>>
  BY DEF WaitLong
<1>3. client \in Client /\ OnePlace(client, clicks) /\ s \in Seq(Holds) /\ Once(s, HoldId)
  BY <1>1, PageIs DEF Client, OnePlace, Tidy
<1>4. /\ m \in Seq(Holds) /\ Of(m, HoldId) = Of(s, HoldId) /\ Once(m, HoldId)
      /\ \A h \in ToSet(m) : \E g \in ToSet(s) : h.click = g.click
  BY <1>3, HoldsAged
<1> HIDE DEF m
<1>5. /\ c \in Client /\ Steady(client, c) /\ c.outbox = client.outbox /\ c.held = m
      /\ c.out = client.out /\ c.told = client.told /\ c.cleared = client.cleared
  BY <1>3, <1>4 DEF Client, Steady
<1> HIDE DEF c
<1>6. \A h \in ToSet(m) : ~IsPresign(h.click)
  BY <1>3, <1>4 DEF OnePlace
<1>7. OnePlace(c, clicks)
  BY <1>3, <1>4, <1>5, <1>6 DEF OnePlace, Apart, Gone, Dropped
<1>8. Tidy(c, clicks) /\ OneWay(c)
  BY <1>1, <1>5, <1>7, PageIs, SteadyWay DEF Tidy
<1>9. Page'
  BY <1>1, <1>2, <1>5, <1>8, PageIs, PageStays DEF Steady
<1>10. Line'
  BY <1>1, <1>2, <1>5, TroubleIs, LineStays DEF Steady
<1> QED BY <1>9, <1>10, Halves, PTL

\* A page that connects has a session on its way, and nothing else.
LEMMA ConnectTidy ==
    ASSUME NEW c, NEW k \in Fate, Tidy(c, k), c.pill # "outdated", c.socket = "none"
    PROVE  LET d == Connect(c)
           IN  /\ Tidy(d, k) /\ OneWay(d) /\ d.socket = "none" /\ d.echo = c.echo
               /\ d.out = c.out /\ d.told = c.told /\ d.cleared = c.cleared
<1> DEFINE d == Connect(c)
           p == IF c.resubscribing THEN c.pill ELSE "connecting"
<1>1. c \in Client /\ d = [c EXCEPT !.timer = "none", !.fetching = TRUE, !.pill = p]
  BY DEF Tidy, Connect
<1>2. p # "outdated" /\ p \in {"connecting", "starting", "off", "live", "outdated", "full"}
  BY <1>1 DEF Client
<1> HIDE DEF p, d
<1>3. /\ d \in Client /\ SameQueues(c, d) /\ d.socket = "none" /\ d.timer = "none"
      /\ d.fetching /\ d.pill # "outdated" /\ d.echo = c.echo
  BY <1>1, <1>2 DEF Client, SameQueues
<1>4. Tidy(d, k)
  BY <1>3, QueuesTidy
<1>5. OneWay(d)
  BY <1>3 DEF OneWay
<1> QED BY <1>3, <1>4, <1>5 DEF SameQueues, d

LEMMA ReconnectKeeps ==
    ASSUME ObserverIInv, Reconnect
    PROVE  ObserverIInv'
<1>1. Page /\ Line /\ (Stays \/ Goes) /\ up \in Seq(Wire)
  BY Halves DEF Reconnect, Line
<1>2. client' = Connect(client) /\ UNCHANGED <<up, down, machine, clicks>>
      /\ client.timer = "connect"
  BY DEF Reconnect
<1>3. client.socket = "none" /\ client.pill # "outdated"
  BY <1>1, <1>2, PageIs DEF OneWay
<1>4. /\ Tidy(client', clicks) /\ OneWay(client') /\ client'.socket = "none"
      /\ client'.echo = client.echo /\ client'.out = client.out
      /\ client'.told = client.told /\ client'.cleared = client.cleared
  BY <1>1, <1>2, <1>3, PageIs, ConnectTidy
<1>5. client'.echo <= client.echo
  BY <1>1, <1>4, PageIs
<1>6. Page'
  BY <1>1, <1>2, <1>4, <1>5, PageIs, PageStays
<1>7. Line'
  BY <1>1, <1>2, <1>3, TroubleIs, LineStays
<1> QED BY <1>6, <1>7, Halves, PTL

\* What is still heard of a socket that is gone subscribes nobody.
LEMMA HeardIs ==
    ASSUME NEW s \in Seq(Wire)
    PROVE  Heard(s) \in Seq(Wire) /\ Subscription \notin ToSet(Heard(s))
<1> DEFINE S == {o \in ToSet(s) : o.kind \in {"subscribe", "presign"}}
           w == Without(s, S)
<1>1. w \in Seq(Wire) /\ Range(w) = Range(s) \ S
  BY WithoutIs
<1>2. Range(w) = ToSet(w) /\ Range(s) = ToSet(s)
  BY DEF Range, ToSet
<1>3. Subscription.kind = "subscribe"
  BY DEF Subscription
<1>4. Subscription \notin ToSet(w)
  BY <1>1, <1>2, <1>3
<1> QED BY <1>1, <1>4 DEF Heard

\* A socket that goes takes what it carried, and the subscription, with it.
LEMMA CutLine ==
    ASSUME Line, Stays \/ Goes, up' \in Seq(Wire), Subscription \notin ToSet(up'),
           down' = <<>>, machine' = [machine EXCEPT !.subscribed = FALSE]
    PROVE  Line'
<1>1. machine' \in [subscribed : BOOLEAN, redundancy : BOOLEAN] /\ ~machine'.subscribed
  BY DEF Line
<1>2. down' \in Seq(Answers) /\ trouble' \in 0..MaxTrouble
  BY TroubleIs
<1> QED BY <1>1, <1>2 DEF Line, Carried

LEMMA SwapSocketKeeps ==
    ASSUME ObserverIInv, SwapSocket
    PROVE  ObserverIInv'
<1> DEFINE c == [client EXCEPT !.socket = "none"]
<1>1. Page /\ Line /\ (Stays \/ Goes) /\ up \in Seq(Wire)
  BY Halves DEF SwapSocket, Line
<1>2. /\ client' = Connect(c) /\ up' = Heard(up) /\ down' = <<>>
      /\ machine' = [machine EXCEPT !.subscribed = FALSE] /\ clicks' = clicks
      /\ client.timer = "resubscribe"
  BY DEF SwapSocket
<1>3. client \in Client /\ OneWay(client) /\ client.socket # "none" /\ client.pill # "outdated"
  BY <1>1, <1>2, PageIs DEF OneWay
<1>4. /\ c \in Client /\ SameQueues(client, c) /\ c.socket = "none" /\ c.pill = client.pill
      /\ c.echo = client.echo
  BY <1>3 DEF Client, SameQueues
<1> HIDE DEF c
<1>5. Tidy(c, clicks)
  BY <1>1, <1>4, PageIs, QueuesTidy
<1>6. /\ Tidy(client', clicks) /\ OneWay(client') /\ client'.socket = "none"
      /\ client'.echo = c.echo /\ client'.out = c.out
      /\ client'.told = c.told /\ client'.cleared = c.cleared
  BY <1>1, <1>2, <1>3, <1>4, <1>5, PageIs, ConnectTidy
<1>7. client'.echo <= client.echo
  BY <1>1, <1>4, <1>6, PageIs
<1>8. Page'
  BY <1>1, <1>2, <1>4, <1>6, <1>7, PageIs, PageStays DEF SameQueues
<1>9. up' \in Seq(Wire) /\ Subscription \notin ToSet(up')
  BY <1>1, <1>2, HeardIs
<1>10. Line'
  BY <1>1, <1>2, <1>9, CutLine
<1> QED BY <1>8, <1>10, Halves, PTL

LEMMA SessionAnswersKeeps ==
    ASSUME ObserverIInv, NEW answer \in SessionAnswer, SessionAnswers(answer)
    PROVE  ObserverIInv'
<1> DEFINE left == OnSession(client, answer)
<1>1. Page /\ Line /\ (Stays \/ Goes) /\ up \in Seq(Wire)
  BY Halves DEF SessionAnswers, Line
<1>2. Run(left) /\ UNCHANGED <<down, machine>> /\ client.fetching
  BY DEF SessionAnswers
<1>3. client.socket = "none"
  BY <1>1, <1>2, PageIs DEF OneWay
<1>4. Tidy(left, clicks) /\ OneWay(left) /\ left.socket # "open" /\ left.echo = client.echo
  BY <1>1, <1>2, PageIs, OnSessionTidy
<1> HIDE DEF left
<1>5. left.echo <= client.echo
  BY <1>1, <1>4, PageIs
<1>6. /\ Page' /\ client'.socket = left.socket /\ up' \in Seq(Wire)
      /\ Subscription \notin ToSet(up) => Subscription \notin ToSet(up')
  BY <1>1, <1>2, <1>4, <1>5, RunKeeps
<1>7. Line'
  BY <1>1, <1>2, <1>3, <1>6, TroubleIs, LineStays
<1> QED BY <1>6, <1>7, Halves, PTL

LEMMA OpenKeeps ==
    ASSUME ObserverIInv, Open
    PROVE  ObserverIInv'
<1> DEFINE c == [client EXCEPT !.socket = "open", !.justSent = TRUE]
<1>1. Page /\ Line /\ (Stays \/ Goes) /\ up \in Seq(Wire)
  BY Halves DEF Open, Line
<1>2. /\ client' = c /\ up' = Append(up, Subscription) /\ UNCHANGED <<down, machine, clicks>>
      /\ client.socket = "opening"
  BY DEF Open
<1>3. /\ c \in Client /\ SameQueues(client, c) /\ c.socket = "open" /\ c.timer = client.timer
      /\ c.fetching = client.fetching /\ c.pill = client.pill /\ c.echo = client.echo
  BY <1>1, PageIs DEF Client, SameQueues
<1> HIDE DEF c
<1>4. Tidy(c, clicks)
  BY <1>1, <1>3, PageIs, QueuesTidy
<1>5. OneWay(c)
  BY <1>1, <1>2, <1>3, PageIs DEF OneWay
<1>6. c.out = <<>> /\ c.told = {} /\ c.cleared = {} /\ c.echo <= client.echo
  BY <1>1, <1>3, PageIs DEF SameQueues
<1>7. Page'
  BY <1>1, <1>2, <1>4, <1>5, <1>6, PageStays
<1>8. up' \in Seq(Wire)
  BY <1>1, <1>2 DEF Wire
<1>9. Line'
  BY <1>1, <1>2, <1>3, <1>8, TroubleIs DEF Line, Carried
<1> QED BY <1>7, <1>9, Halves, PTL

LEMMA ReadKeeps ==
    ASSUME ObserverIInv, Read
    PROVE  ObserverIInv'
<1> DEFINE m == Head(down)
           left == OnMessage(client, m)
<1>1. Page /\ Line /\ (Stays \/ Goes) /\ up \in Seq(Wire) /\ down \in Seq(Answers) /\ down # <<>>
  BY Halves DEF Read, Line
<1>2. Run(left) /\ down' = Tail(down) /\ UNCHANGED machine
  BY DEF Read
<1>3. m \in Answers /\ Tail(down) \in Seq(Answers)
  BY <1>1
<1>4. client.socket = "open"
  BY <1>1 DEF Line, Carried
<1> HIDE DEF m
<1>5. /\ Tidy(left, clicks) /\ OneWay(left) /\ left.socket = client.socket
      /\ left.echo <= client.echo
  BY <1>1, <1>3, <1>4, PageIs, OnMessageTidy
<1> HIDE DEF left
<1>6. Page' /\ client'.socket = left.socket /\ up' \in Seq(Wire)
  BY <1>1, <1>2, <1>5, RunKeeps
<1>7. Line'
  BY <1>1, <1>2, <1>3, <1>4, <1>5, <1>6, TroubleIs DEF Line, Carried
<1> QED BY <1>6, <1>7, Halves, PTL

LEMMA CloseKeeps ==
    ASSUME ObserverIInv, NEW why \in Reasons, Close(why)
    PROVE  ObserverIInv'
<1>1. Page /\ Line /\ (Stays \/ Goes) /\ up \in Seq(Wire)
  BY Halves DEF Close, Line
<1>2. /\ client' = OnClose(client, why) /\ down' = <<>> /\ clicks' = clicks
      /\ machine' = [machine EXCEPT !.subscribed = FALSE] /\ client.socket # "none"
  BY DEF Close
<1>3. PICK count \in 0..Len(up) : up' = Heard(SubSeq(up, 1, count))
  BY DEF Close
<1>4. /\ Tidy(client', clicks) /\ OneWay(client') /\ client'.echo = client.echo
      /\ client'.out = client.out /\ client'.told = client.told
      /\ client'.cleared = client.cleared
  BY <1>1, <1>2, PageIs, OnCloseTidy
<1>5. client'.echo <= client.echo
  BY <1>1, <1>4, PageIs
<1>6. Page'
  BY <1>1, <1>2, <1>4, <1>5, PageIs, PageStays
<1>7. SubSeq(up, 1, count) \in Seq(Wire)
  BY <1>1
<1>8. up' \in Seq(Wire) /\ Subscription \notin ToSet(up')
  BY <1>3, <1>7, HeardIs
<1>9. Line'
  BY <1>1, <1>2, <1>8, CutLine
<1> QED BY <1>6, <1>9, Halves, PTL

\* What the machine tells goes to an open socket only.
LEMMA TellLine ==
    ASSUME Line, NEW m \in Answers, Tell(m), Stays \/ Goes, up' \in Seq(Wire),
           client' = client, machine' \in [subscribed : BOOLEAN, redundancy : BOOLEAN],
           client.socket # "open" =>
               ~machine'.subscribed /\ Subscription \notin ToSet(up')
    PROVE  Line'
<1>1. trouble' \in 0..MaxTrouble
  BY TroubleIs
<1>2. down' \in Seq(Answers)
  BY DEF Line, Tell
<1>3. client.socket # "open" => down' = <<>>
  BY DEF Line, Carried, Tell
<1> QED BY <1>1, <1>2, <1>3 DEF Line, Carried

LEMMA ServeKeeps ==
    ASSUME ObserverIInv, Serve
    PROVE  ObserverIInv'
<1> DEFINE o == Head(up)
           on == [kind |-> "snapshot", on |-> machine.redundancy]
           applied == [kind |-> "applied"]
           answer == [kind |-> "presigned", id |-> o.id]
<1>1. /\ Page /\ Line /\ (Stays \/ Goes) /\ up \in Seq(Wire) /\ up # <<>>
      /\ machine \in [subscribed : BOOLEAN, redundancy : BOOLEAN]
  BY Halves DEF Serve, Line
<1>2. /\ up' = Tail(up) /\ client' = client /\ clicks' = clicks
      /\ \/ /\ o.kind = "subscribe"
            /\ machine' = [machine EXCEPT !.subscribed = TRUE] /\ Tell(on)
         \/ /\ o.kind = "toggle"
            /\ machine' = [machine EXCEPT !.redundancy = o.on] /\ Tell(applied)
         \/ o.kind = "presign" /\ machine' = machine /\ Tell(answer)
         \/ o.kind = "plain" /\ machine' = machine /\ down' = down
  BY DEF Serve
<1>3. o \in Wire /\ Tail(up) \in Seq(Wire) /\ ToSet(up) = ToSet(Tail(up)) \cup {o}
  BY <1>1, WireTails
<1> HIDE DEF o
<1>4. Page'
  BY <1>1, <1>2 DEF Page
<1>5. client.socket # "open" =>
        o # Subscription /\ ~machine.subscribed /\ Subscription \notin ToSet(up')
  BY <1>1, <1>2, <1>3 DEF Line, Carried
<1>6. o # Subscription => o \in Clicks /\ o.kind # "subscribe"
  BY <1>3, ClickIsNot DEF Wire
<1>7. o = Subscription => o.kind = "subscribe"
  BY DEF Subscription
<1>8. Line'
  <2>1. CASE o.kind = "subscribe"
    <3>1. machine' = [machine EXCEPT !.subscribed = TRUE] /\ Tell(on)
      BY <1>2, <2>1
    <3>2. on \in Answers
      BY <1>1 DEF Answers
    <3>3. client.socket = "open"
      BY <1>5, <1>6, <2>1
    <3>4. machine' \in [subscribed : BOOLEAN, redundancy : BOOLEAN]
      BY <1>1, <3>1
    <3> QED BY <1>1, <1>2, <1>3, <3>1, <3>2, <3>3, <3>4, TellLine
  <2>2. CASE o.kind = "toggle"
    <3>1. machine' = [machine EXCEPT !.redundancy = o.on] /\ Tell(applied)
      BY <1>2, <2>2
    <3>2. applied \in Answers
      BY DEF Answers
    <3>3. o.on \in BOOLEAN
      BY <1>6, <1>7, <2>2 DEF Clicks
    <3>4. /\ machine' \in [subscribed : BOOLEAN, redundancy : BOOLEAN]
          /\ machine'.subscribed = machine.subscribed
      BY <1>1, <3>1, <3>3
    <3> QED BY <1>1, <1>2, <1>3, <1>5, <3>1, <3>2, <3>4, TellLine
  <2>3. CASE o.kind = "presign"
    <3>1. machine' = machine /\ Tell(answer)
      BY <1>2, <2>3
    <3>2. o.id \in ClickIds
      BY <1>6, <1>7, <2>3 DEF Clicks
    <3>3. answer \in Answers
      BY <3>2 DEF Answers
    <3> QED BY <1>1, <1>2, <1>3, <1>5, <3>1, <3>3, TellLine
  <2>4. CASE o.kind = "plain"
    <3>1. machine' = machine /\ down' = down
      BY <1>2, <2>4
    <3> QED BY <1>1, <1>2, <1>3, <1>5, <3>1, TroubleIs DEF Line, Carried
  <2> QED BY <1>2, <2>1, <2>2, <2>3, <2>4
<1> QED BY <1>4, <1>8, Halves, PTL

LEMMA OtherTogglesKeeps ==
    ASSUME ObserverIInv, OtherToggles
    PROVE  ObserverIInv'
<1> DEFINE m == [kind |-> "applied"]
<1>1. /\ Page /\ Line /\ (Stays \/ Goes) /\ up \in Seq(Wire)
      /\ machine \in [subscribed : BOOLEAN, redundancy : BOOLEAN]
  BY Halves DEF OtherToggles, Line
<1>2. /\ machine' = [machine EXCEPT !.redundancy = ~machine.redundancy] /\ Tell(m)
      /\ UNCHANGED <<client, up, clicks>>
  BY DEF OtherToggles
<1>3. /\ machine' \in [subscribed : BOOLEAN, redundancy : BOOLEAN]
      /\ machine'.subscribed = machine.subscribed
  BY <1>1, <1>2
<1>4. m \in Answers
  BY DEF Answers
<1>5. client.socket # "open" => ~machine'.subscribed /\ Subscription \notin ToSet(up')
  BY <1>1, <1>2, <1>3 DEF Line, Carried
<1>6. Page'
  BY <1>1, <1>2 DEF Page
<1>7. Line'
  BY <1>1, <1>2, <1>3, <1>4, <1>5, TellLine
<1> QED BY <1>6, <1>7, Halves, PTL

LEMMA InitObserves == ASSUME ObserverInit PROVE ObserverIInv
<1>1. /\ <<>> \in Seq(Clicks) /\ <<>> \in Seq(Holds) /\ <<>> \in Seq(ClickIds)
      /\ <<>> \in Seq(Answers) /\ <<>> \in Seq(Wire)
      /\ 0 \in 0..MaxClicks /\ 0 \in 0..MaxTrouble /\ {} \in SUBSET ClickIds
  BY ObserverAssumption
<1>2. client \in Client /\ clicks \in Fate
  BY <1>1 DEF ObserverInit, Client, Fate
<1>3. /\ client.outbox = <<>> /\ client.held = <<>> /\ client.out = <<>>
      /\ client.told = {} /\ client.cleared = {} /\ client.fetching /\ client.socket = "none"
      /\ client.timer = "none" /\ client.pill = "connecting" /\ client.echo = 0
  BY DEF ObserverInit
<1>4. /\ clicks.asked = 0 /\ clicks.taken = {} /\ clicks.sent = <<>>
      /\ clicks.told = {} /\ clicks.cleared = {}
  BY DEF ObserverInit
<1>5. OneWay(client)
  BY <1>3 DEF OneWay
<1>6. /\ Once(<<>>, ClickId) /\ Of(<<>>, ClickId) = {} /\ Once(<<>>, HoldId)
      /\ Of(<<>>, HoldId) = {} /\ Once(<<>>, SentId) /\ Of(<<>>, SentId) = {}
      /\ ToSet(<<>>) = {}
  BY OnceNone DEF ToSet
<1>7. OnePlace(client, clicks)
  BY <1>3, <1>4, <1>6 DEF OnePlace, Apart, Gone, Dropped
<1>8. Page
  BY <1>2, <1>3, <1>4, <1>5, <1>7 DEF Page
<1>9. Line
  <2>1. up = <<>> /\ down = <<>> /\ trouble = 0
        /\ machine = [subscribed |-> FALSE, redundancy |-> FALSE]
    BY DEF ObserverInit
  <2>2. machine \in [subscribed : BOOLEAN, redundancy : BOOLEAN] /\ ~machine.subscribed
    BY <2>1
  <2> QED BY <1>1, <1>6, <2>1, <2>2 DEF Line, Carried
<1> QED BY <1>8, <1>9, Halves

LEMMA StepObserves == ASSUME ObserverIInv, [ObserverNext]_observerVars PROVE ObserverIInv'
<1>1. ASSUME NEW on \in BOOLEAN, Press("toggle", on) PROVE ObserverIInv'
  BY <1>1, PressKeeps
<1>2. CASE Press("plain", FALSE)
  BY <1>2, PressKeeps
<1>3. CASE Upload
  BY <1>3, UploadKeeps
<1>4. CASE UploadTimesOut
  BY <1>4, UploadTimesOutKeeps
<1>5. CASE SpacingOver
  BY <1>5, SpacingOverKeeps
<1>6. CASE WaitLong
  BY <1>6, WaitLongKeeps
<1>7. CASE Reconnect
  BY <1>7, ReconnectKeeps
<1>8. CASE SwapSocket
  BY <1>8, SwapSocketKeeps
<1>9. ASSUME NEW answer \in SessionAnswer, SessionAnswers(answer) PROVE ObserverIInv'
  BY <1>9, SessionAnswersKeeps
<1>10. CASE Open
  BY <1>10, OpenKeeps
<1>11. CASE Read
  BY <1>11, ReadKeeps
<1>12. CASE Serve
  BY <1>12, ServeKeeps
<1>13. CASE OtherToggles
  BY <1>13, OtherTogglesKeeps
<1>14. ASSUME NEW why \in Reasons, Close(why) PROVE ObserverIInv'
  BY <1>14, CloseKeeps
<1>15. CASE UNCHANGED observerVars
  BY <1>15 DEF observerVars, ObserverIInv, ObserverTypeOK, Carried
<1> QED
  BY <1>1, <1>2, <1>3, <1>4, <1>5, <1>6, <1>7, <1>8, <1>9, <1>10, <1>11, <1>12, <1>13, <1>14,
     <1>15 DEF ObserverNext, SessionAnswer, Reasons

(* The page, its socket and the queues of clicks stay sound, and the echoes *)
(* it waits for are never more than the toggles it asked for: the inductive *)
(* invariant, which what follows rests on.                                  *)
THEOREM ObserverSound == ObserverSpec => []ObserverIInv
<1>1. ObserverInit => ObserverIInv
  BY InitObserves
<1>2. ObserverIInv /\ [ObserverNext]_observerVars => ObserverIInv'
  BY StepObserves
<1> QED BY <1>1, <1>2, PTL DEF ObserverSpec

\* One way on, counted.
LEMMA WayIsOne == ASSUME OneWay(client) PROVE OneWayOn
<1> DEFINE P(way) == CASE way = "timer" -> client.timer = "connect"
                       [] way = "fetch" -> client.fetching
                       [] way = "socket" -> client.socket # "none"
                       [] way = "outdated" -> client.pill = "outdated"
           Ways == {"timer", "fetch", "socket", "outdated"}
           S == {way \in Ways : P(way)}
<1>1. /\ P("timer") <=> client.timer = "connect"
      /\ P("fetch") <=> client.fetching
      /\ P("socket") <=> client.socket # "none"
      /\ P("outdated") <=> client.pill = "outdated"
  OBVIOUS
<1> HIDE DEF P
<1>2. \E way \in Ways : S = {way}
  <2>1. CASE client.timer = "connect"
    <3>1. S = {"timer"}
      BY <1>1, <2>1 DEF OneWay
    <3> QED BY <3>1
  <2>2. CASE client.fetching
    <3>1. S = {"fetch"}
      BY <1>1, <2>2 DEF OneWay
    <3> QED BY <3>1
  <2>3. CASE client.socket # "none"
    <3>1. S = {"socket"}
      BY <1>1, <2>3 DEF OneWay
    <3> QED BY <3>1
  <2>4. CASE client.pill = "outdated"
    <3>1. S = {"outdated"}
      BY <1>1, <2>4 DEF OneWay
    <3> QED BY <3>1
  <2> QED BY <2>1, <2>2, <2>3, <2>4 DEF OneWay
<1>3. Cardinality(S) = 1
  BY <1>2, FS_Singleton
<1> QED BY <1>3 DEF OneWayOn, OneWay, P

\* How often an identity is in a list that has each once.
LEMMA CountOnce ==
    ASSUME NEW f, NEW s, NEW m, NEW id, DOMAIN m = DOMAIN s,
           \A i \in DOMAIN s : m[i] = f[s[i]], Once(s, f)
    PROVE  Count(m, id) = IF id \in Of(s, f) THEN 1 ELSE 0
<1> DEFINE S == {i \in DOMAIN m : m[i] = id}
<1>1. CASE id \in Of(s, f)
  <2>1. PICK i \in DOMAIN s : f[s[i]] = id
    BY <1>1 DEF Of, ToSet
  <2>2. S = {i}
    BY <2>1 DEF Once
  <2>3. Cardinality(S) = 1
    BY <2>2, FS_Singleton
  <2> QED BY <1>1, <2>3 DEF Count
<1>2. CASE id \notin Of(s, f)
  <2>1. S = {}
    BY <1>2 DEF Of, ToSet
  <2>2. Cardinality(S) = 0
    BY <2>1, FS_EmptySet
  <2> QED BY <1>2, <2>2 DEF Count
<1> QED BY <1>1, <1>2

\* One place, counted.
LEMMA ClickInOne == ASSUME ObserverIInv PROVE ClickInOnePlace
<1> SUFFICES ASSUME NEW id \in clicks.taken PROVE Places(id) = 1
  BY DEF ClickInOnePlace
<1> DEFINE x == client.outbox
           h == client.held
           s == clicks.sent
           mx == [i \in DOMAIN x |-> x[i].id]
           mh == [i \in DOMAIN h |-> h[i].click.id]
           S == {fate \in {"told", "cleared"} : id \in clicks[fate]}
<1>1. /\ Page /\ OnePlace(client, clicks) /\ x \in Seq(Clicks) /\ h \in Seq(Holds)
      /\ s \in Seq(ClickIds)
      /\ client.out = <<>> /\ client.told = {} /\ client.cleared = {}
  BY Halves DEF Page, Client, Fate
<1> HIDE DEF x, h, s
<1>2. Count(mx, id) = IF id \in Of(x, ClickId) THEN 1 ELSE 0
  <2>1. DOMAIN mx = DOMAIN x /\ \A i \in DOMAIN x : mx[i] = ClickId[x[i]]
    BY <1>1, IdsAre
  <2>2. Once(x, ClickId)
    BY <1>1 DEF OnePlace, x
  <2> HIDE DEF mx
  <2> QED BY <2>1, <2>2, CountOnce
<1>3. Count(mh, id) = IF id \in Of(h, HoldId) THEN 1 ELSE 0
  <2>1. DOMAIN mh = DOMAIN h /\ \A i \in DOMAIN h : mh[i] = HoldId[h[i]]
    BY <1>1, IdsAre
  <2>2. Once(h, HoldId)
    BY <1>1 DEF OnePlace, h
  <2> HIDE DEF mh
  <2> QED BY <2>1, <2>2, CountOnce
<1>4. Count(s, id) = IF id \in Of(s, SentId) THEN 1 ELSE 0
  <2>1. \A i \in DOMAIN s : s[i] = SentId[s[i]]
    BY <1>1, IdsAre
  <2>2. Once(s, SentId)
    BY <1>1 DEF OnePlace, s
  <2> QED BY <2>1, <2>2, CountOnce
<1>5. Of(client.out, ClickId) = {}
  BY <1>1, OnceNone
<1>6. /\ Of(x, ClickId) \cap (Of(h, HoldId) \cup Of(s, SentId) \cup clicks.told \cup clicks.cleared) = {}
      /\ Of(h, HoldId) \cap (Of(s, SentId) \cup clicks.told \cup clicks.cleared) = {}
      /\ Of(s, SentId) \cap (clicks.told \cup clicks.cleared) = {}
      /\ clicks.told \cap clicks.cleared = {}
      /\ id \in Of(x, ClickId) \cup Of(h, HoldId) \cup Of(s, SentId) \cup clicks.told \cup clicks.cleared
  BY <1>1, <1>5 DEF OnePlace, Apart, Gone, Dropped, x, h, s
<1>7. Cardinality(S) = IF id \in clicks.told \cup clicks.cleared THEN 1 ELSE 0
  <2>1. CASE id \in clicks.told
    <3>1. S = {"told"}
      BY <1>6, <2>1
    <3> QED BY <2>1, <3>1, FS_Singleton
  <2>2. CASE id \in clicks.cleared
    <3>1. S = {"cleared"}
      BY <1>6, <2>2
    <3> QED BY <2>2, <3>1, FS_Singleton
  <2>3. CASE id \notin clicks.told \cup clicks.cleared
    <3>1. S = {}
      BY <2>3
    <3> QED BY <2>3, <3>1, FS_EmptySet
  <2> QED BY <2>1, <2>2, <2>3
<1> HIDE DEF S, mx, mh
<1>8. Count(mx, id) + Count(mh, id) + Count(s, id) + Cardinality(S) = 1
  BY <1>2, <1>3, <1>4, <1>6, <1>7
<1> QED BY <1>8 DEF Places, S, mx, mh, x, h, s

(* However a close, a swap, a session's answer and a message interleave, the *)
(* page has exactly one way on: the timer to connect, a session on its way,  *)
(* a socket, or the word that it is outdated.                                *)
THEOREM WayOn == ObserverSpec => []OneWayOn
<1>1. ObserverIInv => OneWayOn
  BY WayIsOne DEF ObserverIInv
<1> QED BY <1>1, ObserverSound, PTL

(* A control that was taken is in one place, through any number of closes,   *)
(* swaps and long waits: the two queues and the spaced sends neither lose    *)
(* nor repeat a click, and drop one with a word or because the machine is off. *)
THEOREM ClicksPlaced == ObserverSpec => []ClickInOnePlace
<1>1. ObserverIInv => ClickInOnePlace
  BY ClickInOne
<1> QED BY <1>1, ObserverSound, PTL
=============================================================================
