--------------------------- MODULE SettlementProofs ---------------------------
(***************************************************************************)
(* Proofs about Settlement for every set of nodes and identities and every *)
(* value of the caps.  First what the operators of Tasks do to the records *)
(* of a task, then what each leaves of Sound, then one step per action.    *)
(***************************************************************************)
EXTENDS Settlement, FiniteSetTheorems, TLAPS
-----------------------------------------------------------------------------
(* Counting. *)

\* The records of a round are finitely many, and no more than all records.
LEMMA RoundFinite ==
    ASSUME NEW t \in Task, IsFiniteSet(t.results)
    PROVE  /\ IsFiniteSet(Round(t))
           /\ Cardinality(Round(t)) \in Nat /\ Cardinality(t.results) \in Nat
           /\ Cardinality(Round(t)) =< Cardinality(t.results)
<1>1. Round(t) \in SUBSET t.results
    BY DEF Round
<1> QED
    BY <1>1, FS_Subset, FS_CardinalityType

\* Votes are a number: finitely many records name finitely many nodes.
LEMMA VotesNat ==
    ASSUME NEW t \in Task, IsFiniteSet(t.results), NEW identity
    PROVE  Votes(t, identity) \in Nat
<1> DEFINE voters == {n \in Nodes : \E r \in t.results : r.node = n /\ r.identity = identity}
           named == {r.node : r \in t.results}
           f == [r \in t.results |-> r.node]
<1>0. f \in Surjection(t.results, named)
    BY DEF Surjection
<1>1. IsFiniteSet(named)
    BY <1>0, FS_Surjection
<1>2. voters \in SUBSET named
    OBVIOUS
<1>3. IsFiniteSet(voters)
    BY <1>1, <1>2, FS_Subset
<1> QED
    BY <1>3, FS_CardinalityType DEF Votes

\* A leader has the most votes; with no tie, more than anyone else.
LEMMA LeaderWins ==
    ASSUME NEW t \in Task, IsFiniteSet(t.results),
           NEW i \in Leaders(t), NEW j \in Reported(t), j # i
    PROVE  /\ Votes(t, j) =< Votes(t, i)
           /\ (~ \E k, l \in Leaders(t) : k # l) => Votes(t, j) < Votes(t, i)
<1>1. Votes(t, j) =< Votes(t, i)
    BY DEF Leaders
<1>2. ASSUME ~ \E k, l \in Leaders(t) : k # l
      PROVE  Votes(t, j) < Votes(t, i)
  <2>1. j \notin Leaders(t)
      BY <1>2
  <2>2. PICK k \in Reported(t) : ~(Votes(t, k) =< Votes(t, j))
      BY <2>1 DEF Leaders
  <2>3. Votes(t, k) =< Votes(t, i)
      BY DEF Leaders
  <2> QED
      BY <2>2, <2>3, VotesNat
<1> QED
    BY <1>1, <1>2
-----------------------------------------------------------------------------
(* What the operators do. *)

\* Giving out an attempt changes nothing but the open set and the status.
LEMMA AssignKeeps ==
    ASSUME NEW t \in Task, NEW n \in Nodes
    PROVE  LET u == AssignTask(t, n)
           IN /\ u \in Task /\ u.status = "assigned" /\ u.open = t.open \cup {n}
              /\ u.results = t.results /\ u.contestedRounds = t.contestedRounds
              /\ u.requiredAgreement = t.requiredAgreement
              /\ u.accepted = t.accepted
              /\ Round(u) = Round(t)
BY DEF AssignTask, Task, Round

\* One more attempt on an open task that has at most one keeps it sound.
LEMMA AssignSound ==
    ASSUME NEW nodes \in SUBSET Nodes, NEW isSealed \in BOOLEAN,
           NEW t, Sound(t, nodes, isSealed), IsOpen(t),
           NEW n \in nodes, n \notin t.open, Cardinality(t.open) =< 1
    PROVE  Sound(AssignTask(t, n), nodes, isSealed) /\ IsOpen(AssignTask(t, n))
<1> DEFINE u == AssignTask(t, n)
<1>1. t \in Task /\ n \in Nodes
    BY DEF Sound
<1>2. /\ u \in Task /\ u.status = "assigned" /\ u.open = t.open \cup {n}
      /\ u.results = t.results /\ u.contestedRounds = t.contestedRounds
      /\ u.requiredAgreement = t.requiredAgreement
      /\ Round(u) = Round(t)
    BY <1>1, AssignKeeps
<1>3. IsFiniteSet(u.open) /\ Cardinality(u.open) =< 2
    BY <1>2, FS_AddElement, FS_CardinalityType DEF Sound, Evidence
<1>4. ~isSealed /\ t.status # "failed"
    BY DEF Sound, IsOpen
<1>5. Evidence(u, isSealed)
    BY <1>2, <1>3, <1>4 DEF Sound, Evidence, IsOpen
<1> HIDE DEF u
<1> QED
    BY <1>2, <1>3, <1>4, <1>5 DEF Sound, IsOpen, AgreedIn, ElectedIn, u

\* Wanting an attempt leaves room for it.
LEMMA WantsRoom ==
    ASSUME NEW nodes, NEW isSealed, NEW t, Sound(t, nodes, isSealed), Wants(t)
    PROVE  IsOpen(t) /\ Cardinality(t.open) =< 1
<1>1. /\ t \in Task /\ IsFiniteSet(t.results) /\ IsFiniteSet(t.open)
    BY DEF Sound, Evidence
<1>2. Cardinality(t.open) \in Nat /\ Cardinality(Round(t)) \in Nat
    BY <1>1, RoundFinite, FS_CardinalityType
<1>3. t.requiredAgreement \in {1, 2}
    BY <1>1 DEF Task
<1> QED
    BY <1>2, <1>3 DEF Wants

\* fill never hands out a settled task and keeps an open one sound.
LEMMA FilledSound ==
    ASSUME NEW nodes \in SUBSET Nodes, NEW isSealed \in BOOLEAN,
           NEW t, Sound(t, nodes, isSealed),
           NEW u \in Filled(t, nodes)
    PROVE  /\ Sound(u, nodes, isSealed)
           /\ IsOpen(u) <=> IsOpen(t)
           /\ ~IsOpen(t) => u = t
<1> DEFINE once(v) == {AssignTask(v, n) : n \in {m \in nodes : Wants(v) /\ Eligible(v, m)}}
           twins == {AssignTask(t, n) : n \in {m \in nodes : Speculatable(t, m)}}
<1>1. ASSUME NEW v, Sound(v, nodes, isSealed), NEW w \in once(v)
      PROVE  Sound(w, nodes, isSealed) /\ IsOpen(w) /\ IsOpen(v)
  <2>1. PICK n \in nodes : w = AssignTask(v, n) /\ Wants(v) /\ Eligible(v, n)
      BY <1>1
  <2>2. IsOpen(v) /\ Cardinality(v.open) =< 1
      BY <1>1, <2>1, WantsRoom
  <2> QED
      BY <1>1, <2>1, <2>2, AssignSound DEF Eligible
<1>2. ASSUME u \in twins
      PROVE  Sound(u, nodes, isSealed) /\ IsOpen(u) /\ IsOpen(t)
  <2>1. PICK n \in nodes : u = AssignTask(t, n) /\ Speculatable(t, n)
      BY <1>2
  <2>2. IsOpen(t) /\ n \notin t.open /\ Cardinality(t.open) =< 1
      BY <2>1 DEF Speculatable, Eligible, IsOpen
  <2> QED
      BY <2>1, <2>2, AssignSound
<1>3. \/ u = t
      \/ u \in once(t)
      \/ \E v \in once(t) : u \in once(v)
      \/ u \in twins
    BY DEF Filled
<1> QED
    BY <1>1, <1>2, <1>3
\* fill changes the open set and the status, and no other part of the record.
LEMMA FilledKeeps ==
    ASSUME NEW nodes \in SUBSET Nodes, NEW t \in Task, NEW u \in Filled(t, nodes)
    PROVE  /\ u.results = t.results /\ u.accepted = t.accepted
           /\ u.contestedRounds = t.contestedRounds
<1> DEFINE once(v) == {AssignTask(v, n) : n \in {m \in nodes : Wants(v) /\ Eligible(v, m)}}
           twins == {AssignTask(t, n) : n \in {m \in nodes : Speculatable(t, m)}}
<1>1. \A v \in Task : \A w \in once(v) :
          /\ w \in Task /\ w.results = v.results /\ w.accepted = v.accepted
          /\ w.contestedRounds = v.contestedRounds
    BY AssignKeeps
<1>2. \A w \in twins : /\ w.results = t.results /\ w.accepted = t.accepted
                       /\ w.contestedRounds = t.contestedRounds
    BY AssignKeeps
<1>3. \/ u = t
      \/ u \in once(t)
      \/ \E v \in once(t) : u \in once(v)
      \/ u \in twins
    BY DEF Filled
<1> HIDE DEF once, twins
<1> QED
    BY <1>1, <1>2, <1>3
-----------------------------------------------------------------------------
(* Attempts end. *)

\* Closing attempts touches nothing but the two sets of nodes.
LEMMA CloseKeeps ==
    ASSUME NEW t \in Task, NEW ns
    PROVE  LET u == CloseAttempts(t, ns)
           IN /\ u \in Task /\ u.open = t.open \ ns
              /\ u.status = t.status /\ u.results = t.results
              /\ u.accepted = t.accepted
              /\ u.contestedRounds = t.contestedRounds
              /\ u.requiredAgreement = t.requiredAgreement
              /\ u.resolvedByVote = t.resolvedByVote
              /\ u.releases = t.releases
              /\ Round(u) = Round(t)
              /\ Reported(u) = Reported(t)
              /\ \A i : Votes(u, i) = Votes(t, i)
BY DEF CloseAttempts, Task, Round, Reported, Votes

\* A record that differs in its open set and status alone, an open status
\* staying open, is as sound as before when no attempt was added.
LEMMA FewerAttempts ==
    ASSUME NEW nodes, NEW ns, NEW isSealed \in BOOLEAN,
           NEW t, Sound(t, nodes, isSealed),
           NEW u \in Task, u.open \subseteq t.open, u.open \subseteq ns,
           IsOpen(u) <=> IsOpen(t), IsOpen(t) \/ u.status = t.status,
           u.results = t.results, u.accepted = t.accepted,
           u.contestedRounds = t.contestedRounds,
           u.requiredAgreement = t.requiredAgreement,
           u.resolvedByVote = t.resolvedByVote
    PROVE  Sound(u, ns, isSealed)
<1>1. t \in Task
    BY DEF Sound
<1>2. /\ Round(u) = Round(t) /\ Reported(u) = Reported(t)
      /\ \A i : Votes(u, i) = Votes(t, i)
    BY DEF Round, Reported, Votes
<1>3. IsFiniteSet(u.open) /\ Cardinality(u.open) =< 2
  <2>1. IsFiniteSet(t.open) /\ Cardinality(t.open) =< 2 /\ u.open \in SUBSET t.open
      BY DEF Sound, Evidence
  <2> QED
      BY <2>1, FS_Subset, FS_CardinalityType
<1>4. Evidence(u, isSealed)
    BY <1>2, <1>3 DEF Sound, Evidence, IsOpen
<1>5. AgreedIn(u) /\ ElectedIn(u)
    BY <1>2 DEF Sound, AgreedIn, ElectedIn, IsOpen
<1> QED
    BY <1>3, <1>4, <1>5 DEF Sound, IsOpen

LEMMA CloseSound ==
    ASSUME NEW nodes, NEW isSealed \in BOOLEAN, NEW ns,
           NEW t, Sound(t, nodes, isSealed)
    PROVE  Sound(CloseAttempts(t, ns), nodes, isSealed)
<1>1. t \in Task /\ t.open \subseteq nodes
    BY DEF Sound
<1> QED
    BY <1>1, CloseKeeps, FewerAttempts DEF IsOpen

LEMMA ReleaseSound ==
    ASSUME NEW nodes, NEW isSealed \in BOOLEAN,
           NEW t, Sound(t, nodes, isSealed)
    PROVE  /\ Sound(ReleaseTask(t), nodes, isSealed)
           /\ IsOpen(ReleaseTask(t)) <=> IsOpen(t)
           /\ ReleaseTask(t).contestedRounds = t.contestedRounds
           /\ ~IsOpen(t) => ReleaseTask(t) = t
<1> DEFINE u == ReleaseTask(t)
<1>1. t \in Task /\ t.open \subseteq nodes
    BY DEF Sound
<1>2. CASE t.status = "assigned" /\ t.open = {} /\ Round(t) = {}
  <2>1. u = [t EXCEPT !.status = "pending"]
      BY <1>2 DEF ReleaseTask
  <2>2. /\ u \in Task /\ u.open = t.open /\ u.status = "pending"
        /\ u.results = t.results /\ u.accepted = t.accepted
        /\ u.contestedRounds = t.contestedRounds
        /\ u.requiredAgreement = t.requiredAgreement
        /\ u.resolvedByVote = t.resolvedByVote
      BY <1>1, <2>1 DEF Task
  <2>3. IsOpen(u) /\ IsOpen(t)
      BY <1>2, <2>2 DEF IsOpen
  <2> HIDE DEF u
  <2>4. Sound(u, nodes, isSealed)
      BY <1>1, <2>2, <2>3, FewerAttempts
  <2> QED
      BY <2>2, <2>3, <2>4 DEF u
<1>3. CASE ~(t.status = "assigned" /\ t.open = {} /\ Round(t) = {})
    BY <1>3 DEF ReleaseTask
<1> QED
    BY <1>2, <1>3

\* Nodes leave: what is left of the task is sound for the nodes that stay.
LEMMA LoseSound ==
    ASSUME NEW nodes \in SUBSET Nodes, NEW isSealed \in BOOLEAN, NEW ns,
           NEW t, Sound(t, nodes, isSealed)
    PROVE  /\ Sound(LoseNodes(t, ns), nodes \ ns, isSealed)
           /\ IsOpen(LoseNodes(t, ns)) <=> IsOpen(t)
           /\ LoseNodes(t, ns).contestedRounds = t.contestedRounds
           /\ LoseNodes(t, ns).accepted = t.accepted
           /\ ~IsOpen(t) => LoseNodes(t, ns).status = t.status
<1> DEFINE u == [t EXCEPT !.open = @ \ ns, !.closed = @ \ ns, !.gaveUp = @ \ ns]
<1>1. t \in Task /\ t.open \subseteq nodes
    BY DEF Sound
<1>2. /\ u \in Task /\ u.open = t.open \ ns /\ u.status = t.status
      /\ u.results = t.results /\ u.accepted = t.accepted
      /\ u.contestedRounds = t.contestedRounds
      /\ u.requiredAgreement = t.requiredAgreement
      /\ u.resolvedByVote = t.resolvedByVote
    BY <1>1 DEF Task
<1>3. LoseNodes(t, ns) = ReleaseTask(u)
    BY DEF LoseNodes
<1> HIDE DEF u
<1>4. IsOpen(u) <=> IsOpen(t)
    BY <1>2 DEF IsOpen
<1>5. Sound(u, nodes \ ns, isSealed)
    BY <1>1, <1>2, <1>4, FewerAttempts
<1>6. ReleaseTask(u).accepted = u.accepted
    BY <1>2 DEF ReleaseTask, Task
<1> QED
    BY <1>2, <1>3, <1>4, <1>5, <1>6, ReleaseSound
-----------------------------------------------------------------------------
(* A report is recorded, a task settled. *)

\* The part of Evidence that does not depend on the status: how many records
\* there are in the current round and before it.
Counted(t) ==
    /\ IsFiniteSet(t.results)
    /\ \A r \in t.results : r.round =< t.contestedRounds
    /\ Cardinality(t.results) =< ResultsCap
    /\ t.contestedRounds < MaxContestedRounds =>
          /\ Cardinality(Round(t)) =< 2
          /\ Cardinality(t.results) =< 3 * t.contestedRounds + Cardinality(Round(t))

\* A task that has not failed or been sealed is counted.
LEMMA SoundCounted ==
    ASSUME NEW nodes, NEW t, Sound(t, nodes, FALSE), t.status # "failed"
    PROVE  Counted(t)
BY DEF Sound, Evidence, Counted

\* A done task is as sound once it is sealed.
LEMMA SealSound ==
    ASSUME NEW nodes, NEW t, Sound(t, nodes, FALSE), t.status = "done"
    PROVE  Sound(t, nodes, TRUE)
BY DEF Sound, Evidence, IsOpen

\* A new record adds one to its round and to the whole, or was there already.
LEMMA RecordKeeps ==
    ASSUME NEW t \in Task, IsFiniteSet(t.results),
           NEW n \in Nodes, NEW identity \in Identities
    PROVE  LET u == Recorded(t, n, identity)
               r == Report(t, n, identity)
           IN /\ u \in Task /\ r \in Results
              /\ u.results = t.results \cup {r} /\ Round(u) = Round(t) \cup {r}
              /\ u.status = t.status /\ u.open = t.open /\ u.accepted = t.accepted
              /\ u.contestedRounds = t.contestedRounds
              /\ u.requiredAgreement = t.requiredAgreement
              /\ u.resolvedByVote = t.resolvedByVote
              /\ r.node = n /\ r.identity = identity /\ r.round = t.contestedRounds
              /\ r.nth = Cardinality(Said(t, n))
<1> DEFINE u == Recorded(t, n, identity)
           r == Report(t, n, identity)
<1>1. Said(t, n) \in SUBSET t.results
    BY DEF Said, Round
<1>2. Cardinality(Said(t, n)) \in Nat
    BY <1>1, FS_Subset, FS_CardinalityType
<1>3. t.contestedRounds \in Nat
    BY DEF Task
<1>4. /\ r \in Results /\ r.node = n /\ r.identity = identity
      /\ r.round = t.contestedRounds /\ r.nth = Cardinality(Said(t, n))
    BY <1>2, <1>3 DEF Report, Results
<1> HIDE DEF r
<1>5. u = [t EXCEPT !.results = t.results \cup {r}]
    BY DEF Recorded, Task, r
<1> HIDE DEF u
<1>6. /\ u \in Task /\ u.results = t.results \cup {r}
      /\ u.status = t.status /\ u.open = t.open /\ u.accepted = t.accepted
      /\ u.contestedRounds = t.contestedRounds
      /\ u.requiredAgreement = t.requiredAgreement
      /\ u.resolvedByVote = t.resolvedByVote
    BY <1>4, <1>5 DEF Task
<1>7. Round(u) = Round(t) \cup {r}
    BY <1>4, <1>6 DEF Round
<1> QED
    BY <1>4, <1>6, <1>7 DEF u, r

LEMMA RecordCounts ==
    ASSUME NEW t \in Task, IsFiniteSet(t.results),
           NEW n \in Nodes, NEW identity \in Identities
    PROVE  LET u == Recorded(t, n, identity)
           IN /\ IsFiniteSet(u.results)
              /\ Cardinality(u.results) \in Nat /\ Cardinality(Round(u)) \in Nat
              /\ Cardinality(u.results) =< Cardinality(t.results) + 1
              /\ Cardinality(Round(u)) =< Cardinality(Round(t)) + 1
              /\ Cardinality(u.results) - Cardinality(Round(u)) =
                    Cardinality(t.results) - Cardinality(Round(t))
<1> DEFINE u == Recorded(t, n, identity)
           r == Report(t, n, identity)
<1>1. /\ u.results = t.results \cup {r} /\ Round(u) = Round(t) \cup {r}
      /\ r.round = t.contestedRounds
    BY RecordKeeps
<1> HIDE DEF u, r
<1>2. r \in t.results <=> r \in Round(t)
    BY <1>1 DEF Round
<1>3. /\ IsFiniteSet(Round(t))
      /\ Cardinality(Round(t)) \in Nat /\ Cardinality(t.results) \in Nat
    BY RoundFinite
<1>4. /\ IsFiniteSet(u.results) /\ IsFiniteSet(Round(u))
      /\ Cardinality(u.results) =
            IF r \in t.results THEN Cardinality(t.results) ELSE Cardinality(t.results) + 1
      /\ Cardinality(Round(u)) =
            IF r \in Round(t) THEN Cardinality(Round(t)) ELSE Cardinality(Round(t)) + 1
    BY <1>1, <1>3, FS_AddElement
<1> QED
    BY <1>2, <1>3, <1>4 DEF u

LEMMA AcceptKeeps ==
    ASSUME NEW t \in Task, NEW identity \in Identities
    PROVE  LET u == Accept(t, identity)
           IN /\ u \in Task /\ u.open = {} /\ u.results = t.results
              /\ u.accepted = identity
              /\ u.status = IF identity \in Traps THEN "failed" ELSE "done"
              /\ u.contestedRounds = t.contestedRounds
              /\ u.requiredAgreement = t.requiredAgreement
              /\ u.resolvedByVote = t.resolvedByVote
              /\ Round(u) = Round(t) /\ Reported(u) = Reported(t)
              /\ \A i : Votes(u, i) = Votes(t, i)
<1> DEFINE v == CancelOthers(t)
           u == Accept(t, identity)
<1>1. /\ v \in Task /\ v.open = {} /\ v.results = t.results
      /\ v.contestedRounds = t.contestedRounds
      /\ v.requiredAgreement = t.requiredAgreement
      /\ v.resolvedByVote = t.resolvedByVote
    BY CloseKeeps DEF CancelOthers
<1>2. u = [v EXCEPT !.accepted = identity,
                    !.status = IF identity \in Traps THEN "failed" ELSE "done"]
    BY DEF Accept
<1> HIDE DEF u, v
<1>3. /\ u \in Task /\ u.open = {} /\ u.results = t.results
      /\ u.accepted = identity
      /\ u.status = IF identity \in Traps THEN "failed" ELSE "done"
      /\ u.contestedRounds = t.contestedRounds
      /\ u.requiredAgreement = t.requiredAgreement
      /\ u.resolvedByVote = t.resolvedByVote
    BY <1>1, <1>2 DEF Task
<1> QED
    BY <1>3 DEF u, Round, Reported, Votes

\* Accepting keeps a counted task sound if there is agreement or a vote.
LEMMA AcceptSound ==
    ASSUME NEW nodes, NEW t \in Task, Counted(t), NEW identity \in Identities,
           AgreedIn(Accept(t, identity)), ElectedIn(Accept(t, identity))
    PROVE  Sound(Accept(t, identity), nodes, FALSE) /\ ~IsOpen(Accept(t, identity))
<1> DEFINE u == Accept(t, identity)
<1>1. /\ u \in Task /\ u.open = {} /\ u.results = t.results
      /\ u.status \in {"failed", "done"}
      /\ u.contestedRounds = t.contestedRounds
      /\ Round(u) = Round(t)
    BY AcceptKeeps
<1>2. AgreedIn(u) /\ ElectedIn(u)
    OBVIOUS
<1> HIDE DEF u
<1>3. IsFiniteSet(u.open) /\ Cardinality(u.open) =< 2
    BY <1>1, FS_EmptySet
<1>4. Evidence(u, FALSE)
    BY <1>1, <1>3 DEF Evidence, Counted, IsOpen
<1> QED
    BY <1>1, <1>2, <1>3, <1>4 DEF Sound, IsOpen, u

\* A contradiction opens a new round, with nothing reported in it yet.
LEMMA ContestKeeps ==
    ASSUME NEW t \in Task,
           IsFiniteSet(t.results),
           \A r \in t.results : r.round =< t.contestedRounds,
           Cardinality(t.results) =< ResultsCap,
           t.contestedRounds < MaxContestedRounds =>
               Cardinality(t.results) =< 3 * (t.contestedRounds + 1)
    PROVE  LET u == Contest(t)
           IN /\ u \in Task /\ u.open = {} /\ u.status = "pending"
              /\ u.results = t.results
              /\ u.contestedRounds = t.contestedRounds + 1
              /\ Round(u) = {} /\ Counted(u)
<1> DEFINE v == CancelOthers(t)
           u == Contest(t)
<1>1. v \in Task /\ v.open = {} /\ v.results = t.results /\ v.contestedRounds = t.contestedRounds
    BY CloseKeeps DEF CancelOthers
<1> DEFINE a == IF t.status = "done" THEN NoResult ELSE v.accepted
           c == v.contestedRounds + 1
<1>2. u = [v EXCEPT !.accepted = a,
                    !.contestedRounds = c,
                    !.status = "pending"]
    BY DEF Contest
<1>0. a \in Identities \cup {NoResult} /\ c \in Nat /\ c = t.contestedRounds + 1
    BY <1>1 DEF Task
<1> HIDE DEF u, v, a, c
<1>3. /\ u \in Task /\ u.open = {} /\ u.status = "pending" /\ u.results = t.results
      /\ u.contestedRounds = t.contestedRounds + 1
    BY <1>0, <1>1, <1>2 DEF Task
<1>4. t.contestedRounds \in Nat /\ \A r \in t.results : r.round \in Nat
    BY DEF Task, Results
<1>5. Round(u) = {}
    BY <1>3, <1>4 DEF Round
<1>6. Cardinality(Round(u)) = 0
    BY <1>5, FS_EmptySet
<1>7. MaxContestedRounds \in Nat /\ Cardinality(t.results) \in Nat
    BY TasksAssumption, FS_CardinalityType
<1>8. Counted(u)
    BY <1>3, <1>4, <1>6, <1>7 DEF Counted
<1> QED
    BY <1>3, <1>5, <1>8 DEF u

\* After a contest the task goes round again below the cap, or is decided by
\* a vote that no identity beats.
LEMMA VoteSound ==
    ASSUME NEW nodes, NEW t \in Task, t.status = "pending", t.open = {},
           Round(t) = {}, Counted(t),
           NEW u \in SettleContested(t)
    PROVE  /\ Sound(u, nodes, FALSE)
           /\ u.contestedRounds = t.contestedRounds /\ u.results = t.results
<1>1. MaxContestedRounds \in Nat /\ MaxContestedRounds >= 2 /\ t.contestedRounds \in Nat
    BY TasksAssumption DEF Task
<1>2. CASE u = t /\ t.contestedRounds < MaxContestedRounds
  <2>1. IsFiniteSet(t.open) /\ Cardinality(t.open) =< 2
      BY FS_EmptySet
  <2>2. Evidence(t, FALSE)
      BY <1>2, <2>1 DEF Evidence, Counted
  <2> QED
      BY <1>2, <2>1, <2>2 DEF Sound, IsOpen, AgreedIn, ElectedIn
<1>3. CASE /\ ~(t.contestedRounds < MaxContestedRounds /\ \E i, j \in Leaders(t) : i # j)
           /\ \E i \in Leaders(t) : u = Accept([t EXCEPT !.resolvedByVote = TRUE], i)
  <2>1. PICK i \in Leaders(t) : u = Accept([t EXCEPT !.resolvedByVote = TRUE], i)
      BY <1>3
  <2> DEFINE v == [t EXCEPT !.resolvedByVote = TRUE]
  <2>2. /\ v \in Task /\ v.results = t.results /\ v.contestedRounds = t.contestedRounds
        /\ v.resolvedByVote = TRUE
      BY DEF Task
  <2> HIDE DEF v
  <2>3. Round(v) = Round(t) /\ Reported(v) = Reported(t) /\ \A j : Votes(v, j) = Votes(t, j)
      BY <2>2 DEF Round, Reported, Votes
  <2>4. Counted(v)
      BY <2>2, <2>3 DEF Counted
  <2>5. i \in Identities /\ u = Accept(v, i)
      BY <2>1 DEF Leaders, Reported, v
  <2>6. /\ u.accepted = i /\ u.resolvedByVote = TRUE
        /\ u.contestedRounds = t.contestedRounds /\ u.results = t.results
        /\ Reported(u) = Reported(t) /\ \A j : Votes(u, j) = Votes(t, j)
      BY <2>2, <2>3, <2>5, AcceptKeeps
  <2>7. IsFiniteSet(t.results)
      BY DEF Counted
  <2>8. ElectedIn(u)
    <3> SUFFICES ASSUME NEW j \in Reported(t), j # i
                 PROVE  IF t.contestedRounds < MaxContestedRounds
                        THEN Votes(t, j) < Votes(t, i) ELSE Votes(t, j) =< Votes(t, i)
        BY <2>6 DEF ElectedIn
    <3> QED
        BY <1>3, <2>7, LeaderWins
  <2>9. AgreedIn(u)
      BY <2>6 DEF AgreedIn
  <2> QED
      BY <2>2, <2>4, <2>5, <2>6, <2>8, <2>9, AcceptSound
<1>4. \/ u = t /\ t.contestedRounds < MaxContestedRounds
      \/ /\ ~(t.contestedRounds < MaxContestedRounds /\ \E i, j \in Leaders(t) : i # j)
         /\ \E i \in Leaders(t) : u = Accept([t EXCEPT !.resolvedByVote = TRUE], i)
  <2> DEFINE again == \/ t.contestedRounds < 2
                      \/ /\ t.contestedRounds < MaxContestedRounds
                         /\ \E i, j \in Leaders(t) : i # j
  <2>1. SettleContested(t) =
          IF again THEN {t}
          ELSE {Accept([t EXCEPT !.resolvedByVote = TRUE], i) : i \in Leaders(t)}
      BY DEF SettleContested
  <2>2. CASE again
      BY <1>1, <2>1, <2>2
  <2>3. CASE ~again
      BY <2>1, <2>3
  <2> QED
      BY <2>2, <2>3
<1> QED
    BY <1>2, <1>3, <1>4
-----------------------------------------------------------------------------
(* A report is weighed. *)

\* An open task holds at most one report this round, and is not failed.
LEMMA OpenRound ==
    ASSUME NEW nodes, NEW isSealed \in BOOLEAN,
           NEW t, Sound(t, nodes, isSealed), IsOpen(t)
    PROVE  /\ isSealed = FALSE /\ Counted(t)
           /\ t.contestedRounds < MaxContestedRounds
           /\ Cardinality(Round(t)) =< 1
           /\ Round(t) # {} => t.requiredAgreement = 2
           /\ Cardinality(Round(t)) < t.requiredAgreement
<1>1. isSealed = FALSE /\ t.status # "failed" /\ t \in Task
    BY DEF Sound, IsOpen
<1>2. Counted(t)
    BY <1>1, SoundCounted
<1>3. /\ t.contestedRounds < MaxContestedRounds
      /\ \/ Round(t) = {}
         \/ t.requiredAgreement = 2 /\ \E r : Round(t) = {r}
    BY DEF Sound, Evidence
<1>4. Cardinality({}) = 0 /\ \A r : Cardinality({r}) = 1
    BY FS_EmptySet, FS_Singleton
<1>5. t.requiredAgreement \in {1, 2}
    BY <1>1 DEF Task
<1>6. CASE Round(t) = {}
  <2>1. Cardinality(Round(t)) = 0
      BY <1>4, <1>6
  <2>2. /\ Cardinality(Round(t)) =< 1
        /\ Cardinality(Round(t)) < t.requiredAgreement
      BY <1>5, <2>1
  <2> QED
      BY <1>1, <1>2, <1>3, <1>6, <2>2
<1>7. CASE t.requiredAgreement = 2 /\ \E r : Round(t) = {r}
  <2>1. Cardinality(Round(t)) = 1
      BY <1>4, <1>7
  <2>2. /\ Cardinality(Round(t)) =< 1
        /\ Cardinality(Round(t)) < t.requiredAgreement
      BY <1>7, <2>1
  <2> QED
      BY <1>1, <1>2, <1>3, <1>7, <2>2
<1> QED
    BY <1>3, <1>6, <1>7

\* The record of a report that is not dropped leaves room for a new round.
LEMMA RecordRoom ==
    ASSUME NEW nodes, NEW t, Sound(t, nodes, FALSE), t.status # "failed",
           NEW n \in Nodes, NEW identity \in Identities, ~Ignored(t, n, identity)
    PROVE  LET u == Recorded(t, n, identity)
           IN /\ IsFiniteSet(u.results)
              /\ \A r \in u.results : r.round =< u.contestedRounds
              /\ Cardinality(u.results) =< ResultsCap
              /\ u.contestedRounds < MaxContestedRounds =>
                    /\ Cardinality(u.results) =< 3 * u.contestedRounds + Cardinality(Round(u))
                    /\ Cardinality(u.results) =< 3 * (u.contestedRounds + 1)
<1> DEFINE u == Recorded(t, n, identity)
           r == Report(t, n, identity)
<1>1. t \in Task /\ Counted(t)
    BY SoundCounted DEF Sound
<1>2. /\ u.results = t.results \cup {r} /\ r.round = t.contestedRounds
      /\ u.contestedRounds = t.contestedRounds
    BY <1>1, RecordKeeps DEF Counted
<1>3. /\ IsFiniteSet(u.results)
      /\ Cardinality(u.results) \in Nat /\ Cardinality(Round(u)) \in Nat
      /\ Cardinality(u.results) =< Cardinality(t.results) + 1
      /\ Cardinality(Round(u)) =< Cardinality(Round(t)) + 1
      /\ Cardinality(u.results) - Cardinality(Round(u)) =
            Cardinality(t.results) - Cardinality(Round(t))
    BY <1>1, RecordCounts DEF Counted
<1>4. /\ Cardinality(Round(t)) \in Nat /\ Cardinality(t.results) \in Nat
      /\ t.contestedRounds \in Nat
    BY <1>1, RoundFinite DEF Counted, Task
<1>5. Cardinality(t.results) < ResultsCap
    BY <1>4, TasksAssumption DEF Ignored
<1> HIDE DEF u, r
<1>6. \A x \in u.results : x.round =< u.contestedRounds
    BY <1>1, <1>2, <1>4 DEF Counted
<1> QED
    BY <1>1, <1>2, <1>3, <1>4, <1>5, <1>6, TasksAssumption DEF Counted, u

\* A contradiction, weighed: a new round or a vote.
LEMMA DisputeSound ==
    ASSUME NEW nodes, NEW t, Sound(t, nodes, FALSE), t.status # "failed",
           NEW n \in Nodes, NEW identity \in Identities, ~Ignored(t, n, identity),
           NEW u \in SettleContested(Contest(Recorded(t, n, identity)))
    PROVE  /\ Sound(u, nodes, FALSE)
           /\ u.contestedRounds = t.contestedRounds + 1
           /\ Report(t, n, identity) \in u.results
<1> DEFINE v == Recorded(t, n, identity)
<1>1. t \in Task /\ IsFiniteSet(t.results)
    BY DEF Sound, Evidence
<1>2. /\ v \in Task /\ v.contestedRounds = t.contestedRounds
      /\ Report(t, n, identity) \in v.results
    BY <1>1, RecordKeeps
<1>3. /\ IsFiniteSet(v.results)
      /\ \A r \in v.results : r.round =< v.contestedRounds
      /\ Cardinality(v.results) =< ResultsCap
      /\ v.contestedRounds < MaxContestedRounds =>
            Cardinality(v.results) =< 3 * (v.contestedRounds + 1)
    BY RecordRoom
<1> HIDE DEF v
<1>4. /\ Contest(v) \in Task /\ Contest(v).open = {} /\ Contest(v).status = "pending"
      /\ Contest(v).results = v.results
      /\ Contest(v).contestedRounds = v.contestedRounds + 1
      /\ Round(Contest(v)) = {} /\ Counted(Contest(v))
    BY <1>2, <1>3, ContestKeeps
<1>5. u \in SettleContested(Contest(v))
    BY DEF v
<1> QED
    BY <1>2, <1>4, <1>5, VoteSound

\* Agreement: two reports of the round, the new one included, say the same.
LEMMA AgreeSound ==
    ASSUME NEW nodes, NEW t, Sound(t, nodes, FALSE), IsOpen(t),
           NEW n \in Nodes, NEW identity \in Identities, ~Ignored(t, n, identity),
           ~Disputed(Recorded(t, n, identity)),
           Cardinality(Round(Recorded(t, n, identity))) >= t.requiredAgreement
    PROVE  Sound(Accept(Recorded(t, n, identity), identity), nodes, FALSE)
<1> DEFINE v == Recorded(t, n, identity)
           r == Report(t, n, identity)
           u == Accept(v, identity)
<1>1. t \in Task /\ IsFiniteSet(t.results) /\ t.status # "failed"
    BY DEF Sound, Evidence, IsOpen
<1>2. /\ v \in Task /\ Round(v) = Round(t) \cup {r}
      /\ v.requiredAgreement = t.requiredAgreement
      /\ v.contestedRounds = t.contestedRounds
      /\ r.node = n /\ r.identity = identity
    BY <1>1, RecordKeeps
<1>3. Cardinality(Round(v)) =< Cardinality(Round(t)) + 1
    BY <1>1, RecordCounts
<1>4. /\ Cardinality(Round(t)) =< 1
      /\ Cardinality(Round(t)) \in Nat
    BY <1>1, OpenRound, RoundFinite
<1>5. Cardinality(Round(v)) \in Nat
    BY <1>1, RecordCounts
<1>6. Counted(v)
  <2>1. /\ IsFiniteSet(v.results)
        /\ \A x \in v.results : x.round =< v.contestedRounds
        /\ Cardinality(v.results) =< ResultsCap
        /\ v.contestedRounds < MaxContestedRounds =>
              Cardinality(v.results) =< 3 * v.contestedRounds + Cardinality(Round(v))
      BY <1>1, RecordRoom
  <2> QED
      BY <1>3, <1>4, <1>5, <2>1 DEF Counted
<1>7. /\ Round(u) = Round(v) /\ u.accepted = identity
      /\ u.requiredAgreement = t.requiredAgreement
    BY <1>2, AcceptKeeps
<1>8. ~Disputed(v) /\ Cardinality(Round(v)) >= t.requiredAgreement
    OBVIOUS
<1> HIDE DEF u, v, r
<1>9. AgreedIn(u)
  <2> SUFFICES ASSUME u.requiredAgreement = 2
               PROVE  \E x, y \in Round(u) : /\ x.node # y.node
                                             /\ x.identity = u.accepted
                                             /\ y.identity = u.accepted
      BY DEF AgreedIn
  <2>1. Round(t) # {}
    <3>1. ASSUME Round(t) = {} PROVE FALSE
      <4>1. Round(v) = {r}
          BY <1>2, <3>1
      <4>2. Cardinality(Round(v)) = 1
          BY <4>1, FS_Singleton
      <4> QED
          BY <1>7, <1>8, <4>2
    <3> QED
        BY <3>1
  <2>2. PICK x \in Round(t) : x.nth = 0
      BY <2>1 DEF Sound, Evidence
  <2>3. x \in Round(u) /\ r \in Round(u)
      BY <1>2, <1>7
  <2>4. x.identity = identity
      BY <1>2, <1>7, <1>8, <2>3 DEF Disputed
  <2>5. x.node # n
      BY <2>2, <2>4 DEF Ignored, Said
  <2> QED
      BY <1>2, <1>7, <2>3, <2>4, <2>5
<1>10. ElectedIn(u)
    BY <1>2, <1>7 DEF ElectedIn
<1> QED
    BY <1>2, <1>6, <1>9, <1>10, AcceptSound DEF u, v

\* The first report of a round waits for another.
LEMMA WaitSound ==
    ASSUME NEW nodes, NEW t, Sound(t, nodes, FALSE), IsOpen(t),
           NEW n \in Nodes, NEW identity \in Identities, ~Ignored(t, n, identity),
           ~Disputed(Recorded(t, n, identity)),
           ~(Cardinality(Round(Recorded(t, n, identity))) >= t.requiredAgreement)
    PROVE  Sound(Recorded(t, n, identity), nodes, FALSE)
<1> DEFINE v == Recorded(t, n, identity)
           r == Report(t, n, identity)
<1>1. t \in Task /\ IsFiniteSet(t.results) /\ t.status # "failed"
    BY DEF Sound, Evidence, IsOpen
<1>2. /\ v \in Task /\ r \in Results
      /\ v.results = t.results \cup {r} /\ Round(v) = Round(t) \cup {r}
      /\ v.status = t.status /\ v.open = t.open /\ v.accepted = t.accepted
      /\ v.contestedRounds = t.contestedRounds
      /\ v.requiredAgreement = t.requiredAgreement
      /\ r.node = n /\ r.identity = identity
      /\ r.nth = Cardinality(Said(t, n))
    BY <1>1, RecordKeeps
<1>3. t.requiredAgreement \in {1, 2} /\ Cardinality(Round(v)) \in Nat
    BY <1>1, RecordCounts DEF Task
<1>4. /\ IsFiniteSet(v.results)
      /\ \A x \in v.results : x.round =< v.contestedRounds
      /\ Cardinality(v.results) =< ResultsCap
      /\ v.contestedRounds < MaxContestedRounds =>
            Cardinality(v.results) =< 3 * v.contestedRounds + Cardinality(Round(v))
    BY <1>1, RecordRoom
<1>5. Cardinality(Round(v)) < t.requiredAgreement
    BY <1>3
<1>6. Round(t) = {}
  <2> SUFFICES ASSUME Round(t) # {} PROVE FALSE
      OBVIOUS
  <2>1. PICK x : Round(t) = {x} /\ x.nth = 0
      BY DEF Sound, Evidence
  <2>2. x # r
    <3> SUFFICES ASSUME x = r PROVE FALSE
        OBVIOUS
    <3>1. r \in Said(t, n) /\ r.nth = 0
        BY <1>2, <2>1 DEF Said
    <3> QED
        BY <1>2, <3>1 DEF Ignored
  <2> HIDE DEF r, v
  <2>3. Round(v) = {x} \cup {r}
      BY <1>2, <2>1
  <2>4. IsFiniteSet({x}) /\ Cardinality({x}) = 1 /\ r \notin {x}
      BY <2>2, FS_Singleton
  <2>5. Cardinality({x} \cup {r}) = Cardinality({x}) + 1
      BY <2>4, FS_AddElement
  <2> QED
      BY <1>3, <1>5, <2>3, <2>4, <2>5
<1>7. Said(t, n) = {}
    BY <1>6 DEF Said
<1>8. r.nth = 0 /\ Cardinality({r}) = 1
    BY <1>2, <1>7, FS_EmptySet, FS_Singleton
<1> HIDE DEF r, v
<1>9. Round(v) = {r} /\ r \in v.results
    BY <1>2, <1>6
<1>10. v.requiredAgreement = 2
    BY <1>2, <1>3, <1>5, <1>8, <1>9
<1>11. Evidence(v, FALSE)
  <2>1. IsFiniteSet(v.open) /\ v.contestedRounds < MaxContestedRounds
      BY <1>2 DEF Sound, Evidence
  <2>2. Cardinality(Round(v)) = 1
      BY <1>8, <1>9
  <2>3. v.requiredAgreement = 2 /\ \E x \in v.results : Round(v) = {x} /\ x.nth = 0
      BY <1>8, <1>9, <1>10
  <2> QED
      BY <1>4, <2>1, <2>2, <2>3 DEF Evidence
<1> QED
    BY <1>2, <1>11 DEF Sound, IsOpen, AgreedIn, ElectedIn, v

\* A report on a sealed task is kept as evidence and changes nothing else.
LEMMA SealedSound ==
    ASSUME NEW nodes, NEW t, Sound(t, nodes, TRUE),
           NEW n \in Nodes, NEW identity \in Identities, ~Ignored(t, n, identity)
    PROVE  Sound(Recorded(t, n, identity), nodes, TRUE)
<1> DEFINE v == Recorded(t, n, identity)
           r == Report(t, n, identity)
<1>1. t \in Task /\ IsFiniteSet(t.results) /\ t.status = "done"
    BY DEF Sound, Evidence
<1>2. /\ v \in Task
      /\ v.results = t.results \cup {r} /\ Round(v) = Round(t) \cup {r}
      /\ v.status = t.status /\ v.open = t.open /\ v.accepted = t.accepted
      /\ v.contestedRounds = t.contestedRounds
      /\ v.requiredAgreement = t.requiredAgreement
      /\ v.resolvedByVote = t.resolvedByVote
      /\ r.round = t.contestedRounds
    BY <1>1, RecordKeeps
<1>3. /\ IsFiniteSet(v.results)
      /\ Cardinality(v.results) =< Cardinality(t.results) + 1
      /\ Cardinality(v.results) \in Nat
    BY <1>1, RecordCounts
<1>4. Cardinality(t.results) \in Nat /\ t.contestedRounds \in Nat
    BY <1>1, FS_CardinalityType DEF Task
<1>5. Cardinality(t.results) < ResultsCap
    BY <1>4, TasksAssumption DEF Ignored
<1> HIDE DEF v, r
<1>6. Evidence(v, TRUE)
  <2>1. \A x \in v.results : x.round =< v.contestedRounds
      BY <1>2, <1>4 DEF Sound, Evidence
  <2> QED
      BY <1>1, <1>2, <1>3, <1>4, <1>5, <2>1, TasksAssumption DEF Sound, Evidence, IsOpen
<1>7. AgreedIn(v)
    BY <1>2 DEF Sound, AgreedIn
<1>8. ElectedIn(v)
    BY <1>2 DEF ElectedIn
<1> QED
    BY <1>1, <1>2, <1>6, <1>7, <1>8 DEF Sound, IsOpen, v

\* Every outcome of a report keeps the task sound; a sealed one keeps its
\* result, and a done one loses it only to a contradiction in a new round.
LEMMA WeighSound ==
    ASSUME NEW nodes, NEW isSealed \in BOOLEAN, NEW t, Sound(t, nodes, isSealed),
           NEW n \in Nodes, NEW identity \in Identities,
           NEW u \in Weigh(t, n, identity, isSealed)
    PROVE  /\ Sound(u, nodes, isSealed)
           /\ t.status = "failed" => u = t
           /\ t.status = "done" =>
                 \/ /\ u.contestedRounds = t.contestedRounds
                    /\ u.accepted = t.accepted /\ u.status = "done"
                 \/ /\ ~isSealed /\ u.contestedRounds = t.contestedRounds + 1
                    /\ \E r \in u.results :
                          r.round = t.contestedRounds /\ r.identity # t.accepted
<1> DEFINE v == Recorded(t, n, identity)
<1>1. t \in Task /\ IsFiniteSet(t.results)
    BY DEF Sound, Evidence
<1>2. /\ v.contestedRounds = t.contestedRounds /\ v.accepted = t.accepted
      /\ v.status = t.status /\ v.requiredAgreement = t.requiredAgreement
      /\ Report(t, n, identity).round = t.contestedRounds
      /\ Report(t, n, identity).identity = identity
    BY <1>1, RecordKeeps
<1>3. CASE Ignored(t, n, identity)
  <2>1. u = t
      BY <1>3 DEF Weigh
  <2> QED
      BY <2>1
<1>4. CASE ~Ignored(t, n, identity) /\ t.status = "done"
  <2>1. u \in IF isSealed THEN {v} ELSE SettleContested(Contest(v))
      BY <1>4 DEF Weigh, IsOpen
  <2> HIDE DEF v
  <2>2. CASE isSealed
      BY <1>2, <1>4, <2>1, <2>2, SealedSound DEF v
  <2>3. CASE ~isSealed
    <3>0. isSealed = FALSE /\ Sound(t, nodes, FALSE)
        BY <2>3
    <3>1. /\ Sound(u, nodes, FALSE)
          /\ u.contestedRounds = t.contestedRounds + 1
          /\ Report(t, n, identity) \in u.results
        BY <1>4, <2>1, <3>0, DisputeSound DEF v
    <3>2. identity # t.accepted
        BY <1>4 DEF Ignored
    <3> QED
        BY <1>2, <1>4, <3>0, <3>1, <3>2
  <2> QED
      BY <2>2, <2>3
<1>5. CASE ~Ignored(t, n, identity) /\ IsOpen(t)
  <2>1. isSealed = FALSE
      BY <1>5, OpenRound
  <2>2. t.status # "done" /\ t.status # "failed"
      BY <1>5 DEF IsOpen
  <2>3. u \in IF Disputed(v) THEN SettleContested(Contest(v))
             ELSE IF Cardinality(Round(v)) >= t.requiredAgreement
             THEN {Accept(v, identity)} ELSE {v}
      BY <1>5, <2>2 DEF Weigh
  <2> HIDE DEF v
  <2>4. CASE Disputed(v)
      BY <1>5, <2>1, <2>2, <2>3, <2>4, DisputeSound DEF v
  <2>5. CASE ~Disputed(v) /\ Cardinality(Round(v)) >= t.requiredAgreement
      BY <1>5, <2>1, <2>2, <2>3, <2>5, AgreeSound DEF v
  <2>6. CASE ~Disputed(v) /\ ~(Cardinality(Round(v)) >= t.requiredAgreement)
      BY <1>5, <2>1, <2>2, <2>3, <2>6, WaitSound DEF v
  <2> QED
      BY <2>4, <2>5, <2>6
<1>6. t.status = "done" \/ t.status = "failed" \/ IsOpen(t)
    BY <1>1 DEF Task, IsOpen
<1> QED
    BY <1>3, <1>4, <1>5, <1>6 DEF Ignored
-----------------------------------------------------------------------------
(* The handlers. *)

\* What a handler may leave of a task: a settled one stays settled on the same
\* result, unless a contradiction opens a new round of an unsealed one.
Kept(t, u, isSealed) ==
    /\ t.status = "failed" => u.status = "failed"
    /\ t.status = "done" =>
          \/ /\ u.contestedRounds = t.contestedRounds
             /\ u.accepted = t.accepted /\ u.status = "done"
          \/ /\ ~isSealed /\ u.contestedRounds = t.contestedRounds + 1
             /\ \E r \in u.results :
                   r.round = t.contestedRounds /\ r.identity # t.accepted

LEMMA OnResultSound ==
    ASSUME NEW nodes, NEW isSealed \in BOOLEAN, NEW t, Sound(t, nodes, isSealed),
           NEW n \in Nodes, NEW current \in BOOLEAN, NEW identity \in Identities,
           NEW u \in OnResult(t, n, current, identity, isSealed)
    PROVE  Sound(u, nodes, isSealed) /\ Kept(t, u, isSealed)
<1> DEFINE v == CloseReported(t, n, current)
<1>1. t \in Task
    BY DEF Sound
<1>2. /\ Sound(v, nodes, isSealed)
      /\ v.status = t.status /\ v.contestedRounds = t.contestedRounds
      /\ v.accepted = t.accepted
    BY <1>1, CloseSound, CloseKeeps DEF CloseReported
<1>3. u \in Weigh(v, n, identity, isSealed)
    BY DEF OnResult
<1> HIDE DEF v
<1> QED
    BY <1>2, <1>3, WeighSound DEF Kept

\* An open task that fails is sound, whatever it held.
LEMMA FailSound ==
    ASSUME NEW nodes, NEW t, Sound(t, nodes, FALSE)
    PROVE  /\ Sound(FailTask(t), nodes, FALSE)
           /\ FailTask(t).status = "failed"
<1> DEFINE v == CancelOthers(t)
           u == FailTask(t)
<1>1. t \in Task
    BY DEF Sound
<1>2. /\ v \in Task /\ v.open = {} /\ v.results = t.results
      /\ v.contestedRounds = t.contestedRounds
    BY <1>1, CloseKeeps DEF CancelOthers
<1>3. u = [v EXCEPT !.status = "failed"]
    BY DEF FailTask
<1> HIDE DEF u, v
<1>4. /\ u \in Task /\ u.open = {} /\ u.results = t.results
      /\ u.contestedRounds = t.contestedRounds /\ u.status = "failed"
    BY <1>2, <1>3 DEF Task
<1>5. IsFiniteSet(u.open) /\ Cardinality(u.open) =< 2
    BY <1>4, FS_EmptySet
<1>6. Evidence(u, FALSE)
    BY <1>4, <1>5 DEF Sound, Evidence, IsOpen
<1> QED
    BY <1>4, <1>5, <1>6 DEF Sound, IsOpen, AgreedIn, ElectedIn, u

LEMMA OnReleasedSound ==
    ASSUME NEW nodes, NEW isSealed \in BOOLEAN, NEW t, Sound(t, nodes, isSealed),
           NEW n \in t.open
    PROVE  Sound(OnReleased(t, n), nodes, isSealed) /\ IsOpen(t) /\ ~isSealed
<1> DEFINE v == CloseAttempts(t, {n})
           c == v.releases + 1
           g == v.gaveUp \cup {n}
           u == [v EXCEPT !.releases = c, !.gaveUp = g]
<1>1. t \in Task /\ IsOpen(t) /\ isSealed = FALSE
    BY DEF Sound, IsOpen
<1>2. v \in Task /\ Sound(v, nodes, FALSE)
    BY <1>1, CloseSound, CloseKeeps
<1>3. c \in Nat /\ g \in SUBSET Nodes
  <2>1. n \in Nodes
      BY <1>1 DEF Task
  <2>2. v.releases \in Nat /\ v.gaveUp \in SUBSET Nodes
      BY <1>2 DEF Task
  <2> HIDE DEF v
  <2> QED
      BY <2>1, <2>2
<1>4. OnReleased(t, n) = IF u.releases >= ReleasesCap /\ IsOpen(u) THEN FailTask(u)
                         ELSE ReleaseTask(u)
    BY DEF OnReleased
<1> HIDE DEF v, c, g
<1>5. /\ u \in Task /\ u.open = v.open /\ u.status = v.status
      /\ u.results = v.results /\ u.accepted = v.accepted
      /\ u.contestedRounds = v.contestedRounds
      /\ u.requiredAgreement = v.requiredAgreement
      /\ u.resolvedByVote = v.resolvedByVote
    BY <1>2, <1>3 DEF Task
<1> HIDE DEF u
<1>6. v.open \subseteq nodes
    BY <1>2 DEF Sound
<1>7. Sound(u, nodes, FALSE)
    BY <1>2, <1>5, <1>6, FewerAttempts DEF IsOpen
<1> QED
    BY <1>1, <1>4, <1>7, FailSound, ReleaseSound

LEMMA SettleExistingSound ==
    ASSUME NEW nodes, NEW t, Sound(t, nodes, FALSE), IsOpen(t),
           NEW u \in SettleExisting(t)
    PROVE  Sound(u, nodes, FALSE)
<1> DEFINE v == [t EXCEPT !.requiredAgreement = 1]
<1>1. t \in Task /\ Counted(t) /\ t.contestedRounds < MaxContestedRounds
    BY OpenRound DEF Sound
<1>2. /\ v \in Task /\ v.open = t.open /\ v.status = t.status
      /\ v.results = t.results /\ v.contestedRounds = t.contestedRounds
      /\ v.requiredAgreement = 1
    BY <1>1 DEF Task
<1>3. u \in IF Round(v) = {} THEN {v} ELSE {Accept(v, r.identity) : r \in Round(v)}
    BY DEF SettleExisting
<1> HIDE DEF v
<1>4. Round(v) = Round(t)
    BY <1>2 DEF Round
<1>5. CASE u = v /\ Round(v) = {}
  <2>1. Evidence(v, FALSE)
      BY <1>1, <1>2, <1>4, <1>5 DEF Sound, Evidence, IsOpen
  <2> QED
      BY <1>2, <1>5, <2>1 DEF Sound, IsOpen, AgreedIn, ElectedIn
<1>6. ASSUME NEW r \in Round(v), u = Accept(v, r.identity)
      PROVE  Sound(u, nodes, FALSE)
  <2>1. r.identity \in Identities
      BY <1>2 DEF Round, Task, Results
  <2>2. Counted(v)
      BY <1>1, <1>2, <1>4 DEF Counted
  <2>3. u.requiredAgreement = 1 /\ Round(u) # {}
      BY <1>2, <1>6, <2>1, AcceptKeeps
  <2>4. AgreedIn(u) /\ ElectedIn(u)
      BY <2>3 DEF AgreedIn, ElectedIn
  <2> QED
      BY <1>2, <1>6, <2>1, <2>2, <2>4, AcceptSound
<1> QED
    BY <1>3, <1>5, <1>6

LEMMA EndSound ==
    ASSUME NEW nodes, NEW isSealed \in BOOLEAN, NEW t, Sound(t, nodes, isSealed)
    PROVE  /\ Sound(EndTask(t), nodes, isSealed)
           /\ ~IsOpen(EndTask(t))
           /\ Kept(t, EndTask(t), isSealed)
<1>1. t \in Task
    BY DEF Sound
<1>2. CASE IsOpen(t)
  <2>1. isSealed = FALSE /\ EndTask(t) = FailTask(t)
      BY <1>2 DEF Sound, IsOpen, EndTask
  <2> QED
      BY <1>2, <2>1, FailSound DEF IsOpen, Kept
<1>3. CASE ~IsOpen(t)
  <2>1. EndTask(t) = CloseAttempts(t, t.open)
      BY <1>3 DEF EndTask, CancelOthers
  <2> QED
      BY <1>1, <1>3, <2>1, CloseSound, CloseKeeps DEF IsOpen, Kept
<1> QED
    BY <1>2, <1>3
-----------------------------------------------------------------------------
(* The steps. *)

\* The tail of a handler that left the task as u: the execution may fail or
\* seal the task, and what is still wanted is given out.
LEMMA TailSound ==
    ASSUME IInv, live' \in SUBSET Nodes,
           NEW u, Sound(u, live', sealed), Kept(task, u, sealed),
           exec = "ended" => ~IsOpen(u),
           AfterTaskSettled(u), Dispatch(u)
    PROVE  IInv' /\ Kept(task, task', sealed)
<1>1. /\ task \in Task /\ exec \in {"running", "ended"} /\ sealed \in BOOLEAN
      /\ sealed => task.status = "done"
      /\ u \in Task
    BY DEF IInv, TypeOK, Sound
<1>2. /\ exec' \in {"running", "ended"} /\ sealed' \in BOOLEAN
      /\ exec' = "ended" => ~IsOpen(u)
  <2>1. CASE ~Settled(u)
      BY <1>1, <2>1 DEF AfterTaskSettled
  <2>2. CASE Settled(u)
      BY <1>1, <2>2 DEF AfterTaskSettled, Settled
  <2> QED
      BY <2>1, <2>2
<1>3. Sound(u, live', sealed')
  <2>1. CASE UNCHANGED sealed
      BY <2>1
  <2>2. CASE Settled(u) /\ u.status = "done"
    <3>1. sealed = FALSE
        BY <1>1, <2>2 DEF Settled, Kept, IsOpen
    <3> QED
        BY <1>2, <2>2, <3>1, SealSound
  <2> QED
      BY <2>1, <2>2 DEF AfterTaskSettled
<1>4. CASE exec' = "running"
  <2>1. task' \in Filled(u, live')
      BY <1>4 DEF Dispatch
  <2>2. /\ Sound(task', live', sealed')
        /\ IsOpen(task') <=> IsOpen(u)
        /\ ~IsOpen(u) => task' = u
      BY <1>2, <1>3, <2>1, FilledSound
  <2>3. Kept(task, task', sealed)
    <3>1. CASE ~IsOpen(u)
        BY <2>2, <3>1
    <3>2. CASE IsOpen(u)
        BY <1>1, <2>1, <3>2, FilledKeeps DEF Kept, IsOpen
    <3> QED
        BY <3>1, <3>2
  <2> QED
      BY <1>2, <1>4, <2>2, <2>3 DEF IInv, TypeOK, Sound, EndedIsSettled
<1>5. CASE exec' # "running"
  <2>1. task' = u /\ exec' = "ended"
      BY <1>2, <1>5 DEF Dispatch
  <2> QED
      BY <1>2, <1>3, <2>1 DEF IInv, TypeOK, Sound, EndedIsSettled
<1> QED
    BY <1>4, <1>5

LEMMA InitSound == Init => IInv
<1> SUFFICES ASSUME Init PROVE IInv
    OBVIOUS
<1>1. PICK n \in {1, 2} : task = NewTask(n)
    BY DEF Init
<1>2. /\ task \in Task /\ task.status = "pending" /\ task.open = {} /\ task.results = {}
      /\ task.contestedRounds = 0
    BY <1>1 DEF NewTask, Task, Results
<1>3. Round(task) = {}
    BY <1>2 DEF Round
<1>4. IsFiniteSet({}) /\ Cardinality({}) = 0
    BY FS_EmptySet
<1>5. Evidence(task, FALSE)
    BY <1>2, <1>3, <1>4, TasksAssumption DEF Evidence, IsOpen
<1>6. Cardinality(task.open) =< 2
    BY <1>2, <1>4
<1>7. Sound(task, live, FALSE)
    BY <1>2, <1>5, <1>6 DEF Sound, IsOpen, AgreedIn, ElectedIn
<1> QED
    BY <1>2, <1>7 DEF Init, IInv, TypeOK, EndedIsSettled

\* Losing nodes settles nothing and unsettles nothing.
LEMMA LostSound ==
    ASSUME NEW nodes \in SUBSET Nodes, NEW isSealed \in BOOLEAN, NEW ns,
           NEW t, Sound(t, nodes, isSealed)
    PROVE  LET u == LoseNodes(t, ns)
           IN /\ Sound(u, nodes \ ns, isSealed) /\ Kept(t, u, isSealed)
              /\ IsOpen(u) <=> IsOpen(t)
              /\ u.contestedRounds = t.contestedRounds
<1> DEFINE u == LoseNodes(t, ns)
<1>1. /\ Sound(u, nodes \ ns, isSealed)
      /\ IsOpen(u) <=> IsOpen(t)
      /\ u.contestedRounds = t.contestedRounds
      /\ u.accepted = t.accepted
      /\ ~IsOpen(t) => u.status = t.status
    BY LoseSound
<1> HIDE DEF u
<1>2. Kept(t, u, isSealed)
    BY <1>1 DEF Kept, IsOpen
<1> QED
    BY <1>1, <1>2 DEF u

\* Every step keeps the invariant, and settled results but for a contradiction.
LEMMA StepSound ==
    ASSUME IInv, [Next]_vars
    PROVE  IInv' /\ Kept(task, task', sealed)
<1>1. /\ Sound(task, live, sealed) /\ task \in Task
      /\ live \in SUBSET Nodes /\ exec \in {"running", "ended"} /\ sealed \in BOOLEAN
      /\ exec = "ended" => ~IsOpen(task)
    BY DEF IInv, TypeOK, EndedIsSettled
<1>2. Kept(task, task, sealed) /\ ~Settled(task)
    BY <1>1 DEF Kept, Settled
<1>3. ASSUME NEW n \in Nodes, Hello(n)
      PROVE  IInv' /\ Kept(task, task', sealed)
  <2>1. /\ live' = live \cup {n} /\ UNCHANGED <<exec, sealed>> /\ Dispatch(task)
      BY <1>3 DEF Hello
  <2>2. AfterTaskSettled(task) /\ live' \in SUBSET Nodes
      BY <1>1, <1>2, <2>1 DEF AfterTaskSettled
  <2>3. task.open \subseteq live'
      BY <1>1, <2>1 DEF Sound
  <2>4. Sound(task, live', sealed)
      BY <1>1, <2>3, FewerAttempts
  <2> QED
      BY <1>1, <1>2, <2>1, <2>2, <2>4, TailSound
<1>4. ASSUME NEW n \in Nodes, Disconnect(n)
      PROVE  IInv' /\ Kept(task, task', sealed)
  <2>1. /\ live' = live \ {n} /\ UNCHANGED <<exec, sealed>>
        /\ task' = LoseNodes(task, {n})
      BY <1>4 DEF Disconnect
  <2>2. /\ Sound(task', live', sealed') /\ Kept(task, task', sealed)
        /\ IsOpen(task') <=> IsOpen(task)
      BY <1>1, <2>1, LostSound
  <2>3. task' \in Task /\ live' \in SUBSET Nodes
      BY <1>1, <2>1, <2>2 DEF Sound
  <2> QED
      BY <1>1, <2>1, <2>2, <2>3 DEF EndedIsSettled, IInv, TypeOK
<1>5. ASSUME NEW silent \in SUBSET live, Sweep(silent)
      PROVE  IInv' /\ Kept(task, task', sealed)
  <2> DEFINE u == LoseNodes(task, silent)
  <2>1. /\ live' = live \ silent /\ UNCHANGED <<exec, sealed>> /\ Dispatch(u)
      BY <1>5 DEF Sweep
  <2>2. /\ Sound(u, live', sealed) /\ Kept(task, u, sealed)
        /\ IsOpen(u) <=> IsOpen(task)
        /\ u.contestedRounds = task.contestedRounds
      BY <1>1, <2>1, LostSound
  <2> HIDE DEF u
  <2>3. AfterTaskSettled(u) /\ live' \in SUBSET Nodes
      BY <1>1, <2>1, <2>2 DEF AfterTaskSettled, Settled
  <2> QED
      BY <1>1, <2>1, <2>2, <2>3, TailSound
<1>6. ASSUME NEW n \in Nodes, Release(n)
      PROVE  IInv' /\ Kept(task, task', sealed)
  <2> DEFINE u == OnReleased(task, n)
  <2>1. /\ n \in task.open /\ live' = live
        /\ AfterTaskSettled(u) /\ Dispatch(u)
      BY <1>6 DEF Release
  <2>2. Sound(u, live, sealed) /\ IsOpen(task)
      BY <1>1, <2>1, OnReleasedSound
  <2>3. Kept(task, u, sealed)
      BY <2>2 DEF Kept, IsOpen
  <2> HIDE DEF u
  <2> QED
      BY <1>1, <2>1, <2>2, <2>3, TailSound
<1>7. ASSUME NEW n \in Nodes, NEW current \in BOOLEAN, NEW i \in Identities,
             Result(n, current, i)
      PROVE  IInv' /\ Kept(task, task', sealed)
  <2>1. PICK u \in IF exec = "running" THEN OnResult(task, n, current, i, sealed)
                   ELSE {CloseReported(task, n, current)} :
            AfterTaskSettled(u) /\ Dispatch(u)
      BY <1>7 DEF Result
  <2>2. live' = live
      BY <1>7 DEF Result
  <2>3. CASE exec = "running"
    <3>1. u \in OnResult(task, n, current, i, sealed)
        BY <2>1, <2>3
    <3>2. Sound(u, live, sealed) /\ Kept(task, u, sealed)
        BY <1>1, <3>1, OnResultSound
    <3> QED
        BY <1>1, <2>1, <2>2, <2>3, <3>2, TailSound
  <2>4. CASE exec # "running"
    <3>1. u = IF current THEN CloseAttempts(task, {n}) ELSE task
        BY <2>1, <2>4 DEF CloseReported
    <3>2. /\ Sound(u, live, sealed) /\ u.status = task.status
          /\ u.contestedRounds = task.contestedRounds /\ u.accepted = task.accepted
        BY <1>1, <3>1, CloseSound, CloseKeeps
    <3>3. Kept(task, u, sealed) /\ ~IsOpen(u)
        BY <1>1, <2>4, <3>2 DEF Kept, IsOpen
    <3> QED
        BY <1>1, <2>1, <2>2, <3>2, <3>3, TailSound
  <2> QED
      BY <2>3, <2>4
<1>8. ASSUME Advance
      PROVE  IInv' /\ Kept(task, task', sealed)
  <2>1. UNCHANGED <<live, exec, sealed>> /\ Dispatch(task)
      BY <1>8 DEF Advance
  <2>2. AfterTaskSettled(task)
      BY <1>2, <2>1 DEF AfterTaskSettled
  <2> QED
      BY <1>1, <1>2, <2>1, <2>2, TailSound
<1>9. ASSUME RedundancyOff
      PROVE  IInv' /\ Kept(task, task', sealed)
  <2>1. exec = "running" /\ IsOpen(task) /\ live' = live
      BY <1>9 DEF RedundancyOff
  <2>2. PICK u \in SettleExisting(task) : AfterTaskSettled(u) /\ Dispatch(u)
      BY <1>9 DEF RedundancyOff
  <2>3. sealed = FALSE
      BY <1>1, <2>1 DEF Sound, IsOpen
  <2>4. Sound(u, live, FALSE)
      BY <1>1, <2>1, <2>3, SettleExistingSound
  <2>5. Kept(task, u, sealed)
      BY <2>1 DEF Kept, IsOpen
  <2> QED
      BY <1>1, <2>1, <2>2, <2>3, <2>4, <2>5, TailSound
<1>10. ASSUME FoldStage
       PROVE  IInv' /\ Kept(task, task', sealed)
  <2>1. /\ task.status = "done" /\ sealed = FALSE /\ sealed' = TRUE
        /\ UNCHANGED <<task, live, exec>>
      BY <1>1, <1>10 DEF FoldStage
  <2>2. Sound(task, live, TRUE)
      BY <1>1, <2>1, SealSound
  <2> QED
      BY <1>1, <1>2, <2>1, <2>2 DEF IInv, TypeOK, EndedIsSettled
<1>11. ASSUME EndExecution
       PROVE  IInv' /\ Kept(task, task', sealed)
  <2>1. /\ exec' = "ended" /\ task' = EndTask(task)
        /\ UNCHANGED <<live, sealed>>
      BY <1>11 DEF EndExecution
  <2>2. /\ Sound(task', live', sealed') /\ Kept(task, task', sealed)
        /\ ~IsOpen(task')
      BY <1>1, <2>1, EndSound
  <2>3. task' \in Task
      BY <2>2 DEF Sound
  <2> QED
      BY <1>1, <2>1, <2>2, <2>3 DEF EndedIsSettled, IInv, TypeOK
<1>12. ASSUME Adopt
       PROVE  IInv' /\ Kept(task, task', sealed)
  <2>1. /\ live' = live \ live /\ UNCHANGED <<exec, sealed>>
        /\ task' = LoseNodes(task, live)
      BY <1>12 DEF Adopt
  <2>2. /\ Sound(task', live', sealed') /\ Kept(task, task', sealed)
        /\ IsOpen(task') <=> IsOpen(task)
      BY <1>1, <2>1, LostSound
  <2>3. task' \in Task /\ live' \in SUBSET Nodes
      BY <1>1, <2>1, <2>2 DEF Sound
  <2> QED
      BY <1>1, <2>1, <2>2, <2>3 DEF EndedIsSettled, IInv, TypeOK
<1>13. CASE UNCHANGED vars
    BY <1>1, <1>2, <1>13 DEF vars, IInv, TypeOK, EndedIsSettled
<1> QED
    BY <1>3, <1>4, <1>5, <1>6, <1>7, <1>8, <1>9, <1>10, <1>11, <1>12, <1>13 DEF Next
-----------------------------------------------------------------------------
(* The theorems. *)

\* The inductive invariant holds in every reachable state: however nodes come,
\* go, report and repeat themselves, each handler leaves the task sound.
THEOREM Invariance == Spec => []IInv
<1>1. Init => IInv
    BY InitSound
<1>2. IInv /\ [Next]_vars => IInv'
    BY StepSound
<1> QED
    BY <1>1, <1>2, PTL DEF Spec

\* The task record stays a TaskRecord, its caps included.
THEOREM TypeCorrect == Spec => []TypeOK
<1>1. IInv => TypeOK
    BY DEF IInv
<1> QED
    BY <1>1, Invariance, PTL

\* No more than two attempts are open, and none on a node that left.
THEOREM AttemptsBounded == Spec => []OpenAttempts
<1>1. IInv => OpenAttempts
    BY DEF IInv, Sound, OpenAttempts
<1> QED
    BY <1>1, Invariance, PTL

\* An open task with no attempt wants one, so the next fill gives it out.
THEOREM NoTaskStranded == Spec => []NeverStranded
<1>1. IInv => NeverStranded
  <2> SUFFICES ASSUME IInv PROVE NeverStranded
      OBVIOUS
  <2>1. Sound(task, live, sealed) /\ sealed \in BOOLEAN /\ task \in Task
      BY DEF IInv, TypeOK
  <2>2. CASE IsOpen(task) /\ task.open = {}
    <3>1. Cardinality(Round(task)) < task.requiredAgreement
        BY <2>1, <2>2, OpenRound
    <3>2. IsFiniteSet(task.results)
        BY <2>1 DEF Sound, Evidence
    <3>3. Cardinality(task.open) = 0 /\ Cardinality(Round(task)) \in Nat
        BY <2>1, <2>2, <3>2, RoundFinite, FS_EmptySet
    <3> QED
        BY <2>2, <3>1, <3>3 DEF NeverStranded, Wants
  <2>3. CASE ~(IsOpen(task) /\ task.open = {})
      BY <2>1, <2>3 DEF Sound, NeverStranded
  <2> QED
      BY <2>2, <2>3
<1> QED
    BY <1>1, Invariance, PTL

\* Two different nodes stand behind what is accepted by agreement (D7).
THEOREM TwoNodesAgree == Spec => []Agreement
<1>1. IInv => Agreement
    BY DEF IInv, Sound, Agreement
<1> QED
    BY <1>1, Invariance, PTL

\* What a vote elects has the most nodes behind it.
THEOREM MostVotesElected == Spec => []Elected
<1>1. IInv => Elected
    BY DEF IInv, Sound, Elected
<1> QED
    BY <1>1, Invariance, PTL

\* The evidence cap never silences a report about an open task.
THEOREM EvidenceAlwaysFits == Spec => []EvidenceFits
<1>1. IInv => EvidenceFits
  <2> SUFFICES ASSUME IInv PROVE EvidenceFits
      OBVIOUS
  <2>1. Sound(task, live, sealed) /\ sealed \in BOOLEAN /\ task \in Task
      BY DEF IInv, TypeOK
  <2>2. IsFiniteSet(task.results) /\ Cardinality(task.results) =< ResultsCap
      BY <2>1 DEF Sound, Evidence
  <2>3. ASSUME IsOpen(task)
        PROVE  Cardinality(task.results) < ResultsCap
    <3>1. /\ Counted(task) /\ task.contestedRounds < MaxContestedRounds
          /\ Cardinality(Round(task)) =< 1
        BY <2>1, <2>3, OpenRound
    <3>2. /\ Cardinality(Round(task)) \in Nat /\ Cardinality(task.results) \in Nat
          /\ task.contestedRounds \in Nat
        BY <2>1, <2>2, RoundFinite DEF Task
    <3> QED
        BY <3>1, <3>2, TasksAssumption DEF Counted
  <2> QED
      BY <2>2, <2>3 DEF EvidenceFits
<1> QED
    BY <1>1, Invariance, PTL

\* No task is left open by an execution that ended.
THEOREM EndedSettled == Spec => []EndedIsSettled
<1>1. IInv => EndedIsSettled
    BY DEF IInv
<1> QED
    BY <1>1, Invariance, PTL

\* A settled result changes only by a contradiction that opens a new round, and
\* never once the execution has built on it.
THEOREM ResultsFinal == Spec => Finality
<1>1. IInv /\ [Next]_vars =>
        [task.status = "done" /\ (task'.accepted # task.accepted \/ task'.status # "done") =>
            /\ ~sealed
            /\ task'.contestedRounds = task.contestedRounds + 1
            /\ \E r \in task'.results :
                  r.round = task.contestedRounds /\ r.identity # task.accepted]_vars
    BY StepSound DEF Kept
<1> QED
    BY <1>1, Invariance, PTL DEF Spec, Finality
=============================================================================
