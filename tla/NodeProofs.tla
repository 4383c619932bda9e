----------------------------- MODULE NodeProofs -----------------------------
(***************************************************************************)
(* What is proved of a node, in two parts.                                 *)
(*                                                                         *)
(* NodeLoop, for any number of tasks, attempts, sockets, commands and      *)
(* places: a node's parts agree with one another, every attempt the        *)
(* control plane counts is somewhere, and a node runs one task at a time.  *)
(* First what the operators of a node do to it (`Onward`), then what a     *)
(* message at either end of a channel does to what is said of it, then the *)
(* actions, one lemma each.                                                *)
(*                                                                         *)
(* Sandbox, for any number of runs, blobs and failures: the host never     *)
(* loses sight of a thread that runs, and answers no run with another's    *)
(* result.  One lemma per action, each for the whole invariant.            *)
(***************************************************************************)
EXTENDS NodeLoop, Sandbox, FilterProofs, FiniteSetTheorems

NodeOK(n, s) == n \in Node /\ s \in 0..MaxConnections /\ Coherent(n, s)

Begun(n, a) == n.runs[a].phase # "none"

Idling(n) == n.queue = <<>> /\ n.running = Nothing

Alone(n, s) == \A a \in Assigns : Begun(n, a) /\ n.runs[a].link = s => n.running = a

\* What a step does that gives the node nothing: no run begins that was not
\* queued, and none beside the one that runs.
Onward(n, m, s) ==
    /\ NodeOK(m, s)
    /\ m.frozen = n.frozen
    /\ Range(m.queue) \subseteq Range(n.queue)
    /\ \A a \in Assigns : Begun(m, a) => Begun(n, a) \/ a \in Range(n.queue)
    /\ Idling(n) => Idling(m)
    /\ Alone(n, s) => Alone(m, s)

LEMMA Fields ==
    ASSUME NEW n \in Node
    PROVE  /\ n.queue \in Seq(Assigns) /\ n.sandbox \in Seq(Assigns)
           /\ n.running \in Assigns \cup {Nothing} /\ n.waiting \in Assigns \cup {Nothing}
           /\ n.runs \in [Assigns -> Run]
           /\ n.frozen \in BOOLEAN /\ n.throttled \in BOOLEAN /\ n.resting \in BOOLEAN
           /\ n.stopped \in BOOLEAN
           /\ Range(n.queue) \subseteq Assigns /\ Range(n.sandbox) \subseteq Assigns
           /\ \A a \in Assigns : n.runs[a] \in Run /\ n.runs[a].link \in Nat
           /\ Nothing \notin Assigns
<1>1. n.queue \in Seq(Assigns) /\ n.sandbox \in Seq(Assigns) /\ n.runs \in [Assigns -> Run]
  BY DEF Node
<1>2. Range(n.queue) \subseteq Assigns /\ Range(n.sandbox) \subseteq Assigns
  BY <1>1 DEF Range
<1>3. \A a \in Assigns : n.runs[a] \in Run /\ n.runs[a].link \in Nat
  BY <1>1 DEF Run
<1> QED BY <1>1, <1>2, <1>3, NodeLoopAssumption DEF Node

\* An empty list, as a queue or a sandbox.
LEMMA Empty ==
    /\ <<>> \in Seq(Assigns) /\ IsInjective(<<>>) /\ Range(<<>>) = {}
    /\ NoRun \in Run /\ NoRun.phase = "none" /\ NoRun.link = 0
<1>1. NoRun \in Run
  BY NodeLoopAssumption DEF NoRun, Run
<1> QED BY <1>1 DEF IsInjective, Range, NoRun

LEMMA OnwardAgain ==
    ASSUME NEW l, NEW n, NEW m, NEW s, Onward(l, n, s), Onward(n, m, s)
    PROVE  Onward(l, m, s)
BY DEF Onward

LEMMA OnwardSame ==
    ASSUME NEW n, NEW s, NodeOK(n, s)
    PROVE  Onward(n, n, s)
BY DEF Onward

\* The next of the queue begins.
Begin(n) ==
    [n EXCEPT !.queue = Tail(@), !.running = Head(n.queue),
              !.runs[Head(n.queue)] = [phase |-> "fetching", link |-> sockets]]

LEMMA BeginGood ==
    ASSUME NEW n, NodeOK(n, sockets), n.queue # <<>>, n.running = Nothing
    PROVE  Onward(n, Begin(n), sockets) /\ Held(Begin(n)) = Held(n)
<1> DEFINE b == Head(n.queue)
           q == Tail(n.queue)
           f == [n.runs EXCEPT ![b] = [phase |-> "fetching", link |-> sockets]]
           m == Begin(n)
<1>1. n \in Node /\ Coherent(n, sockets) /\ sockets \in 0..MaxConnections
  BY DEF NodeOK
<1> USE <1>1
<1>2. /\ b \in Assigns /\ b \in Range(n.queue) /\ q \in Seq(Assigns)
      /\ Range(n.queue) = Range(q) \cup {b}
      /\ IsInjective(q) /\ b \notin Range(q)
  BY Fields, TailIs DEF Coherent
<1>3. /\ f \in [Assigns -> Run] /\ f[b] = [phase |-> "fetching", link |-> sockets]
      /\ \A a \in Assigns \ {b} : f[a] = n.runs[a]
  BY <1>2, Fields DEF Run
<1>4. /\ m.queue = q /\ m.running = b /\ m.runs = f /\ m.sandbox = n.sandbox
      /\ m.waiting = n.waiting /\ m.frozen = n.frozen /\ m.throttled = n.throttled
      /\ m.resting = n.resting /\ m.stopped = n.stopped
  BY DEF Begin, Node
<1>5. m \in Node
  <2>1. m = [n EXCEPT !.queue = q, !.running = b, !.runs = f]
    BY DEF Begin
  <2> HIDE DEF q, b, f, m
  <2> QED BY <2>1, <1>2, <1>3, Fields DEF Node
<1> HIDE DEF q, b, f, m
<1>6. n.runs[b].phase = "none"
  BY <1>2 DEF Coherent
<1>7. Coherent(m, sockets)
  <2>1. \A a \in Assigns : m.runs[a].phase = "sandboxed" <=> a \in Range(m.sandbox)
    BY <1>2, <1>3, <1>4, <1>6 DEF Coherent
  <2>2. \A a \in Assigns : m.runs[a].phase = "presigning" <=> m.waiting = a
    BY <1>2, <1>3, <1>4, <1>6 DEF Coherent
  <2>3. \A a \in Range(m.queue) : m.runs[a].phase = "none"
    BY <1>2, <1>3, <1>4, Fields DEF Coherent
  <2>4. m.runs[m.running].phase # "none" /\ m.runs[m.running].link = sockets
    BY <1>3, <1>4
  <2>5. \A a \in Assigns : m.runs[a].link <= sockets
    BY <1>3, <1>4 DEF Coherent
  <2> QED BY <1>2, <1>4, <2>1, <2>2, <2>3, <2>4, <2>5 DEF Coherent
<1>8. \A a \in Assigns : Begun(m, a) => Begun(n, a) \/ a \in Range(n.queue)
  BY <1>2, <1>3, <1>4 DEF Begun
<1>9. Alone(n, sockets) => Alone(m, sockets)
  BY <1>2, <1>3, <1>4, Fields DEF Alone, Begun
<1>10. ~Idling(n)
  BY DEF Idling
<1>11. Held(m) = Held(n)
  BY <1>2, <1>4, Fields DEF Held
<1> QED
  <2>1. Onward(n, m, sockets)
    BY <1>2, <1>4, <1>5, <1>7, <1>8, <1>9, <1>10 DEF Onward, NodeOK
  <2> QED BY <2>1, <1>11 DEF m

LEMMA PumpGood ==
    ASSUME NEW n, NodeOK(n, sockets)
    PROVE  Onward(n, Pump(n), sockets) /\ Held(Pump(n)) = Held(n)
<1>1. CASE Pump(n) = n
  BY <1>1, OnwardSame
<1>2. CASE n.running = Nothing /\ n.queue # <<>> /\ Pump(n) = Begin(n)
  BY <1>2, BeginGood
<1> QED BY <1>1, <1>2 DEF Pump, Begin

LEMMA Among ==
    ASSUME NEW T, NEW s \in Seq(T)
    PROVE  /\ \A e : Contains(s, e) <=> e \in Range(s)
           /\ Range(s) = {} => s = <<>>
<1>1. DOMAIN s = 1..Len(s) /\ Len(s) \in Nat
  OBVIOUS
<1>2. \A e : Contains(s, e) <=> e \in Range(s)
  BY <1>1 DEF Contains, Range
<1>3. Range(s) = {} => Len(s) = 0
  <2>1. Len(s) # 0 => s[1] \in Range(s)
    BY <1>1 DEF Range
  <2> QED BY <1>1, <2>1
<1> QED BY <1>1, <1>2, <1>3

\* Some runs are gone, from wherever they were, and perhaps some of the queue.
Cleared(n, m, gone) ==
    /\ m \in Node
    /\ m.runs = [a \in Assigns |-> IF a \in gone THEN NoRun ELSE n.runs[a]]
    /\ Range(m.sandbox) = Range(n.sandbox) \ gone /\ IsInjective(m.sandbox)
    /\ m.waiting = IF n.waiting \in gone THEN Nothing ELSE n.waiting
    /\ Range(m.queue) \subseteq Range(n.queue) /\ IsInjective(m.queue)
    /\ m.running \in {n.running, Nothing} /\ m.running \notin gone

LEMMA ClearedGood ==
    ASSUME NEW n, NEW m, NEW s, NEW gone \in SUBSET Assigns, NodeOK(n, s), Cleared(n, m, gone)
    PROVE  /\ NodeOK(m, s)
           /\ \A a \in Assigns : Begun(m, a) => Begun(n, a)
           /\ Idling(n) => Idling(m)
           /\ n.running \in gone \cup {m.running} => (Alone(n, s) => Alone(m, s))
<1>1. n \in Node /\ m \in Node /\ Coherent(n, s) /\ s \in 0..MaxConnections
  BY DEF NodeOK, Cleared
<1> USE <1>1, Empty
<1>2. /\ \A a \in Assigns : m.runs[a] = IF a \in gone THEN NoRun ELSE n.runs[a]
      /\ Nothing \notin gone /\ Nothing \notin Assigns
      /\ Range(n.queue) \subseteq Assigns /\ Range(n.sandbox) \subseteq Assigns
      /\ m.running \in Assigns \cup {Nothing}
  BY Fields DEF Cleared
<1>3. Coherent(m, s)
  <2>1. \A a \in Assigns : m.runs[a].phase = "sandboxed" <=> a \in Range(m.sandbox)
    BY <1>2 DEF Coherent, Cleared
  <2>2. \A a \in Assigns : m.runs[a].phase = "presigning" <=> m.waiting = a
    BY <1>2 DEF Coherent, Cleared
  <2>3. \A a \in Range(m.queue) : m.runs[a].phase = "none"
    BY <1>2 DEF Coherent, Cleared
  <2>4. m.running # Nothing => m.runs[m.running].phase # "none" /\ m.runs[m.running].link = s
    BY <1>2 DEF Coherent, Cleared
  <2>5. \A a \in Assigns : m.runs[a].link <= s
    BY <1>2 DEF Coherent
  <2> QED BY <2>1, <2>2, <2>3, <2>4, <2>5 DEF Coherent, Cleared
<1>4. \A a \in Assigns : Begun(m, a) => Begun(n, a)
  BY <1>2 DEF Begun
<1>5. Idling(n) => Idling(m)
  <2>1. m.queue \in Seq(Assigns)
    BY Fields
  <2> QED BY <2>1, Among DEF Idling, Cleared
<1>6. n.running \in gone \cup {m.running} /\ Alone(n, s) => Alone(m, s)
  BY <1>2 DEF Alone, Begun
<1> QED BY <1>3, <1>4, <1>5, <1>6 DEF NodeOK

\* The sandbox is disposed of.
LEMMA AbortIs ==
    ASSUME NEW n \in Node
    PROVE  /\ Abort(n) \in Node
           /\ Abort(n).runs = [a \in Assigns |-> IF a \in Range(n.sandbox) THEN NoRun ELSE n.runs[a]]
           /\ Abort(n).sandbox = <<>> /\ Abort(n).queue = n.queue
           /\ Abort(n).running = n.running /\ Abort(n).waiting = n.waiting
           /\ Abort(n).frozen = n.frozen
<1> DEFINE f == [a \in Assigns |-> IF Contains(n.sandbox, a) THEN NoRun ELSE n.runs[a]]
<1>1. f \in [Assigns -> Run]
  BY Fields, Empty
<1>2. f = [a \in Assigns |-> IF a \in Range(n.sandbox) THEN NoRun ELSE n.runs[a]]
  BY Fields, Among
<1>3. Abort(n) = [n EXCEPT !.sandbox = <<>>, !.runs = f]
  BY DEF Abort
<1> HIDE DEF f
<1>4. Abort(n) \in Node /\ Abort(n).runs = f
  BY <1>1, <1>3, Fields, Empty DEF Node
<1> QED BY <1>2, <1>3, <1>4 DEF Node

\* Work is dropped: what was in the sandbox is gone, and the queue.
LEMMA DropWorkIs ==
    ASSUME NEW n \in Node
    PROVE  /\ DropWork(n) \in Node
           /\ DropWork(n).runs = Abort(n).runs
           /\ DropWork(n).sandbox = <<>> /\ DropWork(n).queue = <<>>
           /\ DropWork(n).running = Nothing /\ DropWork(n).waiting = n.waiting
           /\ DropWork(n).frozen = n.frozen
<1> DEFINE b == Abort(n)
<1>1. b \in Node /\ b.sandbox = <<>> /\ b.waiting = n.waiting /\ b.frozen = n.frozen
  BY AbortIs
<1>2. DropWork(n) = [b EXCEPT !.queue = <<>>, !.running = Nothing, !.resting = FALSE]
  BY DEF DropWork
<1> HIDE DEF b
<1>3. /\ DropWork(n).runs = b.runs /\ DropWork(n) \in Node
      /\ DropWork(n).sandbox = <<>> /\ DropWork(n).queue = <<>>
      /\ DropWork(n).running = Nothing /\ DropWork(n).waiting = n.waiting
      /\ DropWork(n).frozen = n.frozen
  BY <1>1, <1>2, Empty DEF Node
<1> QED BY <1>3 DEF b

LEMMA FreezeGood ==
    ASSUME NEW n, NEW s, NodeOK(n, s)
    PROVE  /\ NodeOK(Freeze(n), s) /\ Idling(Freeze(n)) /\ Freeze(n).frozen
           /\ \A a \in Assigns : Begun(Freeze(n), a) => Begun(n, a)
<1> DEFINE d == DropWork(n)
           m == Freeze(n)
<1>1. n \in Node /\ Coherent(n, s)
  BY DEF NodeOK
<1>2. /\ d \in Node
      /\ d.runs = [a \in Assigns |-> IF a \in Range(n.sandbox) THEN NoRun ELSE n.runs[a]]
      /\ d.sandbox = <<>> /\ d.queue = <<>> /\ d.running = Nothing /\ d.waiting = n.waiting
  BY <1>1, DropWorkIs, AbortIs
<1>3. m = [d EXCEPT !.frozen = TRUE]
  BY DEF Freeze
<1> HIDE DEF d, m
<1>4. /\ m \in Node /\ m.frozen /\ m.runs = d.runs /\ m.sandbox = <<>> /\ m.queue = <<>>
      /\ m.running = Nothing /\ m.waiting = n.waiting
  BY <1>2, <1>3 DEF Node
<1>5. n.waiting \notin Range(n.sandbox) /\ Nothing \notin Range(n.sandbox)
  BY <1>1, Fields DEF Coherent
<1>6. Cleared(n, m, Range(n.sandbox)) /\ Range(n.sandbox) \in SUBSET Assigns
  BY <1>1, <1>2, <1>4, <1>5, Empty, Fields DEF Cleared
<1> QED BY <1>4, <1>6, ClearedGood DEF Idling, m

\* A socket has gone: what waited for URLs fails with it.
LEMMA DisconnectedGood ==
    ASSUME NEW n, NEW s, NodeOK(n, s), NEW m \in {Disconnected(n), Stopped(n)}
    PROVE  /\ NodeOK(m, s) /\ Idling(m) /\ ~m.frozen
           /\ \A a \in Assigns : Begun(m, a) => Begun(n, a)
<1> DEFINE r == ResetPresigner(n)
           d == DropWork(r)
           e == Disconnected(n)
           gone == Range(n.sandbox) \cup ({n.waiting} \ {Nothing})
<1>1. n \in Node /\ Coherent(n, s)
  BY DEF NodeOK
<1>2. /\ r \in Node /\ r.sandbox = n.sandbox /\ r.waiting = Nothing
      /\ r.runs = [a \in Assigns |-> IF a = n.waiting THEN NoRun ELSE n.runs[a]]
  <2>1. CASE n.waiting = Nothing
    <3>1. r = n
      BY <2>1 DEF ResetPresigner
    <3>2. \A a \in Assigns : a # n.waiting
      BY <1>1, <2>1, Fields
    <3>3. n.runs = [a \in Assigns |-> n.runs[a]]
      BY <1>1, Fields
    <3> QED BY <1>1, <2>1, <3>1, <3>2, <3>3
  <2>2. CASE n.waiting # Nothing
    <3> DEFINE f == [n.runs EXCEPT ![n.waiting] = NoRun]
    <3>1. n.waiting \in Assigns /\ f \in [Assigns -> Run]
      BY <1>1, <2>2, Fields, Empty
    <3>2. f = [a \in Assigns |-> IF a = n.waiting THEN NoRun ELSE n.runs[a]]
      BY <1>1, <3>1, Fields
    <3>3. r = [n EXCEPT !.runs = f, !.waiting = Nothing]
      BY <2>2 DEF ResetPresigner
    <3> HIDE DEF f, r
    <3>4. r \in Node /\ r.runs = f /\ r.sandbox = n.sandbox /\ r.waiting = Nothing
      BY <1>1, <3>1, <3>3 DEF Node
    <3> QED BY <3>2, <3>4
  <2> QED BY <2>1, <2>2
<1> HIDE DEF r
<1>3. /\ d \in Node
      /\ d.runs = [a \in Assigns |-> IF a \in Range(r.sandbox) THEN NoRun ELSE r.runs[a]]
      /\ d.sandbox = <<>> /\ d.queue = <<>> /\ d.running = Nothing /\ d.waiting = Nothing
  BY <1>2, DropWorkIs, AbortIs
<1>4. /\ d.runs = [a \in Assigns |-> IF a \in gone THEN NoRun ELSE n.runs[a]]
      /\ gone \in SUBSET Assigns
  BY <1>1, <1>2, <1>3, Fields
<1>5. e = [d EXCEPT !.frozen = FALSE, !.throttled = FALSE]
  BY DEF Disconnected, r
<1> HIDE DEF d, e
<1>6. /\ e \in Node /\ ~e.frozen /\ e.runs = d.runs /\ e.sandbox = <<>> /\ e.queue = <<>>
      /\ e.running = Nothing /\ e.waiting = Nothing
  BY <1>3, <1>5 DEF Node
<1>7. m = e \/ m = [e EXCEPT !.stopped = TRUE]
  BY DEF e, Stopped
<1>8. /\ m \in Node /\ ~m.frozen /\ m.runs = d.runs /\ m.sandbox = <<>> /\ m.queue = <<>>
      /\ m.running = Nothing /\ m.waiting = Nothing
  BY <1>6, <1>7 DEF Node
<1>9. Cleared(n, m, gone)
  <2>1. m.waiting = IF n.waiting \in gone THEN Nothing ELSE n.waiting
    BY <1>8
  <2> QED BY <1>1, <1>4, <1>8, <2>1, Empty, Fields DEF Cleared
<1> QED BY <1>4, <1>8, <1>9, ClearedGood DEF Idling

\* Only the loop's own marks change.
Marked(n, m) ==
    /\ m \in Node /\ m.queue = n.queue /\ m.running = n.running /\ m.runs = n.runs
    /\ m.sandbox = n.sandbox /\ m.waiting = n.waiting

LEMMA MarkedGood ==
    ASSUME NEW n, NEW m, NEW s, NodeOK(n, s), Marked(n, m)
    PROVE  /\ NodeOK(m, s) /\ Held(m) = Held(n)
           /\ m.frozen = n.frozen => Onward(n, m, s)
           /\ (Idling(m) <=> Idling(n)) /\ (Alone(m, s) <=> Alone(n, s))
           /\ \A a \in Assigns : Begun(m, a) <=> Begun(n, a)
<1>1. NodeOK(m, s)
  BY DEF NodeOK, Coherent, Marked
<1>2. Held(m) = Held(n) /\ (Idling(m) <=> Idling(n)) /\ (Alone(m, s) <=> Alone(n, s))
  BY DEF Held, Idling, Alone, Begun, Marked
<1>3. \A a \in Assigns : Begun(m, a) <=> Begun(n, a)
  BY DEF Begun, Marked
<1> QED BY <1>1, <1>2, <1>3 DEF Onward, Marked

\* A run of the node goes on to its next phase.
Moved(n, m, a, phase) ==
    /\ m \in Node /\ m.queue = n.queue /\ m.running = n.running /\ m.frozen = n.frozen
    /\ m.runs = [n.runs EXCEPT ![a].phase = phase]
    /\ IsInjective(m.sandbox)
    /\ Range(m.sandbox) \ {a} = Range(n.sandbox) \ {a}
    /\ a \in Range(m.sandbox) <=> phase = "sandboxed"
    /\ IF phase = "presigning" THEN n.waiting \in {Nothing, a} /\ m.waiting = a
       ELSE m.waiting = IF n.waiting = a THEN Nothing ELSE n.waiting

LEMMA MovedGood ==
    ASSUME NEW n, NEW m, NEW s, NodeOK(n, s), NEW a \in Assigns, Begun(n, a),
           NEW phase \in {"fetching", "sandboxed", "presigning", "uploading"},
           Moved(n, m, a, phase)
    PROVE  Onward(n, m, s) /\ Held(m) = Held(n)
<1>1. n \in Node /\ m \in Node /\ Coherent(n, s) /\ s \in 0..MaxConnections
  BY DEF NodeOK, Moved
<1> USE <1>1
<1>2. /\ m.runs[a].phase = phase /\ m.runs[a].link = n.runs[a].link
      /\ \A b \in Assigns \ {a} : m.runs[b] = n.runs[b]
  <2>1. n.runs \in [Assigns -> Run] /\ n.runs[a] \in Run
    BY Fields
  <2> QED BY <2>1 DEF Moved, Run
<1>3. a \notin Range(n.queue)
  BY DEF Coherent, Begun
<1>4. Coherent(m, s)
  <2>1. \A b \in Assigns : m.runs[b].phase = "sandboxed" <=> b \in Range(m.sandbox)
    BY <1>2 DEF Coherent, Moved
  <2>2. \A b \in Assigns : m.runs[b].phase = "presigning" <=> m.waiting = b
    BY <1>2, Fields DEF Coherent, Moved
  <2>3. \A b \in Range(m.queue) : m.runs[b].phase = "none"
    BY <1>2, <1>3, Fields DEF Coherent, Moved
  <2>4. m.running # Nothing => m.runs[m.running].phase # "none" /\ m.runs[m.running].link = s
    BY <1>2, Fields DEF Coherent, Moved
  <2>5. \A b \in Assigns : m.runs[b].link <= s
    BY <1>2 DEF Coherent
  <2> QED BY <2>1, <2>2, <2>3, <2>4, <2>5 DEF Coherent, Moved
<1>5. \A b \in Assigns : Begun(m, b) => Begun(n, b)
  BY <1>2 DEF Begun
<1>6. Alone(n, s) => Alone(m, s)
  BY <1>2 DEF Alone, Begun, Moved
<1>7. Held(m) = Held(n) /\ (Idling(n) => Idling(m))
  BY DEF Held, Idling, Moved
<1> QED BY <1>4, <1>5, <1>6, <1>7 DEF Onward, NodeOK, Moved

\* A run of the node ends, wherever it was: x is the node without it in its
\* sandbox and its presigner.
TakenOut(n, x, a) ==
    /\ x \in Node /\ x.queue = n.queue /\ x.running = n.running /\ x.frozen = n.frozen
    /\ x.runs = n.runs /\ IsInjective(x.sandbox)
    /\ Range(x.sandbox) = Range(n.sandbox) \ {a}
    /\ x.waiting = IF n.waiting = a THEN Nothing ELSE n.waiting

LEMMA EndedGood ==
    ASSUME NEW n, NEW x, NodeOK(n, sockets), NEW a \in Assigns, Begun(n, a), TakenOut(n, x, a),
           NEW outcome
    PROVE  /\ Onward(n, Ended(x, a, outcome), sockets)
           /\ Held(Ended(x, a, outcome)) = Held(n) \ {a}
<1> DEFINE f == [x.runs EXCEPT ![a] = NoRun]
           m == [x EXCEPT !.runs = f]
           freed == [x EXCEPT !.runs = f, !.running = Nothing]
           rested == [x EXCEPT !.runs = f, !.running = Nothing, !.resting = TRUE]
           e == Ended(x, a, outcome)
<1>1. n \in Node /\ x \in Node /\ Coherent(n, sockets)
  BY DEF NodeOK, TakenOut
<1>2. /\ f \in [Assigns -> Run]
      /\ f = [b \in Assigns |-> IF b \in {a} THEN NoRun ELSE n.runs[b]]
  BY <1>1, Fields, Empty DEF TakenOut
<1>3. \/ x.running # a /\ e = m
      \/ x.running = a /\ e = rested
      \/ x.running = a /\ e = Pump(freed)
  <2>1. m = [x EXCEPT !.runs[a] = NoRun]
    OBVIOUS
  <2>2. freed = [[x EXCEPT !.runs[a] = NoRun] EXCEPT !.running = Nothing]
    BY <1>1 DEF Node
  <2>3. rested = [[[x EXCEPT !.runs[a] = NoRun] EXCEPT !.running = Nothing] EXCEPT !.resting = TRUE]
    BY <1>1 DEF Node
  <2> HIDE DEF m, freed, rested
  <2> QED BY <2>1, <2>2, <2>3 DEF Ended
<1> HIDE DEF f
<1>4. /\ m \in Node /\ m.runs = f /\ m.queue = x.queue /\ m.running = x.running
      /\ m.sandbox = x.sandbox /\ m.waiting = x.waiting /\ m.frozen = x.frozen
  BY <1>1, <1>2 DEF Node
<1>5. /\ freed \in Node /\ freed.runs = f /\ freed.queue = x.queue /\ freed.running = Nothing
      /\ freed.sandbox = x.sandbox /\ freed.waiting = x.waiting /\ freed.frozen = x.frozen
  BY <1>1, <1>2 DEF Node
<1>6. /\ rested \in Node /\ rested.runs = f /\ rested.queue = x.queue /\ rested.running = Nothing
      /\ rested.sandbox = x.sandbox /\ rested.waiting = x.waiting /\ rested.frozen = x.frozen
  BY <1>1, <1>2 DEF Node
<1> HIDE DEF m, freed, rested, e
<1>7. a \notin Range(n.queue) /\ Nothing \notin {a} /\ {a} \in SUBSET Assigns
  BY <1>1, Fields DEF Coherent, Begun
<1>8. ASSUME NEW y, y \in Node, y.runs = f, y.queue = x.queue, y.sandbox = x.sandbox,
             y.waiting = x.waiting, y.frozen = x.frozen,
             y.running = IF n.running = a THEN Nothing ELSE n.running
      PROVE  Onward(n, y, sockets) /\ Held(y) = Held(n) \ {a}
  <2>1. Cleared(n, y, {a})
    BY <1>1, <1>2, <1>7, <1>8 DEF Cleared, TakenOut, Coherent
  <2>2. n.running \in {a} \cup {y.running}
    BY <1>8
  <2>3. Held(y) = Held(n) \ {a}
    BY <1>7, <1>8 DEF Held, TakenOut
  <2> QED BY <1>7, <1>8, <2>1, <2>2, <2>3, ClearedGood DEF Onward, Cleared, TakenOut
<1>9. CASE x.running # a /\ e = m
  <2>1. Onward(n, m, sockets) /\ Held(m) = Held(n) \ {a}
    BY <1>4, <1>8, <1>9 DEF TakenOut
  <2> QED BY <1>9, <2>1 DEF e
<1>10. CASE x.running = a /\ e = rested
  <2>1. Onward(n, rested, sockets) /\ Held(rested) = Held(n) \ {a}
    BY <1>6, <1>8, <1>10 DEF TakenOut
  <2> QED BY <1>10, <2>1 DEF e
<1>11. CASE x.running = a /\ e = Pump(freed)
  <2>1. Onward(n, freed, sockets) /\ Held(freed) = Held(n) \ {a}
    BY <1>5, <1>8, <1>11 DEF TakenOut
  <2>2. NodeOK(freed, sockets)
    BY <2>1 DEF Onward
  <2>3. Onward(freed, e, sockets) /\ Held(e) = Held(freed)
    BY <1>11, <2>2, PumpGood
  <2> QED BY <2>1, <2>3, OnwardAgain DEF e
<1> QED BY <1>3, <1>9, <1>10, <1>11

\* An assignment that was nowhere is queued, or not taken.
LEMMA AcceptGood ==
    ASSUME NEW n, NodeOK(n, sockets), NEW a \in Assigns, ~Begun(n, a), a \notin Range(n.queue)
    PROVE  LET m == Accept(n, a)
           IN  /\ NodeOK(m, sockets) /\ m.frozen = n.frozen
               /\ Range(m.queue) \subseteq Range(n.queue) \cup {a}
               /\ \A b \in Assigns : Begun(m, b) => Begun(n, b) \/ b \in Range(n.queue) \/ b = a
               /\ Alone(n, sockets) => Alone(m, sockets)
               /\ Held(m) = IF Takes(n, a) THEN Held(n) \cup {a} ELSE Held(n)
<1>1. CASE ~Takes(n, a)
  BY <1>1 DEF Accept
<1>2. CASE Takes(n, a)
  <2> DEFINE q == Append(n.queue, a)
             g == [n EXCEPT !.queue = q]
             m == Accept(n, a)
  <2>1. n \in Node /\ Coherent(n, sockets) /\ sockets \in 0..MaxConnections
    BY DEF NodeOK
  <2>2. /\ q \in Seq(Assigns) /\ Range(q) = Range(n.queue) \cup {a} /\ IsInjective(q)
    BY <2>1, Fields, AppendIs DEF Coherent
  <2> HIDE DEF q
  <2>3. /\ g \in Node /\ g.queue = q /\ g.running = n.running /\ g.runs = n.runs
        /\ g.sandbox = n.sandbox /\ g.waiting = n.waiting /\ g.frozen = n.frozen
    BY <2>1, <2>2 DEF Node
  <2>4. m = Pump(g)
    BY <1>2 DEF Accept, q
  <2> HIDE DEF g, m
  <2>5. NodeOK(g, sockets)
    BY <2>1, <2>2, <2>3 DEF NodeOK, Coherent, Begun
  <2>6. Onward(g, m, sockets) /\ Held(m) = Held(g)
    BY <2>4, <2>5, PumpGood
  <2>7. Held(g) = Held(n) \cup {a} /\ (Alone(n, sockets) => Alone(g, sockets))
        /\ \A b \in Assigns : Begun(g, b) <=> Begun(n, b)
    BY <2>2, <2>3 DEF Held, Alone, Begun
  <2> QED BY <1>2, <2>2, <2>3, <2>6, <2>7 DEF Onward, m
<1> QED BY <1>1, <1>2

\* A cancel of a task takes its runs only.
LEMMA CancelGood ==
    ASSUME NEW n, NodeOK(n, sockets), NEW task
    PROVE  Onward(n, Cancel(n, task), sockets) /\ Held(n) \ Of(task) \subseteq Held(Cancel(n, task))
<1> DEFINE q == Without(n.queue, Of(task))
           m == [n EXCEPT !.queue = q]
           c == Cancel(n, task)
           b == Abort(m)
           d == [b EXCEPT !.running = Nothing]
<1>1. n \in Node /\ Coherent(n, sockets)
  BY DEF NodeOK
<1>2. q \in Seq(Assigns) /\ Range(q) = Range(n.queue) \ Of(task) /\ IsInjective(q)
  BY <1>1, Fields, WithoutIs DEF Coherent
<1>3. \/ c = m
      \/ /\ n.running # Nothing /\ n.running.task = task /\ n.running \in Range(n.sandbox)
         /\ c = Pump(d)
      \/ /\ n.running # Nothing /\ n.running.task = task /\ n.running \notin Range(n.sandbox)
         /\ c = b
  <2>1. Contains(n.sandbox, n.running) <=> n.running \in Range(n.sandbox)
    BY <1>1, Fields, Among
  <2> QED BY <2>1 DEF Cancel
<1> HIDE DEF q, c
<1>4. /\ m \in Node /\ m.queue = q /\ m.running = n.running /\ m.runs = n.runs
      /\ m.sandbox = n.sandbox /\ m.waiting = n.waiting /\ m.frozen = n.frozen
  BY <1>1, <1>2 DEF Node
<1> HIDE DEF m
<1>5. /\ b \in Node /\ b.queue = q /\ b.running = n.running /\ b.sandbox = <<>>
      /\ b.runs = [a \in Assigns |-> IF a \in Range(n.sandbox) THEN NoRun ELSE n.runs[a]]
      /\ b.waiting = n.waiting /\ b.frozen = n.frozen
  BY <1>4, AbortIs
<1> HIDE DEF b
<1>6. /\ d \in Node /\ d.queue = q /\ d.running = Nothing /\ d.sandbox = <<>>
      /\ d.runs = b.runs /\ d.waiting = n.waiting /\ d.frozen = n.frozen
  BY <1>5 DEF Node
<1> HIDE DEF d
<1>7. Range(n.sandbox) \in SUBSET Assigns /\ n.waiting \notin Range(n.sandbox)
      /\ Nothing \notin Range(n.sandbox)
  BY <1>1, Fields DEF Coherent
<1>8. n.running # Nothing => n.running \in Assigns
  BY <1>1, Fields
<1>9. CASE c = m
  <2>1. NodeOK(m, sockets)
    BY <1>1, <1>2, <1>4 DEF NodeOK, Coherent
  <2>2. Onward(n, m, sockets)
    <3>1. \A a \in Assigns : Begun(m, a) => Begun(n, a)
      BY <1>4 DEF Begun
    <3>2. Alone(n, sockets) => Alone(m, sockets)
      BY <1>4 DEF Alone, Begun
    <3>3. Idling(n) => Idling(m)
      BY <1>2, <1>4, Among, Empty DEF Idling
    <3> QED BY <2>1, <3>1, <3>2, <3>3, <1>2, <1>4 DEF Onward
  <2>3. Held(n) \ Of(task) \subseteq Held(m)
    BY <1>2, <1>4 DEF Held
  <2> QED BY <1>9, <2>2, <2>3 DEF c
<1>10. CASE /\ n.running # Nothing /\ n.running.task = task /\ n.running \in Range(n.sandbox)
            /\ c = Pump(d)
  <2>1. Cleared(n, d, Range(n.sandbox))
    BY <1>2, <1>5, <1>6, <1>7, Empty DEF Cleared
  <2>2. Onward(n, d, sockets)
    BY <1>10, <1>2, <1>6, <1>7, <2>1, ClearedGood DEF Onward
  <2>3. Onward(d, c, sockets) /\ Held(c) = Held(d)
    BY <1>10, <2>2, PumpGood DEF Onward
  <2>4. Held(n) \ Of(task) \subseteq Held(d)
    BY <1>10, <1>2, <1>6, <1>8 DEF Held, Of
  <2> QED BY <2>2, <2>3, <2>4, OnwardAgain DEF c
<1>11. CASE /\ n.running # Nothing /\ n.running.task = task /\ n.running \notin Range(n.sandbox)
            /\ c = b
  <2>1. Cleared(n, b, Range(n.sandbox))
    BY <1>11, <1>2, <1>5, <1>7, Empty DEF Cleared
  <2>2. Onward(n, b, sockets)
    BY <1>2, <1>5, <1>7, <2>1, ClearedGood DEF Onward
  <2>3. Held(n) \ Of(task) \subseteq Held(b)
    BY <1>2, <1>5 DEF Held
  <2> QED BY <1>11, <2>2, <2>3 DEF c
<1> QED BY <1>3, <1>9, <1>10, <1>11

\* A node that is not frozen goes on.
LEMMA ResumeGood ==
    ASSUME NEW n, NodeOK(n, sockets), ~n.frozen
    PROVE  Onward(n, Resume(n), sockets) /\ Held(Resume(n)) = Held(n)
<1> DEFINE m == [n EXCEPT !.frozen = FALSE, !.throttled = FALSE, !.resting = FALSE]
<1>1. Marked(n, m) /\ m.frozen = n.frozen
  BY DEF NodeOK, Marked, Node
<1>2. Resume(n) = Pump(m)
  BY DEF Resume
<1> HIDE DEF m
<1>3. Onward(n, m, sockets) /\ Held(m) = Held(n) /\ NodeOK(m, sockets)
  BY <1>1, MarkedGood
<1> QED BY <1>2, <1>3, PumpGood, OnwardAgain

LEMMA RestedGood ==
    ASSUME NEW n, NodeOK(n, sockets)
    PROVE  LET m == Pump([n EXCEPT !.resting = FALSE])
           IN  Onward(n, m, sockets) /\ Held(m) = Held(n)
<1> DEFINE m == [n EXCEPT !.resting = FALSE]
<1>1. Marked(n, m) /\ m.frozen = n.frozen
  BY DEF NodeOK, Marked, Node
<1> HIDE DEF m
<1>2. Onward(n, m, sockets) /\ Held(m) = Held(n) /\ NodeOK(m, sockets)
  BY <1>1, MarkedGood
<1>3. Onward(n, Pump(m), sockets) /\ Held(Pump(m)) = Held(n)
  BY <1>2, PumpGood, OnwardAgain
<1> QED BY <1>3 DEF m
-----------------------------------------------------------------------------
(* The messages, told apart. *)

LEMMA UpKinds ==
    /\ {Hello, Closed} \subseteq ToPlane /\ Hello # Closed
    /\ \A a \in Assigns :
          /\ Presign(a) \in ToPlane /\ Presign(a) \notin {Hello, Closed}
          /\ \A outcome \in Reports :
                Result(a, outcome) \in ToPlane /\ Result(a, outcome) \notin {Hello, Closed}
<1>1. {Hello, Closed} \subseteq ToPlane /\ Hello # Closed
  BY DEF ToPlane, Hello, Closed
<1>2. ASSUME NEW a \in Assigns
      PROVE  Presign(a) \in ToPlane /\ Presign(a).t = "presign"
  BY DEF ToPlane, Presign
<1>3. ASSUME NEW a \in Assigns, NEW outcome \in Reports
      PROVE  Result(a, outcome) \in ToPlane /\ Result(a, outcome).t = "result"
  BY DEF ToPlane, Result
<1>4. Hello.t = "hello" /\ Closed.t = "closed"
  BY DEF Hello, Closed
<1> QED BY <1>1, <1>2, <1>3, <1>4

\* What a message to the control plane is.
LEMMA UpIs ==
    ASSUME NEW m \in ToPlane
    PROVE  \/ m = Hello /\ m.t = "hello"
           \/ m = Closed /\ m.t = "closed"
           \/ \E a \in Assigns : m = Presign(a) /\ m.t = "presign" /\ m.assign = a
           \/ \E a \in Assigns, outcome \in Reports :
                m = Result(a, outcome) /\ m.t = "result" /\ m.assign = a
BY DEF ToPlane, Hello, Closed, Presign, Result

LEMMA DownIs ==
    ASSUME NEW m \in ToNode
    PROVE  \/ m = Welcome /\ m.t = "welcome"
           \/ m = Close /\ m.t = "close"
           \/ \E a \in Assigns : m = AssignMsg(a) /\ m.t = "assign" /\ m.assign = a
           \/ \E task \in Tasks : m = CancelMsg(task) /\ m.t = "cancel" /\ m.task = task
           \/ \E op \in Ops : m = Command(op) /\ m.t = "command" /\ m.op = op
           \/ \E a \in Assigns, granted \in BOOLEAN :
                m = Presigned(a, granted) /\ m.t = "presigned" /\ m.assign = a /\ m.granted = granted
<1>1. CASE m \in {Welcome, Close}
  BY <1>1 DEF Welcome, Close
<1>2. CASE \E a \in Assigns : m = AssignMsg(a)
  BY <1>2 DEF AssignMsg
<1>3. CASE \E task \in Tasks : m = CancelMsg(task)
  BY <1>3 DEF CancelMsg
<1>4. CASE \E op \in Ops : m = Command(op)
  BY <1>4 DEF Command
<1>5. CASE \E a \in Assigns, granted \in BOOLEAN : m = Presigned(a, granted)
  BY <1>5 DEF Presigned
<1> QED BY <1>1, <1>2, <1>3, <1>4, <1>5 DEF ToNode

LEMMA DownKinds ==
    /\ {Welcome, Close} \subseteq ToNode /\ Welcome.t = "welcome" /\ Close.t = "close"
    /\ \A a \in Assigns : /\ AssignMsg(a) \in ToNode /\ AssignMsg(a).t = "assign"
                          /\ AssignMsg(a).assign = a
                          /\ \A granted \in BOOLEAN :
                                /\ Presigned(a, granted) \in ToNode
                                /\ Presigned(a, granted).t = "presigned"
    /\ \A task \in Tasks : /\ CancelMsg(task) \in ToNode /\ CancelMsg(task).t = "cancel"
                           /\ CancelMsg(task).task = task
    /\ \A op \in Ops : /\ Command(op) \in ToNode /\ Command(op).t = "command"
                       /\ Command(op).op = op
<1>1. {Welcome, Close} \subseteq ToNode /\ Welcome.t = "welcome" /\ Close.t = "close"
  BY DEF ToNode, Welcome, Close
<1>2. ASSUME NEW a \in Assigns
      PROVE  /\ AssignMsg(a) \in ToNode /\ AssignMsg(a).t = "assign" /\ AssignMsg(a).assign = a
  <2>1. AssignMsg(a) \in ToNode
    BY DEF ToNode
  <2> QED BY <2>1 DEF AssignMsg
<1>3. ASSUME NEW a \in Assigns, NEW granted \in BOOLEAN
      PROVE  Presigned(a, granted) \in ToNode /\ Presigned(a, granted).t = "presigned"
  <2>1. Presigned(a, granted) \in ToNode
    BY DEF ToNode
  <2> QED BY <2>1 DEF Presigned
<1>4. ASSUME NEW task \in Tasks
      PROVE  /\ CancelMsg(task) \in ToNode /\ CancelMsg(task).t = "cancel"
             /\ CancelMsg(task).task = task
  <2>1. CancelMsg(task) \in ToNode
    BY DEF ToNode
  <2> QED BY <2>1 DEF CancelMsg
<1>5. ASSUME NEW op \in Ops
      PROVE  Command(op) \in ToNode /\ Command(op).t = "command" /\ Command(op).op = op
  <2>1. Command(op) \in ToNode
    BY DEF ToNode
  <2> QED BY <2>1 DEF Command
<1> QED BY <1>1, <1>2, <1>3, <1>4, <1>5
-----------------------------------------------------------------------------
(* Channels: what a message more, or one read, leaves of what is said of them. *)

LEMMA Read ==
    ASSUME NEW T, NEW s \in Seq(T), s # <<>>
    PROVE  /\ Tail(s) \in Seq(T) /\ Head(s) \in T /\ Head(s) = s[1] /\ 1 \in DOMAIN s
           /\ \A i \in DOMAIN Tail(s) : i + 1 \in DOMAIN s /\ Tail(s)[i] = s[i + 1] /\ 1 < i + 1
           /\ \A i \in DOMAIN s : i = 1 \/ (i - 1 \in DOMAIN Tail(s) /\ Tail(s)[i - 1] = s[i] /\ 1 < i)
           /\ DOMAIN s \subseteq Nat /\ DOMAIN Tail(s) \subseteq Nat
<1>1. /\ Tail(s) \in Seq(T) /\ Len(s) \in Nat /\ Len(s) > 0 /\ Len(Tail(s)) = Len(s) - 1
      /\ Head(s) = s[1] /\ \A i \in 1..Len(Tail(s)) : Tail(s)[i] = s[i + 1]
      /\ DOMAIN s = 1..Len(s) /\ DOMAIN Tail(s) = 1..Len(Tail(s)) /\ s[1] \in T
  OBVIOUS
<1>2. \A i \in 1..Len(s) : i = 1 \/ (i - 1 \in 1..Len(Tail(s)) /\ s[(i - 1) + 1] = s[i] /\ 1 < i)
  BY <1>1
<1> QED BY <1>1, <1>2

LEMMA InList ==
    ASSUME NEW T, NEW s \in Seq(T)
    PROVE  \A e : Contains(s, e) <=> \E i \in DOMAIN s : s[i] = e
<1>1. DOMAIN s = 1..Len(s)
  OBVIOUS
<1> QED BY <1>1 DEF Contains

LEMMA Written ==
    ASSUME NEW T, NEW s \in Seq(T), NEW e \in T
    PROVE  /\ Append(s, e) \in Seq(T) /\ Append(s, e) # <<>>
           /\ Len(s) + 1 \in DOMAIN Append(s, e) /\ Append(s, e)[Len(s) + 1] = e
           /\ \A i \in DOMAIN s : i \in DOMAIN Append(s, e) /\ Append(s, e)[i] = s[i] /\ i < Len(s) + 1
           /\ \A i \in DOMAIN Append(s, e) : i \in DOMAIN s \/ i = Len(s) + 1
           /\ DOMAIN s \subseteq Nat /\ Len(s) \in Nat
           /\ s # <<>> => Head(Append(s, e)) = Head(s)
           /\ s = <<>> => Head(Append(s, e)) = e
<1>1. /\ Append(s, e) \in Seq(T) /\ Len(s) \in Nat /\ Len(Append(s, e)) = Len(s) + 1
      /\ DOMAIN s = 1..Len(s) /\ DOMAIN Append(s, e) = 1..Len(s) + 1
      /\ \A i \in 1..Len(s) : Append(s, e)[i] = s[i]
      /\ Append(s, e)[Len(s) + 1] = e
  BY AppendIs
<1>2. Append(s, e) # <<>>
  BY <1>1
<1>3. Head(Append(s, e)) = Append(s, e)[1] /\ (s # <<>> => Head(s) = s[1] /\ 1 \in 1..Len(s))
  BY <1>1
<1>4. s = <<>> => Len(s) + 1 = 1
  OBVIOUS
<1> QED BY <1>1, <1>2, <1>3, <1>4

\* A closed socket, an idle node: what the two ends share.
Facing(so, d, u, c) == Greeted(u, c) /\ Framed(so, d, u, c)

LEMMA UpGrows ==
    ASSUME NEW so, NEW d, NEW u \in Seq(ToPlane), NEW c, Facing(so, d, u, c),
           NEW m \in ToPlane \ {Hello, Closed}
    PROVE  Facing(so, d, Append(u, m), c) /\ (Leaving(Append(u, m)) <=> Leaving(u))
<1> DEFINE v == Append(u, m)
<1>1. /\ Len(u) + 1 \in DOMAIN v /\ v[Len(u) + 1] = m
      /\ \A i \in DOMAIN u : i \in DOMAIN v /\ v[i] = u[i] /\ i < Len(u) + 1
      /\ \A i \in DOMAIN v : i \in DOMAIN u \/ i = Len(u) + 1
      /\ m # Hello /\ m # Closed
  BY Written
<1> HIDE DEF v
<1>2. \A i \in DOMAIN v : v[i] \in {Hello, Closed} => i \in DOMAIN u /\ v[i] = u[i]
  BY <1>1
<1>3. Greeted(v, c)
  BY <1>1, <1>2 DEF Facing, Greeted
<1>4. Framed(so, d, v, c)
  BY <1>1, <1>2 DEF Facing, Framed
<1>5. Leaving(v) <=> Leaving(u)
  BY <1>1, <1>2 DEF Leaving
<1> QED BY <1>3, <1>4, <1>5 DEF Facing, v

LEMMA UpReads ==
    ASSUME NEW so, NEW d, NEW u \in Seq(ToPlane), NEW c, Facing(so, d, u, c),
           u # <<>>, Head(u) \notin {Hello, Closed}
    PROVE  Facing(so, d, Tail(u), c) /\ (Leaving(Tail(u)) <=> Leaving(u))
<1> DEFINE v == Tail(u)
<1>1. /\ \A i \in DOMAIN v : i + 1 \in DOMAIN u /\ v[i] = u[i + 1]
      /\ \A i \in DOMAIN u : u[i] \in {Hello, Closed} => i - 1 \in DOMAIN v /\ v[i - 1] = u[i]
      /\ DOMAIN u \subseteq Nat /\ DOMAIN v \subseteq Nat
  BY Read
<1> HIDE DEF v
<1>2. /\ \A i, k \in DOMAIN v : i < k <=> i + 1 < k + 1
      /\ \A i \in DOMAIN v : \A k \in DOMAIN u : i + 1 < k <=> i < k - 1
      /\ \A i \in DOMAIN v : \A k \in DOMAIN u : k < i + 1 <=> k - 1 < i
  BY <1>1
<1>3. Greeted(v, c)
  <2>1. ASSUME NEW i \in DOMAIN v, NEW j \in DOMAIN v, i < j, v[i] = Hello, v[j] = Hello
        PROVE  \E k \in DOMAIN v : i < k /\ k < j /\ v[k] = Closed
    <3>1. PICK k \in DOMAIN u : i + 1 < k /\ k < j + 1 /\ u[k] = Closed
      BY <1>1, <1>2, <2>1 DEF Facing, Greeted
    <3> QED BY <1>1, <1>2, <3>1
  <2>2. ASSUME NEW i \in DOMAIN v, c.known, v[i] = Hello
        PROVE  \E k \in DOMAIN v : k < i /\ v[k] = Closed
    <3>1. PICK k \in DOMAIN u : k < i + 1 /\ u[k] = Closed
      BY <1>1, <1>2, <2>2 DEF Facing, Greeted
    <3> QED BY <1>1, <1>2, <3>1
  <2> QED BY <2>1, <2>2 DEF Greeted
<1>4. Leaving(v) <=> Leaving(u)
  BY <1>1 DEF Leaving
<1>5. Framed(so, d, v, c)
  <2>1. (\E k \in DOMAIN v : v[k] = Closed) <=> \E k \in DOMAIN u : u[k] = Closed
    BY <1>4 DEF Leaving
  <2>2. ASSUME NEW i \in DOMAIN v, v[i] = Hello
        PROVE  (\E k \in DOMAIN u : i + 1 < k /\ u[k] = Closed)
                 <=> \E k \in DOMAIN v : i < k /\ v[k] = Closed
    BY <1>1, <1>2
  <2>3. \A i \in DOMAIN v : v[i] = Hello => i + 1 \in DOMAIN u /\ u[i + 1] = Hello
    BY <1>1
  <2>4. Framed(so, d, u, c)
    BY DEF Facing
  <2>5. so = "closed" => d = <<>> /\ (c.known => \E k \in DOMAIN v : v[k] = Closed)
    BY <2>1, <2>4 DEF Framed
  <2>6. so = "closed" => \A i \in DOMAIN v : v[i] = Hello => \E k \in DOMAIN v : i < k /\ v[k] = Closed
    BY <2>2, <2>3, <2>4 DEF Framed
  <2>7. so = "open" => IF d = <<>> THEN ~c.known \/ \E k \in DOMAIN v : v[k] = Closed
                       ELSE Head(d) = Welcome
    BY <2>1, <2>4 DEF Framed
  <2>8. ASSUME NEW i \in DOMAIN v, v[i] = Hello, \A k \in DOMAIN v : i < k => v[k] # Closed
        PROVE  d = <<>> /\ so = "open"
    <3>1. i + 1 \in DOMAIN u /\ u[i + 1] = Hello /\ \A k \in DOMAIN u : i + 1 < k => u[k] # Closed
      BY <2>2, <2>3, <2>8
    <3> QED BY <2>4, <3>1 DEF Framed
  <2> QED BY <2>5, <2>6, <2>7, <2>8 DEF Framed
<1> QED BY <1>3, <1>4, <1>5 DEF Facing, v

\* A new socket: the last of every greeting before it is closed.
LEMMA HelloSent ==
    ASSUME NEW d, NEW u \in Seq(ToPlane), NEW c, Facing("closed", d, u, c)
    PROVE  /\ Facing("open", d, Append(u, Hello), c) /\ d = <<>>
           /\ Leaving(Append(u, Hello)) <=> Leaving(u)
<1> DEFINE v == Append(u, Hello)
<1>1. /\ Len(u) + 1 \in DOMAIN v /\ v[Len(u) + 1] = Hello
      /\ \A i \in DOMAIN u : i \in DOMAIN v /\ v[i] = u[i] /\ i < Len(u) + 1
      /\ \A i \in DOMAIN v : i \in DOMAIN u \/ i = Len(u) + 1
      /\ Hello # Closed /\ DOMAIN u \subseteq Nat /\ Len(u) \in Nat
  BY Written, UpKinds
<1> HIDE DEF v
<1>2. /\ d = <<>>
      /\ c.known => \E k \in DOMAIN u : u[k] = Closed
      /\ \A i \in DOMAIN u : u[i] = Hello => \E k \in DOMAIN u : i < k /\ u[k] = Closed
  BY DEF Facing, Framed
<1>3. Greeted(v, c)
  <2>1. ASSUME NEW i \in DOMAIN v, NEW j \in DOMAIN v, i < j, v[i] = Hello, v[j] = Hello
        PROVE  \E k \in DOMAIN v : i < k /\ k < j /\ v[k] = Closed
    <3>1. i \in DOMAIN u
      BY <1>1, <2>1
    <3>2. CASE j = Len(u) + 1
      <4>1. PICK k \in DOMAIN u : i < k /\ u[k] = Closed
        BY <1>1, <1>2, <2>1, <3>1
      <4> QED BY <1>1, <3>2, <4>1
    <3>3. CASE j \in DOMAIN u
      <4>1. PICK k \in DOMAIN u : i < k /\ k < j /\ u[k] = Closed
        BY <1>1, <2>1, <3>1, <3>3 DEF Facing, Greeted
      <4> QED BY <1>1, <4>1
    <3> QED BY <1>1, <3>2, <3>3
  <2>2. ASSUME NEW i \in DOMAIN v, c.known, v[i] = Hello
        PROVE  \E k \in DOMAIN v : k < i /\ v[k] = Closed
    <3>1. CASE i \in DOMAIN u
      <4>1. PICK k \in DOMAIN u : k < i /\ u[k] = Closed
        BY <1>1, <2>2, <3>1 DEF Facing, Greeted
      <4> QED BY <1>1, <4>1
    <3>2. CASE i = Len(u) + 1
      <4>1. PICK k \in DOMAIN u : u[k] = Closed
        BY <1>2, <2>2
      <4> QED BY <1>1, <3>2, <4>1
    <3> QED BY <1>1, <3>1, <3>2
  <2> QED BY <2>1, <2>2 DEF Greeted
<1>4. Leaving(v) <=> Leaving(u)
  BY <1>1 DEF Leaving
<1>5. Framed("open", d, v, c)
  BY <1>1, <1>2 DEF Framed
<1> QED BY <1>2, <1>3, <1>4, <1>5 DEF Facing, v

\* The node leaves.
LEMMA ClosedSent ==
    ASSUME NEW so, NEW d, NEW u \in Seq(ToPlane), NEW c, Facing(so, d, u, c)
    PROVE  Facing("closed", <<>>, Append(u, Closed), c) /\ Leaving(Append(u, Closed))
<1> DEFINE v == Append(u, Closed)
<1>1. /\ Len(u) + 1 \in DOMAIN v /\ v[Len(u) + 1] = Closed
      /\ \A i \in DOMAIN u : i \in DOMAIN v /\ v[i] = u[i] /\ i < Len(u) + 1
      /\ \A i \in DOMAIN v : i \in DOMAIN u \/ i = Len(u) + 1
      /\ Hello # Closed
  BY Written, UpKinds
<1> HIDE DEF v
<1>2. \A i \in DOMAIN v : v[i] = Hello => i \in DOMAIN u /\ u[i] = Hello
  BY <1>1
<1>3. Greeted(v, c)
  <2>1. ASSUME NEW i \in DOMAIN v, NEW j \in DOMAIN v, i < j, v[i] = Hello, v[j] = Hello
        PROVE  \E k \in DOMAIN v : i < k /\ k < j /\ v[k] = Closed
    <3>1. PICK k \in DOMAIN u : i < k /\ k < j /\ u[k] = Closed
      BY <1>2, <2>1 DEF Facing, Greeted
    <3> QED BY <1>1, <3>1
  <2>2. ASSUME NEW i \in DOMAIN v, c.known, v[i] = Hello
        PROVE  \E k \in DOMAIN v : k < i /\ v[k] = Closed
    <3>1. PICK k \in DOMAIN u : k < i /\ u[k] = Closed
      BY <1>2, <2>2 DEF Facing, Greeted
    <3> QED BY <1>1, <3>1
  <2> QED BY <2>1, <2>2 DEF Greeted
<1>4. Framed("closed", <<>>, v, c)
  BY <1>1, <1>2 DEF Framed
<1>5. Leaving(v)
  BY <1>1 DEF Leaving
<1> QED BY <1>3, <1>4, <1>5 DEF Facing, v

\* The control plane reads that the node left, and knows it no more.
LEMMA ClosedRead ==
    ASSUME NEW so, NEW d, NEW u \in Seq(ToPlane), NEW c, NEW e, Facing(so, d, u, c),
           u # <<>>, Head(u) = Closed, ~e.known
    PROVE  Facing(so, d, Tail(u), e)
<1> DEFINE v == Tail(u)
<1>1. /\ \A i \in DOMAIN v : i + 1 \in DOMAIN u /\ v[i] = u[i + 1] /\ 1 < i + 1
      /\ \A i \in DOMAIN u : i = 1 \/ (i - 1 \in DOMAIN v /\ v[i - 1] = u[i] /\ 1 < i)
      /\ DOMAIN u \subseteq Nat /\ DOMAIN v \subseteq Nat /\ 1 \in DOMAIN u /\ u[1] = Closed
  BY Read
<1> HIDE DEF v
<1>2. /\ \A i, k \in DOMAIN v : i < k <=> i + 1 < k + 1
      /\ \A i \in DOMAIN v : \A k \in DOMAIN u : i + 1 < k <=> i < k - 1
      /\ \A i \in DOMAIN v : \A k \in DOMAIN u : i + 1 < k => k # 1
      /\ \A i \in DOMAIN v : \A k \in DOMAIN u : k < i + 1 <=> k - 1 < i
  BY <1>1
<1>3. Greeted(v, e)
  <2>1. ASSUME NEW i \in DOMAIN v, NEW j \in DOMAIN v, i < j, v[i] = Hello, v[j] = Hello
        PROVE  \E k \in DOMAIN v : i < k /\ k < j /\ v[k] = Closed
    <3>1. PICK k \in DOMAIN u : i + 1 < k /\ k < j + 1 /\ u[k] = Closed
      BY <1>1, <1>2, <2>1 DEF Facing, Greeted
    <3> QED BY <1>1, <1>2, <3>1
  <2> QED BY <2>1 DEF Greeted
<1>4. Framed(so, d, v, e)
  <2>1. ASSUME NEW i \in DOMAIN v, v[i] = Hello
        PROVE  (\E k \in DOMAIN u : i + 1 < k /\ u[k] = Closed)
                 <=> \E k \in DOMAIN v : i < k /\ v[k] = Closed
    <3>1. ASSUME NEW k \in DOMAIN u, i + 1 < k, u[k] = Closed
          PROVE  k - 1 \in DOMAIN v /\ i < k - 1 /\ v[k - 1] = Closed
      BY <1>1, <1>2, <3>1
    <3>2. ASSUME NEW k \in DOMAIN v, i < k, v[k] = Closed
          PROVE  k + 1 \in DOMAIN u /\ i + 1 < k + 1 /\ u[k + 1] = Closed
      BY <1>1, <1>2, <3>2
    <3>3. ASSUME \E k \in DOMAIN u : i + 1 < k /\ u[k] = Closed
          PROVE  \E k \in DOMAIN v : i < k /\ v[k] = Closed
      <4>1. PICK k \in DOMAIN u : i + 1 < k /\ u[k] = Closed
        BY <3>3
      <4>2. k - 1 \in DOMAIN v /\ i < k - 1 /\ v[k - 1] = Closed
        BY <3>1, <4>1
      <4> QED BY <4>2
    <3>4. ASSUME \E k \in DOMAIN v : i < k /\ v[k] = Closed
          PROVE  \E k \in DOMAIN u : i + 1 < k /\ u[k] = Closed
      <4>1. PICK k \in DOMAIN v : i < k /\ v[k] = Closed
        BY <3>4
      <4>2. k + 1 \in DOMAIN u /\ i + 1 < k + 1 /\ u[k + 1] = Closed
        BY <3>2, <4>1
      <4> QED BY <4>2
    <3> QED BY <3>3, <3>4
  <2>2. \A i \in DOMAIN v : v[i] = Hello => i + 1 \in DOMAIN u /\ u[i + 1] = Hello
    BY <1>1
  <2>3. Framed(so, d, u, c)
    BY DEF Facing
  <2>4. ASSUME NEW i \in DOMAIN v, v[i] = Hello, \A k \in DOMAIN v : i < k => v[k] # Closed
        PROVE  d = <<>> /\ so = "open"
    <3>1. i + 1 \in DOMAIN u /\ u[i + 1] = Hello /\ \A k \in DOMAIN u : i + 1 < k => u[k] # Closed
      BY <2>1, <2>2, <2>4
    <3> QED BY <2>3, <3>1 DEF Framed
  <2>5. so = "closed" => \A i \in DOMAIN v : v[i] = Hello => \E k \in DOMAIN v : i < k /\ v[k] = Closed
    BY <2>1, <2>2, <2>3 DEF Framed
  <2>6. so = "closed" => d = <<>>
    BY <2>3 DEF Framed
  <2>7. so = "open" => IF d = <<>> THEN TRUE ELSE Head(d) = Welcome
    BY <2>3 DEF Framed
  <2> QED BY <2>4, <2>5, <2>6, <2>7 DEF Framed
<1> QED BY <1>3, <1>4 DEF Facing, v

\* The control plane reads a greeting: it did not know the node, and its
\* welcome is the first the socket carries.
LEMMA HelloRead ==
    ASSUME NEW so, NEW d \in Seq(ToNode), NEW u \in Seq(ToPlane), NEW c, NEW e, Facing(so, d, u, c),
           u # <<>>, Head(u) = Hello
    PROVE  /\ ~c.known
           /\ ~Leaving(Tail(u)) => so = "open" /\ d = <<>>
           /\ Facing(so, IF Leaving(Tail(u)) THEN d ELSE Append(d, Welcome), Tail(u), e)
<1> DEFINE v == Tail(u)
           f == IF Leaving(v) THEN d ELSE Append(d, Welcome)
<1>1. /\ \A i \in DOMAIN v : i + 1 \in DOMAIN u /\ v[i] = u[i + 1] /\ 1 < i + 1
      /\ \A i \in DOMAIN u : i = 1 \/ (i - 1 \in DOMAIN v /\ v[i - 1] = u[i] /\ 1 < i)
      /\ DOMAIN u \subseteq Nat /\ DOMAIN v \subseteq Nat /\ 1 \in DOMAIN u /\ u[1] = Hello
      /\ Hello # Closed
  BY Read, UpKinds
<1>0. Append(d, Welcome) # <<>> /\ (d = <<>> => Head(Append(d, Welcome)) = Welcome)
  BY Written, DownKinds
<1> HIDE DEF v, f
<1>2. /\ \A i, k \in DOMAIN v : i < k <=> i + 1 < k + 1
      /\ \A i \in DOMAIN v : \A k \in DOMAIN u : i + 1 < k <=> i < k - 1
      /\ \A i \in DOMAIN v : \A k \in DOMAIN u : i + 1 < k => k # 1
      /\ \A i \in DOMAIN v : \A k \in DOMAIN u : k < i + 1 <=> k - 1 < i
      /\ \A k \in DOMAIN u : ~(k < 1)
  BY <1>1
<1>3. ~c.known
  BY <1>1, <1>2 DEF Facing, Greeted
<1>4. ~Leaving(v) => so = "open" /\ d = <<>>
  <2>1. (\E k \in DOMAIN u : 1 < k /\ u[k] = Closed) => Leaving(v)
    BY <1>1 DEF Leaving
  <2> QED BY <1>1, <2>1 DEF Facing, Framed
<1>5. \A j \in DOMAIN v : v[j] = Hello => \E k \in DOMAIN v : k < j /\ v[k] = Closed
  <2>1. ASSUME NEW j \in DOMAIN v, v[j] = Hello
        PROVE  \E k \in DOMAIN v : k < j /\ v[k] = Closed
    <3>1. PICK k \in DOMAIN u : 1 < k /\ k < j + 1 /\ u[k] = Closed
      BY <1>1, <2>1 DEF Facing, Greeted
    <3> QED BY <1>1, <1>2, <3>1
  <2> QED BY <2>1
<1>6. Greeted(v, e)
  <2>1. ASSUME NEW i \in DOMAIN v, NEW j \in DOMAIN v, i < j, v[i] = Hello, v[j] = Hello
        PROVE  \E k \in DOMAIN v : i < k /\ k < j /\ v[k] = Closed
    <3>1. PICK k \in DOMAIN u : i + 1 < k /\ k < j + 1 /\ u[k] = Closed
      BY <1>1, <1>2, <2>1 DEF Facing, Greeted
    <3> QED BY <1>1, <1>2, <3>1
  <2> QED BY <1>5, <2>1 DEF Greeted
<1>7. Framed(so, f, v, e)
  <2>1. ASSUME NEW i \in DOMAIN v, v[i] = Hello
        PROVE  (\E k \in DOMAIN u : i + 1 < k /\ u[k] = Closed)
                 <=> \E k \in DOMAIN v : i < k /\ v[k] = Closed
    <3>1. ASSUME NEW k \in DOMAIN u, i + 1 < k, u[k] = Closed
          PROVE  k - 1 \in DOMAIN v /\ i < k - 1 /\ v[k - 1] = Closed
      BY <1>1, <1>2, <3>1
    <3>2. ASSUME NEW k \in DOMAIN v, i < k, v[k] = Closed
          PROVE  k + 1 \in DOMAIN u /\ i + 1 < k + 1 /\ u[k + 1] = Closed
      BY <1>1, <1>2, <3>2
    <3>3. ASSUME \E k \in DOMAIN u : i + 1 < k /\ u[k] = Closed
          PROVE  \E k \in DOMAIN v : i < k /\ v[k] = Closed
      <4>1. PICK k \in DOMAIN u : i + 1 < k /\ u[k] = Closed
        BY <3>3
      <4>2. k - 1 \in DOMAIN v /\ i < k - 1 /\ v[k - 1] = Closed
        BY <3>1, <4>1
      <4> QED BY <4>2
    <3>4. ASSUME \E k \in DOMAIN v : i < k /\ v[k] = Closed
          PROVE  \E k \in DOMAIN u : i + 1 < k /\ u[k] = Closed
      <4>1. PICK k \in DOMAIN v : i < k /\ v[k] = Closed
        BY <3>4
      <4>2. k + 1 \in DOMAIN u /\ i + 1 < k + 1 /\ u[k + 1] = Closed
        BY <3>2, <4>1
      <4> QED BY <4>2
    <3> QED BY <3>3, <3>4
  <2>2. \A i \in DOMAIN v : v[i] = Hello => i + 1 \in DOMAIN u /\ u[i + 1] = Hello
    BY <1>1
  <2>3. Framed(so, d, u, c)
    BY DEF Facing
  <2>4. ASSUME NEW i \in DOMAIN v, v[i] = Hello, \A k \in DOMAIN v : i < k => v[k] # Closed
        PROVE  f = <<>> /\ so = "open"
    <3>1. i + 1 \in DOMAIN u /\ u[i + 1] = Hello /\ \A k \in DOMAIN u : i + 1 < k => u[k] # Closed
      BY <2>1, <2>2, <2>4
    <3>2. d = <<>> /\ so = "open"
      BY <2>3, <3>1 DEF Framed
    <3>3. Leaving(v)
      BY <1>5, <2>4 DEF Leaving
    <3> QED BY <3>2, <3>3 DEF f
  <2>5. so = "closed" =>
          /\ f = <<>> /\ (e.known => \E k \in DOMAIN v : v[k] = Closed)
          /\ \A i \in DOMAIN v : v[i] = Hello => \E k \in DOMAIN v : i < k /\ v[k] = Closed
    <3>1. so = "closed" => Leaving(v)
      BY <1>4
    <3> QED BY <2>1, <2>2, <2>3, <3>1 DEF Framed, Leaving, f
  <2>6. so = "open" => IF f = <<>> THEN ~e.known \/ \E k \in DOMAIN v : v[k] = Closed
                       ELSE Head(f) = Welcome
    <3>1. CASE Leaving(v)
      BY <2>3, <3>1 DEF Framed, Leaving, f
    <3>2. CASE ~Leaving(v)
      BY <1>0, <1>4, <3>2 DEF f
    <3> QED BY <3>1, <3>2
  <2> QED BY <2>4, <2>5, <2>6 DEF Framed
<1> QED BY <1>3, <1>4, <1>6, <1>7 DEF Facing, v, f

\* The control plane writes to a node it knows; or knows it no longer.
LEMMA PlaneWrites ==
    ASSUME NEW so, NEW d \in Seq(ToNode), NEW u, NEW c, NEW e, NEW m \in ToNode,
           Facing(so, d, u, c), c.known
    PROVE  Facing(so, IF Leaving(u) THEN d ELSE Append(d, m), u, e)
<1> DEFINE f == IF Leaving(u) THEN d ELSE Append(d, m)
<1>0. Append(d, m) # <<>> /\ (d # <<>> => Head(Append(d, m)) = Head(d))
  BY Written
<1>1. Greeted(u, e)
  BY DEF Facing, Greeted
<1>2. CASE Leaving(u)
  BY <1>1, <1>2 DEF Facing, Framed, Leaving
<1>3. CASE ~Leaving(u)
  <2>1. so # "closed" /\ (so = "open" => d # <<>> /\ Head(d) = Welcome)
    BY <1>3 DEF Facing, Framed, Leaving
  <2>2. \A i \in DOMAIN u : u[i] # Hello
    BY <1>3 DEF Facing, Greeted, Leaving
  <2>3. f = Append(d, m)
    BY <1>3
  <2> HIDE DEF f
  <2>4. Framed(so, f, u, e)
    BY <1>0, <2>1, <2>2, <2>3 DEF Framed
  <2> QED BY <1>1, <2>4 DEF Facing, f
<1> QED BY <1>2, <1>3

\* The node reads, from its welcome on.
LEMMA DownReads ==
    ASSUME NEW so, NEW d, NEW u, NEW c, Facing(so, d, u, c), d # <<>>
    PROVE  /\ Facing("welcomed", Tail(d), u, c)
           /\ so = "welcomed" \/ (so = "open" /\ Head(d) = Welcome)
              \/ so \notin {"closed", "open", "welcomed"}
BY DEF Facing, Framed, Greeted
-----------------------------------------------------------------------------
(* What is on its way to the node. *)

Passed(n, d, u, c) ==
    /\ SentOnce(n, d) /\ Numbered(n, d, c) /\ CancelsPast(d, u, c) /\ Frozen(n, d, u, c)

LEMMA SentTo ==
    ASSUME NEW d \in Seq(ToNode), NEW i \in DOMAIN d
    PROVE  /\ d[i] \in ToNode
           /\ d[i].t = "assign" => d[i].assign \in Assigns /\ d[i] = AssignMsg(d[i].assign)
<1>1. d[i] \in ToNode
  OBVIOUS
<1> QED BY <1>1, DownIs

\* The node goes on; the other end sees no more than it did.
LEMMA PassedBeside ==
    ASSUME NEW n, NEW m, NEW d \in Seq(ToNode), NEW u, NEW v, NEW c, Passed(n, d, u, c),
           Range(m.queue) \subseteq Range(n.queue),
           \A a \in Assigns : Begun(m, a) => Begun(n, a) \/ a \in Range(n.queue),
           m.frozen => n.frozen, Leaving(u) => Leaving(v)
    PROVE  Passed(m, d, v, c)
<1>1. SentOnce(m, d)
  BY SentTo DEF Passed, SentOnce, Begun
<1>2. Numbered(m, d, c)
  BY DEF Passed, Numbered, Begun
<1>3. CancelsPast(d, v, c)
  BY DEF Passed, CancelsPast
<1>4. Frozen(m, d, v, c)
  BY DEF Passed, Frozen
<1> QED BY <1>1, <1>2, <1>3, <1>4 DEF Passed

\* The control plane counts less.
LEMMA PassedLess ==
    ASSUME NEW n, NEW d, NEW u, NEW v, NEW c, NEW e, Passed(n, d, u, c),
           e.open \subseteq c.open, e.attempts = c.attempts, e.open = {} \/ e.known,
           Leaving(u) => Leaving(v) \/ e.open = {},
           c.commanded = "freeze" \/ ~c.known \/ Leaving(u) =>
               e.commanded = "freeze" \/ ~e.known \/ Leaving(v)
    PROVE  Passed(n, d, v, e)
<1>1. Numbered(n, d, e)
  BY DEF Passed, Numbered
<1>2. CancelsPast(d, v, e)
  BY DEF Passed, CancelsPast
<1>3. Frozen(n, d, v, e)
  BY DEF Passed, Frozen
<1> QED BY <1>1, <1>2, <1>3 DEF Passed

\* Nothing is on its way.
LEMMA PassedNone ==
    ASSUME NEW n, NEW d, NEW u, NEW v, NEW c, NEW e, Passed(n, d, u, c), ~n.frozen,
           e.open = c.open, e.attempts = c.attempts, c.known => e.known
    PROVE  Passed(n, <<>>, v, e)
<1>1. DOMAIN <<>> = {}
  OBVIOUS
<1>2. Numbered(n, <<>>, e)
  BY <1>1 DEF Passed, Numbered
<1> QED BY <1>1, <1>2 DEF Passed, SentOnce, CancelsPast, Frozen

\* A message is read: one assignment, cancel or command less.
LEMMA PassedRead ==
    ASSUME NEW n, NEW d \in Seq(ToNode), NEW u, NEW c, Passed(n, d, u, c), d # <<>>
    PROVE  /\ Passed(n, Tail(d), u, c)
           /\ \A a \in Assigns : Head(d) = AssignMsg(a) =>
                 /\ ~Begun(n, a) /\ a \notin Range(n.queue)
                 /\ ~Contains(Tail(d), AssignMsg(a))
                 /\ a.attempt <= c.attempts[a.task]
           /\ \A a \in c.open : Head(d) = CancelMsg(a.task) =>
                 Leaving(u) \/ Contains(Tail(d), AssignMsg(a))
           /\ Head(d) = Command("freeze") =>
                 /\ c.commanded = "freeze" \/ ~c.known \/ Leaving(u)
                 /\ \A i \in DOMAIN Tail(d) : Tail(d)[i] # Command("resume")
           /\ Head(d) = Command("resume") => ~n.frozen
<1> DEFINE f == Tail(d)
<1>1. /\ f \in Seq(ToNode) /\ Head(d) = d[1] /\ 1 \in DOMAIN d
      /\ \A i \in DOMAIN f : i + 1 \in DOMAIN d /\ f[i] = d[i + 1] /\ 1 < i + 1
      /\ \A i \in DOMAIN d : i = 1 \/ (i - 1 \in DOMAIN f /\ f[i - 1] = d[i] /\ 1 < i)
      /\ DOMAIN d \subseteq Nat /\ DOMAIN f \subseteq Nat
  BY Read
<1>0. \A e : Contains(f, e) <=> \E i \in DOMAIN f : f[i] = e
  BY <1>1, InList
<1> HIDE DEF f
<1>2. /\ \A i, k \in DOMAIN f : (i < k <=> i + 1 < k + 1) /\ (i + 1 = k + 1 => i = k)
      /\ \A i \in DOMAIN f : \A k \in DOMAIN d : (i + 1 < k => k # 1) /\ (i + 1 < k <=> i < k - 1)
      /\ \A i \in DOMAIN f : i + 1 # 1 /\ ~(i + 1 < 1)
  BY <1>1
<1>3. SentOnce(n, f)
  <2>1. ASSUME NEW i \in DOMAIN f, f[i].t = "assign"
        PROVE  /\ f[i].assign \notin Range(n.queue) /\ n.runs[f[i].assign].phase = "none"
               /\ \A j \in DOMAIN f : f[j] = f[i] => j = i
    <3>1. i + 1 \in DOMAIN d /\ d[i + 1] = f[i]
      BY <1>1
    <3>2. \A j \in DOMAIN d : d[j] = d[i + 1] => j = i + 1
      BY <2>1, <3>1 DEF Passed, SentOnce
    <3>3. ASSUME NEW j \in DOMAIN f, f[j] = f[i] PROVE j = i
      <4>1. j + 1 \in DOMAIN d /\ d[j + 1] = d[i + 1]
        BY <1>1, <3>1, <3>3
      <4> QED BY <1>2, <3>2, <4>1
    <3> QED BY <2>1, <3>1, <3>3 DEF Passed, SentOnce
  <2> QED BY <2>1 DEF SentOnce
<1>4. Numbered(n, f, c)
  <2>1. \A a : (\E i \in DOMAIN f : f[i] = AssignMsg(a)) => \E i \in DOMAIN d : d[i] = AssignMsg(a)
    BY <1>1
  <2> QED BY <2>1 DEF Passed, Numbered
<1>5. CancelsPast(f, u, c)
  <2>1. ASSUME NEW i \in DOMAIN f, NEW a \in c.open, f[i] = CancelMsg(a.task), ~Leaving(u)
        PROVE  \E j \in DOMAIN f : i < j /\ f[j] = AssignMsg(a)
    <3>1. i + 1 \in DOMAIN d /\ d[i + 1] = CancelMsg(a.task)
      BY <1>1, <2>1
    <3>2. PICK j \in DOMAIN d : i + 1 < j /\ d[j] = AssignMsg(a)
      BY <2>1, <3>1 DEF Passed, CancelsPast
    <3>3. j - 1 \in DOMAIN f /\ i < j - 1 /\ f[j - 1] = AssignMsg(a)
      BY <1>1, <1>2, <3>2
    <3> QED BY <3>3
  <2> QED BY <2>1 DEF CancelsPast
<1>6. Frozen(n, f, u, c)
  <2>1. (\E i \in DOMAIN f : f[i] = Command("freeze")) => \E i \in DOMAIN d : d[i] = Command("freeze")
    BY <1>1
  <2>2. ASSUME NEW i \in DOMAIN f, f[i] = Command("resume")
        PROVE  ~n.frozen /\ \A j \in DOMAIN f : j < i => f[j] # Command("freeze")
    <3>1. i + 1 \in DOMAIN d /\ d[i + 1] = Command("resume")
      BY <1>1, <2>2
    <3>2. ~n.frozen /\ \A j \in DOMAIN d : j < i + 1 => d[j] # Command("freeze")
      BY <3>1 DEF Passed, Frozen
    <3>3. ASSUME NEW j \in DOMAIN f, j < i PROVE f[j] # Command("freeze")
      <4>1. j + 1 \in DOMAIN d /\ j + 1 < i + 1 /\ d[j + 1] = f[j]
        BY <1>1, <1>2, <3>3
      <4> QED BY <3>2, <4>1
    <3> QED BY <3>2, <3>3
  <2> QED BY <2>1, <2>2 DEF Passed, Frozen
<1>7. ASSUME NEW a \in Assigns, Head(d) = AssignMsg(a)
      PROVE  /\ ~Begun(n, a) /\ a \notin Range(n.queue) /\ ~Contains(f, AssignMsg(a))
             /\ a.attempt <= c.attempts[a.task]
  <2>1. d[1].t = "assign" /\ d[1].assign = a /\ d[1] = AssignMsg(a)
    BY <1>1, <1>7, DownKinds
  <2>2. a \notin Range(n.queue) /\ ~Begun(n, a) /\ \A j \in DOMAIN d : d[j] = AssignMsg(a) => j = 1
    BY <1>1, <2>1 DEF Passed, SentOnce, Begun
  <2>3. \A i \in DOMAIN f : f[i] # AssignMsg(a)
    BY <1>1, <1>2, <2>2
  <2>4. a.attempt <= c.attempts[a.task]
    BY <1>1, <2>1 DEF Passed, Numbered
  <2> QED BY <1>0, <2>2, <2>3, <2>4
<1>8. ASSUME NEW a \in c.open, Head(d) = CancelMsg(a.task), ~Leaving(u)
      PROVE  Contains(f, AssignMsg(a))
  <2>1. PICK j \in DOMAIN d : 1 < j /\ d[j] = AssignMsg(a)
    BY <1>1, <1>8 DEF Passed, CancelsPast
  <2>2. j - 1 \in DOMAIN f /\ f[j - 1] = AssignMsg(a)
    BY <1>1, <2>1
  <2> QED BY <1>0, <2>2
<1>9. ASSUME Head(d) = Command("freeze")
      PROVE  /\ c.commanded = "freeze" \/ ~c.known \/ Leaving(u)
             /\ \A i \in DOMAIN f : f[i] # Command("resume")
  <2>1. c.commanded = "freeze" \/ ~c.known \/ Leaving(u)
    BY <1>1, <1>9 DEF Passed, Frozen
  <2>2. ASSUME NEW i \in DOMAIN f, f[i] = Command("resume") PROVE FALSE
    <3>1. i + 1 \in DOMAIN d /\ d[i + 1] = Command("resume") /\ 1 < i + 1
      BY <1>1, <2>2
    <3> QED BY <1>1, <1>9, <3>1 DEF Passed, Frozen
  <2> QED BY <2>1, <2>2
<1>10. Head(d) = Command("resume") => ~n.frozen
  BY <1>1 DEF Passed, Frozen
<1> QED BY <1>3, <1>4, <1>5, <1>6, <1>7, <1>8, <1>9, <1>10 DEF Passed, f

\* What is sent: a message that is lost if the node has left.
Sends(d, u, m) == IF Leaving(u) THEN d ELSE Append(d, m)

\* A message that is none of the following.
LEMMA PassedPlain ==
    ASSUME NEW n, NEW d \in Seq(ToNode), NEW u, NEW c, Passed(n, d, u, c), NEW m \in ToNode,
           m.t \notin {"assign", "cancel"}, m \notin {Command("freeze"), Command("resume")}
    PROVE  Passed(n, Append(d, m), u, c)
<1> DEFINE f == Append(d, m)
           z == Len(d) + 1
<1>1. /\ z \in DOMAIN f /\ f[z] = m
      /\ \A i \in DOMAIN d : i \in DOMAIN f /\ f[i] = d[i] /\ i < z
      /\ \A i \in DOMAIN f : i \in DOMAIN d \/ i = z
  BY Written
<1>2. /\ \A a \in Assigns : m # AssignMsg(a)
      /\ \A task \in Tasks : m # CancelMsg(task)
  BY DownKinds
<1> HIDE DEF f, z
<1>3. SentOnce(n, f)
  BY <1>1 DEF Passed, SentOnce
<1>4. Numbered(n, f, c)
  <2>1. \A a \in Assigns : (\E i \in DOMAIN f : f[i] = AssignMsg(a))
                              => \E i \in DOMAIN d : d[i] = AssignMsg(a)
    BY <1>1, <1>2
  <2> QED BY <2>1 DEF Passed, Numbered
<1>5. CancelsPast(f, u, c)
  <2>1. ASSUME NEW i \in DOMAIN f, NEW a \in c.open, f[i] = CancelMsg(a.task), ~Leaving(u)
        PROVE  \E j \in DOMAIN f : i < j /\ f[j] = AssignMsg(a)
    <3>1. i \in DOMAIN d /\ d[i] = CancelMsg(a.task)
      <4>1. m.t # CancelMsg(a.task).t
        BY DEF CancelMsg
      <4> QED BY <1>1, <2>1, <4>1
    <3>2. PICK j \in DOMAIN d : i < j /\ d[j] = AssignMsg(a)
      BY <2>1, <3>1 DEF Passed, CancelsPast
    <3> QED BY <1>1, <3>2
  <2> QED BY <2>1 DEF CancelsPast
<1>6. Frozen(n, f, u, c)
  <2>1. \A i \in DOMAIN f : f[i] \in {Command("freeze"), Command("resume")}
                               => i \in DOMAIN d /\ d[i] = f[i]
    BY <1>1
  <2> QED BY <2>1 DEF Passed, Frozen
<1> QED BY <1>3, <1>4, <1>5, <1>6 DEF Passed, f

LEMMA PassedPlainly ==
    ASSUME NEW n, NEW d \in Seq(ToNode), NEW u, NEW c, Passed(n, d, u, c), NEW m \in ToNode,
           m.t \notin {"assign", "cancel"}, m \notin {Command("freeze"), Command("resume")}
    PROVE  Passed(n, Sends(d, u, m), u, c)
BY PassedPlain DEF Sends

\* The next attempt of a task that has none open.
Opened(c, a) == [c EXCEPT !.attempts[a.task] = a.attempt, !.open = @ \cup {a}]

LEMMA PassedAssign ==
    ASSUME NEW n \in Node, NEW d \in Seq(ToNode), NEW u, NEW c \in Ledger, Passed(n, d, u, c),
           NEW a \in Assigns, a.attempt = c.attempts[a.task] + 1,
           c.known, \A b \in c.open : b.task # a.task
    PROVE  /\ Opened(c, a) \in Ledger /\ Opened(c, a).known = c.known
           /\ Opened(c, a).open = c.open \cup {a} /\ Opened(c, a).commanded = c.commanded
           /\ Passed(n, Sends(d, u, AssignMsg(a)), u, Opened(c, a))
<1> DEFINE e == Opened(c, a)
           f == Sends(d, u, AssignMsg(a))
           g == [c.attempts EXCEPT ![a.task] = a.attempt]
<1>1. /\ c.attempts \in [Tasks -> 0..MaxAttempts] /\ c.open \in SUBSET Assigns
      /\ a.task \in Tasks /\ a.attempt \in 1..MaxAttempts
  BY DEF Ledger, Assigns
<1>2. /\ g \in [Tasks -> 0..MaxAttempts] /\ g[a.task] = a.attempt
      /\ \A task \in Tasks : c.attempts[task] <= g[task]
  <2>1. MaxAttempts \in Nat /\ a.attempt \in 0..MaxAttempts
    BY <1>1, NodeLoopAssumption
  <2>2. \A task \in Tasks : c.attempts[task] \in Nat
    BY <1>1, <2>1
  <2> QED BY <1>1, <2>1, <2>2
<1>3. e = [c EXCEPT !.attempts = g, !.open = c.open \cup {a}]
  BY DEF Opened
<1> HIDE DEF g, e
<1>4. /\ e \in Ledger /\ e.attempts = g /\ e.open = c.open \cup {a} /\ e.known = c.known
      /\ e.commanded = c.commanded
  BY <1>1, <1>2, <1>3 DEF Ledger
<1>5. /\ a \notin Range(n.queue) /\ n.runs[a].phase = "none"
      /\ \A i \in DOMAIN d : d[i] # AssignMsg(a)
  <2>1. ~(a.attempt <= c.attempts[a.task])
    BY <1>1, NodeLoopAssumption
  <2> QED BY <2>1 DEF Passed, Numbered
<1>6. \/ Leaving(u) /\ f = d
      \/ /\ Len(d) + 1 \in DOMAIN f /\ f[Len(d) + 1] = AssignMsg(a)
         /\ \A i \in DOMAIN d : i \in DOMAIN f /\ f[i] = d[i] /\ i < Len(d) + 1
         /\ \A i \in DOMAIN f : i \in DOMAIN d \/ i = Len(d) + 1
  BY Written, DownKinds DEF Sends
<1>7. \A i \in DOMAIN d : i \in DOMAIN f /\ f[i] = d[i]
  BY <1>6
<1>8. \A i \in DOMAIN f : (i \in DOMAIN d /\ f[i] = d[i])
                           \/ (i = Len(d) + 1 /\ f[i] = AssignMsg(a))
  BY <1>6
<1> HIDE DEF f
<1>9. SentOnce(n, f)
  <2>1. ASSUME NEW i \in DOMAIN f, f[i].t = "assign"
        PROVE  /\ f[i].assign \notin Range(n.queue) /\ n.runs[f[i].assign].phase = "none"
               /\ \A j \in DOMAIN f : f[j] = f[i] => j = i
    <3>1. CASE i \in DOMAIN d /\ f[i] = d[i]
      <4>1. ASSUME NEW j \in DOMAIN f, f[j] = f[i] PROVE j = i
        BY <1>5, <1>8, <2>1, <3>1, <4>1 DEF Passed, SentOnce
      <4> QED BY <2>1, <3>1, <4>1 DEF Passed, SentOnce
    <3>2. CASE i = Len(d) + 1 /\ f[i] = AssignMsg(a)
      <4>1. ASSUME NEW j \in DOMAIN f, f[j] = f[i] PROVE j = i
        BY <1>5, <1>8, <3>2, <4>1
      <4>2. f[i].assign = a
        BY <3>2, DownKinds
      <4> QED BY <1>5, <4>1, <4>2
    <3> QED BY <1>8, <3>1, <3>2
  <2> QED BY <2>1 DEF SentOnce
<1>10. Numbered(n, f, e)
  <2>1. ASSUME NEW b \in Assigns,
               \/ b \in e.open \/ b \in Range(n.queue) \/ n.runs[b].phase # "none"
               \/ \E i \in DOMAIN f : f[i] = AssignMsg(b)
        PROVE  b.attempt <= e.attempts[b.task]
    <3>1. CASE b = a
      BY <1>1, <1>2, <1>4, <3>1, NodeLoopAssumption
    <3>2. CASE b # a
      <4>1. AssignMsg(a) # AssignMsg(b)
        BY <3>2, DownKinds
      <4>2. b.attempt <= c.attempts[b.task]
        BY <1>4, <1>8, <2>1, <3>2, <4>1 DEF Passed, Numbered
      <4>3. b.task \in Tasks /\ b.attempt \in Nat /\ c.attempts[b.task] \in Nat /\ g[b.task] \in Nat
        BY <1>1, <1>2, NodeLoopAssumption DEF Assigns
      <4> QED BY <1>2, <1>4, <4>2, <4>3
    <3> QED BY <3>1, <3>2
  <2>2. \A b, b2 \in e.open : b.task = b2.task => b = b2
    BY <1>4 DEF Passed, Numbered
  <2> QED BY <1>4, <2>1, <2>2 DEF Numbered
<1>11. CancelsPast(f, u, e)
  <2>1. ASSUME NEW i \in DOMAIN f, NEW b \in e.open, f[i] = CancelMsg(b.task), ~Leaving(u)
        PROVE  \E j \in DOMAIN f : i < j /\ f[j] = AssignMsg(b)
    <3>1. b.task \in Tasks /\ f[i] # AssignMsg(a)
      <4>1. b \in Assigns
        BY <1>1, <1>4
      <4>2. b.task \in Tasks
        BY <4>1 DEF Assigns
      <4> QED BY <2>1, <4>2, DownKinds
    <3>2. i \in DOMAIN d /\ d[i] = CancelMsg(b.task)
      BY <1>8, <2>1, <3>1
    <3>3. CASE b = a
      BY <1>6, <2>1, <3>2, <3>3
    <3>4. CASE b \in c.open
      <4>1. PICK j \in DOMAIN d : i < j /\ d[j] = AssignMsg(b)
        BY <2>1, <3>2, <3>4 DEF Passed, CancelsPast
      <4> QED BY <1>7, <4>1
    <3> QED BY <1>4, <3>3, <3>4
  <2> QED BY <2>1 DEF CancelsPast
<1>12. Frozen(n, f, u, e)
  <2>1. AssignMsg(a) \notin {Command("freeze"), Command("resume")}
    BY DownKinds DEF Ops
  <2>2. \A i \in DOMAIN f : f[i] \in {Command("freeze"), Command("resume")}
                               => i \in DOMAIN d /\ d[i] = f[i]
    BY <1>8, <2>1
  <2> QED BY <1>4, <2>2 DEF Passed, Frozen
<1> QED BY <1>4, <1>9, <1>10, <1>11, <1>12 DEF Passed, e, f

\* An attempt is cancelled: its task has no other.
LEMMA PassedCancel ==
    ASSUME NEW n, NEW d \in Seq(ToNode), NEW u, NEW c, NEW e, Passed(n, d, u, c),
           c.open \subseteq Assigns, NEW a \in c.open, e.open = c.open \ {a},
           e.attempts = c.attempts, e.known = c.known, e.commanded = c.commanded
    PROVE  Passed(n, Sends(d, u, CancelMsg(a.task)), u, e)
<1> DEFINE f == Sends(d, u, CancelMsg(a.task))
<1>1. a.task \in Tasks /\ CancelMsg(a.task) \in ToNode /\ CancelMsg(a.task).t = "cancel"
      /\ CancelMsg(a.task).task = a.task
  BY DownKinds DEF Assigns
<1>2. Passed(n, d, u, e)
  <2>1. e.known /\ e.open \subseteq c.open
    BY DEF Passed, Numbered
  <2> QED BY <2>1, PassedLess
<1>3. CASE Leaving(u)
  BY <1>2, <1>3 DEF Sends
<1>4. CASE ~Leaving(u)
  <2>1. /\ f[Len(d) + 1] = CancelMsg(a.task)
        /\ \A i \in DOMAIN d : i \in DOMAIN f /\ f[i] = d[i]
        /\ \A i \in DOMAIN f : i \in DOMAIN d \/ i = Len(d) + 1
    BY <1>1, <1>4, Written DEF Sends
  <2> HIDE DEF f
  <2>2. \A b \in Assigns : CancelMsg(a.task) # AssignMsg(b)
    BY <1>1, DownKinds
  <2>3. SentOnce(n, f)
    BY <1>1, <1>2, <2>1 DEF Passed, SentOnce
  <2>4. Numbered(n, f, e)
    <3>1. \A b \in Assigns : (\E i \in DOMAIN f : f[i] = AssignMsg(b))
                                => \E i \in DOMAIN d : d[i] = AssignMsg(b)
      BY <2>1, <2>2
    <3> QED BY <1>2, <3>1 DEF Passed, Numbered
  <2>5. CancelsPast(f, u, e)
    <3>1. ASSUME NEW i \in DOMAIN f, NEW b \in e.open, f[i] = CancelMsg(b.task)
          PROVE  \E j \in DOMAIN f : i < j /\ f[j] = AssignMsg(b)
      <4>1. b \in c.open /\ b # a /\ b.task # a.task /\ b.task \in Tasks
        BY DEF Passed, Numbered, Assigns
      <4>2. CancelMsg(b.task) # CancelMsg(a.task)
        BY <1>1, <4>1, DownKinds
      <4>3. i \in DOMAIN d /\ d[i] = CancelMsg(b.task)
        BY <2>1, <3>1, <4>2
      <4>4. PICK j \in DOMAIN d : i < j /\ d[j] = AssignMsg(b)
        BY <1>2, <1>4, <4>3 DEF Passed, CancelsPast
      <4> QED BY <2>1, <4>4
    <3> QED BY <3>1 DEF CancelsPast
  <2>6. Frozen(n, f, u, e)
    <3>1. CancelMsg(a.task) \notin {Command("freeze"), Command("resume")}
      BY <1>1, DownKinds DEF Ops
    <3>2. \A i \in DOMAIN f : f[i] \in {Command("freeze"), Command("resume")}
                                 => i \in DOMAIN d /\ d[i] = f[i]
      BY <2>1, <3>1
    <3> QED BY <1>2, <2>1, <3>2 DEF Passed, Frozen
  <2> QED BY <2>3, <2>4, <2>5, <2>6 DEF Passed, f
<1> QED BY <1>3, <1>4

\* A command: only a node that is not frozen is resumed.
LEMMA PassedCommand ==
    ASSUME NEW n, NEW d \in Seq(ToNode), NEW u, NEW c, NEW e, Passed(n, d, u, c), NEW op \in Ops,
           c.known, op = "resume" => c.commanded = "throttle",
           e.open = c.open, e.attempts = c.attempts, e.known = c.known,
           op = "freeze" \/ (op # "resume" /\ c.commanded = "freeze") => e.commanded = "freeze"
    PROVE  Passed(n, Sends(d, u, Command(op)), u, e)
<1>1. Command(op) \in ToNode /\ Command(op).t = "command" /\ Command(op).op = op
  BY DownKinds
<1>2. CASE Leaving(u)
  <2>1. Passed(n, d, u, e)
    BY <1>2, PassedLess, ZenonT(40) DEF Passed, Numbered
  <2> QED BY <1>2, <2>1 DEF Sends
<1>3. CASE ~Leaving(u) /\ op # "resume"
  <2>1. Passed(n, d, u, e)
    <3>1. c.commanded = "freeze" \/ ~c.known \/ Leaving(u) =>
            e.commanded = "freeze" \/ ~e.known \/ Leaving(u)
      BY <1>3
    <3> QED BY <3>1, PassedLess
  <2>2. CASE op # "freeze"
    <3>1. Command(op) \notin {Command("freeze"), Command("resume")}
      BY <1>1, <1>3, <2>2, DownKinds DEF Ops
    <3> QED BY <1>1, <2>1, <3>1, PassedPlainly
  <2>3. CASE op = "freeze"
    <3> DEFINE f == Sends(d, u, Command(op))
    <3>1. /\ f[Len(d) + 1] = Command("freeze") /\ Len(d) + 1 \in DOMAIN f
          /\ \A i \in DOMAIN d : i \in DOMAIN f /\ f[i] = d[i] /\ i < Len(d) + 1
          /\ \A i \in DOMAIN f : i \in DOMAIN d \/ i = Len(d) + 1
          /\ DOMAIN d \subseteq Nat /\ Len(d) \in Nat
      BY <1>1, <1>3, <2>3, Written DEF Sends
    <3> HIDE DEF f
    <3>2. /\ \A b \in Assigns : Command("freeze") # AssignMsg(b)
          /\ Command("freeze").t = "command" /\ Command("freeze") # Command("resume")
          /\ \A task : CancelMsg(task).t = "cancel"
      BY DownKinds DEF Ops, CancelMsg
    <3>3. SentOnce(n, f)
      BY <2>1, <3>1, <3>2 DEF Passed, SentOnce
    <3>4. Numbered(n, f, e)
      <4>1. \A b \in Assigns : (\E i \in DOMAIN f : f[i] = AssignMsg(b))
                                  => \E i \in DOMAIN d : d[i] = AssignMsg(b)
        BY <3>1, <3>2
      <4> QED BY <2>1, <4>1 DEF Passed, Numbered
    <3>5. CancelsPast(f, u, e)
      <4>1. ASSUME NEW i \in DOMAIN f, NEW b \in e.open, f[i] = CancelMsg(b.task)
            PROVE  \E j \in DOMAIN f : i < j /\ f[j] = AssignMsg(b)
        <5>1. i \in DOMAIN d /\ d[i] = CancelMsg(b.task)
          BY <3>1, <3>2, <4>1
        <5>2. PICK j \in DOMAIN d : i < j /\ d[j] = AssignMsg(b)
          BY <1>3, <2>1, <5>1 DEF Passed, CancelsPast
        <5> QED BY <3>1, <5>2
      <4> QED BY <4>1 DEF CancelsPast
    <3>6. Frozen(n, f, u, e)
      <4>1. ASSUME NEW i \in DOMAIN f, f[i] = Command("resume")
            PROVE  ~n.frozen /\ \A j \in DOMAIN f : j < i => f[j] # Command("freeze")
        <5>1. i \in DOMAIN d /\ d[i] = Command("resume")
          BY <3>1, <3>2, <4>1
        <5>2. ~n.frozen /\ \A j \in DOMAIN d : j < i => d[j] # Command("freeze")
          BY <2>1, <5>1 DEF Passed, Frozen
        <5>3. \A j \in DOMAIN f : j < i => j \in DOMAIN d
          BY <3>1, <5>1
        <5> QED BY <3>1, <5>2, <5>3
      <4> QED BY <2>3, <4>1 DEF Frozen
    <3> QED BY <3>3, <3>4, <3>5, <3>6 DEF Passed, f
  <2> QED BY <2>2, <2>3
<1>4. CASE ~Leaving(u) /\ op = "resume"
  <2> DEFINE f == Sends(d, u, Command(op))
  <2>1. /\ f[Len(d) + 1] = Command("resume")
        /\ \A i \in DOMAIN d : i \in DOMAIN f /\ f[i] = d[i] /\ i < Len(d) + 1
        /\ \A i \in DOMAIN f : i \in DOMAIN d \/ i = Len(d) + 1
    BY <1>1, <1>4, Written DEF Sends
  <2> HIDE DEF f
  <2>2. ~n.frozen /\ \A i \in DOMAIN d : d[i] # Command("freeze")
    <3>1. c.commanded # "freeze"
      BY <1>4
    <3> QED BY <1>4, <3>1 DEF Passed, Frozen
  <2>3. /\ \A b \in Assigns : Command("resume") # AssignMsg(b)
        /\ Command("resume").t = "command" /\ Command("freeze") # Command("resume")
        /\ \A task : CancelMsg(task).t = "cancel"
    BY DownKinds DEF Ops, CancelMsg
  <2>4. SentOnce(n, f)
    BY <2>1, <2>3 DEF Passed, SentOnce
  <2>5. Numbered(n, f, e)
    <3>1. \A b \in Assigns : (\E i \in DOMAIN f : f[i] = AssignMsg(b))
                                => \E i \in DOMAIN d : d[i] = AssignMsg(b)
      BY <2>1, <2>3
    <3> QED BY <3>1 DEF Passed, Numbered
  <2>6. CancelsPast(f, u, e)
    <3>1. ASSUME NEW i \in DOMAIN f, NEW b \in e.open, f[i] = CancelMsg(b.task)
          PROVE  \E j \in DOMAIN f : i < j /\ f[j] = AssignMsg(b)
      <4>1. i \in DOMAIN d /\ d[i] = CancelMsg(b.task)
        BY <2>1, <2>3, <3>1
      <4>2. PICK j \in DOMAIN d : i < j /\ d[j] = AssignMsg(b)
        BY <1>4, <4>1 DEF Passed, CancelsPast
      <4> QED BY <2>1, <4>2
    <3> QED BY <3>1 DEF CancelsPast
  <2>7. Frozen(n, f, u, e)
    <3>1. \A i \in DOMAIN f : f[i] # Command("freeze")
      BY <2>1, <2>2, <2>3
    <3> QED BY <2>2, <3>1 DEF Frozen
  <2> QED BY <2>4, <2>5, <2>6, <2>7 DEF Passed, f
<1> QED BY <1>2, <1>3, <1>4
-----------------------------------------------------------------------------
(* The whole: the invariant as a predicate of the two ends and what lies    *)
(* between them, to speak of the next state as of this one.                *)

Types(n, so, s, d, u, c, r) ==
    /\ n \in Node /\ c \in Ledger
    /\ so \in {"closed", "open", "welcomed"} /\ s \in 0..MaxConnections
    /\ d \in Seq(ToNode) /\ u \in Seq(ToPlane)
    /\ IsFiniteSet(c.open) /\ Cardinality(c.open) =< MaxInFlight
    /\ r \subseteq Assigns

\* Where an attempt the control plane counts may be.
There(n, d, u, c, r, a) ==
    \/ Contains(d, AssignMsg(a)) \/ a \in Held(n)
    \/ \E outcome \in Reports : Contains(u, Result(a, outcome))
    \/ a \in r
    \/ Contains(u, Closed) \/ c.commanded = "freeze"

Single(n, so, s) == ~n.frozen /\ so # "closed" => Alone(n, s)

Whole(n, so, s, d, u, c, r) ==
    /\ Types(n, so, s, d, u, c, r) /\ NodeOK(n, s) /\ Single(n, so, s) /\ Idle(n, so)
    /\ Facing(so, d, u, c) /\ Passed(n, d, u, c)
    /\ \A a \in c.open : There(n, d, u, c, r, a)

LEMMA SingleIs ==
    /\ Single(node, socket, sockets) <=> OneAtATime
    /\ Single(node', socket', sockets') <=> OneAtATime'
<1>1. Single(node, socket, sockets) <=> OneAtATime
  BY DEF Single, OneAtATime, Alone, Alive, Begun
<1>2. Single(node', socket', sockets') <=> OneAtATime'
  BY DEF Single, OneAtATime, Alone, Alive, Begun
<1> QED BY <1>1, <1>2

LEMMA WholeIs ==
    /\ IInv <=> Whole(node, socket, sockets, down, up, cp, refused)
    /\ IInv' <=> Whole(node', socket', sockets', down', up', cp', refused')
<1>1. IInv <=> Whole(node, socket, sockets, down, up, cp, refused)
  BY SingleIs DEF IInv, Whole, TypeOK, Types, NodeOK, Facing, Passed, Accounted, There
<1>2. IInv' <=> Whole(node', socket', sockets', down', up', cp', refused')
  BY SingleIs DEF IInv, Whole, TypeOK, Types, NodeOK, Facing, Passed, Accounted, There
<1> QED BY <1>1, <1>2

LEMMA LeavingIs ==
    ASSUME NEW u \in Seq(ToPlane)
    PROVE  Contains(u, Closed) <=> Leaving(u)
BY InList DEF Leaving

\* What a list has, it has with one more.
LEMMA StillThere ==
    ASSUME NEW T, NEW s \in Seq(T), NEW x \in T
    PROVE  /\ Append(s, x) \in Seq(T) /\ Contains(Append(s, x), x)
           /\ \A e : Contains(s, e) => Contains(Append(s, x), e)
<1>1. /\ Append(s, x) \in Seq(T)
      /\ Len(s) + 1 \in DOMAIN Append(s, x) /\ Append(s, x)[Len(s) + 1] = x
      /\ \A i \in DOMAIN s : i \in DOMAIN Append(s, x) /\ Append(s, x)[i] = s[i]
  BY Written
<1>2. \A e : Contains(Append(s, x), e) <=> \E i \in DOMAIN Append(s, x) : Append(s, x)[i] = e
  BY <1>1, InList
<1>3. \A e : Contains(s, e) <=> \E i \in DOMAIN s : s[i] = e
  BY InList
<1> QED BY <1>1, <1>2, <1>3

\* The node goes on, and says so of every attempt it no longer holds.
LEMMA NodeGoesOn ==
    ASSUME NEW n, NEW so, NEW s, NEW d, NEW u, NEW c, NEW r, NEW m, NEW v,
           Whole(n, so, s, d, u, c, r), Onward(n, m, s),
           v = u \/ \E x \in ToPlane \ {Hello, Closed} : v = Append(u, x),
           \A a \in c.open : a \in Held(n) \ Held(m) =>
               \E outcome \in Reports : Contains(v, Result(a, outcome))
    PROVE  Whole(m, so, s, d, v, c, r)
<1>1. d \in Seq(ToNode) /\ u \in Seq(ToPlane)
  BY DEF Whole, Types
<1>2. /\ v \in Seq(ToPlane) /\ Facing(so, d, v, c) /\ (Leaving(v) <=> Leaving(u))
      /\ \A e : Contains(u, e) => Contains(v, e)
  <2>1. CASE v = u
    BY <1>1, <2>1 DEF Whole
  <2>2. CASE \E x \in ToPlane \ {Hello, Closed} : v = Append(u, x)
    BY <1>1, <2>2, UpGrows, StillThere DEF Whole
  <2> QED BY <2>1, <2>2
<1>3. Types(m, so, s, d, v, c, r) /\ NodeOK(m, s)
  BY <1>2 DEF Whole, Types, Onward, NodeOK
<1>4. Passed(m, d, v, c)
  BY <1>1, <1>2, PassedBeside DEF Whole, Onward
<1>5. Single(m, so, s) /\ Idle(m, so)
  BY DEF Whole, Single, Idle, Idling, Onward
<1>6. \A a \in c.open : There(m, d, v, c, r, a)
  BY <1>2 DEF Whole, There
<1> QED BY <1>2, <1>3, <1>4, <1>5, <1>6 DEF Whole

\* A run ends, and is reported if the loop still counts it.
LEMMA RunEndsWhole ==
    ASSUME NEW d, Whole(node, socket, sockets, d, up, cp, refused), NEW x, NEW a \in Assigns,
           Begun(node, a), TakenOut(node, x, a), NEW outcome \in Reports, RunEnds(x, a, outcome)
    PROVE  Whole(node', socket, sockets, d, up', cp, refused)
<1>1. NodeOK(node, sockets) /\ up \in Seq(ToPlane) /\ Idle(node, socket)
  BY DEF Whole, Types
<1>2. Onward(node, node', sockets) /\ Held(node') = Held(node) \ {a}
  <2>1. node' = Ended(x, a, outcome)
    BY DEF RunEnds
  <2>2. /\ Onward(node, Ended(x, a, outcome), sockets)
        /\ Held(Ended(x, a, outcome)) = Held(node) \ {a}
    BY <1>1, EndedGood
  <2> QED BY <2>1, <2>2
<1>3. Result(a, outcome) \in ToPlane \ {Hello, Closed}
  BY UpKinds
<1>4. \/ x.running = a /\ x.runs[a].link = sockets /\ socket = "welcomed"
         /\ up' = Append(up, Result(a, outcome))
      \/ ~(x.running = a /\ x.runs[a].link = sockets /\ socket = "welcomed") /\ up' = up
  BY <1>1, AppendIsConcat, ConcatEmptySeq DEF RunEnds, Sent
<1>5. a \in Held(node) =>
        x.running = a /\ x.runs[a].link = sockets /\ socket = "welcomed"
  <2>1. a # Nothing /\ a \notin Range(node.queue)
    BY <1>1, NodeLoopAssumption DEF NodeOK, Coherent, Begun
  <2>2. a \in Held(node) => node.running = a
    BY <2>1 DEF Held
  <2> QED BY <1>1, <2>1, <2>2 DEF NodeOK, Coherent, Idle, TakenOut
<1>6. ASSUME NEW b \in cp.open, b \in Held(node) \ Held(node')
      PROVE  \E o \in Reports : Contains(up', Result(b, o))
  <2>1. b = a /\ up' = Append(up, Result(a, outcome))
    BY <1>2, <1>4, <1>5, <1>6
  <2> QED BY <1>1, <1>3, <2>1, StillThere
<1> QED BY <1>2, <1>3, <1>4, <1>6, NodeGoesOn

\* The node leaves: nothing is on its way to it any more.
LEMMA LeavesWhole ==
    ASSUME NEW n, NEW so, NEW s, NEW d, NEW u, NEW c, NEW r, NEW m,
           Whole(n, so, s, d, u, c, r), NodeOK(m, s), Idling(m), ~m.frozen,
           \A a \in Assigns : Begun(m, a) => Begun(n, a)
    PROVE  Whole(m, "closed", s, <<>>, Append(u, Closed), c, r)
<1> DEFINE v == Append(u, Closed)
<1>1. d \in Seq(ToNode) /\ u \in Seq(ToPlane) /\ m \in Node /\ <<>> \in Seq(ToNode)
  BY DEF Whole, Types, NodeOK
<1>2. Closed \in ToPlane
  BY UpKinds
<1>3. v \in Seq(ToPlane) /\ Contains(v, Closed)
  BY <1>1, <1>2, StillThere
<1>4. Facing("closed", <<>>, v, c) /\ Leaving(v)
  BY <1>1, ClosedSent DEF Whole
<1> HIDE DEF v
<1>5. Range(m.queue) = {}
  BY Empty DEF Idling
<1>6. Passed(m, <<>>, v, c)
  <2>1. Passed(m, d, v, c)
    BY <1>1, <1>4, <1>5, PassedBeside DEF Whole
  <2> QED BY <2>1, PassedNone
<1>7. Types(m, "closed", s, <<>>, v, c, r)
  BY <1>1, <1>3 DEF Whole, Types
<1> QED BY <1>3, <1>4, <1>6, <1>7 DEF Whole, Single, Idle, Idling, There, v

\* The node opens a socket.
LEMMA ConnectWhole ==
    ASSUME NEW n, NEW s, NEW d, NEW u, NEW c, NEW r,
           Whole(n, "closed", s, d, u, c, r), s < MaxConnections
    PROVE  Whole(n, "open", s + 1, d, Append(u, Hello), c, r)
<1> DEFINE v == Append(u, Hello)
<1>1. /\ d \in Seq(ToNode) /\ u \in Seq(ToPlane) /\ n \in Node /\ s \in 0..MaxConnections
      /\ s + 1 \in 0..MaxConnections /\ NodeOK(n, s) /\ Idle(n, "closed")
  BY NodeLoopAssumption DEF Whole, Types
<1>2. Hello \in ToPlane
  BY UpKinds
<1>3. v \in Seq(ToPlane) /\ \A e : Contains(u, e) => Contains(v, e)
  BY <1>1, <1>2, StillThere
<1>4. Facing("open", d, v, c) /\ (Leaving(v) <=> Leaving(u))
  BY <1>1, HelloSent DEF Whole
<1> HIDE DEF v
<1>5. Passed(n, d, v, c)
  BY <1>1, <1>4, PassedBeside DEF Whole
<1>6. \A a \in Assigns : n.runs[a].link \in Nat /\ n.runs[a].link <= s
  BY <1>1, Fields DEF NodeOK, Coherent
<1>7. \A a \in Assigns : n.runs[a].link <= s + 1 /\ n.runs[a].link # s + 1
  BY <1>1, <1>6
<1>8. NodeOK(n, s + 1) /\ Alone(n, s + 1)
  BY <1>1, <1>7 DEF NodeOK, Coherent, Alone, Idle
<1>9. \A a \in c.open : There(n, d, v, c, r, a)
  BY <1>3 DEF Whole, There
<1>10. Types(n, "open", s + 1, d, v, c, r) /\ Idle(n, "open")
  BY <1>1, <1>3 DEF Whole, Types, Idle
<1> QED BY <1>4, <1>5, <1>8, <1>9, <1>10 DEF Whole, Single, v

\* The node reads what has no place of its own in the invariant.
LEMMA ReadWhole ==
    ASSUME NEW n, NEW so, NEW s, NEW d, NEW u, NEW c, NEW r,
           Whole(n, so, s, d, u, c, r), d # <<>>, \A a \in Assigns : Head(d) # AssignMsg(a)
    PROVE  Whole(n, "welcomed", s, Tail(d), u, c, r) /\ (Head(d) # Welcome => so = "welcomed")
<1>1. d \in Seq(ToNode) /\ so \in {"closed", "open", "welcomed"} /\ Facing(so, d, u, c)
  BY DEF Whole, Types
<1>2. /\ Facing("welcomed", Tail(d), u, c)
      /\ so = "welcomed" \/ (so = "open" /\ Head(d) = Welcome)
  BY <1>1, DownReads
<1>3. Passed(n, Tail(d), u, c) /\ Tail(d) \in Seq(ToNode)
  BY <1>1, PassedRead, Read DEF Whole
<1>4. \A a \in Assigns : Contains(d, AssignMsg(a)) => Contains(Tail(d), AssignMsg(a))
  <2>1. /\ \A i \in DOMAIN d : i = 1 \/ (i - 1 \in DOMAIN Tail(d) /\ Tail(d)[i - 1] = d[i])
        /\ Head(d) = d[1]
    BY <1>1, Read
  <2>2. /\ \A e : Contains(d, e) <=> \E i \in DOMAIN d : d[i] = e
        /\ \A e : Contains(Tail(d), e) <=> \E i \in DOMAIN Tail(d) : Tail(d)[i] = e
    BY <1>1, <1>3, InList
  <2>3. ASSUME NEW a \in Assigns, Contains(d, AssignMsg(a)) PROVE Contains(Tail(d), AssignMsg(a))
    <3>1. PICK i \in DOMAIN d : d[i] = AssignMsg(a)
      BY <2>2, <2>3
    <3>2. i # 1
      BY <2>1, <3>1
    <3> QED BY <2>1, <2>2, <3>1, <3>2
  <2> QED BY <2>3
<1>5. \A a \in c.open : There(n, Tail(d), u, c, r, a)
  BY <1>4 DEF Whole, There, Types, Ledger
<1>6. Types(n, "welcomed", s, Tail(d), u, c, r) /\ Idle(n, "welcomed") /\ Single(n, "welcomed", s)
  BY <1>2, <1>3 DEF Whole, Types, Idle, Single
<1> QED BY <1>2, <1>3, <1>5, <1>6 DEF Whole
-----------------------------------------------------------------------------
(* The run of one task. *)

Present == Whole(node, socket, sockets, down, up, cp, refused)

\* A run that is not in its sandbox, nor waiting, is taken out by nobody else.
LEMMA InPlace ==
    ASSUME NEW n, NEW s, NodeOK(n, s), NEW a \in Assigns
    PROVE  /\ n.runs[a].phase \in {"fetching", "uploading"} => TakenOut(n, n, a) /\ Begun(n, a)
           /\ n.waiting = a => TakenOut(n, [n EXCEPT !.waiting = Nothing], a) /\ Begun(n, a)
           /\ n.sandbox # <<>> /\ a = Head(n.sandbox) =>
                TakenOut(n, [n EXCEPT !.sandbox = Tail(@)], a) /\ Begun(n, a)
                /\ n.waiting # a
<1>1. n \in Node /\ Coherent(n, s) /\ n.sandbox \in Seq(Assigns) /\ n.runs[a] \in Run
      /\ Nothing \notin Assigns
  BY Fields DEF NodeOK
<1>2. ASSUME n.runs[a].phase \in {"fetching", "uploading"} PROVE TakenOut(n, n, a) /\ Begun(n, a)
  <2>1. a \notin Range(n.sandbox) /\ n.waiting # a
    BY <1>1, <1>2 DEF Coherent
  <2> QED BY <1>1, <1>2, <2>1 DEF TakenOut, Begun, Coherent
<1>3. ASSUME n.waiting = a
      PROVE  TakenOut(n, [n EXCEPT !.waiting = Nothing], a) /\ Begun(n, a)
  <2>1. n.runs[a].phase = "presigning"
    BY <1>1, <1>3 DEF Coherent
  <2>2. a \notin Range(n.sandbox)
    BY <1>1, <2>1 DEF Coherent
  <2> QED BY <1>1, <1>3, <2>1, <2>2, SMTT(30) DEF TakenOut, Begun, Coherent, Node
<1>4. ASSUME n.sandbox # <<>>, a = Head(n.sandbox)
      PROVE  /\ TakenOut(n, [n EXCEPT !.sandbox = Tail(@)], a) /\ Begun(n, a)
             /\ n.waiting # a
  <2> DEFINE t == Tail(n.sandbox)
             x == [n EXCEPT !.sandbox = t]
  <2>1. /\ t \in Seq(Assigns) /\ Range(n.sandbox) = Range(t) \cup {a} /\ IsInjective(t)
        /\ a \notin Range(t)
    BY <1>1, <1>4, TailIs DEF Coherent
  <2>2. n.runs[a].phase = "sandboxed"
    BY <1>1, <2>1 DEF Coherent
  <2>3. n.waiting # a
    BY <1>1, <2>2 DEF Coherent
  <2> HIDE DEF t
  <2>4. /\ x \in Node /\ x.queue = n.queue /\ x.running = n.running /\ x.frozen = n.frozen
        /\ x.runs = n.runs /\ x.sandbox = t /\ x.waiting = n.waiting
    BY <1>1, <2>1 DEF Node
  <2>5. TakenOut(n, x, a)
    BY <2>1, <2>3, <2>4 DEF TakenOut
  <2> QED BY <2>2, <2>3, <2>5 DEF Begun, t
<1> QED BY <1>2, <1>3, <1>4

\* A run goes on to its next phase.
LEMMA MovedWhole ==
    ASSUME Present, NEW d, Whole(node, socket, sockets, d, up, cp, refused),
           NEW a \in Assigns, Begun(node, a),
           NEW phase \in {"fetching", "sandboxed", "presigning", "uploading"},
           Moved(node, node', a, phase),
           up' = up \/ up' = Append(up, Presign(a))
    PROVE  Whole(node', socket, sockets, d, up', cp, refused)
<1>1. NodeOK(node, sockets)
  BY DEF Whole
<1>2. Onward(node, node', sockets) /\ Held(node') = Held(node)
  BY <1>1, MovedGood
<1>3. up' = up \/ \E x \in ToPlane \ {Hello, Closed} : up' = Append(up, x)
  BY UpKinds
<1> QED BY <1>2, <1>3, NodeGoesOn

LEMMA FetchedHolds ==
    ASSUME Present, NEW a \in Assigns, Fetched(a)
    PROVE  Whole(node', socket, sockets, down, up', cp, refused)
<1>1. NodeOK(node, sockets) /\ node \in Node /\ Coherent(node, sockets)
      /\ node.runs[a].phase = "fetching" /\ up' = up
  BY DEF Present, Whole, NodeOK, Fetched
<1>2. a \notin Range(node.sandbox) /\ node.waiting # a
  BY <1>1 DEF Coherent
<1> DEFINE q == Append(node.sandbox, a)
           f == [node.runs EXCEPT ![a].phase = "sandboxed"]
<1>3. q \in Seq(Assigns) /\ Range(q) = Range(node.sandbox) \cup {a} /\ IsInjective(q)
  BY <1>1, <1>2, Fields, AppendIs DEF Coherent
<1>4. f \in [Assigns -> Run]
  BY <1>1, Fields DEF Run
<1>5. node' = [node EXCEPT !.runs = f, !.sandbox = q]
  BY DEF Fetched
<1> HIDE DEF q
<1>6. /\ node' \in Node /\ node'.queue = node.queue /\ node'.running = node.running
      /\ node'.frozen = node.frozen /\ node'.runs = f /\ node'.sandbox = q
      /\ node'.waiting = node.waiting
  <2> HIDE DEF f
  <2> QED BY <1>1, <1>3, <1>4, <1>5 DEF Node
<1>7. Moved(node, node', a, "sandboxed")
  BY <1>2, <1>3, <1>6 DEF Moved
<1>8. Begun(node, a)
  BY <1>1 DEF Begun
<1> QED BY <1>1, <1>7, <1>8, MovedWhole DEF Present

LEMMA ComputedHolds ==
    ASSUME Present, NEW a \in Assigns, Computed(a)
    PROVE  Whole(node', socket, sockets, down, up', cp, refused)
<1> DEFINE x == [node EXCEPT !.sandbox = Tail(@)]
<1>1. /\ NodeOK(node, sockets) /\ node \in Node /\ node.sandbox # <<>> /\ a = Head(node.sandbox)
      /\ node.runs \in [Assigns -> Run]
  BY Fields DEF Present, Whole, NodeOK, Computed
<1>2. TakenOut(node, x, a) /\ Begun(node, a) /\ node.waiting # a
  BY <1>1, InPlace
<1>3. CASE node.waiting # Nothing
  <2>1. RunEnds(x, a, "nodeFault")
    <3>1. x.waiting = node.waiting
      BY <1>1 DEF Node
    <3> QED BY <1>3, <3>1 DEF Computed
  <2> HIDE DEF x
  <2> QED BY <1>2, <2>1, RunEndsWhole DEF Present, Reports
<1>4. CASE node.waiting = Nothing
  <2> DEFINE f == [node.runs EXCEPT ![a].phase = "presigning"]
  <2>1. f \in [Assigns -> Run]
    BY <1>1 DEF Run
  <2>2. /\ node' = [x EXCEPT !.waiting = a, !.runs[a].phase = "presigning"]
        /\ up' = up \/ up' = Append(up, Presign(a))
    <3>1. x.waiting = Nothing
      BY <1>1, <1>4 DEF Node
    <3> QED BY <3>1 DEF Computed
  <2>3. node' = [x EXCEPT !.waiting = a, !.runs = f]
    <3>1. x.runs = node.runs
      BY <1>1 DEF Node
    <3> QED BY <2>2, <3>1
  <2> HIDE DEF x, f
  <2>4. /\ x \in Node /\ x.queue = node.queue /\ x.running = node.running
        /\ x.frozen = node.frozen /\ IsInjective(x.sandbox)
        /\ Range(x.sandbox) = Range(node.sandbox) \ {a}
    BY <1>2 DEF TakenOut
  <2>5. /\ node' \in Node /\ node'.queue = x.queue /\ node'.running = x.running
        /\ node'.frozen = x.frozen /\ node'.runs = f /\ node'.sandbox = x.sandbox
        /\ node'.waiting = a
    BY <2>1, <2>3, <2>4 DEF Node
  <2>6. Moved(node, node', a, "presigning")
    BY <1>4, <2>4, <2>5 DEF Moved, f
  <2> QED BY <1>2, <2>2, <2>6, MovedWhole DEF Present
<1> QED BY <1>3, <1>4

LEMMA RunStepsHold ==
    ASSUME IInv, NEW a \in Assigns, RunSteps(a)
    PROVE  IInv'
<1>1. Present
  BY WholeIs DEF Present
<1>2. NodeOK(node, sockets)
  BY <1>1 DEF Present, Whole
<1>3. UNCHANGED <<socket, sockets, down, cp, refused>>
  BY DEF RunSteps, Fetched, FetchFails, SandboxFails, Computed, PresignTimesOut, Uploaded, Unchanged
<1>4. Whole(node', socket, sockets, down, up', cp, refused)
  <2>1. CASE Fetched(a)
    BY <1>1, <2>1, FetchedHolds
  <2>2. CASE Computed(a)
    BY <1>1, <2>2, ComputedHolds
  <2>3. CASE FetchFails(a) \/ Uploaded(a)
    <3>1. PICK outcome \in Reports : RunEnds(node, a, outcome)
      BY <2>3 DEF FetchFails, Uploaded, Reports
    <3>2. node.runs[a].phase \in {"fetching", "uploading"}
      BY <2>3 DEF FetchFails, Uploaded
    <3>3. TakenOut(node, node, a) /\ Begun(node, a)
      BY <1>2, <3>2, InPlace
    <3> QED BY <1>1, <3>1, <3>3, RunEndsWhole DEF Present
  <2>4. CASE SandboxFails(a)
    <3> DEFINE x == [node EXCEPT !.sandbox = Tail(@)]
    <3>1. PICK outcome \in Reports : RunEnds(x, a, outcome)
      BY <2>4 DEF SandboxFails, Reports
    <3>2. TakenOut(node, x, a) /\ Begun(node, a)
      BY <1>2, <2>4, InPlace DEF SandboxFails
    <3> HIDE DEF x
    <3> QED BY <1>1, <3>1, <3>2, RunEndsWhole DEF Present
  <2>5. CASE PresignTimesOut(a)
    <3> DEFINE x == [node EXCEPT !.waiting = Nothing]
    <3>1. RunEnds(x, a, "released")
      BY <2>5 DEF PresignTimesOut
    <3>2. TakenOut(node, x, a) /\ Begun(node, a)
      BY <1>2, <2>5, InPlace DEF PresignTimesOut
    <3> HIDE DEF x
    <3> QED BY <1>1, <3>1, <3>2, RunEndsWhole DEF Present, Reports
  <2> QED BY <2>1, <2>2, <2>3, <2>4, <2>5 DEF RunSteps
<1> QED BY <1>3, <1>4, WholeIs

LEMMA RestOverHolds == ASSUME IInv, RestOver PROVE IInv'
<1>1. Present
  BY WholeIs DEF Present
<1> DEFINE m == Pump([node EXCEPT !.resting = FALSE])
<1>2. node' = m /\ UNCHANGED <<socket, sockets, down, cp, refused, up>>
  BY DEF RestOver, Unchanged
<1>3. Onward(node, m, sockets) /\ Held(m) = Held(node)
  BY <1>1, RestedGood DEF Present, Whole
<1> HIDE DEF m
<1>4. Whole(m, socket, sockets, down, up, cp, refused)
  BY <1>1, <1>3, NodeGoesOn DEF Present
<1> QED BY <1>2, <1>4, WholeIs
-----------------------------------------------------------------------------
(* What the node does with a message. *)

\* The branches of Receive, one by one.
LEMMA ReceiveIs ==
    ASSUME Present, Receive
    PROVE  /\ down # <<>> /\ down \in Seq(ToNode) /\ Head(down) \in ToNode /\ cp' = cp
           /\ \/ /\ Head(down) = Welcome /\ socket' = "welcomed" /\ down' = Tail(down)
                 /\ UNCHANGED <<node, up, refused, sockets>>
              \/ \E a \in Assigns :
                 /\ Head(down) = AssignMsg(a) /\ node' = Accept(node, a)
                 /\ refused' = IF Takes(node, a) THEN refused ELSE refused \cup {a}
                 /\ down' = Tail(down) /\ UNCHANGED <<socket, up, sockets>>
              \/ \E task \in Tasks :
                 /\ Head(down) = CancelMsg(task) /\ node' = Cancel(node, task)
                 /\ down' = Tail(down) /\ UNCHANGED <<socket, up, refused, sockets>>
              \/ \E a \in Assigns, granted \in BOOLEAN :
                 /\ Head(down) = Presigned(a, granted) /\ Deliver(node, Presigned(a, granted))
                 /\ down' = Tail(down) /\ UNCHANGED <<socket, refused, sockets>>
              \/ /\ Head(down) = Command("freeze") /\ node' = Freeze(node)
                 /\ down' = Tail(down) /\ UNCHANGED <<socket, up, refused, sockets>>
              \/ /\ Head(down) = Command("throttle") /\ node' = [node EXCEPT !.throttled = TRUE]
                 /\ down' = Tail(down) /\ UNCHANGED <<socket, up, refused, sockets>>
              \/ /\ Head(down) = Command("resume") /\ node' = Resume(node)
                 /\ down' = Tail(down) /\ UNCHANGED <<socket, up, refused, sockets>>
              \/ /\ Head(down) \in {Command("close"), Close}
                 /\ node' \in {Stopped(node), Disconnected(node)}
                 /\ socket' = "closed" /\ up' = Append(up, Closed) /\ down' = <<>>
                 /\ UNCHANGED <<sockets, refused>>
<1> DEFINE m == Head(down)
<1>1. down # <<>> /\ down \in Seq(ToNode) /\ m \in ToNode /\ cp' = cp
  <2>1. down # <<>> /\ down \in Seq(ToNode) /\ cp' = cp
    BY DEF Receive, Present, Whole, Types
  <2> QED BY <2>1, Read
<1>2. \A op \in Ops : Command(op).t = "command" /\ Command(op).op = op
  BY DownKinds
<1> HIDE DEF m
<1>3. CASE m = Welcome /\ m.t = "welcome"
  <2>1. \A op \in Ops : m # Command(op)
    BY <1>2, <1>3
  <2> QED BY <1>1, <1>3, <2>1 DEF Receive, Ops, m
<1>4. CASE m = Close /\ m.t = "close"
  <2>1. \A op \in Ops : m # Command(op)
    BY <1>2, <1>4
  <2> QED BY <1>1, <1>4, <2>1 DEF Receive, Leaves, Ops, m
<1>5. CASE \E a \in Assigns : m = AssignMsg(a) /\ m.t = "assign" /\ m.assign = a
  <2>1. PICK a \in Assigns : m = AssignMsg(a) /\ m.t = "assign" /\ m.assign = a
    BY <1>5
  <2>2. \A op \in Ops : m # Command(op)
    BY <1>2, <2>1
  <2> QED BY <1>1, <2>1, <2>2 DEF Receive, Ops, m
<1>6. CASE \E task \in Tasks : m = CancelMsg(task) /\ m.t = "cancel" /\ m.task = task
  <2>1. PICK task \in Tasks : m = CancelMsg(task) /\ m.t = "cancel" /\ m.task = task
    BY <1>6
  <2>2. \A op \in Ops : m # Command(op)
    BY <1>2, <2>1
  <2> QED BY <1>1, <2>1, <2>2 DEF Receive, Ops, m
<1>7. CASE \E a \in Assigns, granted \in BOOLEAN : m = Presigned(a, granted) /\ m.t = "presigned"
  <2>1. PICK a \in Assigns, granted \in BOOLEAN : m = Presigned(a, granted) /\ m.t = "presigned"
    BY <1>7
  <2>2. \A op \in Ops : m # Command(op)
    BY <1>2, <2>1
  <2> QED BY <1>1, <2>1, <2>2 DEF Receive, Ops, m
<1>8. CASE \E op \in Ops : m = Command(op) /\ m.t = "command" /\ m.op = op
  <2>1. PICK op \in Ops : m = Command(op) /\ m.t = "command" /\ m.op = op
    BY <1>8
  <2>2. \A o \in Ops \ {op} : m # Command(o)
    BY <1>2, <2>1
  <2>3. CASE op = "freeze"
    BY <1>1, <2>1, <2>2, <2>3 DEF Receive, Ops, m
  <2>4. CASE op = "throttle"
    BY <1>1, <2>1, <2>2, <2>4 DEF Receive, Ops, m
  <2>5. CASE op = "resume"
    BY <1>1, <2>1, <2>2, <2>5 DEF Receive, Ops, m
  <2>6. CASE op = "close"
    BY <1>1, <2>1, <2>2, <2>6 DEF Receive, Leaves, Ops, m
  <2> QED BY <2>1, <2>3, <2>4, <2>5, <2>6 DEF Ops
<1> QED BY <1>1, <1>3, <1>4, <1>5, <1>6, <1>7, <1>8, DownIs

\* An assignment is read: it is held, or refused.
LEMMA AssignRead ==
    ASSUME Present, NEW a \in Assigns, down # <<>>, Head(down) = AssignMsg(a),
           node' = Accept(node, a),
           refused' = IF Takes(node, a) THEN refused ELSE refused \cup {a}
    PROVE  Whole(node', socket, sockets, Tail(down), up, cp, refused')
<1> DEFINE m == Accept(node, a)
           f == Tail(down)
<1>1. /\ down \in Seq(ToNode) /\ NodeOK(node, sockets) /\ Passed(node, down, up, cp)
      /\ socket \in {"closed", "open", "welcomed"} /\ Facing(socket, down, up, cp)
  BY DEF Present, Whole, Types
<1>2. /\ Passed(node, f, up, cp) /\ f \in Seq(ToNode)
      /\ ~Begun(node, a) /\ a \notin Range(node.queue) /\ ~Contains(f, AssignMsg(a))
      /\ a.attempt <= cp.attempts[a.task]
  BY <1>1, PassedRead, Read
<1>3. socket = "welcomed" /\ Facing("welcomed", f, up, cp)
  <2>1. AssignMsg(a) # Welcome
    BY DownKinds
  <2> QED BY <1>1, <2>1, DownReads
<1>4. /\ NodeOK(m, sockets) /\ m.frozen = node.frozen
      /\ Range(m.queue) \subseteq Range(node.queue) \cup {a}
      /\ \A b \in Assigns : Begun(m, b) => Begun(node, b) \/ b \in Range(node.queue) \/ b = a
      /\ Alone(node, sockets) => Alone(m, sockets)
      /\ Held(m) = IF Takes(node, a) THEN Held(node) \cup {a} ELSE Held(node)
  BY <1>1, <1>2, AcceptGood
<1> HIDE DEF m, f
<1>5. Passed(m, f, up, cp)
  <2>0. \A i \in DOMAIN f : f[i] # AssignMsg(a)
    BY <1>2, InList
  <2>1. SentOnce(m, f)
    <3>1. ASSUME NEW i \in DOMAIN f, f[i].t = "assign"
          PROVE  /\ f[i].assign \notin Range(m.queue) /\ m.runs[f[i].assign].phase = "none"
                 /\ \A j \in DOMAIN f : f[j] = f[i] => j = i
      <4>1. f[i].assign \in Assigns /\ f[i].assign # a
        BY <1>2, <2>0, <3>1, SentTo
      <4> QED BY <1>2, <1>4, <3>1, <4>1 DEF Passed, SentOnce, Begun
    <3> QED BY <3>1 DEF SentOnce
  <2>2. Numbered(m, f, cp)
    BY <1>2, <1>4 DEF Passed, Numbered, Begun
  <2> QED BY <1>2, <1>4, <2>1, <2>2 DEF Passed, Frozen
<1>6. ASSUME NEW b \in cp.open
      PROVE  There(m, f, up, cp, refused', b)
  <2>0. b \in Assigns
    BY DEF Present, Whole, Types, Ledger
  <2>1. There(node, down, up, cp, refused, b)
    BY DEF Present, Whole
  <2>2. CASE b = a
    BY <1>4, <2>2 DEF There
  <2>3. CASE b # a
    <3>1. Contains(down, AssignMsg(b)) => Contains(f, AssignMsg(b))
      <4>1. AssignMsg(b) # AssignMsg(a)
        BY <2>0, <2>3, DownKinds
      <4>2. /\ \A i \in DOMAIN down : i = 1 \/ (i - 1 \in DOMAIN f /\ f[i - 1] = down[i])
            /\ down[1] = AssignMsg(a)
        BY <1>1, Read DEF f
      <4>3. /\ \A e : Contains(down, e) <=> \E i \in DOMAIN down : down[i] = e
            /\ \A e : Contains(f, e) <=> \E i \in DOMAIN f : f[i] = e
        BY <1>1, <1>2, InList
      <4> QED BY <4>1, <4>2, <4>3
    <3> QED BY <1>4, <2>1, <3>1 DEF There
  <2> QED BY <2>2, <2>3
<1>7. Types(m, socket, sockets, f, up, cp, refused')
  BY <1>2, <1>4 DEF Present, Whole, Types, NodeOK
<1>8. Single(m, socket, sockets) /\ Idle(m, socket)
  BY <1>3, <1>4 DEF Present, Whole, Single, Idle
<1>9. Whole(m, socket, sockets, f, up, cp, refused')
  BY <1>3, <1>4, <1>5, <1>6, <1>7, <1>8 DEF Whole
<1> QED BY <1>9 DEF m, f

\* A cancel is read: what is open of its task is still on its way.
LEMMA CancelRead ==
    ASSUME Present, NEW task \in Tasks, down # <<>>, Head(down) = CancelMsg(task),
           node' = Cancel(node, task)
    PROVE  Whole(node', socket, sockets, Tail(down), up, cp, refused)
<1> DEFINE m == Cancel(node, task)
           f == Tail(down)
<1>1. /\ down \in Seq(ToNode) /\ NodeOK(node, sockets) /\ Passed(node, down, up, cp)
      /\ up \in Seq(ToPlane)
  BY DEF Present, Whole, Types
<1>2. CancelMsg(task).t = "cancel"
  BY DownKinds
<1>3. socket = "welcomed" /\ Whole(node, socket, sockets, f, up, cp, refused)
  <2>1. Head(down) # Welcome /\ \A a \in Assigns : Head(down) # AssignMsg(a)
    BY <1>2, DownKinds
  <2> QED BY <2>1, ReadWhole DEF Present
<1>4. Onward(node, m, sockets) /\ Held(node) \ Of(task) \subseteq Held(m)
  BY <1>1, CancelGood
<1>5. \A a \in cp.open : a.task = task => Leaving(up) \/ Contains(f, AssignMsg(a))
  BY <1>1, PassedRead
<1> HIDE DEF m, f
<1>6. ASSUME NEW a \in cp.open PROVE There(m, f, up, cp, refused, a)
  <2>0. a \in Assigns
    BY DEF Present, Whole, Types, Ledger
  <2>1. There(node, f, up, cp, refused, a)
    BY <1>3 DEF Whole
  <2>2. CASE a.task = task
    BY <1>1, <1>5, <2>2, LeavingIs DEF There
  <2>3. CASE a.task # task
    BY <1>4, <2>0, <2>1, <2>3 DEF There, Of
  <2> QED BY <2>2, <2>3
<1>7. Types(m, socket, sockets, f, up, cp, refused) /\ NodeOK(m, sockets)
  BY <1>3, <1>4 DEF Whole, Types, Onward, NodeOK
<1>8. Passed(m, f, up, cp)
  BY <1>3, <1>4, PassedBeside DEF Onward, Whole, Types
<1>9. Single(m, socket, sockets) /\ Idle(m, socket)
  BY <1>3, <1>4 DEF Whole, Single, Idle, Onward
<1>10. Whole(m, socket, sockets, f, up, cp, refused)
  BY <1>3, <1>6, <1>7, <1>8, <1>9 DEF Whole
<1> QED BY <1>10 DEF m, f

\* An answer about URLs is read: its run goes on, or ends, or it is stray.
LEMMA PresignedRead ==
    ASSUME Present, NEW a \in Assigns, NEW granted \in BOOLEAN, down # <<>>,
           Head(down) = Presigned(a, granted), Deliver(node, Presigned(a, granted))
    PROVE  Whole(node', socket, sockets, Tail(down), up', cp, refused)
<1> DEFINE f == Tail(down)
           w == node.waiting
           x == [node EXCEPT !.waiting = Nothing]
<1>1. Presigned(a, granted).t = "presigned"
  BY DownKinds
<1>2. socket = "welcomed" /\ Whole(node, socket, sockets, f, up, cp, refused)
  <2>1. Head(down) # Welcome /\ \A b \in Assigns : Head(down) # AssignMsg(b)
    BY <1>1, DownKinds
  <2> QED BY <2>1, ReadWhole DEF Present
<1> HIDE DEF f
<1>3. NodeOK(node, sockets) /\ node \in Node /\ Coherent(node, sockets) /\ node.runs \in [Assigns -> Run]
  BY Fields DEF Present, Whole, NodeOK
<1>4. CASE node' = node /\ up' = up
  BY <1>2, <1>4 DEF f
<1>5. ASSUME w # Nothing
      PROVE  w \in Assigns /\ TakenOut(node, x, w) /\ Begun(node, w)
  <2>1. w \in Assigns
    BY <1>3, <1>5, Fields
  <2> QED BY <1>3, <2>1, InPlace
<1>6. CASE /\ w # Nothing /\ up' = up
           /\ node' = [node EXCEPT !.runs[w].phase = "uploading", !.waiting = Nothing]
  <2> DEFINE g == [node.runs EXCEPT ![w].phase = "uploading"]
  <2>1. g \in [Assigns -> Run]
    BY <1>3, <1>5, <1>6 DEF Run
  <2>2. node' = [node EXCEPT !.runs = g, !.waiting = Nothing]
    BY <1>6
  <2> HIDE DEF g
  <2>3. /\ node' \in Node /\ node'.queue = node.queue /\ node'.running = node.running
        /\ node'.frozen = node.frozen /\ node'.runs = g /\ node'.sandbox = node.sandbox
        /\ node'.waiting = Nothing
    BY <1>3, <2>1, <2>2 DEF Node
  <2>4. w \notin Range(node.sandbox)
    BY <1>3, <1>5, <1>6 DEF Coherent
  <2>5. Moved(node, node', w, "uploading")
    BY <1>3, <2>3, <2>4 DEF Moved, Coherent, g
  <2> HIDE DEF w
  <2> QED BY <1>2, <1>5, <1>6, <2>5, MovedWhole DEF Present, f
<1>7. CASE w # Nothing /\ RunEnds(x, w, "released")
  <2> HIDE DEF w, x
  <2> QED BY <1>2, <1>5, <1>7, RunEndsWhole DEF f, Reports
<1> QED BY <1>4, <1>6, <1>7 DEF Deliver, Delivered

\* A command is read.
LEMMA FreezeRead ==
    ASSUME Present, down # <<>>, Head(down) = Command("freeze"), node' = Freeze(node)
    PROVE  Whole(node', socket, sockets, Tail(down), up, cp, refused)
<1> DEFINE m == Freeze(node)
           f == Tail(down)
<1>1. /\ down \in Seq(ToNode) /\ NodeOK(node, sockets) /\ Passed(node, down, up, cp)
      /\ up \in Seq(ToPlane)
  BY DEF Present, Whole, Types
<1>2. Command("freeze").t = "command"
  BY DownKinds DEF Ops
<1>3. socket = "welcomed" /\ Whole(node, socket, sockets, f, up, cp, refused)
  <2>1. Head(down) # Welcome /\ \A a \in Assigns : Head(down) # AssignMsg(a)
    BY <1>2, DownKinds
  <2> QED BY <2>1, ReadWhole DEF Present
<1>4. /\ NodeOK(m, sockets) /\ Idling(m) /\ m.frozen
      /\ \A a \in Assigns : Begun(m, a) => Begun(node, a)
  BY <1>1, FreezeGood
<1>5. /\ cp.commanded = "freeze" \/ ~cp.known \/ Leaving(up)
      /\ \A i \in DOMAIN f : f[i] # Command("resume")
      /\ Passed(node, f, up, cp) /\ f \in Seq(ToNode)
  BY <1>1, PassedRead, Read
<1> HIDE DEF m, f
<1>6. Range(m.queue) = {}
  BY <1>4, Empty DEF Idling
<1>7. Passed(m, f, up, cp)
  <2>1. SentOnce(m, f)
    BY <1>4, <1>5, <1>6, SentTo DEF Passed, SentOnce, Begun
  <2>2. Numbered(m, f, cp)
    BY <1>4, <1>5, <1>6 DEF Passed, Numbered, Begun
  <2> QED BY <1>5, <2>1, <2>2 DEF Passed, Frozen
<1>8. ASSUME NEW a \in cp.open PROVE There(m, f, up, cp, refused, a)
  <2>1. cp.commanded = "freeze" \/ Contains(up, Closed)
    BY <1>1, <1>5, LeavingIs DEF Passed, Numbered
  <2> QED BY <2>1 DEF There
<1>9. Types(m, socket, sockets, f, up, cp, refused)
  BY <1>3, <1>4 DEF Whole, Types, NodeOK
<1>10. Whole(m, socket, sockets, f, up, cp, refused)
  BY <1>3, <1>4, <1>7, <1>8, <1>9 DEF Whole, Single, Idle
<1> QED BY <1>10 DEF m, f

LEMMA CommandRead ==
    ASSUME Present, down # <<>>,
           \/ Head(down) = Command("throttle") /\ node' = [node EXCEPT !.throttled = TRUE]
           \/ Head(down) = Command("resume") /\ node' = Resume(node)
           \/ Head(down) = Welcome /\ node' = node
    PROVE  Whole(node', "welcomed", sockets, Tail(down), up, cp, refused)
           /\ (Head(down) # Welcome => socket = "welcomed")
<1>1. down \in Seq(ToNode) /\ NodeOK(node, sockets) /\ Passed(node, down, up, cp)
  BY DEF Present, Whole, Types
<1>2. \A a \in Assigns : Head(down) # AssignMsg(a)
  BY DownKinds DEF Ops
<1>3. /\ Whole(node, "welcomed", sockets, Tail(down), up, cp, refused)
      /\ Head(down) # Welcome => socket = "welcomed"
  BY <1>2, ReadWhole DEF Present
<1>4. Onward(node, node', sockets) /\ Held(node') = Held(node)
  <2>1. CASE node' = [node EXCEPT !.throttled = TRUE]
    <3> DEFINE m == [node EXCEPT !.throttled = TRUE]
    <3>1. Marked(node, m) /\ m.frozen = node.frozen
      BY <1>1 DEF NodeOK, Marked, Node
    <3> HIDE DEF m
    <3>2. Onward(node, m, sockets) /\ Held(m) = Held(node)
      BY <1>1, <3>1, MarkedGood
    <3> QED BY <2>1, <3>2 DEF m
  <2>2. CASE Head(down) = Command("resume") /\ node' = Resume(node)
    <3>1. ~node.frozen
      BY <1>1, <2>2, PassedRead
    <3>2. Onward(node, Resume(node), sockets) /\ Held(Resume(node)) = Held(node)
      BY <1>1, <3>1, ResumeGood
    <3> QED BY <2>2, <3>2
  <2>3. CASE node' = node
    <3>1. Onward(node, node, sockets)
      BY <1>1, OnwardSame
    <3> QED BY <2>3, <3>1
  <2> QED BY <2>1, <2>2, <2>3
<1> QED BY <1>3, <1>4, NodeGoesOn

LEMMA ReceiveHolds == ASSUME IInv, Receive PROVE IInv'
<1>1. Present
  BY WholeIs DEF Present
<1>2. down # <<>> /\ cp' = cp
  BY <1>1, ReceiveIs
<1>3. CASE Head(down) = Welcome /\ socket' = "welcomed" /\ down' = Tail(down)
           /\ UNCHANGED <<node, up, refused, sockets>>
  <2>1. Whole(node', "welcomed", sockets, Tail(down), up, cp, refused)
    BY <1>1, <1>2, <1>3, CommandRead
  <2> QED BY <1>2, <1>3, <2>1, WholeIs
<1>4. CASE \E a \in Assigns :
             /\ Head(down) = AssignMsg(a) /\ node' = Accept(node, a)
             /\ refused' = IF Takes(node, a) THEN refused ELSE refused \cup {a}
             /\ down' = Tail(down) /\ UNCHANGED <<socket, up, sockets>>
  <2>1. Whole(node', socket, sockets, Tail(down), up, cp, refused')
    BY <1>1, <1>2, <1>4, AssignRead
  <2> QED BY <1>2, <1>4, <2>1, WholeIs
<1>5. CASE \E task \in Tasks :
             /\ Head(down) = CancelMsg(task) /\ node' = Cancel(node, task)
             /\ down' = Tail(down) /\ UNCHANGED <<socket, up, refused, sockets>>
  <2>1. Whole(node', socket, sockets, Tail(down), up, cp, refused)
    BY <1>1, <1>2, <1>5, CancelRead
  <2> QED BY <1>2, <1>5, <2>1, WholeIs
<1>6. CASE \E a \in Assigns, granted \in BOOLEAN :
             /\ Head(down) = Presigned(a, granted) /\ Deliver(node, Presigned(a, granted))
             /\ down' = Tail(down) /\ UNCHANGED <<socket, refused, sockets>>
  <2>1. Whole(node', socket, sockets, Tail(down), up', cp, refused)
    BY <1>1, <1>2, <1>6, PresignedRead
  <2> QED BY <1>2, <1>6, <2>1, WholeIs
<1>7. CASE /\ Head(down) = Command("freeze") /\ node' = Freeze(node)
           /\ down' = Tail(down) /\ UNCHANGED <<socket, up, refused, sockets>>
  <2>1. Whole(node', socket, sockets, Tail(down), up, cp, refused)
    BY <1>1, <1>2, <1>7, FreezeRead
  <2> QED BY <1>2, <1>7, <2>1, WholeIs
<1>8. CASE /\ \/ Head(down) = Command("throttle") /\ node' = [node EXCEPT !.throttled = TRUE]
              \/ Head(down) = Command("resume") /\ node' = Resume(node)
           /\ down' = Tail(down) /\ UNCHANGED <<socket, up, refused, sockets>>
  <2>1. Head(down) # Welcome
    BY <1>8, DownKinds DEF Ops
  <2>2. /\ Whole(node', "welcomed", sockets, Tail(down), up, cp, refused)
        /\ Head(down) # Welcome => socket = "welcomed"
    BY <1>1, <1>2, <1>8, CommandRead
  <2> QED BY <1>2, <1>8, <2>1, <2>2, WholeIs
<1>9. CASE /\ node' \in {Stopped(node), Disconnected(node)}
           /\ socket' = "closed" /\ up' = Append(up, Closed) /\ down' = <<>>
           /\ UNCHANGED <<sockets, refused>>
  <2>0. NodeOK(node, sockets)
    BY <1>1 DEF Present, Whole
  <2>1. \A m \in {Stopped(node), Disconnected(node)} :
          /\ NodeOK(m, sockets) /\ Idling(m) /\ ~m.frozen
          /\ \A a \in Assigns : Begun(m, a) => Begun(node, a)
    BY <2>0, DisconnectedGood
  <2>2. Whole(node', "closed", sockets, <<>>, Append(up, Closed), cp, refused)
    BY <1>1, <1>9, <2>1, LeavesWhole DEF Present
  <2> QED BY <1>2, <1>9, <2>2, WholeIs
<1> QED BY <1>1, <1>3, <1>4, <1>5, <1>6, <1>7, <1>8, <1>9, ReceiveIs

LEMMA SocketHolds == ASSUME IInv, Break \/ Connect PROVE IInv'
<1>1. Present
  BY WholeIs DEF Present
<1>2. CASE Break
  <2>0. NodeOK(node, sockets)
    BY <1>1 DEF Present, Whole
  <2>1. LET m == Disconnected(node)
        IN  /\ NodeOK(m, sockets) /\ Idling(m) /\ ~m.frozen
            /\ \A a \in Assigns : Begun(m, a) => Begun(node, a)
    BY <2>0, DisconnectedGood
  <2>2. Whole(Disconnected(node), "closed", sockets, <<>>, Append(up, Closed), cp, refused)
    BY <1>1, <2>1, LeavesWhole DEF Present
  <2> QED BY <1>2, <2>2, WholeIs DEF Break, Leaves
<1>3. CASE Connect
  <2>1. Whole(node, "open", sockets + 1, down, Append(up, Hello), cp, refused)
    BY <1>1, <1>3, ConnectWhole DEF Present, Connect
  <2> QED BY <1>3, <2>1, WholeIs DEF Connect
<1> QED BY <1>2, <1>3
-----------------------------------------------------------------------------
(* What the control plane does. *)

LEMMA SendIs ==
    ASSUME NEW m, NEW u \in Seq(ToPlane), Send(m, u)
    PROVE  down' = Sends(down, u, m)
BY LeavingIs DEF Send, Sends

\* What is on its way stays on it.
LEMMA SendsMore ==
    ASSUME NEW d \in Seq(ToNode), NEW u, NEW m \in ToNode
    PROVE  /\ Sends(d, u, m) \in Seq(ToNode)
           /\ \A e : Contains(d, e) => Contains(Sends(d, u, m), e)
           /\ ~Leaving(u) => Contains(Sends(d, u, m), m)
BY StillThere DEF Sends

\* The control plane says something to a node it knows.
LEMMA PlaneSays ==
    ASSUME Present, Busy, cp.known, up' = up, NEW m \in ToNode, down' = Sends(down, up, m),
           cp' \in Ledger, IsFiniteSet(cp'.open), Cardinality(cp'.open) <= MaxInFlight,
           Passed(node, down', up, cp'),
           \A a \in cp'.open : There(node, down', up, cp', refused, a)
    PROVE  IInv'
<1>1. down \in Seq(ToNode) /\ Facing(socket, down, up, cp)
  BY DEF Present, Whole, Types
<1>2. down' \in Seq(ToNode)
  BY <1>1, SendsMore
<1>3. Facing(socket, down', up, cp')
  BY <1>1, PlaneWrites DEF Sends
<1>4. Whole(node, socket, sockets, down', up, cp', refused)
  BY <1>2, <1>3 DEF Present, Whole, Types
<1> QED BY <1>4, WholeIs DEF Busy

LEMMA AssignHolds == ASSUME IInv, NEW task \in Tasks, Assign(task) PROVE IInv'
<1> DEFINE a == [task |-> task, attempt |-> cp.attempts[task] + 1]
<1>1. Present
  BY WholeIs DEF Present
<1>2. /\ cp \in Ledger /\ down \in Seq(ToNode) /\ up \in Seq(ToPlane) /\ node \in Node
      /\ IsFiniteSet(cp.open) /\ Cardinality(cp.open) <= MaxInFlight
      /\ Passed(node, down, up, cp)
  BY <1>1 DEF Present, Whole, Types
<1>3. a \in Assigns /\ a.task = task /\ a.attempt = cp.attempts[a.task] + 1
  <2>1. cp.attempts[task] \in 0..MaxAttempts /\ cp.attempts[task] < MaxAttempts
    BY <1>2 DEF Ledger, Assign
  <2>2. cp.attempts[task] + 1 \in 1..MaxAttempts
    BY <2>1, NodeLoopAssumption
  <2> QED BY <2>2 DEF Assigns
<1>4. /\ cp.known /\ Cardinality(cp.open) < MaxInFlight /\ \A b \in cp.open : b.task # a.task
      /\ up' = up /\ Busy
  BY <1>3 DEF Assign
<1>5. /\ cp' = [cp EXCEPT !.attempts[task] = a.attempt, !.open = @ \cup {a}]
      /\ Send(AssignMsg(a), up)
  BY DEF Assign
<1> HIDE DEF a
<1>6. cp' = Opened(cp, a)
  BY <1>3, <1>5 DEF Opened
<1>7. down' = Sends(down, up, AssignMsg(a))
  BY <1>2, <1>5, SendIs
<1>8. /\ Opened(cp, a) \in Ledger /\ Opened(cp, a).known = cp.known
      /\ Opened(cp, a).open = cp.open \cup {a} /\ Opened(cp, a).commanded = cp.commanded
      /\ Passed(node, Sends(down, up, AssignMsg(a)), up, Opened(cp, a))
  BY <1>2, <1>3, <1>4, PassedAssign
<1>9. IsFiniteSet(cp'.open) /\ Cardinality(cp'.open) <= MaxInFlight
  <2>1. a \notin cp.open
    BY <1>4
  <2>2. IsFiniteSet(cp'.open) /\ Cardinality(cp'.open) = Cardinality(cp.open) + 1
    BY <1>2, <1>6, <1>8, <2>1, FS_AddElement
  <2>3. Cardinality(cp.open) \in Nat
    BY <1>2, FS_CardinalityType
  <2> QED BY <1>4, <2>2, <2>3, NodeLoopAssumption
<1>10. AssignMsg(a) \in ToNode
  BY <1>3, DownKinds
<1>11. ASSUME NEW b \in cp'.open PROVE There(node, down', up, cp', refused, b)
  <2>1. CASE b = a
    <3>1. Leaving(up) \/ Contains(down', AssignMsg(a))
      BY <1>2, <1>7, <1>10, SendsMore
    <3> QED BY <1>2, <2>1, <3>1, LeavingIs DEF There
  <2>2. CASE b \in cp.open
    <3>1. There(node, down, up, cp, refused, b)
      BY <1>1, <2>2 DEF Present, Whole
    <3>2. Contains(down, AssignMsg(b)) => Contains(down', AssignMsg(b))
      BY <1>2, <1>7, <1>10, SendsMore
    <3> QED BY <1>6, <1>8, <3>1, <3>2 DEF There
  <2> QED BY <1>6, <1>8, <1>11, <2>1, <2>2
<1> QED BY <1>1, <1>4, <1>6, <1>7, <1>8, <1>9, <1>10, <1>11, PlaneSays

LEMMA CancelAttemptHolds == ASSUME IInv, NEW a \in Assigns, CancelAttempt(a) PROVE IInv'
<1>1. Present
  BY WholeIs DEF Present
<1>2. /\ cp \in Ledger /\ down \in Seq(ToNode) /\ up \in Seq(ToPlane)
      /\ IsFiniteSet(cp.open) /\ Cardinality(cp.open) <= MaxInFlight
      /\ Passed(node, down, up, cp)
  BY <1>1 DEF Present, Whole, Types
<1>3. /\ a \in cp.open /\ cp' = [cp EXCEPT !.open = cp.open \ {a}] /\ up' = up /\ Busy
      /\ down' = Sends(down, up, CancelMsg(a.task))
  BY <1>2, SendIs DEF CancelAttempt
<1>4. /\ cp' \in Ledger /\ cp'.open = cp.open \ {a} /\ cp'.attempts = cp.attempts
      /\ cp'.known = cp.known /\ cp'.commanded = cp.commanded
  BY <1>2, <1>3 DEF Ledger
<1>5. cp.known /\ cp.open \subseteq Assigns
  BY <1>2, <1>3 DEF Passed, Numbered, Ledger
<1>6. Passed(node, down', up, cp')
  BY <1>2, <1>3, <1>4, <1>5, PassedCancel
<1>7. IsFiniteSet(cp'.open) /\ Cardinality(cp'.open) <= MaxInFlight
  <2>1. /\ IsFiniteSet(cp'.open) /\ Cardinality(cp'.open) <= Cardinality(cp.open)
        /\ Cardinality(cp.open) \in Nat /\ Cardinality(cp'.open) \in Nat
    BY <1>2, <1>4, FS_Subset, FS_CardinalityType
  <2> QED BY <1>2, <2>1, NodeLoopAssumption
<1>8. CancelMsg(a.task) \in ToNode
  BY DownKinds DEF Assigns
<1>9. ASSUME NEW b \in cp'.open PROVE There(node, down', up, cp', refused, b)
  <2>1. There(node, down, up, cp, refused, b)
    BY <1>1, <1>4 DEF Present, Whole
  <2>2. Contains(down, AssignMsg(b)) => Contains(down', AssignMsg(b))
    BY <1>2, <1>3, <1>8, SendsMore
  <2> QED BY <1>4, <2>1, <2>2 DEF There
<1> QED BY <1>1, <1>3, <1>4, <1>5, <1>6, <1>7, <1>8, <1>9, PlaneSays

LEMMA OperateHolds == ASSUME IInv, NEW op \in Ops, Operate(op) PROVE IInv'
<1>1. Present
  BY WholeIs DEF Present
<1>2. /\ cp \in Ledger /\ down \in Seq(ToNode) /\ up \in Seq(ToPlane)
      /\ IsFiniteSet(cp.open) /\ Cardinality(cp.open) <= MaxInFlight
      /\ Passed(node, down, up, cp)
  BY <1>1 DEF Present, Whole, Types
<1>3. /\ cp.known /\ up' = up /\ Busy /\ down' = Sends(down, up, Command(op))
      /\ op = "resume" => cp.commanded = "throttle"
  BY <1>2, SendIs DEF Operate
<1> DEFINE h == CASE op = "freeze" -> "freeze"
                  [] op = "throttle" /\ cp.commanded # "freeze" -> "throttle"
                  [] op = "resume" -> "none"
                  [] OTHER -> cp.commanded
<1>4. /\ h \in {"none", "throttle", "freeze"}
      /\ op = "freeze" \/ (op # "resume" /\ cp.commanded = "freeze") => h = "freeze"
  BY <1>2 DEF Ops, Ledger
<1>5. cp' = [cp EXCEPT !.commands = cp.commands + 1, !.commanded = h]
  BY DEF Operate
<1> HIDE DEF h
<1>6. /\ cp' \in Ledger /\ cp'.open = cp.open /\ cp'.attempts = cp.attempts
      /\ cp'.known = cp.known /\ cp'.commanded = h
  <2> DEFINE k == cp.commands + 1
  <2>1. k \in Nat
    BY <1>2 DEF Ledger
  <2>2. cp' = [cp EXCEPT !.commands = k, !.commanded = h]
    BY <1>5
  <2> HIDE DEF k
  <2> QED BY <1>2, <1>4, <2>1, <2>2 DEF Ledger
<1>7. Passed(node, down', up, cp')
  BY <1>2, <1>3, <1>4, <1>6, PassedCommand
<1>8. Command(op) \in ToNode
  BY DownKinds
<1>9. ASSUME NEW b \in cp'.open PROVE There(node, down', up, cp', refused, b)
  <2>1. There(node, down, up, cp, refused, b)
    BY <1>1, <1>6, <1>9 DEF Present, Whole
  <2>2. Contains(down, AssignMsg(b)) => Contains(down', AssignMsg(b))
    BY <1>2, <1>3, <1>8, SendsMore
  <2>3. cp.commanded = "freeze" => cp'.commanded = "freeze"
    BY <1>3, <1>4, <1>6
  <2> QED BY <2>1, <2>2, <2>3 DEF There
<1> QED BY <1>1, <1>2, <1>3, <1>6, <1>7, <1>8, <1>9, PlaneSays

\* The control plane knows the node no more.
LEMMA ForgetIs ==
    ASSUME cp \in Ledger
    PROVE  /\ Forget \in Ledger /\ Forget.open = {} /\ ~Forget.known
           /\ Forget.attempts = cp.attempts
           /\ IsFiniteSet(Forget.open) /\ Cardinality(Forget.open) <= MaxInFlight
<1>1. /\ Forget \in Ledger /\ Forget.open = {} /\ ~Forget.known
      /\ Forget.attempts = cp.attempts
  BY DEF Forget, Ledger
<1> QED BY <1>1, FS_EmptySet, NodeLoopAssumption

LEMMA DropHolds == ASSUME IInv, Drop PROVE IInv'
<1>1. Present
  BY WholeIs DEF Present
<1>2. /\ cp \in Ledger /\ down \in Seq(ToNode) /\ up \in Seq(ToPlane)
      /\ Passed(node, down, up, cp)
  BY <1>1 DEF Present, Whole, Types
<1>3. cp.known /\ up' = up /\ Busy /\ down' = Sends(down, up, Close) /\ cp' = Forget
  BY <1>2, SendIs DEF Drop
<1>4. Close \in ToNode /\ Close.t = "close" /\ Close \notin {Command("freeze"), Command("resume")}
  BY DownKinds DEF Ops
<1>5. Passed(node, down', up, cp)
  BY <1>2, <1>3, <1>4, PassedPlainly
<1>6. Passed(node, down', up, cp')
  BY <1>2, <1>3, <1>5, ForgetIs, PassedLess
<1> QED BY <1>1, <1>2, <1>3, <1>4, <1>6, ForgetIs, PlaneSays

\* A message read is another's loss only.
LEMMA OthersStay ==
    ASSUME NEW T, NEW s \in Seq(T), s # <<>>
    PROVE  \A e : Contains(s, e) /\ e # Head(s) => Contains(Tail(s), e)
<1>1. /\ Tail(s) \in Seq(T) /\ Head(s) = s[1]
      /\ \A i \in DOMAIN s : i = 1 \/ (i - 1 \in DOMAIN Tail(s) /\ Tail(s)[i - 1] = s[i])
  BY Read
<1>2. /\ \A e : Contains(s, e) <=> \E i \in DOMAIN s : s[i] = e
      /\ \A e : Contains(Tail(s), e) <=> \E i \in DOMAIN Tail(s) : Tail(s)[i] = e
  BY <1>1, InList
<1>3. ASSUME NEW e, Contains(s, e), e # Head(s) PROVE Contains(Tail(s), e)
  <2>1. PICK i \in DOMAIN s : s[i] = e
    BY <1>2, <1>3
  <2>2. i # 1
    BY <1>1, <1>3, <2>1
  <2> QED BY <1>1, <1>2, <2>1, <2>2
<1> QED BY <1>3

\* A greeting is read, and welcomed if its socket is still there.
LEMMA HelloHandled ==
    ASSUME Present, up # <<>>, Head(up) = Hello, up' = Tail(up), Busy,
           cp' = [cp EXCEPT !.known = TRUE], Send(Welcome, Tail(up))
    PROVE  IInv'
<1>1. /\ cp \in Ledger /\ down \in Seq(ToNode) /\ up \in Seq(ToPlane)
      /\ Passed(node, down, up, cp) /\ Facing(socket, down, up, cp) /\ Idle(node, socket)
  BY DEF Present, Whole, Types
<1>2. Tail(up) \in Seq(ToPlane)
  BY <1>1, Read
<1>3. down' = Sends(down, Tail(up), Welcome)
  BY <1>2, SendIs
<1>4. /\ ~cp.known
      /\ ~Leaving(Tail(up)) => socket = "open" /\ down = <<>>
      /\ Facing(socket, down', up', cp')
  BY <1>1, <1>3, HelloRead DEF Sends
<1>5. /\ cp' \in Ledger /\ cp'.known /\ cp'.open = {} /\ cp'.open = cp.open
      /\ cp'.attempts = cp.attempts
  <2>1. cp.open = {}
    BY <1>1, <1>4 DEF Passed, Numbered
  <2> QED BY <1>1, <2>1 DEF Ledger
<1>6. /\ Welcome \in ToNode /\ Welcome.t = "welcome"
      /\ Welcome \notin {Command("freeze"), Command("resume")}
  BY DownKinds DEF Ops
<1>7. Passed(node, down', up', cp')
  <2>1. CASE Leaving(Tail(up))
    BY <1>1, <1>3, <1>5, <2>1, PassedLess DEF Sends
  <2>2. CASE ~Leaving(Tail(up))
    <3>1. ~node.frozen /\ down = <<>>
      BY <1>1, <1>4, <2>2 DEF Idle
    <3>2. Passed(node, down, up', cp')
      BY <1>1, <1>4, <1>5, <3>1, PassedNone
    <3> QED BY <1>1, <1>3, <1>6, <3>2, PassedPlainly
  <2> QED BY <2>1, <2>2
<1>8. down' \in Seq(ToNode)
  BY <1>1, <1>3, <1>6, SendsMore
<1>9. Types(node, socket, sockets, down', up', cp', refused)
  BY <1>2, <1>5, <1>8 DEF Present, Whole, Types
<1>10. Whole(node, socket, sockets, down', up', cp', refused)
  BY <1>4, <1>5, <1>7, <1>9 DEF Present, Whole
<1> QED BY <1>10, WholeIs DEF Busy

LEMMA ClosedHandled ==
    ASSUME Present, up # <<>>, Head(up) = Closed, up' = Tail(up), Busy,
           cp' = Forget, down' = down
    PROVE  IInv'
<1>1. /\ cp \in Ledger /\ up \in Seq(ToPlane)
      /\ Passed(node, down, up, cp) /\ Facing(socket, down, up, cp)
  BY DEF Present, Whole, Types
<1>2. Tail(up) \in Seq(ToPlane)
  BY <1>1, Read
<1>3. /\ cp' \in Ledger /\ cp'.open = {} /\ ~cp'.known /\ cp'.attempts = cp.attempts
      /\ IsFiniteSet(cp'.open) /\ Cardinality(cp'.open) <= MaxInFlight
  BY <1>1, ForgetIs
<1>4. Facing(socket, down, up', cp')
  BY <1>1, <1>3, ClosedRead
<1>5. Passed(node, down, up', cp')
  BY <1>1, <1>3, PassedLess
<1>6. Whole(node, socket, sockets, down, up', cp', refused)
  BY <1>2, <1>3, <1>4, <1>5 DEF Present, Whole, Types
<1> QED BY <1>6, WholeIs DEF Busy

\* A report or a question is read.
LEMMA ReportHandled ==
    ASSUME Present, up # <<>>, up' = Tail(up), Busy, NEW a \in Assigns,
           \/ /\ Head(up) = Presign(a) /\ cp' = cp
              /\ \/ down' = down
                 \/ cp.known /\ \E granted \in BOOLEAN : down' = Sends(down, up', Presigned(a, granted))
           \/ /\ \E outcome \in Reports : Head(up) = Result(a, outcome)
              /\ cp' = [cp EXCEPT !.open = cp.open \ {a}] /\ down' = down
    PROVE  IInv'
<1>1. /\ cp \in Ledger /\ down \in Seq(ToNode) /\ up \in Seq(ToPlane)
      /\ IsFiniteSet(cp.open) /\ Cardinality(cp.open) <= MaxInFlight
      /\ Passed(node, down, up, cp) /\ Facing(socket, down, up, cp)
  BY DEF Present, Whole, Types
<1>2. Head(up) \notin {Hello, Closed} /\ Tail(up) \in Seq(ToPlane)
  BY <1>1, UpKinds, Read
<1>3. Facing(socket, down, up', cp) /\ (Leaving(up') <=> Leaving(up))
  BY <1>1, <1>2, UpReads
<1>4. /\ cp' \in Ledger /\ cp'.open \subseteq cp.open /\ cp'.attempts = cp.attempts
      /\ cp'.known = cp.known /\ cp'.commanded = cp.commanded
      /\ Head(up) # Presign(a) => a \notin cp'.open
  <2>1. CASE cp' = cp /\ Head(up) = Presign(a)
    BY <1>1, <2>1
  <2>2. CASE cp' = [cp EXCEPT !.open = cp.open \ {a}]
    BY <1>1, <2>2 DEF Ledger
  <2> QED BY <2>1, <2>2
<1>5. IsFiniteSet(cp'.open) /\ Cardinality(cp'.open) <= MaxInFlight
  <2>1. /\ IsFiniteSet(cp'.open) /\ Cardinality(cp'.open) <= Cardinality(cp.open)
        /\ Cardinality(cp.open) \in Nat /\ Cardinality(cp'.open) \in Nat
    BY <1>1, <1>4, FS_Subset, FS_CardinalityType
  <2> QED BY <1>1, <2>1, NodeLoopAssumption
<1>6. Passed(node, down, up', cp')
  <2>1. cp'.open = {} \/ cp'.known
    BY <1>1, <1>4 DEF Passed, Numbered
  <2> QED BY <1>1, <1>3, <1>4, <2>1, PassedLess
<1>7. \A granted \in BOOLEAN :
        /\ Presigned(a, granted) \in ToNode /\ Presigned(a, granted).t = "presigned"
        /\ Presigned(a, granted) \notin {Command("freeze"), Command("resume")}
  BY DownKinds DEF Ops
<1>8. \/ down' = down
      \/ cp.known /\ \E granted \in BOOLEAN : down' = Sends(down, up', Presigned(a, granted))
  OBVIOUS
<1>9. /\ down' \in Seq(ToNode) /\ Passed(node, down', up', cp')
      /\ Facing(socket, down', up', cp')
      /\ \A e : Contains(down, e) => Contains(down', e)
  <2>0. Facing(socket, down, up', cp')
    BY <1>3, <1>4 DEF Facing, Greeted, Framed
  <2>1. CASE down' = down
    BY <1>1, <1>6, <2>0, <2>1
  <2>2. CASE cp.known /\ \E granted \in BOOLEAN : down' = Sends(down, up', Presigned(a, granted))
    <3>1. PICK granted \in BOOLEAN : down' = Sends(down, up', Presigned(a, granted))
      BY <2>2
    <3> DEFINE m == Presigned(a, granted)
    <3>2. m \in ToNode /\ m.t = "presigned" /\ m \notin {Command("freeze"), Command("resume")}
      BY <1>7
    <3> HIDE DEF m
    <3>3. down' = Sends(down, up', m)
      BY <3>1 DEF m
    <3>4. down' \in Seq(ToNode) /\ \A e : Contains(down, e) => Contains(down', e)
      BY <1>1, <3>2, <3>3, SendsMore
    <3>5. Passed(node, Sends(down, up', m), up', cp')
      BY <1>1, <1>6, <3>2, PassedPlainly
    <3>6. Facing(socket, down', up', cp')
      BY <1>1, <1>4, <2>0, <2>2, <3>2, <3>3, PlaneWrites DEF Sends
    <3> QED BY <3>3, <3>4, <3>5, <3>6
  <2> QED BY <1>8, <2>1, <2>2
<1>10. ASSUME NEW b \in cp'.open PROVE There(node, down', up', cp', refused, b)
  <2>1. There(node, down, up, cp, refused, b) /\ b \in Assigns
    BY <1>1, <1>4 DEF Present, Whole, Ledger
  <2>2. Contains(up, Closed) => Contains(up', Closed)
    BY <1>1, <1>2, OthersStay
  <2>3. ASSUME NEW outcome \in Reports, Contains(up, Result(b, outcome))
        PROVE  Contains(up', Result(b, outcome))
    <3>1. Result(b, outcome) # Head(up)
      <4>1. CASE Head(up) = Presign(a)
        <5>1. Presign(a).t = "presign" /\ Result(b, outcome).t = "result"
          BY DEF Presign, Result
        <5> QED BY <4>1, <5>1
      <4>2. CASE \E o \in Reports : Head(up) = Result(a, o)
        <5>1. PICK o \in Reports : Head(up) = Result(a, o)
          BY <4>2
        <5>2. Result(a, o).assign = a /\ Result(b, outcome).assign = b /\ Result(a, o).t = "result"
              /\ Presign(a).t = "presign"
          BY DEF Result, Presign
        <5>3. a # b
          BY <1>4, <1>10, <5>1, <5>2
        <5> QED BY <5>1, <5>2, <5>3
      <4> QED BY <4>1, <4>2
    <3> QED BY <1>1, <2>3, <3>1, OthersStay
  <2> QED BY <1>4, <1>9, <2>1, <2>2, <2>3 DEF There
<1>11. Whole(node, socket, sockets, down', up', cp', refused)
  BY <1>2, <1>4, <1>5, <1>9, <1>10 DEF Present, Whole, Types
<1> QED BY <1>11, WholeIs DEF Busy

LEMMA HandleHolds == ASSUME IInv, Handle PROVE IInv'
<1> DEFINE m == Head(up)
<1>1. Present
  BY WholeIs DEF Present
<1>2. up # <<>> /\ up \in Seq(ToPlane) /\ m \in ToPlane /\ up' = Tail(up) /\ Busy
  <2>1. up # <<>> /\ up \in Seq(ToPlane)
    BY <1>1 DEF Handle, Present, Whole, Types
  <2> QED BY <2>1, Read DEF Handle
<1>3. CASE m = Hello /\ m.t = "hello"
  BY <1>1, <1>2, <1>3, HelloHandled DEF Handle
<1>4. CASE m = Closed /\ m.t = "closed"
  BY <1>1, <1>2, <1>4, ClosedHandled DEF Handle
<1>5. CASE \E a \in Assigns : m = Presign(a) /\ m.t = "presign" /\ m.assign = a
  <2>1. PICK a \in Assigns : m = Presign(a) /\ m.t = "presign" /\ m.assign = a
    BY <1>5
  <2>2. /\ cp' = cp
        /\ \/ down' = down
           \/ cp.known /\ \E granted \in BOOLEAN : Send(Presigned(a, granted), Tail(up))
    BY <2>1 DEF Handle
  <2>3. \/ down' = down
        \/ cp.known /\ \E granted \in BOOLEAN : down' = Sends(down, up', Presigned(a, granted))
    <3>1. Tail(up) \in Seq(ToPlane)
      BY <1>2, Read
    <3> QED BY <1>2, <2>2, <3>1, SendIs
  <2> QED BY <1>1, <1>2, <2>1, <2>2, <2>3, ReportHandled
<1>6. CASE \E a \in Assigns, outcome \in Reports :
             m = Result(a, outcome) /\ m.t = "result" /\ m.assign = a
  <2>1. PICK a \in Assigns, outcome \in Reports :
          m = Result(a, outcome) /\ m.t = "result" /\ m.assign = a
    BY <1>6
  <2>2. cp' = [cp EXCEPT !.open = cp.open \ {a}] /\ down' = down
    BY <2>1 DEF Handle
  <2> QED BY <1>1, <1>2, <2>1, <2>2, ReportHandled
<1> QED BY <1>2, <1>3, <1>4, <1>5, <1>6, UpIs
-----------------------------------------------------------------------------
LEMMA InitHolds == Init => IInv
<1> SUFFICES ASSUME Init PROVE IInv
  OBVIOUS
<1>1. node \in Node
  <2>1. [a \in Assigns |-> NoRun] \in [Assigns -> Run]
    BY Empty
  <2> QED BY <2>1, Empty DEF Init, Node
<1>2. cp \in Ledger /\ cp.open = {} /\ IsFiniteSet(cp.open) /\ Cardinality(cp.open) <= MaxInFlight
  <2>1. [task \in Tasks |-> 0] \in [Tasks -> 0..MaxAttempts]
    BY NodeLoopAssumption
  <2>2. cp \in Ledger /\ cp.open = {}
    BY <2>1 DEF Init, Ledger
  <2> QED BY <2>2, FS_EmptySet, NodeLoopAssumption
<1>3. /\ socket = "closed" /\ sockets = 0 /\ sockets \in 0..MaxConnections
      /\ down = <<>> /\ up = <<>> /\ refused = {} /\ ~cp.known /\ ~node.frozen
      /\ DOMAIN <<>> = {} /\ <<>> \in Seq(ToNode) /\ <<>> \in Seq(ToPlane)
  BY NodeLoopAssumption DEF Init
<1>4. /\ node.queue = <<>> /\ node.sandbox = <<>> /\ node.running = Nothing
      /\ node.waiting = Nothing /\ \A a \in Assigns : node.runs[a] = NoRun
  BY DEF Init
<1>5. NodeOK(node, sockets)
  <2>1. \A a \in Assigns : a # Nothing
    BY NodeLoopAssumption
  <2> QED BY <1>1, <1>3, <1>4, <2>1, Empty DEF NodeOK, Coherent
<1>6. Passed(node, down, up, cp)
  BY <1>2, <1>3, <1>4, Empty DEF Passed, SentOnce, Numbered, CancelsPast, Frozen
<1>7. Facing(socket, down, up, cp)
  BY <1>3 DEF Facing, Greeted, Framed
<1>8. Types(node, socket, sockets, down, up, cp, refused)
  BY <1>1, <1>2, <1>3 DEF Types
<1>9. Whole(node, socket, sockets, down, up, cp, refused)
  BY <1>2, <1>3, <1>4, <1>5, <1>6, <1>7, <1>8 DEF Whole, Single, Idle
<1> QED BY <1>9, WholeIs

LEMMA StepHolds == IInv /\ [Next]_vars => IInv'
<1> SUFFICES ASSUME IInv, [Next]_vars PROVE IInv'
  OBVIOUS
<1>1. CASE UNCHANGED vars
  BY <1>1, WholeIs DEF vars
<1>2. ASSUME NEW a \in Assigns, RunSteps(a) \/ CancelAttempt(a) PROVE IInv'
  BY <1>2, RunStepsHold, CancelAttemptHolds
<1>3. CASE RestOver
  BY <1>3, RestOverHolds
<1>4. CASE Receive
  BY <1>4, ReceiveHolds
<1>5. CASE Break \/ Connect
  BY <1>5, SocketHolds
<1>6. ASSUME NEW task \in Tasks, Assign(task) PROVE IInv'
  BY <1>6, AssignHolds
<1>7. ASSUME NEW op \in Ops, Operate(op) PROVE IInv'
  BY <1>7, OperateHolds
<1>8. CASE Drop
  BY <1>8, DropHolds
<1>9. CASE Handle
  BY <1>9, HandleHolds
<1> QED BY <1>1, <1>2, <1>3, <1>4, <1>5, <1>6, <1>7, <1>8, <1>9 DEF Next

(* A node's parts and both channels stay in agreement with what the        *)
(* control plane believes (task-loop.ts, tasks.ts, presign.ts): no run is  *)
(* in two places, no assignment comes twice, nothing runs before a         *)
(* welcome, and no node is resumed that was frozen.                        *)
THEOREM EndsAgree == Spec => []IInv
<1>1. Init => IInv
  BY InitHolds
<1>2. IInv /\ [Next]_vars => IInv'
  BY StepHolds
<1> QED BY <1>1, <1>2, PTL DEF Spec

(* The variables keep their types, and the control plane never counts more *)
(* of a node than it takes.                                                *)
THEOREM NodeTypes == Spec => []TypeOK
<1>1. IInv => TypeOK
  BY DEF IInv
<1> QED BY <1>1, EndsAgree, PTL

(* No attempt the control plane counts as running is lost on the way, in   *)
(* the node's queue, in the sandbox or at the presigner: only a refusal, a *)
(* close or a freeze takes one from the node.                              *)
THEOREM AttemptsAccounted == Spec => []Accounted
<1>1. IInv => Accounted
  BY DEF IInv
<1> QED BY <1>1, EndsAgree, PTL

(* However runs are dropped, cancelled, throttled and left behind, a node  *)
(* that is not frozen runs one task for its present socket: the one the    *)
(* loop counts as running.                                                 *)
THEOREM RunsOneTask == Spec => []OneAtATime
<1>1. IInv => OneAtATime
  BY DEF IInv
<1> QED BY <1>1, EndsAgree, PTL
-----------------------------------------------------------------------------
(* The sandbox. *)

\* The settling of a run leaves the host's queue and thread alone.
LEMMA FinishKeeps ==
    ASSUME NEW h \in Host, NEW kind \in {"ok", "error", "deadline", "disposed"}, NEW r \in Runs,
           h.pending # Null => r = h.pending.run,
           \A q \in Runs : h.settled[q].of = q
    PROVE  LET g == Finish(h, kind, r)
           IN  /\ g \in Host /\ g.pending = Null
               /\ g.queue = h.queue /\ g.worker = h.worker /\ g.called = h.called
               /\ g.disposed = h.disposed /\ g.spawned = h.spawned
               /\ \A q \in Runs : g.settled[q].of = q
<1>1. CASE h.pending = Null
  BY <1>1 DEF Finish
<1>2. CASE h.pending # Null
  <2>1. h.pending.run = r /\ h.pending.run \in Runs
    BY <1>2 DEF Host
  <2>2. Fate(kind, r) \in [kind : {"waits", "ok", "error", "deadline", "disposed"}, of : Runs]
        /\ Fate(kind, r).of = r
    BY DEF Fate
  <2> QED BY <1>2, <2>1, <2>2 DEF Finish, Host
<1> QED BY <1>1, <1>2

LEMMA FinishOwnKeeps ==
    ASSUME NEW h \in Host, NEW kind \in {"ok", "error", "deadline", "disposed"},
           \A q \in Runs : h.settled[q].of = q
    PROVE  LET g == FinishOwn(h, kind)
           IN  /\ g \in Host /\ g.pending = Null
               /\ g.queue = h.queue /\ g.worker = h.worker /\ g.called = h.called
               /\ g.disposed = h.disposed /\ g.spawned = h.spawned
               /\ \A q \in Runs : g.settled[q].of = q
<1>1. CASE h.pending = Null
  BY <1>1 DEF FinishOwn, Finish
<1>2. CASE h.pending # Null
  <2>1. h.pending.run \in Runs
    BY <1>2 DEF Host
  <2> QED BY <2>1, FinishKeeps DEF FinishOwn
<1> QED BY <1>1, <1>2

LEMMA SandboxInitHolds == SandboxInit => SandboxIInv
<1> SUFFICES ASSUME SandboxInit PROVE SandboxIInv
  OBVIOUS
<1> USE SandboxAssumption
<1>1. host \in Host
  BY DEF SandboxInit, Host, Runs, Threads, Fate
<1>2. thread \in [Threads -> Thread]
  BY DEF SandboxInit, Unborn, Thread
<1>3. SandboxTypeOK
  BY <1>1, <1>2 DEF SandboxInit, SandboxTypeOK
<1>4. OwnAnswer
  BY DEF SandboxInit, OwnAnswer, Fate
<1> QED BY <1>3, <1>4 DEF SandboxInit, Unborn, SandboxIInv, OneThread, DownIsDead, Spawned, HoldsPending

\* run() only queues.
LEMMA CallHolds == ASSUME SandboxIInv, NEW r \in Runs, Call(r) PROVE SandboxIInv'
<1> USE SandboxAssumption DEF SandboxIInv, Call
<1>1. /\ host'.queue = Append(host.queue, r) /\ Len(host'.queue) = Len(host.queue) + 1
      /\ host'.called = r /\ host.called = r - 1
      /\ host'.spawned = host.spawned /\ host'.worker = host.worker
      /\ host'.settled = host.settled /\ host'.pending = host.pending
  BY DEF SandboxTypeOK, Host
<1>2. SandboxTypeOK'
  <2>1. r \in 0..MaxRuns /\ Append(host.queue, r) \in Seq(Runs)
    BY DEF SandboxTypeOK, Host, Runs
  <2>2. host' \in Host
    BY <2>1 DEF SandboxTypeOK, Host
  <2> QED BY <2>2 DEF SandboxTypeOK
<1>3. OneThread' /\ OwnAnswer' /\ DownIsDead' /\ HoldsPending'
  BY <1>1 DEF OneThread, OwnAnswer, DownIsDead, HoldsPending
<1>4. Spawned'
  BY <1>1 DEF Spawned, SandboxTypeOK, Host, Runs
<1> QED BY <1>2, <1>3, <1>4

\* On a disposed host the next run is only settled.
LEMMA RunDisposedHolds == ASSUME SandboxIInv, RunDisposed PROVE SandboxIInv'
<1> USE SandboxAssumption DEF SandboxIInv, RunDisposed
<1> DEFINE r == Head(host.queue)
<1>1. /\ r \in Runs /\ Tail(host.queue) \in Seq(Runs)
      /\ Len(Tail(host.queue)) = Len(host.queue) - 1 /\ Len(host.queue) \in Nat \ {0}
  BY DEF SandboxTypeOK, Host
<1>2. Fate("disposed", r) \in [kind : {"waits", "ok", "error", "deadline", "disposed"}, of : Runs]
      /\ Fate("disposed", r).of = r
  BY <1>1 DEF Fate
<1> HIDE DEF r
<1>3. host' = [host EXCEPT !.queue = Tail(@), !.settled[r] = Fate("disposed", r)]
  BY DEF r
<1>4. /\ host' \in Host /\ host'.queue = Tail(host.queue) /\ host'.called = host.called
      /\ host'.worker = host.worker /\ host'.spawned = host.spawned
      /\ host'.pending = host.pending
      /\ \A q \in Runs : host'.settled[q].of = q
  <2> HIDE DEF RunDisposed
  <2>1. host \in Host /\ \A q \in Runs : host.settled[q].of = q
    BY DEF SandboxTypeOK, OwnAnswer
  <2>2. host'.settled = [host.settled EXCEPT ![r] = Fate("disposed", r)]
    BY <1>3, <2>1 DEF Host
  <2>3. \A q \in Runs : host'.settled[q].of = q
    BY <1>1, <1>2, <2>1, <2>2 DEF Host
  <2>4. host' \in Host
    BY <1>1, <1>2, <1>3, <2>1 DEF Host
  <2> QED BY <1>3, <2>1, <2>3, <2>4 DEF Host
<1>5. SandboxTypeOK'
  BY <1>4 DEF SandboxTypeOK
<1>6. OneThread' /\ OwnAnswer' /\ DownIsDead' /\ HoldsPending'
  BY <1>4 DEF OneThread, OwnAnswer, DownIsDead, HoldsPending
<1>7. Spawned'
  BY <1>1, <1>4 DEF Spawned, SandboxTypeOK, Host
<1> QED BY <1>5, <1>6, <1>7

\* A run that starts may spawn a thread: then no other is running.
LEMMA RunOneHolds == ASSUME SandboxIInv, RunOne PROVE SandboxIInv'
<1> USE SandboxAssumption
<1> DEFINE r == Head(host.queue)
           spawns == host.worker = Null
           w == IF spawns THEN host.spawned + 1 ELSE host.worker
<1>1. /\ r \in Runs /\ Tail(host.queue) \in Seq(Runs)
      /\ Len(Tail(host.queue)) = Len(host.queue) - 1 /\ Len(host.queue) \in Nat \ {0}
      /\ host.spawned \in Nat /\ host.called \in 0..MaxRuns
      /\ host.spawned + Len(host.queue) =< host.called
  BY DEF SandboxIInv, SandboxTypeOK, Host, RunOne, Spawned
<1>2. w \in Threads
  BY <1>1 DEF SandboxIInv, SandboxTypeOK, Host, Threads
<1>3. \A v \in Threads : thread[v].alive => v = w /\ ~spawns
  BY SandboxAssumption DEF SandboxIInv, OneThread, Threads, Runs
<1>4. /\ host' = [host EXCEPT !.queue = Tail(@), !.worker = w,
                              !.spawned = IF spawns THEN w ELSE @,
                              !.pending = [run |-> r, worker |-> w]]
      /\ thread' = IF spawns THEN [thread EXCEPT ![w].alive = TRUE, ![w].inbox = <<r>>]
                   ELSE IF thread[w].alive
                        THEN [thread EXCEPT ![w].inbox = Append(@, r)]
                        ELSE thread
      /\ UNCHANGED <<buffer, posted, fetches, trouble>>
  BY DEF RunOne
<1>5. spawns => w = host.spawned + 1
  OBVIOUS
<1>6. ~spawns => w = host.worker
  OBVIOUS
<1>7. spawns <=> host.worker = Null
  OBVIOUS
<1> HIDE DEF r, w, spawns
<1>8. /\ host' \in Host /\ host'.worker = w /\ host'.pending.worker = w
      /\ host'.queue = Tail(host.queue) /\ host'.called = host.called
      /\ host'.spawned = (IF spawns THEN w ELSE host.spawned)
      /\ host'.settled = host.settled
  <2>1. host \in Host
    BY DEF SandboxIInv, SandboxTypeOK
  <2>2. [run |-> r, worker |-> w] \in [run : Runs, worker : Threads]
    BY <1>1, <1>2
  <2>3. w \in 0..MaxRuns
    BY <1>2 DEF Threads
  <2> QED BY <1>1, <1>2, <1>4, <2>1, <2>2, <2>3 DEF Host
<1>9. /\ thread' \in [Threads -> Thread]
      /\ \A v \in Threads : v # w => thread'[v] = thread[v]
      /\ ~spawns => thread'[w].alive = thread[w].alive
  <2>1. thread \in [Threads -> Thread] /\ thread[w] \in Thread
    BY <1>2 DEF SandboxIInv, SandboxTypeOK
  <2>2. <<r>> \in Seq(Runs) /\ Append(thread[w].inbox, r) \in Seq(Runs)
    BY <1>1, <2>1 DEF Thread
  <2> QED BY <1>2, <1>4, <2>1, <2>2 DEF Thread
<1>10. SandboxTypeOK'
  BY <1>4, <1>8, <1>9 DEF SandboxIInv, SandboxTypeOK
<1>11. OneThread' /\ OwnAnswer' /\ HoldsPending'
  BY <1>3, <1>8, <1>9 DEF SandboxIInv, OneThread, OwnAnswer, HoldsPending
<1>12. DownIsDead'
  <2> SUFFICES ASSUME NEW v \in Threads, NEW i \in DOMAIN posted'[v], posted'[v][i].t = "down"
               PROVE  ~thread'[v].alive
    BY DEF DownIsDead
  <2>1. CASE v # w \/ ~spawns
    BY <2>1, <1>4, <1>9 DEF SandboxIInv, DownIsDead
  <2>2. CASE v = w /\ spawns
    <3>1. posted[w] = <<>>
      BY <2>2, <1>1, <1>2, <1>5 DEF SandboxIInv, Spawned, Threads
    <3> QED BY <3>1, <2>2, <1>4
  <2> QED BY <2>1, <2>2
<1>13. Spawned'
  <2>1. host'.worker =< host'.spawned
    BY <1>1, <1>2, <1>6, <1>7, <1>8 DEF SandboxIInv, Spawned, Threads
  <2>2. host.spawned =< host'.spawned /\ host'.spawned =< host.spawned + 1
        /\ host'.spawned \in Nat
    BY <1>1, <1>2, <1>5, <1>8 DEF Threads
  <2>3. \A v \in Threads : v > host'.spawned => posted'[v] = <<>>
    BY <2>2, <1>1, <1>4 DEF SandboxIInv, Spawned, Threads
  <2>4. host'.spawned + Len(host'.queue) =< host'.called
    BY <2>2, <1>1, <1>8
  <2> QED BY <2>1, <2>3, <2>4 DEF Spawned
<1> QED BY <1>10, <1>11, <1>12, <1>13 DEF SandboxIInv

\* terminate(): the host lost or keeps the thread, its exit is on its way.
LEMMA TerminatedKeeps ==
    ASSUME SandboxTypeOK, DownIsDead, NEW w \in Threads
    PROVE  /\ Terminated(w) \in [Threads -> Thread] /\ ~Terminated(w)[w].alive
           /\ \A v \in Threads : Terminated(w)[v].alive => thread[v].alive /\ v # w
           /\ ExitOf(w) \in [Threads -> Seq(Message)]
           /\ \A v \in Threads : v # w => ExitOf(w)[v] = posted[v]
           /\ \A v \in Threads : \A i \in DOMAIN ExitOf(w)[v] :
                ExitOf(w)[v][i].t = "down" => ~Terminated(w)[v].alive
<1>1. Terminated(w) \in [Threads -> Thread] /\ ~Terminated(w)[w].alive
      /\ \A v \in Threads : v # w => Terminated(w)[v] = thread[v]
  BY DEF SandboxTypeOK, Terminated, Thread
<1>2. Down \in Message
  BY DEF Down, Message
<1>3. Append(posted[w], Down) \in Seq(Message)
  BY <1>2 DEF SandboxTypeOK
<1>4. ExitOf(w) \in [Threads -> Seq(Message)] /\ \A v \in Threads : v # w => ExitOf(w)[v] = posted[v]
  BY <1>3 DEF SandboxTypeOK, ExitOf
<1> QED BY <1>1, <1>4 DEF DownIsDead

\* What the deadline and the end of the host share: the host has let go of the
\* thread it kills.
LEMMA KillHolds ==
    ASSUME SandboxIInv, NEW w \in Threads, \A v \in Threads : thread[v].alive => v = w,
           thread' = Terminated(w),
           posted' = IF thread[w].alive THEN ExitOf(w) ELSE posted,
           host' \in Host, host'.worker \in {Null, host.worker},
           host'.queue = host.queue, host'.called = host.called, host'.spawned = host.spawned,
           \A q \in Runs : host'.settled[q].of = q,
           host'.pending = Null, UNCHANGED <<buffer, fetches, trouble>>
    PROVE  SandboxIInv'
<1> USE SandboxAssumption
<1>1. /\ thread' \in [Threads -> Thread]
      /\ \A v \in Threads : ~thread'[v].alive
      /\ posted' \in [Threads -> Seq(Message)]
  BY TerminatedKeeps DEF SandboxIInv, SandboxTypeOK
<1>2. SandboxTypeOK'
  BY <1>1 DEF SandboxIInv, SandboxTypeOK
<1>3. OneThread' /\ OwnAnswer' /\ DownIsDead' /\ HoldsPending'
  BY <1>1 DEF OneThread, OwnAnswer, DownIsDead, HoldsPending
<1>4. Spawned'
  <2>1. \A v \in Threads : v > host.spawned => posted'[v] = <<>>
    <3> SUFFICES ASSUME NEW v \in Threads, v > host.spawned PROVE posted'[v] = <<>>
      OBVIOUS
    <3>1. posted[v] = <<>> /\ host.spawned \in Nat /\ v \in Nat
      BY DEF SandboxIInv, Spawned, SandboxTypeOK, Host, Threads
    <3>2. v # w \/ ~thread[w].alive
      BY <3>1 DEF SandboxIInv, OneThread, Spawned, Threads
    <3> QED BY <3>1, <3>2, TerminatedKeeps DEF SandboxIInv
  <2> QED BY <2>1 DEF SandboxIInv, Spawned
<1> QED BY <1>2, <1>3, <1>4 DEF SandboxIInv

LEMMA DeadlineHolds == ASSUME SandboxIInv, Deadline PROVE SandboxIInv'
<1> USE SandboxAssumption
<1> DEFINE w == host.pending.worker
           g == FinishOwn(host, "deadline")
<1>1. w \in Threads /\ host \in Host /\ host.worker = w
  BY DEF SandboxIInv, SandboxTypeOK, Host, Deadline, HoldsPending
<1>2. /\ thread' = Terminated(w) /\ posted' = IF thread[w].alive THEN ExitOf(w) ELSE posted
      /\ host' = [g EXCEPT !.worker = IF @ = w THEN Null ELSE @]
      /\ UNCHANGED <<buffer, fetches, trouble>>
  BY DEF Deadline
<1>3. /\ g \in Host /\ g.queue = host.queue /\ g.worker = host.worker /\ g.called = host.called
      /\ g.spawned = host.spawned /\ g.pending = Null
      /\ \A q \in Runs : g.settled[q].of = q
  BY <1>1, FinishOwnKeeps DEF SandboxIInv, OwnAnswer
<1> HIDE DEF w, g
<1>4. /\ host' \in Host /\ host'.worker \in {Null, host.worker}
      /\ host'.queue = host.queue /\ host'.called = host.called
      /\ host'.spawned = host.spawned /\ host'.pending = Null
      /\ \A q \in Runs : host'.settled[q].of = q
  BY <1>2, <1>3 DEF Host
<1>5. \A v \in Threads : thread[v].alive => v = w
  BY <1>1 DEF SandboxIInv, OneThread
<1> QED BY <1>1, <1>2, <1>4, <1>5, KillHolds

LEMMA DisposeHolds == ASSUME SandboxIInv, Dispose PROVE SandboxIInv'
<1> USE SandboxAssumption
<1> DEFINE g == FinishOwn(host, "disposed")
<1>1. host \in Host
  BY DEF SandboxIInv, SandboxTypeOK
<1>2. /\ host' = [g EXCEPT !.disposed = TRUE, !.worker = Null]
      /\ UNCHANGED <<buffer, fetches, trouble>>
  BY DEF Dispose
<1>3. /\ g \in Host /\ g.queue = host.queue /\ g.called = host.called
      /\ g.spawned = host.spawned /\ g.pending = Null
      /\ \A q \in Runs : g.settled[q].of = q
  BY <1>1, FinishOwnKeeps DEF SandboxIInv, OwnAnswer
<1> HIDE DEF g
<1>4. /\ host' \in Host /\ host'.worker = Null
      /\ host'.queue = host.queue /\ host'.called = host.called
      /\ host'.spawned = host.spawned /\ host'.pending = Null
      /\ \A q \in Runs : host'.settled[q].of = q
  BY <1>2, <1>3 DEF Host
<1>5. CASE host.worker # Null /\ thread[host.worker].alive
  <2> DEFINE w == host.worker
  <2>1. w \in Threads
    BY <1>1, <1>5 DEF Host
  <2>2. thread' = Terminated(w) /\ posted' = IF thread[w].alive THEN ExitOf(w) ELSE posted
    BY <1>5 DEF Dispose
  <2>3. \A v \in Threads : thread[v].alive => v = w
    BY DEF SandboxIInv, OneThread
  <2> HIDE DEF w
  <2> QED BY <1>2, <1>4, <2>1, <2>2, <2>3, KillHolds
<1>6. CASE ~(host.worker # Null /\ thread[host.worker].alive)
  <2>1. UNCHANGED <<thread, posted>>
    BY <1>6 DEF Dispose
  <2>2. \A v \in Threads : ~thread[v].alive
    BY <1>6 DEF SandboxIInv, OneThread, Threads
  <2>3. SandboxTypeOK'
    BY <1>2, <1>4, <2>1 DEF SandboxIInv, SandboxTypeOK
  <2>4. OneThread' /\ OwnAnswer' /\ DownIsDead' /\ HoldsPending'
    BY <1>4, <2>1, <2>2 DEF SandboxIInv, OneThread, OwnAnswer, DownIsDead, HoldsPending
  <2>5. Spawned'
    BY <1>4, <2>1 DEF SandboxIInv, Spawned
  <2> QED BY <2>3, <2>4, <2>5 DEF SandboxIInv
<1> QED BY <1>5, <1>6

\* What a thread says is heard in the order it said it.
LEMMA UpTail ==
    ASSUME SandboxTypeOK, DownIsDead, NEW w \in Threads, posted[w] # <<>>,
           posted' = [posted EXCEPT ![w] = Tail(@)]
    PROVE  /\ posted' \in [Threads -> Seq(Message)]
           /\ \A v \in Threads : \A i \in DOMAIN posted'[v] : posted'[v][i].t = "down" => ~thread[v].alive
           /\ \A v \in Threads : posted[v] = <<>> => posted'[v] = <<>>
           /\ Head(posted[w]) \in Message
           /\ Head(posted[w]).t = "down" => ~thread[w].alive
<1>1. posted[w] \in Seq(Message) /\ posted \in [Threads -> Seq(Message)]
  BY DEF SandboxTypeOK
<1>2. /\ Tail(posted[w]) \in Seq(Message) /\ Head(posted[w]) \in Message /\ Head(posted[w]) = posted[w][1]
      /\ 1 \in DOMAIN posted[w]
      /\ \A i \in DOMAIN Tail(posted[w]) : i + 1 \in DOMAIN posted[w] /\ Tail(posted[w])[i] = posted[w][i + 1]
  BY <1>1
<1>3. posted'[w] = Tail(posted[w]) /\ \A v \in Threads : v # w => posted'[v] = posted[v]
  BY <1>1
<1>4. \A v \in Threads : \A i \in DOMAIN posted'[v] : posted'[v][i].t = "down" => ~thread[v].alive
  <2> SUFFICES ASSUME NEW v \in Threads, NEW i \in DOMAIN posted'[v], posted'[v][i].t = "down"
               PROVE  ~thread[v].alive
    OBVIOUS
  <2>1. CASE v = w
    BY <2>1, <1>2, <1>3 DEF DownIsDead
  <2>2. CASE v # w
    BY <2>2, <1>3 DEF DownIsDead
  <2> QED BY <2>1, <2>2
<1> QED BY <1>1, <1>2, <1>3, <1>4 DEF DownIsDead

\* A result settles only its own run; an end is only the held thread's.
LEMMA HearHolds == ASSUME SandboxIInv, NEW w \in Threads, Hear(w) PROVE SandboxIInv'
<1> USE SandboxAssumption
<1> DEFINE m == Head(posted[w])
<1>1. /\ posted' \in [Threads -> Seq(Message)]
      /\ \A v \in Threads : \A i \in DOMAIN posted'[v] : posted'[v][i].t = "down" => ~thread[v].alive
      /\ \A v \in Threads : posted[v] = <<>> => posted'[v] = <<>>
      /\ m \in Message
      /\ m.t = "down" => ~thread[w].alive
  BY UpTail DEF SandboxIInv, Hear
<1>2. /\ m.t = "result" => OnResult(m.run)
      /\ m.t = "down" => OnError(w)
      /\ m.t = "blob" => UNCHANGED host
      /\ fetches' = IF m.t = "blob"
                    THEN fetches \cup {[from |-> w, blob |-> m.blob, piece |-> m.piece]}
                    ELSE fetches
      /\ UNCHANGED <<thread, buffer, trouble>>
  BY DEF Hear
<1> HIDE DEF m
<1>3. m.t \in {"result", "down", "blob"}
  BY <1>1 DEF Message
<1>4. host \in Host /\ \A q \in Runs : host.settled[q].of = q
  BY DEF SandboxIInv, SandboxTypeOK, OwnAnswer
<1>5. /\ host' \in Host /\ host'.queue = host.queue /\ host'.called = host.called
      /\ host'.spawned = host.spawned
      /\ \A q \in Runs : host'.settled[q].of = q
      /\ \/ host'.worker = host.worker /\ host'.pending \in {Null, host.pending}
         \/ /\ m.t = "down" /\ host.worker = w
            /\ host'.worker = Null /\ host'.pending = Null
  <2>1. CASE m.t = "result"
    <3>1. m.run \in Runs
      BY <1>1, <2>1 DEF Message
    <3> QED BY <1>2, <1>4, <2>1, <3>1, FinishKeeps DEF OnResult
  <2>2. CASE m.t = "down"
    <3>1. CASE host.worker # w
      BY <1>2, <1>4, <2>2, <3>1 DEF OnError
    <3>2. CASE host.worker = w
      <4> DEFINE h == [host EXCEPT !.worker = Null]
      <4>1. /\ h \in Host /\ h.queue = host.queue /\ h.called = host.called
            /\ h.spawned = host.spawned /\ h.worker = Null
            /\ \A q \in Runs : h.settled[q].of = q
        BY <1>4 DEF Host
      <4>2. host' = FinishOwn(h, "error")
        BY <1>2, <2>2, <3>2 DEF OnError
      <4> HIDE DEF h
      <4> QED BY <2>2, <3>2, <4>1, <4>2, FinishOwnKeeps
    <3> QED BY <3>1, <3>2
  <2>3. CASE m.t = "blob"
    BY <1>2, <1>4, <2>3
  <2> QED BY <1>3, <2>1, <2>2, <2>3
<1>6. fetches' \subseteq [from : Threads, blob : Blobs, piece : Nat]
  <2>1. m.t = "blob" => m.blob \in Blobs /\ m.piece \in Nat
    BY <1>1 DEF Message
  <2> QED BY <1>2, <2>1 DEF SandboxIInv, SandboxTypeOK
<1>7. SandboxTypeOK'
  BY <1>1, <1>2, <1>5, <1>6 DEF SandboxIInv, SandboxTypeOK
<1>8. OneThread'
  BY <1>1, <1>2, <1>5 DEF SandboxIInv, OneThread
<1>9. OwnAnswer' /\ DownIsDead' /\ HoldsPending'
  BY <1>1, <1>2, <1>5 DEF SandboxIInv, OwnAnswer, DownIsDead, HoldsPending
<1>10. Spawned'
  BY <1>1, <1>5 DEF SandboxIInv, Spawned
<1> QED BY <1>7, <1>8, <1>9, <1>10 DEF SandboxIInv

LEMMA FetchEndHolds ==
    ASSUME SandboxIInv, NEW f \in fetches, Answered(f) \/ NotFound(f) PROVE SandboxIInv'
<1> USE SandboxAssumption
<1>1. f \in [from : Threads, blob : Blobs, piece : Nat]
  BY DEF SandboxIInv, SandboxTypeOK
<1>2. UNCHANGED <<host, thread, posted>> /\ fetches' = fetches \ {f}
  BY DEF Answered, NotFound
<1>3. trouble' \in Nat
  BY DEF SandboxIInv, SandboxTypeOK, Answered, NotFound
<1>4. buffer' \in [status : {"waiting", "ready", "notFound"},
                   blob : Blobs \cup {Null}, piece : Nat]
  BY <1>1, SMTT(30) DEF SandboxIInv, SandboxTypeOK, Answered, NotFound
<1>5. SandboxTypeOK'
  BY <1>2, <1>3, <1>4 DEF SandboxIInv, SandboxTypeOK
<1> QED BY <1>2, <1>5 DEF SandboxIInv, OneThread, OwnAnswer, DownIsDead, Spawned, HoldsPending

\* A step of one living thread that says no more than results and requests.
LEMMA ThreadHolds ==
    ASSUME SandboxIInv, NEW w \in Threads, thread[w].alive, UNCHANGED <<host, fetches, trouble>>,
           NEW t \in Thread, thread' = [thread EXCEPT ![w] = t], t.alive,
           buffer' \in [status : {"waiting", "ready", "notFound"},
                        blob : Blobs \cup {Null}, piece : Nat],
           posted' = posted \/ \E m \in Message : m.t # "down" /\ posted' = [posted EXCEPT ![w] = Append(@, m)]
    PROVE  SandboxIInv'
<1> USE SandboxAssumption
<1>1. /\ thread' \in [Threads -> Thread]
      /\ \A v \in Threads : thread'[v].alive = thread[v].alive
  BY DEF SandboxIInv, SandboxTypeOK, Thread
<1>2. /\ posted' \in [Threads -> Seq(Message)]
      /\ \A v \in Threads : v # w => posted'[v] = posted[v]
      /\ \A i \in DOMAIN posted'[w] : posted'[w][i].t # "down"
  <2>1. /\ posted \in [Threads -> Seq(Message)]
        /\ \A i \in DOMAIN posted[w] : posted[w][i].t # "down"
    BY DEF SandboxIInv, SandboxTypeOK, DownIsDead
  <2>2. CASE posted' = posted
    BY <2>1, <2>2
  <2>3. ASSUME NEW m \in Message, m.t # "down", posted' = [posted EXCEPT ![w] = Append(@, m)]
        PROVE  /\ posted' \in [Threads -> Seq(Message)]
               /\ \A v \in Threads : v # w => posted'[v] = posted[v]
               /\ \A i \in DOMAIN posted'[w] : posted'[w][i].t # "down"
    <3>1. /\ Append(posted[w], m) \in Seq(Message)
          /\ \A i \in DOMAIN Append(posted[w], m) :
               Append(posted[w], m)[i] = m \/ (i \in DOMAIN posted[w] /\ Append(posted[w], m)[i] = posted[w][i])
      BY <2>1
    <3>2. posted'[w] = Append(posted[w], m)
      BY <2>1, <2>3
    <3> QED BY <2>1, <2>3, <3>1, <3>2
  <2> QED BY <2>2, <2>3
<1>3. SandboxTypeOK'
  BY <1>1, <1>2 DEF SandboxIInv, SandboxTypeOK
<1>4. OneThread' /\ OwnAnswer' /\ HoldsPending'
  BY <1>1 DEF SandboxIInv, OneThread, OwnAnswer, HoldsPending
<1>5. DownIsDead'
  BY <1>1, <1>2 DEF SandboxIInv, DownIsDead
<1>6. Spawned'
  <2>1. host.worker = w /\ w =< host.spawned /\ w \in Nat /\ host.spawned \in Nat
    BY DEF SandboxIInv, OneThread, Spawned, Threads, SandboxTypeOK, Host
  <2> QED BY <1>2, <2>1 DEF SandboxIInv, Spawned, Threads
<1> QED BY <1>3, <1>4, <1>5, <1>6 DEF SandboxIInv

LEMMA TakeTaskHolds == ASSUME SandboxIInv, NEW w \in Threads, TakeTask(w) PROVE SandboxIInv'
<1> DEFINE t == [thread[w] EXCEPT !.task = Head(thread[w].inbox), !.inbox = Tail(@)]
<1>1. thread[w] \in Thread /\ thread[w].alive /\ thread \in [Threads -> Thread]
  BY DEF SandboxIInv, SandboxTypeOK, TakeTask
<1>2. Head(thread[w].inbox) \in Runs /\ Tail(thread[w].inbox) \in Seq(Runs)
  BY <1>1 DEF TakeTask, Thread
<1>3. t \in Thread /\ t.alive /\ thread' = [thread EXCEPT ![w] = t]
  BY <1>1, <1>2 DEF TakeTask, Thread
<1>4. buffer' \in [status : {"waiting", "ready", "notFound"},
                   blob : Blobs \cup {Null}, piece : Nat]
  BY DEF SandboxIInv, SandboxTypeOK, TakeTask
<1> HIDE DEF t
<1> QED BY <1>1, <1>3, <1>4, ThreadHolds DEF TakeTask

\* A request makes the buffer wait and goes up behind what was said before.
LEMMA AskHolds ==
    ASSUME SandboxIInv, NEW w \in Threads, thread[w].alive, NEW b \in Blobs, NEW p \in Nat,
           NEW got \in Seq(Piece), Ask(w, b, p, got), UNCHANGED <<host, fetches, trouble>>
    PROVE  SandboxIInv'
<1> DEFINE t == [thread[w] EXCEPT !.asks = [blob |-> b, piece |-> p], !.got = got]
<1>1. thread[w] \in Thread /\ thread \in [Threads -> Thread]
  BY DEF SandboxIInv, SandboxTypeOK
<1>2. t \in Thread /\ t.alive /\ thread' = [thread EXCEPT ![w] = t]
  BY <1>1 DEF Ask, Thread
<1>3. /\ Request(b, p) \in Message /\ Request(b, p).t # "down"
      /\ posted' = [posted EXCEPT ![w] = Append(@, Request(b, p))]
  BY DEF Ask, Request, Message
<1>4. buffer' \in [status : {"waiting", "ready", "notFound"},
                   blob : Blobs \cup {Null}, piece : Nat]
  BY DEF SandboxIInv, SandboxTypeOK, Ask
<1> HIDE DEF t
<1> QED BY <1>2, <1>3, <1>4, ThreadHolds

LEMMA ReadHolds == ASSUME SandboxIInv, NEW w \in Threads, NEW b \in Blobs, ReadBlob(w, b) PROVE SandboxIInv'
<1>1. <<>> \in Seq(Piece) /\ 1 \in Nat
  OBVIOUS
<1>2. thread[w].alive /\ Ask(w, b, 1, <<>>) /\ UNCHANGED <<host, fetches, trouble>>
  BY DEF ReadBlob, Computes
<1> QED BY <1>1, <1>2, AskHolds

LEMMA DoneHolds ==
    ASSUME SandboxIInv, NEW w \in Threads, thread[w].alive, thread[w].asks # Null,
           NEW got \in Seq(Piece), Done(w, got), UNCHANGED <<host, fetches, trouble>>
    PROVE  SandboxIInv'
<1> DEFINE cache == [thread[w].cache EXCEPT ![thread[w].asks.blob] = got]
           t == [thread[w] EXCEPT !.asks = Null, !.got = <<>>, !.cache = cache]
<1>1. /\ thread[w] \in Thread /\ thread \in [Threads -> Thread]
      /\ thread[w].asks.blob \in Blobs /\ thread[w].cache \in [Blobs -> Seq(Piece)]
  BY DEF SandboxIInv, SandboxTypeOK, Thread
<1>2. cache \in [Blobs -> Seq(Piece)]
  BY <1>1
<1>3. thread' = [thread EXCEPT ![w] = t]
  BY <1>1 DEF Done, Thread
<1> HIDE DEF cache
<1>4. t \in Thread /\ t.alive
  <2> DEFINE none == <<>>
  <2>1. none \in Seq(Piece) /\ t = [thread[w] EXCEPT !.asks = Null, !.got = none, !.cache = cache]
    OBVIOUS
  <2> HIDE DEF none, t
  <2> QED BY <1>1, <1>2, <2>1 DEF Thread
<1>5. posted' = posted /\ buffer' \in [status : {"waiting", "ready", "notFound"},
                               blob : Blobs \cup {Null}, piece : Nat]
  BY DEF SandboxIInv, SandboxTypeOK, Done
<1> HIDE DEF t
<1> QED BY <1>3, <1>4, <1>5, ThreadHolds

LEMMA WakeHolds == ASSUME SandboxIInv, NEW w \in Threads, Wake(w) PROVE SandboxIInv'
<1> DEFINE t == thread[w]
           piece == [blob |-> buffer.blob, piece |-> buffer.piece]
<1>1. t \in Thread /\ t.alive /\ t.asks # Null /\ UNCHANGED <<host, fetches, trouble>>
  BY DEF SandboxIInv, SandboxTypeOK, Wake
<1>2. t.got \in Seq(Piece) /\ t.asks.blob \in Blobs /\ t.asks.piece + 1 \in Nat
  BY <1>1 DEF Thread
<1>3. piece \in Piece
  BY DEF SandboxIInv, SandboxTypeOK, Piece
<1>4. Append(t.got, piece) \in Seq(Piece)
  BY <1>2, <1>3
<1>5. \/ Done(w, t.got) \/ Done(w, Append(t.got, piece))
      \/ Ask(w, t.asks.blob, t.asks.piece + 1, Append(t.got, piece))
  <2>1. IF buffer.status = "notFound" THEN Done(w, t.got)
        ELSE IF buffer.piece = Pieces THEN Done(w, Append(t.got, piece))
        ELSE Ask(w, t.asks.blob, t.asks.piece + 1, Append(t.got, piece))
    BY DEF Wake
  <2> QED BY <2>1, Zenon
<1> HIDE DEF piece
<1> QED BY <1>1, <1>2, <1>4, <1>5, AskHolds, DoneHolds

LEMMA ReturnHolds == ASSUME SandboxIInv, NEW w \in Threads, Return(w) PROVE SandboxIInv'
<1> DEFINE t == [thread[w] EXCEPT !.task = Null]
<1>1. /\ thread[w] \in Thread /\ thread[w].alive /\ thread \in [Threads -> Thread]
      /\ thread[w].task \in Runs /\ UNCHANGED <<host, fetches, trouble>>
  BY DEF SandboxIInv, SandboxTypeOK, Return, Computes, Thread
<1>2. t \in Thread /\ t.alive /\ thread' = [thread EXCEPT ![w] = t]
  BY <1>1 DEF Return, Thread
<1>3. /\ ResultOf(thread[w].task) \in Message /\ ResultOf(thread[w].task).t # "down"
      /\ posted' = [posted EXCEPT ![w] = Append(@, ResultOf(thread[w].task))]
  BY <1>1 DEF Return, ResultOf, Message
<1>4. buffer' \in [status : {"waiting", "ready", "notFound"},
                   blob : Blobs \cup {Null}, piece : Nat]
  BY DEF SandboxIInv, SandboxTypeOK, Return
<1> HIDE DEF t
<1> QED BY <1>1, <1>2, <1>3, <1>4, ThreadHolds

\* A crash is reported after it happened.
LEMMA CrashHolds == ASSUME SandboxIInv, NEW w \in Threads, Crash(w) PROVE SandboxIInv'
<1> USE SandboxAssumption
<1>1. /\ thread[w].alive /\ host.worker = w /\ UNCHANGED <<host, buffer, fetches>>
      /\ trouble' \in Nat /\ thread' = Terminated(w)
      /\ posted' = [posted EXCEPT ![w] = @ \o <<Down, Down>>]
  BY DEF SandboxIInv, SandboxTypeOK, OneThread, Crash
<1>2. thread' \in [Threads -> Thread] /\ \A v \in Threads : ~thread'[v].alive
  BY <1>1, TerminatedKeeps DEF SandboxIInv, OneThread
<1>3. posted' \in [Threads -> Seq(Message)] /\ \A v \in Threads : v # w => posted'[v] = posted[v]
  <2>1. Down \in Message
    BY DEF Down, Message
  <2>2. posted[w] \o <<Down, Down>> \in Seq(Message)
    BY <2>1 DEF SandboxIInv, SandboxTypeOK
  <2> QED BY <1>1, <2>2 DEF SandboxIInv, SandboxTypeOK
<1>4. SandboxTypeOK'
  BY <1>1, <1>2, <1>3 DEF SandboxIInv, SandboxTypeOK
<1>5. OneThread' /\ OwnAnswer' /\ DownIsDead' /\ HoldsPending'
  BY <1>1, <1>2 DEF SandboxIInv, OneThread, OwnAnswer, DownIsDead, HoldsPending
<1>6. Spawned'
  <2>1. w =< host.spawned /\ w \in Nat /\ host.spawned \in Nat
    BY <1>1 DEF SandboxIInv, Spawned, Threads, SandboxTypeOK, Host
  <2> QED BY <1>1, <1>3, <2>1 DEF SandboxIInv, Spawned, Threads
<1> QED BY <1>4, <1>5, <1>6 DEF SandboxIInv

\* Every state the host and its threads reach satisfies the strengthened
\* invariant, for any number of runs, blobs, crashes and failed fetches.
THEOREM SandboxInvariance == SandboxSpec => []SandboxIInv
<1>1. SandboxIInv /\ [SandboxNext]_sandboxVars => SandboxIInv'
  <2> SUFFICES ASSUME SandboxIInv, [SandboxNext]_sandboxVars PROVE SandboxIInv'
    OBVIOUS
  <2>1. CASE HostStep
    BY <2>1, CallHolds, RunDisposedHolds, RunOneHolds, DeadlineHolds, DisposeHolds, HearHolds,
       FetchEndHolds DEF HostStep
  <2>2. CASE ThreadStep
    BY <2>2, TakeTaskHolds, WakeHolds, ReturnHolds, CrashHolds, ReadHolds DEF ThreadStep
  <2>3. CASE UNCHANGED sandboxVars
    BY <2>3 DEF sandboxVars, SandboxIInv, SandboxTypeOK, OneThread, OwnAnswer, DownIsDead, Spawned, HoldsPending
  <2> QED BY <2>1, <2>2, <2>3 DEF SandboxNext
<1> QED BY SandboxInitHolds, <1>1, PTL DEF SandboxSpec

\* createSandboxHost never loses sight of a thread that still runs.
THEOREM NoThreadLost == SandboxSpec => []OneThread
<1>1. SandboxIInv => OneThread
  BY DEF SandboxIInv
<1> QED BY <1>1, SandboxInvariance, PTL

\* run() resolves with what a thread computed for that very call, or with none.
THEOREM AnswersItsOwn == SandboxSpec => []OwnAnswer
<1>1. SandboxIInv => OwnAnswer
  BY DEF SandboxIInv
<1> QED BY <1>1, SandboxInvariance, PTL

=============================================================================
