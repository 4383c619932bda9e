------------------------------ MODULE NodeLoop ------------------------------
(***************************************************************************)
(* One node beside what the control plane believes of it (design sections  *)
(* 4 and 6.3; packages/node/src: task-loop.ts, tasks.ts, presign.ts,       *)
(* connection.ts, orchestrator.ts).  The node takes up to MaxInFlight      *)
(* assignments, runs them one at a time, and reports each over the socket  *)
(* it came by; the control plane cancels, freezes, throttles, closes.      *)
(*                                                                         *)
(* Every `await` of a task's run is a phase of it, and between two phases  *)
(* anything may arrive: a run the loop has dropped goes on by itself, and  *)
(* shares sandbox and presigner with the next.  A socket is a FIFO channel *)
(* each way, dead at once for the side that closes it.                     *)
(*                                                                         *)
(* Abstractions.  An Assign is its task and attempt.  All control planes   *)
(* name one store base, so that the runner stays.  A run uploads in one    *)
(* presign pass, and no two runs upload the same blob.  Heartbeats are     *)
(* left out: that a node was swept for silence is Drop.                    *)
(***************************************************************************)
EXTENDS Naturals, FiniteSets, SequencesExt, Filter

CONSTANTS
    Tasks,            \* task ids
    Nothing,          \* null
    MaxInFlight,      \* LIMITS.maxInFlight
    MaxAttempts,      \* bound: assignments of one task to this host
    MaxConnections,   \* bound: sockets the node opens
    MaxCommands,      \* bound: operator commands
    MaxMoves          \* bound: assignments, sockets and commands in all

Assigns == [task : Tasks, attempt : 1..MaxAttempts]

ASSUME NodeLoopAssumption ==
    /\ Nothing \notin Assigns
    /\ {MaxInFlight, MaxAttempts, MaxConnections, MaxCommands, MaxMoves} \subseteq Nat

VARIABLES
    node,     \* the TaskLoop with its TaskRunner and SocketPresigner
    socket,   \* the NodeConnection: "closed", "open" or "welcomed"
    sockets,  \* how many the node has opened
    down,     \* what the control plane sent and the node has not read
    up,       \* what the node sent and the control plane has not read
    cp,       \* what the control plane knows of the node
    refused   \* assignments the node would not take

vars == <<node, socket, sockets, down, up, cp, refused>>
-----------------------------------------------------------------------------
Moves == sockets + cp.commands + SumFunctionOnSet(cp.attempts, Tasks)

(* Messages. *)

Hello == [t |-> "hello"]
Closed == [t |-> "closed"]
Result(a, outcome) == [t |-> "result", assign |-> a, outcome |-> outcome]
Presign(a) == [t |-> "presign", assign |-> a]

Welcome == [t |-> "welcome"]
AssignMsg(a) == [t |-> "assign", assign |-> a]
CancelMsg(task) == [t |-> "cancel", task |-> task]
Command(op) == [t |-> "command", op |-> op]
\* granted: with URLs for what was asked; the budget's refusal carries none.
Presigned(a, granted) == [t |-> "presigned", assign |-> a, granted |-> granted]
Close == [t |-> "close"]

Ops == {"close", "freeze", "throttle", "resume"}

\* How a run ends: "nodeFault" is an error of the node's own making, sent as
\* the program's.
Reports == {"result", "trap", "released", "nodeFault"}
-----------------------------------------------------------------------------
(* TaskLoop and TaskRunner. *)

Alive(n) == {a \in Assigns : n.runs[a].phase # "none"}
Held(n) == Range(n.queue) \cup ({n.running} \ {Nothing})

NoRun == [phase |-> "none", link |-> 0]

\* Start the next queued task; its report goes where the socket is now.
Pump(n) ==
    IF n.running # Nothing \/ n.frozen \/ n.resting \/ n.stopped \/ n.queue = <<>>
    THEN n
    ELSE [n EXCEPT !.queue = Tail(@),
                   !.running = Head(n.queue),
                   !.runs[Head(n.queue)] = [phase |-> "fetching", link |-> sockets]]

\* A disposed sandbox leaves its callers waiting.
AbortBug(n) == [n EXCEPT !.sandbox = <<>>]

\* TaskRunner.abort: the sandbox goes, with every run that is in it.
Abort(n) ==
    [n EXCEPT !.sandbox = <<>>,
              !.runs = [a \in Assigns |-> IF Contains(n.sandbox, a) THEN NoRun
                                                   ELSE n.runs[a]]]

\* The loop forgets its work and disposes of the sandbox; a run that is not in
\* the sandbox goes on.
DropWork(n) ==
    [Abort(n) EXCEPT !.queue = <<>>, !.running = Nothing, !.resting = FALSE]

\* The run's promise resolved, but the loop does not look whose it was.
EndedBug(n, a, outcome) ==
    LET m == [n EXCEPT !.runs[a] = NoRun, !.running = Nothing]
    IN IF n.throttled THEN [m EXCEPT !.resting = TRUE] ELSE Pump(m)

\* The run's promise resolved: the loop goes on, unless it dropped that run.
Ended(n, a, outcome) ==
    LET m == [n EXCEPT !.runs[a] = NoRun]
        freed == [m EXCEPT !.running = Nothing]
    IN CASE n.running # a -> m
         [] n.running = a /\ n.throttled -> [freed EXCEPT !.resting = TRUE]
         [] OTHER -> Pump(freed)

\* What is sent of it.
Sent(n, a, outcome) ==
    IF n.running = a /\ n.runs[a].link = sockets /\ socket = "welcomed"
    THEN <<Result(a, outcome)>> ELSE <<>>

RunEnds(n, a, outcome) ==
    /\ node' = Ended(n, a, outcome)
    /\ up' = up \o Sent(n, a, outcome)
-----------------------------------------------------------------------------
(* The run of one task. *)

Unchanged == UNCHANGED <<socket, sockets, down, cp, refused>>

\* The module and the manifest are there: into the sandbox, behind what runs.
Fetched(a) ==
    /\ node.runs[a].phase = "fetching"
    /\ node' = [node EXCEPT !.runs[a].phase = "sandboxed", !.sandbox = Append(@, a)]
    /\ UNCHANGED up /\ Unchanged

\* The store failed or the deadline passed; or it has no such program.
FetchFails(a) ==
    /\ node.runs[a].phase = "fetching"
    /\ \E outcome \in {"released", "trap"} : RunEnds(node, a, outcome)
    /\ Unchanged

\* The program trapped, or the sandbox was killed at its deadline.
SandboxFails(a) ==
    /\ node.sandbox # <<>> /\ a = Head(node.sandbox)
    /\ \E outcome \in {"released", "trap"} :
          RunEnds([node EXCEPT !.sandbox = Tail(@)], a, outcome)
    /\ Unchanged

\* The output is there: ask for presigned URLs.  One request at a time: a
\* second one is refused with an error that is not the store's.
Computed(a) ==
    /\ node.sandbox # <<>> /\ a = Head(node.sandbox)
    /\ LET n == [node EXCEPT !.sandbox = Tail(@)]
       IN IF n.waiting # Nothing THEN RunEnds(n, a, "nodeFault")
          ELSE /\ node' = [n EXCEPT !.waiting = a, !.runs[a].phase = "presigning"]
               /\ up' = IF socket = "closed" THEN up ELSE Append(up, Presign(a))
    /\ Unchanged

\* An answer is waited for as long as the socket lives.
PresignTimesOutBug(a) ==
    /\ node.waiting = a
    /\ socket = "closed"
    /\ RunEnds([node EXCEPT !.waiting = Nothing], a, "released")
    /\ Unchanged

\* Nobody answers in time.
PresignTimesOut(a) ==
    /\ node.waiting = a
    /\ RunEnds([node EXCEPT !.waiting = Nothing], a, "released")
    /\ Unchanged

\* The uploads end: the result is reported, or the store failed.
Uploaded(a) ==
    /\ node.runs[a].phase = "uploading"
    /\ \E outcome \in {"result", "released"} : RunEnds(node, a, outcome)
    /\ Unchanged

RunSteps(a) ==
    \/ Fetched(a) \/ FetchFails(a)
    \/ SandboxFails(a) \/ Computed(a)
    \/ PresignTimesOut(a) \/ Uploaded(a)

\* A throttled node has idled long enough.
RestOver ==
    /\ node.resting
    /\ node' = Pump([node EXCEPT !.resting = FALSE])
    /\ UNCHANGED up /\ Unchanged
-----------------------------------------------------------------------------
(* What the node does with a message. *)

\* TaskLoop.accept
Takes(n, a) == ~n.frozen /\ Len(n.queue) + Cardinality({n.running} \ {Nothing}) < MaxInFlight

Accept(n, a) == IF Takes(n, a) THEN Pump([n EXCEPT !.queue = Append(@, a)]) ELSE n

Of(task) == {a \in Assigns : a.task = task}

\* Whatever runs is killed.
CancelBug(n, task) ==
    LET m == Abort([n EXCEPT !.queue = Without(@, Of(task))])
    IN IF Contains(n.sandbox, n.running) THEN Pump([m EXCEPT !.running = Nothing]) ELSE m

\* TaskLoop.cancel: a run outside the sandbox is not stopped, and stays the
\* running one.
Cancel(n, task) ==
    LET m == [n EXCEPT !.queue = Without(@, Of(task))]
    IN CASE n.running = Nothing -> m
         [] n.running # Nothing /\ n.running.task # task -> m
         [] OTHER ->
              IF Contains(n.sandbox, n.running)
              THEN Pump([Abort(m) EXCEPT !.running = Nothing]) ELSE Abort(m)

Freeze(n) == [DropWork(n) EXCEPT !.frozen = TRUE]

Resume(n) == Pump([n EXCEPT !.frozen = FALSE, !.throttled = FALSE, !.resting = FALSE])

\* The request that waits for an answer fails, and its run with it.
ResetPresigner(n) ==
    IF n.waiting = Nothing THEN n
    ELSE [n EXCEPT !.runs[n.waiting] = NoRun, !.waiting = Nothing]

\* onClosed: what rode on the socket is void.
Disconnected(n) ==
    [DropWork(ResetPresigner(n)) EXCEPT !.frozen = FALSE, !.throttled = FALSE]

\* Orchestrator.stop, and the close event that follows.
Stopped(n) == [Disconnected(n) EXCEPT !.stopped = TRUE]

\* SocketPresigner.deliver: an answer to another request is stray, one without
\* URLs answers any.
Delivered(n, m) == n.waiting # Nothing /\ (~m.granted \/ m.assign = n.waiting)

Deliver(n, m) ==
    \/ ~Delivered(n, m) /\ node' = n /\ UNCHANGED up
    \/ /\ Delivered(n, m) /\ m.granted
       /\ node' = [n EXCEPT !.runs[n.waiting].phase = "uploading", !.waiting = Nothing]
       /\ UNCHANGED up
    \/ /\ Delivered(n, m) /\ ~m.granted
       /\ RunEnds([n EXCEPT !.waiting = Nothing], n.waiting, "released")

\* The socket is closed on the node's side: its unread messages are gone.
Leaves(n) ==
    /\ node' = n
    /\ socket' = "closed"
    /\ up' = Append(up, Closed)
    /\ down' = <<>>
    /\ UNCHANGED <<sockets, refused>>

\* The node reads a message.
Receive ==
    /\ down # <<>>
    /\ UNCHANGED cp
    /\ LET m == Head(down)
           Read == down' = Tail(down) /\ UNCHANGED sockets
           Obey(n) == node' = n /\ UNCHANGED <<socket, up, refused>> /\ Read
       IN \/ m.t = "welcome" /\ socket' = "welcomed" /\ UNCHANGED <<node, up, refused>> /\ Read
          \/ /\ m.t = "assign"
             /\ node' = Accept(node, m.assign)
             /\ refused' = IF Takes(node, m.assign) THEN refused ELSE refused \cup {m.assign}
             /\ UNCHANGED <<socket, up>> /\ Read
          \/ m.t = "cancel" /\ Obey(Cancel(node, m.task))
          \/ m.t = "presigned" /\ Deliver(node, m) /\ UNCHANGED <<socket, refused>> /\ Read
          \/ m = Command("freeze") /\ Obey(Freeze(node))
          \/ m = Command("throttle") /\ Obey([node EXCEPT !.throttled = TRUE])
          \/ m = Command("resume") /\ Obey(Resume(node))
          \/ m = Command("close") /\ Leaves(Stopped(node))
          \/ m.t = "close" /\ Leaves(Disconnected(node))

\* The network closes the socket.
Break ==
    /\ socket # "closed"
    /\ Leaves(Disconnected(node))
    /\ UNCHANGED cp

\* connectOnce: a new socket, and hello.
Connect ==
    /\ socket = "closed" /\ ~node.stopped /\ sockets < MaxConnections /\ Moves < MaxMoves
    /\ socket' = "open" /\ sockets' = sockets + 1
    /\ up' = Append(up, Hello)
    /\ UNCHANGED <<node, down, cp, refused>>
-----------------------------------------------------------------------------
(* The control plane. *)

\* With its close still unread the socket is dead, and what is sent is lost.
Send(m, unread) == down' = IF Contains(unread, Closed) THEN down ELSE Append(down, m)
Busy == UNCHANGED <<node, socket, sockets, refused>>

\* assignTask
Assign(task) ==
    /\ cp.known /\ cp.commanded # "freeze"
    /\ Cardinality(cp.open) < MaxInFlight
    /\ \A a \in cp.open : a.task # task
    /\ cp.attempts[task] < MaxAttempts /\ Moves < MaxMoves
    /\ LET a == [task |-> task, attempt |-> cp.attempts[task] + 1]
       IN /\ cp' = [cp EXCEPT !.attempts[task] = a.attempt, !.open = @ \cup {a}]
          /\ Send(AssignMsg(a), up)
    /\ UNCHANGED up /\ Busy

\* cancelOthers: the task settled otherwise, was contested, or ended.
CancelAttempt(a) ==
    /\ a \in cp.open
    /\ cp' = [cp EXCEPT !.open = @ \ {a}]
    /\ Send(CancelMsg(a.task), up)
    /\ UNCHANGED up /\ Busy

\* commandHalf and resumeAll.  A frozen node stays frozen in the ledger.
Operate(op) ==
    /\ cp.known /\ cp.commands < MaxCommands /\ Moves < MaxMoves
    /\ op = "resume" => cp.commanded = "throttle"
    /\ cp' = [cp EXCEPT
                !.commands = @ + 1,
                !.commanded = CASE op = "freeze" -> "freeze"
                                [] op = "throttle" /\ @ # "freeze" -> "throttle"
                                [] op = "resume" -> "none"
                                [] OTHER -> @]
    /\ Send(Command(op), up)
    /\ UNCHANGED up /\ Busy

Forget == [cp EXCEPT !.known = FALSE, !.open = {}, !.commanded = "none"]

\* The node was silent for too long, or sent what it may not: its connection is
\* closed and its attempts are lost.
Drop ==
    /\ cp.known
    /\ cp' = Forget
    /\ Send(Close, up)
    /\ UNCHANGED up /\ Busy

\* The control plane reads a message.  Of a connection it has dropped it reads
\* nothing any more.  A presign may go unanswered: the store failed.
Handle ==
    /\ up # <<>> /\ up' = Tail(up)
    /\ Busy
    /\ LET m == Head(up)
       IN \/ m.t = "hello" /\ cp' = [cp EXCEPT !.known = TRUE] /\ Send(Welcome, Tail(up))
          \/ m.t = "closed" /\ cp' = Forget /\ UNCHANGED down
          \/ m.t = "result" /\ cp' = [cp EXCEPT !.open = @ \ {m.assign}] /\ UNCHANGED down
          \/ m.t = "presign" /\ UNCHANGED <<cp, down>>
          \/ /\ m.t = "presign" /\ UNCHANGED cp
             /\ cp.known /\ \E granted \in BOOLEAN : Send(Presigned(m.assign, granted), Tail(up))
-----------------------------------------------------------------------------
Init ==
    /\ node = [queue |-> <<>>, running |-> Nothing, runs |-> [a \in Assigns |-> NoRun],
               sandbox |-> <<>>, waiting |-> Nothing, frozen |-> FALSE,
               throttled |-> FALSE, resting |-> FALSE, stopped |-> FALSE]
    /\ socket = "closed" /\ sockets = 0
    /\ down = <<>> /\ up = <<>>
    /\ cp = [known |-> FALSE, commanded |-> "none", open |-> {},
             attempts |-> [task \in Tasks |-> 0], commands |-> 0]
    /\ refused = {}

Next ==
    \/ \E a \in Assigns : RunSteps(a) \/ CancelAttempt(a)
    \/ RestOver
    \/ Receive \/ Break \/ Connect
    \/ \E task \in Tasks : Assign(task)
    \/ \E op \in Ops : Operate(op)
    \/ Drop \/ Handle

Spec == Init /\ [][Next]_vars

\* Fetches, the sandbox, the presign and the uploads each have a deadline.
FairSpec ==
    /\ Spec
    /\ \A a \in Assigns : WF_vars(RunSteps(a))
    /\ WF_vars(RestOver)
-----------------------------------------------------------------------------
(* Properties. *)

Run == [phase : {"none", "fetching", "sandboxed", "presigning", "uploading"},
        link : 0..MaxConnections]

Node == [queue : Seq(Assigns), running : Assigns \cup {Nothing}, runs : [Assigns -> Run],
         sandbox : Seq(Assigns), waiting : Assigns \cup {Nothing}, frozen : BOOLEAN,
         throttled : BOOLEAN, resting : BOOLEAN, stopped : BOOLEAN]

Ledger == [known : BOOLEAN, commanded : {"none", "throttle", "freeze"},
           open : SUBSET Assigns, attempts : [Tasks -> 0..MaxAttempts], commands : Nat]

ToNode == {Welcome, Close} \cup {AssignMsg(a) : a \in Assigns}
             \cup {CancelMsg(task) : task \in Tasks} \cup {Command(op) : op \in Ops}
             \cup {Presigned(a, granted) : a \in Assigns, granted \in BOOLEAN}

ToPlane == {Hello, Closed} \cup {Presign(a) : a \in Assigns}
              \cup {Result(a, outcome) : a \in Assigns, outcome \in Reports}

TypeOK ==
    /\ node \in Node /\ cp \in Ledger
    /\ socket \in {"closed", "open", "welcomed"} /\ sockets \in 0..MaxConnections
    /\ down \in Seq(ToNode) /\ up \in Seq(ToPlane)
    /\ IsFiniteSet(cp.open) /\ Cardinality(cp.open) =< MaxInFlight
    /\ refused \subseteq Assigns

\* A node's parts agree, s sockets having been opened: a run is in the sandbox,
\* or waits for URLs, when its phase says so; what is queued has not begun; and
\* what the loop runs came by the present socket.
Coherent(n, s) ==
    /\ IsInjective(n.queue) /\ IsInjective(n.sandbox)
    /\ \A a \in Assigns : n.runs[a].phase = "sandboxed" <=> a \in Range(n.sandbox)
    /\ \A a \in Assigns : n.runs[a].phase = "presigning" <=> n.waiting = a
    /\ \A a \in Range(n.queue) : n.runs[a].phase = "none"
    /\ n.running # Nothing => n.runs[n.running].phase # "none" /\ n.runs[n.running].link = s
    /\ \A a \in Assigns : n.runs[a].link <= s

\* An assignment is sent once, and is not at the node before it is there.
SentOnce(n, d) ==
    \A i \in DOMAIN d : d[i].t = "assign" =>
        /\ d[i].assign \notin Range(n.queue) /\ n.runs[d[i].assign].phase = "none"
        /\ \A j \in DOMAIN d : d[j] = d[i] => j = i

\* Attempts are numbered: what the node or the way to it has, the control plane
\* has numbered before.
Numbered(n, d, c) ==
    /\ \A a \in Assigns :
          \/ a \in c.open \/ a \in Range(n.queue) \/ n.runs[a].phase # "none"
          \/ \E i \in DOMAIN d : d[i] = AssignMsg(a)
          => a.attempt <= c.attempts[a.task]
    /\ \A a, b \in c.open : a.task = b.task => a = b
    /\ c.open # {} => c.known

\* A node without a welcome has nothing to do.
Idle(n, so) ==
    so # "welcomed" => n.queue = <<>> /\ n.running = Nothing /\ ~n.frozen

\* Between two greetings a close is read, and none is read from a node that is
\* known.
Greeted(u, c) ==
    /\ \A i, j \in DOMAIN u : i < j /\ u[i] = Hello /\ u[j] = Hello =>
          \E k \in DOMAIN u : i < k /\ k < j /\ u[k] = Closed
    /\ \A i \in DOMAIN u : c.known /\ u[i] = Hello =>
          \E k \in DOMAIN u : k < i /\ u[k] = Closed

\* The present socket carries nothing before its welcome, and a socket that is
\* closed has said so.
Framed(so, d, u, c) ==
    /\ so = "closed" =>
          /\ d = <<>>
          /\ c.known => \E k \in DOMAIN u : u[k] = Closed
          /\ \A i \in DOMAIN u : u[i] = Hello => \E k \in DOMAIN u : i < k /\ u[k] = Closed
    /\ so = "open" =>
          IF d = <<>> THEN ~c.known \/ \E k \in DOMAIN u : u[k] = Closed
          ELSE Head(d) = Welcome
    /\ \A i \in DOMAIN u :
          u[i] = Hello /\ (\A k \in DOMAIN u : i < k => u[k] # Closed) => d = <<>> /\ so = "open"

Leaving(u) == \E k \in DOMAIN u : u[k] = Closed

\* A cancel on its way is of an attempt sent before it: what is open of that
\* task was sent after it.
CancelsPast(d, u, c) ==
    \A i \in DOMAIN d : \A a \in c.open : d[i] = CancelMsg(a.task) =>
        Leaving(u) \/ \E j \in DOMAIN d : i < j /\ d[j] = AssignMsg(a)

\* A frozen node is known to be: nobody resumes it on that connection.
Frozen(n, d, u, c) ==
    /\ n.frozen \/ (\E i \in DOMAIN d : d[i] = Command("freeze")) =>
          c.commanded = "freeze" \/ ~c.known \/ Leaving(u)
    /\ \A i \in DOMAIN d : d[i] = Command("resume") =>
          ~n.frozen /\ \A j \in DOMAIN d : j < i => d[j] # Command("freeze")

\* An attempt the control plane counts as running is on its way to the node,
\* held there or reported, unless the node would not take it, left, or was
\* frozen: nothing else loses one.
Accounted ==
    \A a \in cp.open :
        \/ Contains(down, AssignMsg(a)) \/ a \in Held(node)
        \/ \E outcome \in Reports : Contains(up, Result(a, outcome))
        \/ a \in refused
        \/ Contains(up, Closed) \/ cp.commanded = "freeze"

\* Unless it is frozen, what a node runs for its present socket is the task it
\* counts as running: runs never overlap, and none outlives its place, whatever
\* was dropped, cancelled or throttled meanwhile.
OneAtATime ==
    ~node.frozen /\ socket # "closed" =>
        {a \in Alive(node) : node.runs[a].link = sockets} \subseteq {node.running}

\* The inductive invariant: the node's parts and the two channels between it and
\* the control plane agree, through closes, late answers and new sockets.
IInv ==
    /\ TypeOK /\ Accounted /\ OneAtATime
    /\ Coherent(node, sockets) /\ SentOnce(node, down) /\ Numbered(node, down, cp)
    /\ Idle(node, socket) /\ Greeted(up, cp) /\ Framed(socket, down, up, cp)
    /\ CancelsPast(down, up, cp) /\ Frozen(node, down, up, cp)

\* A node is done some day with every assignment it holds, whatever the store,
\* the socket and the control plane leave unanswered.
HeldEnds == \A a \in Assigns : a \in Held(node) ~> a \notin Held(node)
=============================================================================
