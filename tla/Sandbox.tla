------------------------------- MODULE Sandbox -------------------------------
(***************************************************************************)
(* One sandbox host of a node under Node (design section 4.2;              *)
(* packages/sandbox/src: host.ts, adapters/node-host.ts, bridge.ts,        *)
(* serve.ts, node-worker.ts, blob-reader.ts).  The host runs one task at a *)
(* time in a worker thread, kills the thread at the deadline and starts    *)
(* another; the thread blocks on a shared buffer while the host fetches    *)
(* the blob it reads.  The host and its threads run in parallel, and the   *)
(* messages of a thread outlive it.                                        *)
(*                                                                         *)
(* Abstractions.  A blob is its pieces, each as long as the buffer but the *)
(* last, which is shorter; every read is of a whole blob, since the reader *)
(* caches.  The cache's eviction, the file system a task sees and what its *)
(* program computes are left out: a running task reads any blobs and ends  *)
(* at any time or never.  terminate() stops a thread at once.              *)
(***************************************************************************)
EXTENDS Naturals, FiniteSets, SequencesExt

CONSTANTS
    Blobs,        \* hashes
    Null,         \* null
    Pieces,       \* pieces of a blob
    MaxRuns,      \* bound: calls of run()
    MaxTrouble    \* bound: crashes of a thread, fetches that fail

ASSUME SandboxAssumption ==
    /\ Null \notin Blobs \cup (1..MaxRuns)
    /\ Pieces \in Nat \ {0} /\ MaxRuns \in Nat \ {0} /\ MaxTrouble \in Nat

Runs == 1..MaxRuns
Threads == 1..MaxRuns   \* a run spawns at most one

VARIABLES
    host,      \* createSandboxHost's state
    thread,    \* the worker threads: spawned in order, then alive, then dead
    buffer,    \* the shared buffer: its status and the piece in its region
    posted,    \* per thread, what it posted and the host has not read
    fetches,   \* blob requests the host is serving
    trouble

sandboxVars == <<host, thread, buffer, posted, fetches, trouble>>
-----------------------------------------------------------------------------
(* The host. *)

Fate(kind, r) == [kind |-> kind, of |-> r]

\* finish: the pending run is settled, if there is one, with run r's fate.
Finish(h, kind, r) ==
    IF h.pending = Null THEN h
    ELSE [h EXCEPT !.settled[h.pending.run] = Fate(kind, r), !.pending = Null]
FinishOwn(h, kind) == Finish(h, kind, h.pending.run)

ResultOf(r) == [t |-> "result", run |-> r]
Request(b, p) == [t |-> "blob", blob |-> b, piece |-> p]
Down == [t |-> "down"]

\* terminate(): the thread stops, its exit is reported later.
Terminated(w) == [thread EXCEPT ![w].alive = FALSE]
ExitOf(w) == [posted EXCEPT ![w] = Append(@, Down)]

\* run(): behind the runs called before it.
Call(r) ==
    /\ host.called = r - 1 /\ ~host.disposed
    /\ host' = [host EXCEPT !.called = r, !.queue = Append(@, r)]
    /\ UNCHANGED <<thread, buffer, posted, fetches, trouble>>

Unborn == [alive |-> FALSE, inbox |-> <<>>, task |-> Null, asks |-> Null,
           got |-> <<>>, cache |-> [b \in Blobs |-> <<>>]]

\* runOne on a disposed host, once the run before it is settled.
RunDisposed ==
    /\ host.disposed /\ host.pending = Null /\ host.queue # <<>>
    /\ host' = [host EXCEPT !.queue = Tail(@),
                           !.settled[Head(host.queue)] = Fate("disposed", Head(host.queue))]
    /\ UNCHANGED <<thread, buffer, posted, fetches, trouble>>

\* runOne with ensureWorker: the message of a thread that just died is lost.
RunOne ==
    /\ ~host.disposed /\ host.pending = Null /\ host.queue # <<>>
    /\ LET r == Head(host.queue)
           spawns == host.worker = Null
           w == IF spawns THEN host.spawned + 1 ELSE host.worker
       IN  /\ host' = [host EXCEPT !.queue = Tail(@), !.worker = w,
                           !.spawned = IF spawns THEN w ELSE @,
                           !.pending = [run |-> r, worker |-> w]]
           /\ thread' = IF spawns THEN [thread EXCEPT ![w].alive = TRUE, ![w].inbox = <<r>>]
                        ELSE IF thread[w].alive
                             THEN [thread EXCEPT ![w].inbox = Append(@, r)]
                             ELSE thread
    /\ UNCHANGED <<buffer, posted, fetches, trouble>>

\* A deadline that only kills.
DeadlineBug ==
    /\ host.pending # Null
    /\ LET w == host.pending.worker
       IN  /\ thread' = Terminated(w)
           /\ posted' = IF thread[w].alive THEN ExitOf(w) ELSE posted
           /\ host' = [host EXCEPT !.worker = IF @ = w THEN Null ELSE @]
    /\ UNCHANGED <<buffer, fetches, trouble>>

\* The deadline's timer.
Deadline ==
    /\ host.pending # Null
    /\ LET w == host.pending.worker
       IN  /\ thread' = Terminated(w)
           /\ posted' = IF thread[w].alive THEN ExitOf(w) ELSE posted
           /\ host' = [FinishOwn(host, "deadline")
                          EXCEPT !.worker = IF @ = w THEN Null ELSE @]
    /\ UNCHANGED <<buffer, fetches, trouble>>

Dispose ==
    /\ ~host.disposed
    /\ host' = [FinishOwn(host, "disposed") EXCEPT !.disposed = TRUE, !.worker = Null]
    /\ IF host.worker = Null \/ ~thread[host.worker].alive THEN UNCHANGED <<thread, posted>>
       ELSE thread' = Terminated(host.worker) /\ posted' = ExitOf(host.worker)
    /\ UNCHANGED <<buffer, fetches, trouble>>

\* Any result is the pending run's.
OnResultBug(r) == host' = Finish(host, "ok", r)

\* onMessage with a result.
OnResult(r) ==
    host' = IF host.pending # Null /\ host.pending.run = r THEN Finish(host, "ok", r) ELSE host

\* Any thread's end is the present one's.
OnErrorBug(w) ==
    host' = FinishOwn([host EXCEPT !.worker = Null], "error")

\* onError: a thread already replaced reports its end late.
OnError(w) ==
    host' = IF host.worker # w THEN host
            ELSE FinishOwn([host EXCEPT !.worker = Null], "error")

\* The host reads a thread's next message; onOther serves what is no result.
Hear(w) ==
    /\ posted[w] # <<>>
    /\ LET m == Head(posted[w])
       IN  /\ CASE m.t = "result" -> OnResult(m.run)
                [] m.t = "down" -> OnError(w)
                [] m.t = "blob" -> UNCHANGED host
           /\ fetches' = IF m.t = "blob"
                         THEN fetches \cup {[from |-> w, blob |-> m.blob, piece |-> m.piece]}
                         ELSE fetches
    /\ posted' = [posted EXCEPT ![w] = Tail(@)]
    /\ UNCHANGED <<thread, buffer, trouble>>

\* serviceBlobRequest, once its fetch is back, whoever waits by then.
Answered(f) ==
    /\ f.piece =< Pieces
    /\ buffer' = [status |-> "ready", blob |-> f.blob, piece |-> f.piece]
    /\ fetches' = fetches \ {f}
    /\ UNCHANGED <<host, thread, posted, trouble>>

\* The same, past the blob's end, or when the store fails it.
NotFound(f) ==
    /\ \/ f.piece > Pieces /\ UNCHANGED trouble
       \/ trouble < MaxTrouble /\ trouble' = trouble + 1
    /\ buffer' = [buffer EXCEPT !.status = "notFound"]
    /\ fetches' = fetches \ {f}
    /\ UNCHANGED <<host, thread, posted>>
-----------------------------------------------------------------------------
(* A thread. *)

Computes(w) == thread[w].alive /\ thread[w].task # Null /\ thread[w].asks = Null

\* serveTasks takes the next message.
TakeTask(w) ==
    /\ thread[w].alive /\ thread[w].task = Null /\ thread[w].inbox # <<>>
    /\ thread' = [thread EXCEPT ![w].task = Head(thread[w].inbox), ![w].inbox = Tail(@)]
    /\ UNCHANGED <<host, buffer, posted, fetches, trouble>>

\* The reader posts its request and blocks.
Ask(w, b, p, got) ==
    /\ buffer' = [buffer EXCEPT !.status = "waiting"]
    /\ posted' = [posted EXCEPT ![w] = Append(@, Request(b, p))]
    /\ thread' = [thread EXCEPT ![w].asks = [blob |-> b, piece |-> p], ![w].got = got]

\* The program reads a file whose blob is not cached.
ReadBlob(w, b) ==
    /\ Computes(w) /\ thread[w].cache[b] = <<>>
    /\ Ask(w, b, 1, <<>>)
    /\ UNCHANGED <<host, fetches, trouble>>

\* The read is over: its bytes are cached, or there are none.
Done(w, got) ==
    /\ thread' = [thread EXCEPT ![w].asks = Null, ![w].got = <<>>,
                                ![w].cache[thread[w].asks.blob] = got]
    /\ UNCHANGED <<buffer, posted>>

\* The thread wakes: a piece shorter than the buffer, or a failure, ends the read.
Wake(w) ==
    /\ thread[w].alive /\ thread[w].asks # Null /\ buffer.status # "waiting"
    /\ LET t == thread[w]
           got == Append(t.got, [blob |-> buffer.blob, piece |-> buffer.piece])
       IN  IF buffer.status = "notFound" THEN Done(w, t.got)
           ELSE IF buffer.piece = Pieces THEN Done(w, got)
           ELSE Ask(w, t.asks.blob, t.asks.piece + 1, got)
    /\ UNCHANGED <<host, fetches, trouble>>

\* runTask returns and the result is posted.
Return(w) ==
    /\ Computes(w)
    /\ posted' = [posted EXCEPT ![w] = Append(@, ResultOf(thread[w].task))]
    /\ thread' = [thread EXCEPT ![w].task = Null]
    /\ UNCHANGED <<host, buffer, fetches, trouble>>

\* The thread dies by itself, which "error" and "exit" both report.
Crash(w) ==
    /\ thread[w].alive /\ trouble < MaxTrouble /\ trouble' = trouble + 1
    /\ thread' = Terminated(w)
    /\ posted' = [posted EXCEPT ![w] = @ \o <<Down, Down>>]
    /\ UNCHANGED <<host, buffer, fetches>>
-----------------------------------------------------------------------------
SandboxInit ==
    /\ host = [called |-> 0, queue |-> <<>>, pending |-> Null, worker |-> Null, spawned |-> 0,
               disposed |-> FALSE, settled |-> [r \in Runs |-> Fate("waits", r)]]
    /\ thread = [w \in Threads |-> Unborn]
    /\ buffer = [status |-> "waiting", blob |-> Null, piece |-> 0]
    /\ posted = [w \in Threads |-> <<>>]
    /\ fetches = {}
    /\ trouble = 0

HostStep ==
    \/ \E r \in Runs : Call(r)
    \/ RunDisposed \/ RunOne \/ Deadline \/ Dispose
    \/ \E w \in Threads : Hear(w)
    \/ \E f \in fetches : Answered(f) \/ NotFound(f)

ThreadStep ==
    \E w \in Threads :
        \/ TakeTask(w) \/ Wake(w) \/ Return(w) \/ Crash(w)
        \/ \E b \in Blobs : ReadBlob(w, b)

SandboxNext == HostStep \/ ThreadStep
SandboxSpec == SandboxInit /\ [][SandboxNext]_sandboxVars

\* Microtasks run and timers fire; threads and fetches need not answer.
FairSandboxSpec == SandboxSpec /\ WF_sandboxVars(RunDisposed \/ RunOne) /\ WF_sandboxVars(Deadline)
-----------------------------------------------------------------------------
(* Properties. *)

Host == [called : 0..MaxRuns, queue : Seq(Runs), disposed : BOOLEAN,
         pending : {Null} \cup [run : Runs, worker : Threads],
         worker : {Null} \cup Threads, spawned : 0..MaxRuns,
         settled : [Runs -> [kind : {"waits", "ok", "error", "deadline", "disposed"}, of : Runs]]]
Piece == [blob : Blobs \cup {Null}, piece : Nat]
Thread == [alive : BOOLEAN, inbox : Seq(Runs), task : {Null} \cup Runs,
           asks : {Null} \cup [blob : Blobs, piece : Nat], got : Seq(Piece), cache : [Blobs -> Seq(Piece)]]
Message == [t : {"result"}, run : Runs] \cup [t : {"blob"}, blob : Blobs, piece : Nat]
              \cup [t : {"down"}]

SandboxTypeOK ==
    /\ host \in Host /\ thread \in [Threads -> Thread] /\ trouble \in Nat
    /\ buffer \in [status : {"waiting", "ready", "notFound"},
                   blob : Blobs \cup {Null}, piece : Nat]
    /\ posted \in [Threads -> Seq(Message)]
    /\ fetches \subseteq [from : Threads, blob : Blobs, piece : Nat]

\* A run is answered with what a thread computed for it or with nothing: the
\* result a killed thread posted before it died never answers the next run.
OwnAnswer == \A r \in Runs : host.settled[r].of = r

\* A thread that still runs is the one the host holds: one that it lost sight
\* of would compute beside its successor for ever, and nobody could kill it.
OneThread == \A w \in Threads : thread[w].alive => host.worker = w

\* What OneThread rests on: the host hears of no end before it came, knows only
\* threads it spawned, spawns no more than it has started runs, and holds the
\* thread of the run that is pending.
DownIsDead ==
    \A w \in Threads : \A i \in DOMAIN posted[w] : posted[w][i].t = "down" => ~thread[w].alive
Spawned ==
    /\ host.worker # Null => host.worker =< host.spawned
    /\ \A w \in Threads : w > host.spawned => posted[w] = <<>>
    /\ host.spawned + Len(host.queue) =< host.called
HoldsPending == host.pending # Null => host.worker = host.pending.worker

SandboxIInv == SandboxTypeOK /\ OneThread /\ OwnAnswer /\ DownIsDead /\ Spawned /\ HoldsPending

\* Every run that is called is settled, whatever its program, the store and
\* the threads do, and whether or not the host is disposed of meanwhile.
RunsSettle == \A r \in Runs : host.called >= r ~> host.settled[r].kind # "waits"

\* blob-reader.ts:4: "the first read of a hash fetches the whole blob once".
\* What a thread keeps under a hash is the blob of that hash.
WholeBlob(b) == [p \in 1..Pieces |-> [blob |-> b, piece |-> p]]
CacheIsBlobs ==
    \A w \in Threads, b \in Blobs : thread[w].cache[b] \in {<<>>, WholeBlob(b)}
=============================================================================
