------------------------------ MODULE Observer ------------------------------
(* The dashboard's observer socket: session, subscribe, snapshot, and the way  *)
(* of a click from the page to the machine through reconnects, silent          *)
(* resubscribes and the spacing of what is sent.  Each handler is a function   *)
(* from the client to the client it leaves; `up` and `down` are the socket.    *)
(* Of the machine only the redundancy matters, which a page shows ahead of the *)
(* echo of its own toggle.                                                     *)
(* Its specification goes by names of its own beside Machine's: what is proved *)
(* of both is in one module, ControlsProofs.                                   *)
EXTENDS Integers, FiniteSets, SequencesExt, Filter

CONSTANTS
    MaxClicks,      \* bound: clicks and uploads
    MaxTrouble      \* bound: closes, unlucky sessions, others' toggles, long waits

ASSUME ObserverAssumption == MaxClicks \in Nat /\ MaxTrouble \in Nat

VARIABLES
    client,     \* the ObserverClient's fields
    up,         \* what the page sent and the control plane has not read
    down,       \* what the control plane sent and the page has not read
    machine,    \* whether it has this page's subscription, and its redundancy
    clicks,     \* the clicks and uploads so far, the controls taken, and their fates
    trouble

observerVars == <<client, up, down, machine, clicks, trouble>>

\* What a person asks for: a toggle of the redundancy, another control, or the
\* presign of an upload.
Kinds == {"toggle", "plain", "presign"}
ClickIds == 1..MaxClicks
Subscription == [kind |-> "subscribe"]
Click(id, kind, on) == [id |-> id, kind |-> kind, on |-> on]
IsPresign(o) == o.kind = "presign"
Connected(c) == c.socket = "open"
Held(o) == [click |-> o, old |-> FALSE]

-----------------------------------------------------------------------------
\* What the client's methods make of its fields.  `out` collects what they send,
\* `told` the clicks dropped with a word to the person, `cleared` those dropped
\* without one, because the machine is off.

\* Controls wait for the next live socket; a presign does not.
Waiting(c) == [i \in DOMAIN c.outbox |-> Held(c.outbox[i])]
Presigns(waiting) == {h \in ToSet(waiting) : IsPresign(h.click)}
HoldAllBug(c) == [c EXCEPT !.held = @ \o Without(Waiting(c), Presigns(Waiting(c)))]
HoldAll(c) ==
    [c EXCEPT !.outbox = <<>>, !.held = @ \o Without(Waiting(c), Presigns(Waiting(c)))]
SettlePresign(c) == [c EXCEPT !.presign = 0]

\* Send the first of the outbox, and set the timer for the next: controls go
\* out spaced under the observer rate limit.
Waits(c) == c.justSent /\ c.outbox # <<>>
Send(c) ==
    LET sent == [c EXCEPT !.out = Append(@, Head(c.outbox)), !.outbox = Tail(@),
                          !.justSent = TRUE]
    IN  [sent EXCEPT !.spacing = Waits(sent)]
Drain(c) ==
    CASE c.spacing \/ c.outbox = <<>> -> c
      [] ~c.spacing /\ Waits(c) -> [c EXCEPT !.spacing = TRUE]
      [] ~c.spacing /\ c.outbox # <<>> /\ ~c.justSent ->
            IF Connected(c) THEN Send(c) ELSE SettlePresign(HoldAll(c))

\* This page knows the redundancy it asked for: it shows it, and expects the echo.
Anticipate(c, o) ==
    IF o.kind # "toggle" THEN c ELSE [c EXCEPT !.echo = @ + 1, !.shown = o.on]
SendStatus(c, o) ==
    LET ahead == Anticipate(c, o)
    IN  IF Connected(c) THEN Drain([ahead EXCEPT !.outbox = Append(@, o)])
        ELSE [ahead EXCEPT !.held = Append(@, Held(o))]
Presign(c, o) == Drain([c EXCEPT !.presign = o.id, !.outbox = Append(@, o)])

\* What was held goes out once the new socket is live, unless it waited too long.
\* The snapshot carried the old redundancy: a held toggle is shown again.
Clicked(held) == [i \in DOMAIN held |-> held[i].click]
Fresh(c) == Clicked(Without(c.held, {h \in ToSet(c.held) : h.old}))
Toggles(clicked) == Without(clicked, {o \in ToSet(clicked) : o.kind # "toggle"})
HeldIds(c) == {h.click.id : h \in ToSet(c.held)}
TooOld(c) == HeldIds(c) \ {o.id : o \in ToSet(Fresh(c))}
ReleaseHeldBug(c) ==
    [c EXCEPT !.held = <<>>, !.outbox = @ \o Fresh(c), !.told = TooOld(c)]
ReleaseHeld(c) ==
    LET toggles == Toggles(Fresh(c))
    IN  Drain([c EXCEPT !.held = <<>>, !.outbox = @ \o Fresh(c), !.told = TooOld(c),
                        !.shown = IF toggles = <<>> THEN @ ELSE Last(toggles).on])

ClearTimersBug(c) == [c EXCEPT !.spacing = FALSE]
ClearTimers(c) == [c EXCEPT !.timer = "none", !.spacing = FALSE]
Later(c) == [c EXCEPT !.timer = "connect"]
Connect(c) ==
    [c EXCEPT !.timer = "none", !.fetching = TRUE,
              !.pill = IF c.resubscribing THEN @ ELSE "connecting"]
Resubscribe(c) ==
    IF c.resubscribing THEN c
    ELSE [HoldAll(ClearTimers(c)) EXCEPT !.resubscribing = TRUE, !.timer = "resubscribe"]

\* A message of the socket.  An answer to a presign that is not pending is not ours.
ReadSnapshot(c, m) ==
    ReleaseHeld([c EXCEPT !.shown = m.on, !.resubscribing = FALSE, !.pill = "live"])
ReadEchoBug(c) == [c EXCEPT !.echo = @ - 1]
ReadEcho(c) == IF c.echo > 0 THEN [c EXCEPT !.echo = @ - 1] ELSE Resubscribe(c)
ReadAnswer(c, m) == IF c.presign = m.id THEN SettlePresign(c) ELSE c
OnMessage(c, m) ==
    CASE m.kind = "snapshot" -> ReadSnapshot(c, m)
      [] m.kind = "applied" -> ReadEcho(c)
      [] m.kind = "presigned" -> ReadAnswer(c, m)

\* The socket closed: the server says why.
OnClose(c, why) ==
    LET closed == SettlePresign(HoldAll([ClearTimers(c) EXCEPT !.socket = "none"]))
    IN  CASE why = "outdated" -> [closed EXCEPT !.pill = "outdated"]
          [] why = "rotating" -> Later([closed EXCEPT !.pill = "connecting"])
          [] why = "full" -> Later([closed EXCEPT !.pill = "full", !.resubscribing = FALSE])
          [] why = "lost" -> Later([closed EXCEPT !.resubscribing = FALSE])

\* The session function's answer, or none.
OnSession(c, answer) ==
    LET got == [c EXCEPT !.fetching = FALSE, !.off = answer = "off"]
    IN  CASE answer = "error" ->
                Later([c EXCEPT !.fetching = FALSE, !.resubscribing = FALSE,
                                !.pill = IF c.resubscribing THEN "connecting" ELSE @])
          [] answer = "off" ->
                Later([got EXCEPT !.held = <<>>, !.pill = "off", !.cleared = HeldIds(c)])
          [] answer = "starting" -> Later([got EXCEPT !.pill = "starting"])
          [] answer = "on" -> [got EXCEPT !.socket = "opening"]

-----------------------------------------------------------------------------
ObserverInit ==
    /\ client = [socket |-> "none", timer |-> "none", fetching |-> TRUE, spacing |-> FALSE,
                 justSent |-> FALSE, resubscribing |-> FALSE, off |-> FALSE,
                 pill |-> "connecting", outbox |-> <<>>, held |-> <<>>, presign |-> 0,
                 echo |-> 0, shown |-> FALSE, out |-> <<>>, told |-> {}, cleared |-> {}]
    /\ up = <<>> /\ down = <<>>
    /\ machine = [subscribed |-> FALSE, redundancy |-> FALSE]
    /\ clicks = [asked |-> 0, taken |-> {}, sent |-> <<>>, told |-> {}, cleared |-> {}]
    /\ trouble = 0

Goes == trouble < MaxTrouble /\ trouble' = trouble + 1
Stays == trouble' = trouble
Clean(c) == [c EXCEPT !.out = <<>>, !.told = {}, !.cleared = {}]
Fates(c) ==
    [clicks EXCEPT !.sent = @ \o [i \in DOMAIN c.out |-> c.out[i].id],
                   !.told = @ \cup c.told, !.cleared = @ \cup c.cleared]
\* A method that leaves `c` has run, on a socket that stays as it is.
Run(c) ==
    \E left \in {c} :
        /\ client' = Clean(left) /\ up' = up \o left.out
        /\ clicks' = Fates(left)

\* A person clicks: taken unless the machine is off.
Press(kind, on) ==
    /\ clicks.asked < MaxClicks /\ Stays
    /\ LET id == clicks.asked + 1
           taken == ~client.off
           c == IF taken THEN SendStatus(client, Click(id, kind, on)) ELSE client
       IN  /\ client' = Clean(c) /\ up' = up \o c.out
           /\ clicks' = [Fates(c) EXCEPT !.asked = id,
                             !.taken = IF taken THEN @ \cup {id} ELSE @]
    /\ UNCHANGED <<down, machine>>
\* An upload asks for its URLs: one at a time, and only of a live socket.
Upload ==
    /\ clicks.asked < MaxClicks /\ Connected(client) /\ client.presign = 0 /\ Stays
    /\ LET c == Presign(client, Click(clicks.asked + 1, "presign", FALSE))
       IN  /\ client' = Clean(c) /\ up' = up \o c.out
           /\ clicks' = [Fates(c) EXCEPT !.asked = @ + 1]
    /\ UNCHANGED <<down, machine>>
UploadTimesOut ==
    /\ client.presign # 0 /\ Stays
    /\ client' = SettlePresign(client)
    /\ UNCHANGED <<up, down, machine, clicks>>

\* The spacing is over: the send timer fires, if it is set.
SpacingOver ==
    /\ client.justSent /\ Stays
    /\ LET rested == [client EXCEPT !.justSent = FALSE, !.spacing = FALSE]
       IN  Run(IF client.spacing THEN Drain(rested) ELSE rested)
    /\ UNCHANGED <<down, machine>>
\* What is held has waited longer than CONTROL_HOLD_MS.
WaitLong ==
    /\ \E h \in ToSet(client.held) : ~h.old
    /\ Goes
    /\ client' = [client EXCEPT !.held = [i \in DOMAIN @ |-> [@[i] EXCEPT !.old = TRUE]]]
    /\ UNCHANGED <<up, down, machine, clicks>>

Reconnect ==
    /\ client.timer = "connect" /\ Stays
    /\ client' = Connect(client)
    /\ UNCHANGED <<up, down, machine, clicks>>
\* What the control plane still does of what was sent on a socket that is gone.
Heard(sent) == Without(sent, {o \in ToSet(sent) : o.kind \in {"subscribe", "presign"}})

\* The silent resubscribe drops the old socket without a word.  What it sent
\* still arrives.
SwapSocket ==
    /\ client.timer = "resubscribe" /\ Stays
    /\ client' = Connect([client EXCEPT !.socket = "none"])
    /\ up' = Heard(up)
    /\ down' = <<>> /\ machine' = [machine EXCEPT !.subscribed = FALSE]
    /\ UNCHANGED clicks
SessionAnswers(answer) ==
    /\ client.fetching
    /\ IF answer = "on" THEN Stays ELSE Goes
    /\ Run(OnSession(client, answer))
    /\ UNCHANGED <<down, machine>>
\* The socket opens, and the page subscribes.
Open ==
    /\ client.socket = "opening" /\ Stays
    /\ client' = [client EXCEPT !.socket = "open", !.justSent = TRUE]
    /\ up' = Append(up, Subscription)
    /\ UNCHANGED <<down, machine, clicks>>
Read ==
    /\ down # <<>> /\ Stays
    /\ down' = Tail(down)
    /\ Run(OnMessage(client, Head(down)))
    /\ UNCHANGED machine
\* The socket closes; the control plane may still have read some of what it was sent.
Close(why) ==
    /\ client.socket # "none" /\ Goes
    /\ client' = OnClose(client, why)
    /\ \E count \in 0..Len(up) : up' = Heard(SubSeq(up, 1, count))
    /\ down' = <<>> /\ machine' = [machine EXCEPT !.subscribed = FALSE]
    /\ UNCHANGED clicks

\* The control plane reads a message, and tells who is subscribed.
Tell(m) == down' = IF machine'.subscribed THEN Append(down, m) ELSE down
Serve ==
    /\ up # <<>> /\ Stays
    /\ up' = Tail(up)
    /\ LET o == Head(up)
       IN  \/ /\ o.kind = "subscribe"
              /\ machine' = [machine EXCEPT !.subscribed = TRUE]
              /\ Tell([kind |-> "snapshot", on |-> machine.redundancy])
           \/ /\ o.kind = "toggle"
              /\ machine' = [machine EXCEPT !.redundancy = o.on]
              /\ Tell([kind |-> "applied"])
           \/ /\ o.kind = "presign" /\ machine' = machine
              /\ Tell([kind |-> "presigned", id |-> o.id])
           \/ /\ o.kind = "plain" /\ UNCHANGED <<machine, down>>
    /\ UNCHANGED <<client, clicks>>
\* Somebody else toggles the redundancy.
OtherToggles ==
    /\ Goes
    /\ machine' = [machine EXCEPT !.redundancy = ~@]
    /\ Tell([kind |-> "applied"])
    /\ UNCHANGED <<client, up, clicks>>

ObserverNext ==
    \/ \E on \in BOOLEAN : Press("toggle", on)
    \/ Press("plain", FALSE)
    \/ Upload \/ UploadTimesOut \/ SpacingOver \/ WaitLong \/ Reconnect \/ SwapSocket
    \/ \E answer \in {"error", "off", "starting", "on"} : SessionAnswers(answer)
    \/ Open \/ Read \/ Serve \/ OtherToggles
    \/ \E why \in {"outdated", "rotating", "full", "lost"} : Close(why)

ObserverSpec == ObserverInit /\ [][ObserverNext]_observerVars
\* Timers fire, a session is answered, a socket opens or closes, messages arrive.
Fairness ==
    /\ WF_observerVars(SpacingOver) /\ WF_observerVars(Reconnect) /\ WF_observerVars(SwapSocket)
    /\ WF_observerVars(SessionAnswers("on")) /\ WF_observerVars(Open) /\ WF_observerVars(Read) /\ WF_observerVars(Serve)
FairObserverSpec == ObserverSpec /\ Fairness

-----------------------------------------------------------------------------
Clicks == [id : ClickIds, kind : Kinds, on : BOOLEAN]
Holds == [click : Clicks, old : BOOLEAN]
Client ==
    [socket : {"none", "opening", "open"}, timer : {"none", "connect", "resubscribe"},
     fetching : BOOLEAN, spacing : BOOLEAN, justSent : BOOLEAN, resubscribing : BOOLEAN,
     off : BOOLEAN, pill : {"connecting", "starting", "off", "live", "outdated", "full"},
     outbox : Seq(Clicks), held : Seq(Holds), presign : 0..MaxClicks, echo : Nat,
     shown : BOOLEAN, out : Seq(Clicks), told : SUBSET ClickIds, cleared : SUBSET ClickIds]
Answers ==
    [kind : {"snapshot"}, on : BOOLEAN] \cup [kind : {"applied"}]
        \cup [kind : {"presigned"}, id : ClickIds]
Fate ==
    [asked : 0..MaxClicks, taken : SUBSET ClickIds, sent : Seq(ClickIds),
     told : SUBSET ClickIds, cleared : SUBSET ClickIds]

ObserverTypeOK ==
    /\ client \in Client /\ client.out = <<>> /\ client.told = {} /\ client.cleared = {}
    /\ client.echo <= clicks.asked
    /\ up \in Seq(Clicks \cup {Subscription}) /\ down \in Seq(Answers)
    /\ machine \in [subscribed : BOOLEAN, redundancy : BOOLEAN]
    /\ clicks \in Fate /\ trouble \in 0..MaxTrouble

\* A control that was taken is in one place: it waits in the outbox or is held
\* for the next socket, or went out once, or was dropped and the person told, or
\* was dropped because the machine is off.  Closing, swapping and draining move
\* controls between the two queues, and neither lose nor repeat one.
Count(seq, id) == Cardinality({i \in DOMAIN seq : seq[i] = id})
Places(id) ==
    Count([i \in DOMAIN client.outbox |-> client.outbox[i].id], id)
    + Count([i \in DOMAIN client.held |-> client.held[i].click.id], id)
    + Count(clicks.sent, id)
    + Cardinality({fate \in {"told", "cleared"} : id \in clicks[fate]})
ClickInOnePlace == \A id \in clicks.taken : Places(id) = 1

\* The page has one way on: it waits for a timer to connect, fetches a session,
\* or has a socket, and gives up only when it is outdated.  With none it would
\* show a dead machine for ever, with two it would subscribe twice.
OneWayOn ==
    /\ Cardinality({way \in {"timer", "fetch", "socket", "outdated"} :
                        CASE way = "timer" -> client.timer = "connect"
                          [] way = "fetch" -> client.fetching
                          [] way = "socket" -> client.socket # "none"
                          [] way = "outdated" -> client.pill = "outdated"}) = 1
    /\ client.timer = "resubscribe" => client.socket # "none"

\* A control that was taken goes out some day or is dropped, unless the page
\* turned out to be outdated: none waits for ever behind a socket that is gone.
Answered(id) ==
    id \in ToSet(clicks.sent) \cup clicks.told \cup clicks.cleared
ClickAnswered ==
    \A id \in ClickIds : id \in clicks.taken ~> Answered(id) \/ client.pill = "outdated"
-----------------------------------------------------------------------------
\* The inductive invariant, which ClickInOnePlace and OneWayOn follow from.  Its
\* parts speak of a client c and of the clicks k.

\* Exactly one way on.
OneWay(c) ==
    /\ c.timer = "connect" => ~c.fetching /\ c.socket = "none" /\ c.pill # "outdated"
    /\ c.fetching => c.socket = "none" /\ c.pill # "outdated"
    /\ c.socket # "none" => c.pill # "outdated"
    /\ c.timer = "connect" \/ c.fetching \/ c.socket # "none" \/ c.pill = "outdated"
    /\ c.timer = "resubscribe" => c.socket # "none"

\* Only an open socket carries anything to the page.
Carried ==
    client.socket # "open" =>
        down = <<>> /\ ~machine.subscribed /\ Subscription \notin ToSet(up)

\* The clicks in a list s, by an identity f of its elements; each is there once.
ClickId == [o \in Clicks |-> o.id]
HoldId == [h \in Holds |-> h.click.id]
SentId == [id \in ClickIds |-> id]
Of(s, f) == {f[e] : e \in ToSet(s)}
Once(s, f) == \A i, j \in DOMAIN s : f[s[i]] = f[s[j]] => i = j

\* Six places apart from one another.
Apart(a, b, c, d, e, f) ==
    /\ a \cap (b \cup c \cup d \cup e \cup f) = {}
    /\ b \cap (c \cup d \cup e \cup f) = {}
    /\ c \cap (d \cup e \cup f) = {}
    /\ d \cap (e \cup f) = {}
    /\ e \cap f = {}

Gone(c, k) == Of(k.sent, SentId) \cup Of(c.out, ClickId)
Dropped(c, k) == k.told \cup c.told \cup k.cleared \cup c.cleared

\* Each click is in one place and known; a control is in one, an upload may be in none.
OnePlace(c, k) ==
    /\ Once(c.outbox, ClickId) /\ Once(c.held, HoldId)
    /\ Once(k.sent, SentId) /\ Once(c.out, ClickId)
    /\ Apart(Of(c.outbox, ClickId), Of(c.held, HoldId), Of(k.sent, SentId),
             Of(c.out, ClickId), k.told \cup c.told, k.cleared \cup c.cleared)
    /\ Of(c.outbox, ClickId) \cup Of(c.held, HoldId) \cup Gone(c, k) \cup Dropped(c, k)
          \subseteq 1..k.asked
    /\ k.taken \subseteq
          Of(c.outbox, ClickId) \cup Of(c.held, HoldId) \cup Gone(c, k) \cup Dropped(c, k)
    /\ \A o \in ToSet(c.outbox) : IsPresign(o) => o.id \notin k.taken
    /\ \A h \in ToSet(c.held) : ~IsPresign(h.click)

ObserverIInv == ObserverTypeOK /\ OneWay(client) /\ Carried /\ OnePlace(client, clicks)
=============================================================================
