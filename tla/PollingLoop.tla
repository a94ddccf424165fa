---------------------------- MODULE PollingLoop ----------------------------
(***************************************************************************)
(* The Telegram polling loop of the daemon (telegram/polling-loop.ts) with *)
(* the state it drives: the update offset in memory and on disk            *)
(* (offset-manager.ts), the polling state the rest of the daemon reads     *)
(* (polling-status.ts), the fatal window (fatal-window.ts), and the        *)
(* outbound replies that client.ts diverts into the quarantine replay      *)
(* queue (outbound-replay-queue.ts) while polling is quarantined.          *)
(*                                                                         *)
(* The loop is one async function: `at' is the await it is suspended on,   *)
(* and an action is the code from the end of one await to the next.  What  *)
(* runs in between (a registration timeout, a session's reply, a shutdown  *)
(* request, a crash) is an action of its own.                              *)
(***************************************************************************)
EXTENDS Integers, Sequences

CONSTANTS
    Replies,      \* the replies sessions send, numbered in the order they do
    AnyTime,      \* bound: those that may be sent outside a quarantine, too
    Capacity,     \* QUARANTINE_QUEUE_CAP
    Threshold,    \* fatalThreshold
    MaxUpdate,    \* bound: Telegram gets the updates 1..MaxUpdate
    MaxDeaths,    \* bound: how often the process may die
    MayRefuse     \* whether load() may refuse or fail to parse offset.json

ASSUME PollingAssumption ==
    /\ Capacity \in Nat \ {0}
    /\ Threshold \in Nat \ {0}
    /\ MaxUpdate \in Nat
    /\ MaxDeaths \in Nat
    /\ MayRefuse \in BOOLEAN

ASSUME RepliesAssumption == Replies \subseteq Nat

VARIABLES
    at,             \* the await the loop is suspended on
    state,          \* PollingLoop.state = PollingStatusImpl.state
    stopRequested,  \* set by daemon_stop
    fatalWindow,    \* number of timestamps in the fatal window
    offset,         \* OffsetManager.currentOffset
    offsetFile,     \* the offset in offset.json
    next, last,     \* the updates next..last fetched and not yet published
    entries,        \* OutboundReplayQueue.entries
    replaying,      \* the entry drain() has shifted and is posting, or <<>>
    reply,          \* what the sender of each reply has been told
    \* outside the daemon
    arrived,        \* Telegram has received the updates 1..arrived
    confirmed,      \* Telegram has forgotten the updates below confirmed
    copies,         \* how many copies of a reply the chat shows
    deaths,         \* how often the process has died
    \* history
    published,      \* the inbound_update events, in order, of all incarnations
    lost,           \* updates fetched and not yet published when it died
    accepted,       \* the replies enqueue() took, in order, since the start
    resolved        \* the quarantine_replay_resolved events since the start

loopVars    == <<at, state, stopRequested, fatalWindow>>
updateVars  == <<offset, offsetFile, next, last>>
replyVars   == <<entries, replaying, reply>>
worldVars   == <<arrived, confirmed, copies, deaths>>
historyVars == <<published, lost, accepted, resolved>>
vars == <<loopVars, updateVars, replyVars, worldVars, historyVars>>

States == {"running", "quarantine", "paused"}
Awaits == {"poll", "backoff", "cooldown", "probe", "drain", "persist",
           "publish", "pausedSleep", "stopped", "dead"}
Told   == {"none", "posting", "queued", "stub", "capacity_exceeded",
           "delivered", "disconnected"}

InHand == next..last

Larger(a, b) == IF a > b THEN a ELSE b

-----------------------------------------------------------------------------
(* The loop's control *)

\* The handlers of the event loop run only while the loop awaits a timer or
\* the network.  Between persist and the last publish it awaits an already
\* settled promise, so only a crash can come in between.
Suspended == at \notin {"persist", "publish", "dead"}

\* Variant with a bug: a loop head that forgets the stop request.
LoopTopWithoutStop(st) ==
    CASE st = "running"    -> "poll"
      [] st = "quarantine" -> "cooldown"
      [] st = "paused"     -> "pausedSleep"

\* `continue': where the head of the while loop takes an iteration.
LoopTop(st) ==
    IF stopRequested THEN "stopped"
    ELSE CASE st = "running"    -> "poll"
           [] st = "quarantine" -> "cooldown"
           [] st = "paused"     -> "pausedSleep"

\* processUpdates(updates): an empty batch is an early return.
ProcessUpdates(st, lo, hi) ==
    /\ next' = lo
    /\ last' = hi
    /\ at' = IF lo > hi THEN LoopTop(st) ELSE "persist"

\* Telegram answers getUpdates(offset) with the oldest updates it still has,
\* and forgets those below the offset.
Oldest == Larger(Larger(offset, confirmed), 1)
ServeUpdates(hi) ==
    /\ hi \in (Oldest - 1)..arrived
    /\ confirmed' = Larger(offset, confirmed)

Init ==
    /\ at = "poll"
    /\ state = "running"
    /\ stopRequested = FALSE
    /\ fatalWindow = 0
    /\ offset = 0
    /\ offsetFile = 0
    /\ next = 1 /\ last = 0
    /\ entries = <<>>
    /\ replaying = <<>>
    /\ reply = [r \in Replies |-> "none"]
    /\ arrived = 0
    /\ confirmed = 0
    /\ copies = [r \in Replies |-> 0]
    /\ deaths = 0
    /\ published = <<>>
    /\ lost = {}
    /\ accepted = <<>>
    /\ resolved = <<>>

-----------------------------------------------------------------------------
(* state = "running": getUpdates and its outcomes *)

\* 2xx: heartbeat, processUpdates, reset of the window.
PollOk ==
    /\ at = "poll"
    /\ \E hi \in (Oldest - 1)..arrived :
          /\ ServeUpdates(hi)
          /\ ProcessUpdates(state, Oldest, hi)
    /\ fatalWindow' = 0
    /\ UNCHANGED <<state, stopRequested, offset, offsetFile, replyVars,
                   arrived, copies, deaths, historyVars>>

\* 409 and 429 sleep without touching the window.
PollRetryLater ==
    /\ at = "poll"
    /\ at' = "backoff"
    /\ UNCHANGED <<state, stopRequested, fatalWindow, updateVars, replyVars,
                   worldVars, historyVars>>

\* FatalWindow.record drops the timestamps that left the window, any number
\* of the older ones, and pushes this one.
Recorded(count) ==
    1 .. (IF count < Threshold THEN count + 1 ELSE Threshold)

\* A fatal answer: backoff below the threshold, else quarantine.
PollFatal ==
    /\ at = "poll"
    /\ \E count \in Recorded(fatalWindow) :
          IF count >= Threshold
          THEN /\ state' = "quarantine"
               /\ fatalWindow' = 0
               /\ at' = LoopTop("quarantine")
          ELSE /\ fatalWindow' = count
               /\ at' = "backoff"
               /\ UNCHANGED state
    /\ UNCHANGED <<stopRequested, updateVars, replyVars, worldVars, historyVars>>

\* A sleep of the backoff or of the paused branch ends.
Wake ==
    /\ at \in {"backoff", "pausedSleep"}
    /\ at' = LoopTop(state)
    /\ UNCHANGED <<state, stopRequested, fatalWindow, updateVars, replyVars,
                   worldVars, historyVars>>

-----------------------------------------------------------------------------
(* state = "quarantine": cooldown, probe, drain *)

CooldownOver ==
    /\ at = "cooldown"
    /\ at' = IF stopRequested THEN "stopped" ELSE "probe"
    /\ UNCHANGED <<state, stopRequested, fatalWindow, updateVars, replyVars,
                   worldVars, historyVars>>

\* Variant with a bug: a drain that pops the newest entry.
DrainNextNewest(st, lo, hi) ==
    IF entries = <<>> \/ stopRequested
    THEN /\ ProcessUpdates(st, lo, hi)
         /\ replaying' = <<>>
         /\ UNCHANGED entries
    ELSE /\ at' = "drain"
         /\ replaying' = <<entries[Len(entries)]>>
         /\ entries' = SubSeq(entries, 1, Len(entries) - 1)
         /\ next' = lo
         /\ last' = hi

\* The head of drain's loop: shift the next entry, or return into
\* processUpdates(probe.result).
DrainNext(st, lo, hi) ==
    IF entries = <<>> \/ stopRequested
    THEN /\ ProcessUpdates(st, lo, hi)
         /\ replaying' = <<>>
         /\ UNCHANGED entries
    ELSE /\ at' = "drain"
         /\ replaying' = <<Head(entries)>>
         /\ entries' = Tail(entries)
         /\ next' = lo
         /\ last' = hi

\* Variant with a bug: a recovery that does not drain.
ProbeOkWithoutDrain ==
    /\ at = "probe"
    /\ state' = "running"
    /\ fatalWindow' = 0
    /\ \E hi \in (Oldest - 1)..arrived :
          /\ ServeUpdates(hi)
          /\ ProcessUpdates("running", Oldest, hi)
    /\ UNCHANGED <<stopRequested, offset, offsetFile, replyVars, arrived, copies,
                   deaths, historyVars>>

\* The probe answers: back to running, whatever the state became meanwhile.
ProbeOk ==
    /\ at = "probe"
    /\ state' = "running"
    /\ fatalWindow' = 0
    /\ \E hi \in (Oldest - 1)..arrived :
          /\ ServeUpdates(hi)
          /\ DrainNext("running", Oldest, hi)
    /\ UNCHANGED <<stopRequested, offset, offsetFile, reply, arrived, copies,
                   deaths, historyVars>>

\* The probe fails (fatal answers are recorded): another cooldown.
ProbeFails ==
    /\ at = "probe"
    /\ fatalWindow' \in {fatalWindow} \cup Recorded(fatalWindow)
    /\ at' = LoopTop(state)
    /\ UNCHANGED <<state, stopRequested, updateVars, replyVars, worldVars,
                   historyVars>>

\* Variant with a bug: a replay that reports every post as delivered.
ReplayedOptimistic(shown, answered) ==
    /\ at = "drain"
    /\ answered => shown = 1
    /\ copies' = [copies EXCEPT ![Head(replaying)] = @ + shown]
    /\ resolved' = resolved \o replaying
    /\ reply' = [reply EXCEPT ![Head(replaying)] = "delivered"]
    /\ DrainNext(state, next, last)
    /\ UNCHANGED <<state, stopRequested, fatalWindow, offset, offsetFile,
                   arrived, confirmed, deaths, published, lost, accepted>>

\* The post of the shifted entry ends.  A failed post may still have reached
\* the chat (shown = 1): the answer was lost.
Replayed(shown, answered) ==
    /\ at = "drain"
    /\ answered => shown = 1
    /\ copies' = [copies EXCEPT ![Head(replaying)] = @ + shown]
    /\ resolved' = resolved \o replaying
    /\ reply' = [reply EXCEPT ![Head(replaying)] =
                    IF answered THEN "delivered" ELSE "disconnected"]
    /\ DrainNext(state, next, last)
    /\ UNCHANGED <<state, stopRequested, fatalWindow, offset, offsetFile,
                   arrived, confirmed, deaths, published, lost, accepted>>

-----------------------------------------------------------------------------
(* processUpdates *)

\* Variants with a bug: the offset kept in memory until daemon_stop, and an
\* offset one too high.
PersistInMemory ==
    /\ at = "persist"
    /\ offset' = last + 1
    /\ at' = "publish"
    /\ UNCHANGED <<state, stopRequested, fatalWindow, offsetFile, next, last,
                   replyVars, worldVars, historyVars>>
PersistTooFar ==
    /\ at = "persist"
    /\ offset' = last + 2
    /\ offsetFile' = last + 2
    /\ at' = "publish"
    /\ UNCHANGED <<state, stopRequested, fatalWindow, next, last, replyVars,
                   worldVars, historyVars>>

\* OffsetManager.persist: memory, then the file (tmp + rename).
Persist ==
    /\ at = "persist"
    /\ offset' = last + 1
    /\ offsetFile' = last + 1
    /\ at' = "publish"
    /\ UNCHANGED <<state, stopRequested, fatalWindow, next, last, replyVars,
                   worldVars, historyVars>>

\* One inbound_update event; after the last one the loop goes on.
Publish ==
    /\ at = "publish"
    /\ published' = Append(published, next)
    /\ next' = next + 1
    /\ at' = IF next = last THEN LoopTop(state) ELSE "publish"
    /\ UNCHANGED <<state, stopRequested, fatalWindow, offset, offsetFile, last,
                   replyVars, worldVars, lost, accepted, resolved>>

-----------------------------------------------------------------------------
(* The other handlers of the daemon *)

\* registration_timeout: pause, at whatever await the loop is.
RegistrationTimeout ==
    /\ Suspended
    /\ state # "paused"
    /\ state' = "paused"
    /\ UNCHANGED <<at, stopRequested, fatalWindow, updateVars, replyVars,
                   worldVars, historyVars>>

\* daemon_stop; the offset manager's flush writes the offset once more.
DaemonStop ==
    /\ Suspended
    /\ ~stopRequested
    /\ stopRequested' = TRUE
    /\ offsetFile' = offset
    /\ UNCHANGED <<at, state, fatalWindow, offset, next, last, replyVars,
                   worldVars, historyVars>>

\* Variant with a bug: a queue without its cap.
EnqueueUncapped(r) ==
    /\ reply' = [reply EXCEPT ![r] = "queued"]
    /\ entries' = Append(entries, r)
    /\ accepted' = Append(accepted, r)

\* enqueue(): refuses a full queue.
Enqueue(r) ==
    IF Len(entries) >= Capacity
    THEN /\ reply' = [reply EXCEPT ![r] = "capacity_exceeded"]
         /\ UNCHANGED <<entries, accepted>>
    ELSE /\ reply' = [reply EXCEPT ![r] = "queued"]
         /\ entries' = Append(entries, r)
         /\ accepted' = Append(accepted, r)

\* client.sendMessage: queued in quarantine when the caller is a session's
\* reply; a caller without requester_session gets the envelope only; posted
\* at once in every other state.
SendMessage(r, hasRequester) ==
    /\ Suspended
    /\ reply[r] = "none"
    /\ \A q \in Replies : q < r => reply[q] # "none"
    /\ state = "quarantine" \/ r \in AnyTime
    /\ IF state = "quarantine"
       THEN IF hasRequester
            THEN Enqueue(r)
            ELSE /\ reply' = [reply EXCEPT ![r] = "stub"]
                 /\ UNCHANGED <<entries, accepted>>
       ELSE /\ reply' = [reply EXCEPT ![r] = "posting"]
            /\ UNCHANGED <<entries, accepted>>
    /\ UNCHANGED <<loopVars, updateVars, replaying, worldVars, published, lost,
                   resolved>>

\* The direct post ends; as in a replay, a failure may hide a delivery.
PostEnds(r, shown, answered) ==
    /\ Suspended
    /\ reply[r] = "posting"
    /\ answered => shown = 1
    /\ copies' = [copies EXCEPT ![r] = @ + shown]
    /\ reply' = [reply EXCEPT ![r] =
                    IF answered THEN "delivered" ELSE "disconnected"]
    /\ UNCHANGED <<loopVars, updateVars, entries, replaying, arrived, confirmed,
                   deaths, historyVars>>

-----------------------------------------------------------------------------
(* The process dies (exit, crash, kill -9) and is started again *)

\* The updates a death loses: the offset already passed them.
LostByDeath == IF at = "publish" THEN InHand ELSE {}

\* The posts a death cuts off; each may have reached the chat.
CutOff == {r \in Replies : reply[r] = "posting" \/ replaying = <<r>>}

Die(shown) ==
    /\ at # "dead"
    /\ deaths < MaxDeaths
    /\ deaths' = deaths + 1
    /\ at' = "dead"
    /\ copies' = [r \in Replies |-> copies[r] + IF r \in shown THEN 1 ELSE 0]
    /\ reply' = [r \in Replies |->
                    IF reply[r] = "posting" THEN "disconnected" ELSE reply[r]]
    /\ lost' = lost \cup LostByDeath
    /\ next' = 1 /\ last' = 0
    /\ entries' = <<>> /\ replaying' = <<>>
    /\ accepted' = <<>> /\ resolved' = <<>>
    /\ UNCHANGED <<state, stopRequested, fatalWindow, offset, offsetFile,
                   arrived, confirmed, published>>

\* load(): the offset of the file, or 0 when the file is refused or malformed.
Loaded == {offsetFile} \cup (IF MayRefuse THEN {0} ELSE {})

Restart ==
    /\ at = "dead"
    /\ offset' \in Loaded
    /\ at' = "poll"
    /\ state' = "running"
    /\ stopRequested' = FALSE
    /\ fatalWindow' = 0
    /\ UNCHANGED <<offsetFile, next, last, replyVars, worldVars, historyVars>>

-----------------------------------------------------------------------------
\* Telegram receives one more update for the bot.
Arrive ==
    /\ arrived < MaxUpdate
    /\ arrived' = arrived + 1
    /\ UNCHANGED <<loopVars, updateVars, replyVars, confirmed, copies, deaths,
                   historyVars>>

LoopStep ==
    \/ PollOk \/ PollRetryLater \/ PollFatal \/ Wake
    \/ CooldownOver \/ ProbeOk \/ ProbeFails
    \/ \E shown \in 0..1, answered \in BOOLEAN : Replayed(shown, answered)
    \/ Persist \/ Publish

Next ==
    \/ LoopStep
    \/ RegistrationTimeout
    \/ DaemonStop
    \/ \E r \in Replies, hasRequester \in BOOLEAN : SendMessage(r, hasRequester)
    \/ \E r \in Replies, shown \in 0..1, answered \in BOOLEAN :
          PostEnds(r, shown, answered)
    \/ \E shown \in SUBSET CutOff : Die(shown)
    \/ Restart
    \/ Arrive

Spec == Init /\ [][Next]_vars

\* Timers fire and calls to Telegram return; Telegram answers a probe sooner
\* or later when it is asked again and again.
FairSpec == Spec /\ WF_vars(LoopStep) /\ SF_vars(ProbeOk)

-----------------------------------------------------------------------------
(* Properties *)

\* The loop, its await and the batch it holds have the shapes the code gives
\* them.
TypeOK ==
    /\ at \in Awaits
    /\ state \in States
    /\ stopRequested \in BOOLEAN
    /\ fatalWindow \in 0..Threshold
    /\ offset \in Nat /\ offsetFile \in Nat
    /\ next \in Nat /\ last \in Nat
    /\ entries \in Seq(Replies) /\ Len(entries) <= Capacity
    /\ replaying \in {<<>>} \cup {<<r>> : r \in Replies}
    /\ reply \in [Replies -> Told]
    /\ arrived \in Nat /\ confirmed \in Nat /\ deaths \in Nat
    /\ copies \in [Replies -> Nat]
    /\ published \in Seq(Nat)
    /\ lost \subseteq Nat
    /\ accepted \in Seq(Replies)
    /\ resolved \in Seq(Replies)

\* AC-08, AC-09: because the offset is on disk before the first event of a
\* batch, no update is published twice or out of order, not even across
\* crashes and restarts, as long as load() takes the file.
PublishedOnceInOrder ==
    \A i, j \in DOMAIN published : i < j => published[i] < published[j]

\* An update the next incarnation will not fetch again, or Telegram has
\* forgotten, was published, is in hand, or was in hand when the process died
\* between persist() and the event: nothing else loses updates.
Accounted == {published[i] : i \in DOMAIN published} \cup lost
                 \cup (IF at = "publish" THEN InHand ELSE {})
NoUpdateSkipped ==
    \A u \in 1 .. Larger(offsetFile, confirmed) - 1 : u \in Accounted

\* The loop, its crashes and restarts implement the abstract feed of updates
\* (while load() takes the file).
Feed == INSTANCE UpdateFeed WITH Updates <- 1..MaxUpdate, skipped <- lost
ImplementsFeed == Feed!Spec

\* AC-28, AC-29: the replies enqueue() accepted, in one quarantine or in several,
\* are resolved in the order of acceptance, and none leaves the queue without
\* being resolved, though a pause, a stop or other replies' posts come between
\* two entries of a drain.
ReplayFifo == accepted = resolved \o replaying \o entries

\* What the session was told is true: `delivered' means shown, a refused reply
\* is never shown, and none shows up in the chat twice: a queued one is never
\* also posted directly, and a drained one never drained again.
ToldTheTruth ==
    \A r \in Replies :
        /\ copies[r] <= 1
        /\ reply[r] = "delivered" => copies[r] = 1
        /\ reply[r] \in {"none", "stub", "capacity_exceeded"} => copies[r] = 0

\* Once Telegram answers probes, a quarantine ends (in running or paused), and
\* no accepted reply is left behind in the queue, to wait for the next
\* quarantine, unless a pause, a stop or a death comes in between.
QuarantineEnds ==
    /\ state = "quarantine" ~> state # "quarantine" \/ stopRequested \/ at = "dead"
    /\ entries # <<>> ~> \/ entries = <<>> \/ state = "paused"
                         \/ stopRequested \/ at = "dead"

\* A requested stop ends the loop, even in the middle of a drain.
StopEndsLoop == stopRequested ~> at \in {"stopped", "dead"}
=============================================================================
