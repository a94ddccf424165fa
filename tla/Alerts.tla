------------------------------- MODULE Alerts -------------------------------
(***************************************************************************)
(* The way of an event to the log and to the admin's chat: the event bus   *)
(* (daemon/event-bus.ts) that shields an emitter from its subscribers, the *)
(* subscriber that logs (obs/subscriber.ts, obs/json-logger.ts) and the    *)
(* alert dispatcher (obs/alert-dispatcher.ts).  Outbound composes it with  *)
(* the tools, which share the client and the quarantine.                   *)
(*                                                                         *)
(* emit calls its subscribers synchronously, and enqueue takes the alert   *)
(* out of the queue in the same turn: from the first event on the client   *)
(* is bound, so between two turns pendingQueue is empty and every alert is *)
(* a post of its own.  The drain of the queue to the log at an early exit  *)
(* and the queue's cap of 50 are therefore never reached, and nothing is   *)
(* left to flush when the admin's chat becomes known.                      *)
(***************************************************************************)
EXTENDS Integers, FiniteSets

CONSTANTS
    Senders,      \* the sender hashes of denials (the empty one of a refused session too)
    MaxTurns,     \* bound: the quarantines
    MaxRefills    \* bound: the buckets refilled, by kind of denial

\* Who is not the admin, and who guesses at a code: each has its own buckets.
DenyTopics == {"auth_deny_routing", "auth_deny_registration"}
Topics == {"quarantine_enter", "quarantine_exit", "watchdog"} \cup DenyTopics

ASSUME AlertsAssumption ==
    IsFiniteSet(Senders) /\ MaxTurns \in Nat /\ MaxRefills \in [DenyTopics -> Nat]

VARIABLES
    phase,        \* the daemon, from its boot to its end
    buffered,     \* the subscriber's events from before the log was ready
    diskFull,     \* a write in the state directory throws: of the log, of the offset
    polling,      \* the state of PollingStatusImpl
    dispatcher,   \* AlertDispatcher.quarantineState
    adminChat,    \* AlertDispatcher.adminChatId
    spent,        \* tokenBucket: kind and sender of the buckets that are empty
    posting,      \* the alerts under way to either chat
    turns,        \* history: the quarantines entered
    refills,      \* history: the buckets refilled, by kind
    raised,       \* history: the alerts raised, by topic
    settled       \* history: those delivered, or with a line that they were not

alertVars == <<dispatcher, spent, posting, raised, settled>>
obsVars == <<phase, buffered, diskFull, polling, adminChat, turns, refills,
             alertVars>>

\* "ready": the log is; "up": the client is bound as well; "failed": in its boot;
\* "crashed": by a line that could not be written; "exited": otherwise.
Phases == {"boot", "ready", "up", "stopping", "exited", "failed", "crashed"}
Serving == phase \in {"up", "stopping"}

AdminChats == {"placeholder", "real"}

ObsInit ==
    /\ phase = "boot" /\ buffered = 0 /\ diskFull \in BOOLEAN
    /\ polling = "running" /\ dispatcher = "running"
    /\ adminChat = "placeholder" /\ spent = {}
    /\ posting = [ch \in AdminChats |-> 0] /\ raised = [t \in Topics |-> 0]
    /\ settled = 0 /\ turns = 0 /\ refills = [kind \in DenyTopics |-> 0]

-----------------------------------------------------------------------------
(* Boot *)

\* StateDirImpl.initialize finds wrong modes: the event is buffered.
Anomaly ==
    /\ phase = "boot" /\ buffered = 0
    /\ buffered' = 1
    /\ UNCHANGED <<phase, diskFull, polling, adminChat, alertVars, turns, refills>>

\* obs.setStateDir drains the buffer outside the bus: what it throws ends main.
SetStateDir ==
    /\ phase = "boot"
    /\ phase' = IF diskFull /\ buffered > 0 THEN "failed" ELSE "ready"
    /\ buffered' = 0
    /\ UNCHANGED <<diskFull, polling, adminChat, alertVars, turns, refills>>

\* obs.setTgClient with the chat of the environment, or 0 in its place.
SetTgClient ==
    /\ phase = "ready"
    /\ phase' = "up"
    /\ adminChat' \in AdminChats
    /\ UNCHANGED <<buffered, diskFull, polling, alertVars, turns, refills>>

\* setAdminChat, when the admin's first message has come: no alert waits for it.
SetAdminChat ==
    /\ Serving /\ adminChat = "placeholder"
    /\ adminChat' = "real"
    /\ UNCHANGED <<phase, buffered, diskFull, polling, alertVars, turns, refills>>

-----------------------------------------------------------------------------
(* From an event to an alert *)

\* n alerts with one topic: enqueue and the first turn of flushQueue: while polling is quarantined
\* sendMessage answers at once that it is queued, which it is not (an alert has
\* no session), and the alert is logged as failed.
Raise(topic, n) ==
    /\ raised' = [raised EXCEPT ![topic] = @ + n]
    /\ IF "quarantine" \in {polling, polling'}
       THEN settled' = settled + n /\ UNCHANGED posting
       ELSE posting' = [posting EXCEPT ![adminChat] = @ + n] /\ UNCHANGED settled

\* invokeSync and processEvent: the subscriber logs first, so that on a full
\* disk the dispatcher never hears of the event; the bus catches what it throws.
InvokeSync(topic, n, state, bucket) ==
    /\ UNCHANGED phase
    /\ IF diskFull
       THEN UNCHANGED alertVars
       ELSE Raise(topic, n) /\ dispatcher' = state /\ spent' = bucket

\* Variant with a bug: an alert for every event, without looking for the edge.
HandleQuarantineAlways(next) == 1

\* handleQuarantine: an alert at an edge of its own state.
HandleQuarantine(next) == IF dispatcher = next THEN 0 ELSE 1

\* The loop sets its state, then emits quarantine_enter and an alert_emit, each
\* of which raises an alert.
QuarantineEnter ==
    /\ Serving /\ polling = "running" /\ turns < MaxTurns
    /\ polling' = "quarantine" /\ turns' = turns + 1
    /\ UNCHANGED <<buffered, diskFull, adminChat, refills>>
    /\ InvokeSync("quarantine_enter", HandleQuarantine("quarantine") + 1, "quarantine", spent)

\* A probe that fails emits quarantine_enter again.
ProbeFails ==
    /\ Serving /\ polling = "quarantine"
    /\ UNCHANGED <<buffered, diskFull, polling, adminChat, turns, refills>>
    /\ InvokeSync("quarantine_enter", HandleQuarantine("quarantine"), "quarantine", spent)

\* A probe that succeeds emits quarantine_exit and an alert_emit, both before
\* the loop sets its state.
QuarantineExit ==
    /\ Serving /\ polling = "quarantine"
    /\ polling' = "running"
    /\ UNCHANGED <<buffered, diskFull, adminChat, turns, refills>>
    /\ InvokeSync("quarantine_exit", HandleQuarantine("running") + 1, "running", spent)

\* feedEvent and handleTokenBucket: one alert per kind, sender and ten minutes.
Denied(kind, s) ==
    /\ Serving
    /\ UNCHANGED <<buffered, diskFull, polling, adminChat, turns, refills>>
    /\ InvokeSync(kind, IF <<kind, s>> \in spent THEN 0 ELSE 1,
                  dispatcher, spent \cup {<<kind, s>>})

Refill(kind, s) ==
    /\ Serving /\ <<kind, s>> \in spent /\ refills[kind] < MaxRefills[kind]
    /\ spent' = spent \ {<<kind, s>>}
    /\ refills' = [refills EXCEPT ![kind] = @ + 1]
    /\ UNCHANGED <<phase, buffered, diskFull, polling, adminChat, dispatcher,
                   posting, raised, settled, turns>>

\* Watchdog.signal: its alert_emit is left to watchdog_signal, which raises the
\* one alert.  The shutdown gives it 200 ms.
WatchdogSignals ==
    /\ phase = "up"
    /\ phase' = "stopping"
    /\ UNCHANGED <<buffered, diskFull, polling, adminChat, dispatcher, spent, turns, refills>>
    /\ IF diskFull THEN UNCHANGED <<posting, raised, settled>>
       ELSE Raise("watchdog", 1)

-----------------------------------------------------------------------------
(* From an alert to the chat *)

\* Variant with a bug: only an exception is logged, not an answer that the
\* message was not delivered.
FlushedIfThrown(ch) ==
    /\ UNCHANGED phase
    /\ (ch = "real" /\ settled' = settled + 1) \/ UNCHANGED settled

\* flushQueue after its await: delivered, or a line in the log.  An append that
\* throws does so inside the catch clause; the rejection is nobody's, and
\* bin/daemon.ts exits on it.
Flushed(ch) ==
    \/ (ch = "real" \/ ~diskFull) /\ settled' = settled + 1 /\ UNCHANGED phase
    \/ diskFull /\ phase' = "crashed" /\ UNCHANGED settled

AlertEnds(ch) ==
    /\ Serving /\ posting[ch] > 0
    /\ posting' = [posting EXCEPT ![ch] = @ - 1]
    /\ Flushed(ch)
    /\ UNCHANGED <<buffered, diskFull, polling, adminChat, dispatcher, spent,
                   raised, turns, refills>>

-----------------------------------------------------------------------------
\* The disk fills up and is cleared behind the daemon's back.
DiskChanges ==
    /\ phase \notin {"exited", "failed", "crashed"}
    /\ diskFull' = ~diskFull
    /\ UNCHANGED <<phase, buffered, polling, adminChat, alertVars, turns, refills>>

\* OffsetManager.persist throws, for a batch (never while polling is quarantined)
\* or in the flush of a shutdown: nobody catches it, and bin/daemon.ts exits.
PersistFails ==
    /\ Serving /\ diskFull
    /\ polling = "running" \/ phase = "stopping"
    /\ phase' = "exited"
    /\ UNCHANGED <<buffered, diskFull, polling, adminChat, alertVars, turns, refills>>

\* The end of a shutdown; posts under way end with it.
Exit ==
    /\ phase = "stopping"
    /\ phase' = "exited"
    /\ UNCHANGED <<buffered, diskFull, polling, adminChat, alertVars, turns, refills>>

\* The steps in which no tool has a part.
ObsStep ==
    \/ Anomaly \/ SetStateDir \/ SetTgClient \/ SetAdminChat
    \/ QuarantineEnter \/ ProbeFails
    \/ \E kind \in DenyTopics, s \in Senders : Denied(kind, s) \/ Refill(kind, s)
    \/ WatchdogSignals \/ DiskChanges \/ PersistFails \/ Exit
    \/ \E ch \in AdminChats : AlertEnds(ch)

-----------------------------------------------------------------------------
(* Properties *)

TotalRaised == raised["quarantine_enter"] + raised["quarantine_exit"]
                 + raised["auth_deny_routing"] + raised["auth_deny_registration"]
                 + raised["watchdog"]
TotalPosting == posting["placeholder"] + posting["real"]

ObsTypeOK ==
    /\ phase \in Phases /\ buffered \in 0..1 /\ diskFull \in BOOLEAN
    /\ polling \in {"running", "quarantine"} /\ dispatcher \in {"running", "quarantine"}
    /\ adminChat \in AdminChats /\ spent \subseteq DenyTopics \X Senders
    /\ posting \in [AdminChats -> Nat] /\ raised \in [Topics -> Nat]
    /\ settled \in Nat
    /\ turns \in 0..MaxTurns /\ refills \in [DenyTopics -> Nat]
    /\ \A kind \in DenyTopics : refills[kind] <= MaxRefills[kind]

\* However many probes fail, whatever the log loses and however often somebody
\* is denied, a quarantine raises at most its two alerts in either direction, and
\* each kind of denial one alert per sender and per refill of its buckets.
NoAlertStorm ==
    /\ raised["quarantine_enter"] <= 2 * turns
    /\ raised["quarantine_exit"] <= 2 * turns
    /\ \A kind \in DenyTopics : raised[kind] <= Cardinality(Senders) + refills[kind]

\* An alert may fail in a quarantine, for want of a chat or on the way: still it
\* is under way (or was when the daemon stopped), was delivered, or is in the
\* log, once.  One alert is missing exactly when the line of its own failure is
\* what ended the daemon; however else the daemon ends, none is.
AlertsAccounted ==
    TotalRaised - TotalPosting - settled = IF phase = "crashed" THEN 1 ELSE 0

\* MODULE-008: a failing write of the log does not crash the daemon.
DaemonSurvives == [][Serving => phase' # "crashed"]_obsVars
=============================================================================
