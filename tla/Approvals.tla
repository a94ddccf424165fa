----------------------------- MODULE Approvals -----------------------------
(***************************************************************************)
(* The approval round trip: the request_approval tool                      *)
(* (tools/request-approval.ts), the registry of pending approvals          *)
(* (tools/pending-registry.ts), the button clicks the dispatcher hands it  *)
(* (routing/inbound-dispatcher.ts), the session map of the acceptor that   *)
(* carries the answer back (mcp/daemon-acceptor.ts) and the proxy that     *)
(* waits for it (mcp/proxy-client.ts).                                     *)
(*                                                                         *)
(* The daemon is one event loop: an action runs from one await of the      *)
(* network to the next.  Settling a promise runs its waiter in the same    *)
(* turn, so the answer frame is written in the action that settles it.     *)
(***************************************************************************)
EXTENDS Integers, FiniteSets

CONSTANTS
    Requests,       \* the request_approval calls; each is made once
    Sessions,       \* session ids; a reconnect is a session of its own
    Owner,          \* the session that makes a request
    Options,        \* the buttons of a request
    Clicks,         \* bound: the button presses the admin makes
    MaxCrashes,     \* bound: how often the daemon dies
    Capacity,       \* capacity of the PendingApprovalRegistry
    None

ASSUME ApprovalAssumption ==
    /\ Owner \in [Requests -> Sessions]
    /\ Capacity \in Nat \ {0} /\ MaxCrashes \in Nat
    /\ IsFiniteSet(Requests)
    /\ None \notin Requests \cup Options \cup (Requests \X Options)
    /\ Options \cap {"none", "pending", "rejected", "error", "timeout",
                     "disconnected", "open", "withdrawn"} = {}

VARIABLES
    up,         \* a daemon runs
    crashes,    \* the crashes so far
    connected,  \* the sessions in the acceptor's session map
    gone,       \* the sessions that are over
    stage,      \* the await requestApproval is suspended on
    entries,    \* the registry's entries
    promise,    \* the promise of an entry
    removing,   \* per session: what is left of cleanupBySession's toRemove
    editing,    \* per session: the entry whose button it is editing
    message,    \* what the admin's chat shows for a request
    click,      \* how far each button press is
    clickOn,    \* the request and the option a press is about, until it is in vain
    frame,      \* the tool_result frame on its way to the proxy
    told        \* what the claude session got from its call

daemonVars == <<up, crashes, connected, gone, stage, entries, promise, removing, editing>>
clickVars == <<click, clickOn>>
proxyVars == <<frame, told>>
vars == <<daemonVars, message, clickVars, proxyVars>>

Stages == {"idle", "typeCheck", "posting", "waiting", "capacityEdit", "done"}
Messages == {"none", "buttons", "cancelled", "over_capacity"}
ClickStates == {"unused", "pressed", "answering", "resolved", "expired", "lost"}

Init ==
    /\ up = TRUE
    /\ crashes = 0
    /\ connected = {}
    /\ gone = {}
    /\ stage = [a \in Requests |-> "idle"]
    /\ entries = {}
    /\ promise = [a \in Requests |-> "none"]
    /\ removing = [s \in Sessions |-> {}]
    /\ editing = [s \in Sessions |-> None]
    /\ message = [a \in Requests |-> "none"]
    /\ click = [c \in Clicks |-> "unused"]
    /\ clickOn = [c \in Clicks |-> None]
    /\ frame = [a \in Requests |-> None]
    /\ told = [a \in Requests |-> "none"]

\* Variant with a bug: one slot per session for the answer on its way.
AnswerInOneSlot(a, what) ==
    frame' = [b \in Requests |-> IF b = a THEN what
                                 ELSE IF Owner[b] = Owner[a] THEN None ELSE frame[b]]

\* dispatchToolCall after the handler: the answer of request a, if its session
\* is still in the session map.
Answer(a, what) ==
    frame' = IF Owner[a] \in connected THEN [frame EXCEPT ![a] = what] ELSE frame

-----------------------------------------------------------------------------
(* A session connects; requestApproval *)

Connect(s) ==
    /\ up
    /\ s \notin connected \cup gone
    /\ connected' = connected \cup {s}
    /\ UNCHANGED <<up, crashes, gone, stage, entries, promise, removing, editing, message,
                   clickVars, proxyVars>>

\* Without an admin chat the call is refused at once.
Request(a) ==
    /\ stage[a] = "idle"
    /\ Owner[a] \in connected
    /\ \/ /\ stage' = [stage EXCEPT ![a] = "typeCheck"]
          /\ UNCHANGED frame
       \/ /\ stage' = [stage EXCEPT ![a] = "done"]
          /\ Answer(a, "error")
    /\ UNCHANGED <<up, crashes, connected, gone, entries, promise, removing, editing, message,
                   clickVars, told>>

\* getChatType returned; any check up to the post may refuse the call.
TypeChecked(a) ==
    /\ stage[a] = "typeCheck"
    /\ \/ /\ stage' = [stage EXCEPT ![a] = "posting"]
          /\ UNCHANGED frame
       \/ /\ stage' = [stage EXCEPT ![a] = "done"]
          /\ Answer(a, "error")
    /\ UNCHANGED <<up, crashes, connected, gone, entries, promise, removing, editing, message,
                   clickVars, told>>

\* Variants with a bug: a registry that adds before it looks at the capacity.
AddUnchecked(a) ==
    /\ entries' = entries \cup {a}
    /\ promise' = [promise EXCEPT ![a] = "pending"]
    /\ stage' = [stage EXCEPT ![a] = "waiting"]

\* PendingApprovalRegistry.add
Add(a) ==
    IF Cardinality(entries) >= Capacity
    THEN /\ stage' = [stage EXCEPT ![a] = "capacityEdit"]
         /\ UNCHANGED <<entries, promise>>
    ELSE /\ entries' = entries \cup {a}
         /\ promise' = [promise EXCEPT ![a] = "pending"]
         /\ stage' = [stage EXCEPT ![a] = "waiting"]

\* sendMessage returned: the buttons are in the chat and the entry is added,
\* whatever became of the session meanwhile; or the post failed (or was
\* diverted by a quarantine), perhaps after it reached the chat.
Posted(a) ==
    /\ stage[a] = "posting"
    /\ \/ /\ message' = [message EXCEPT ![a] = "buttons"]
          /\ Add(a)
          /\ UNCHANGED frame
       \/ /\ message' \in {message, [message EXCEPT ![a] = "buttons"]}
          /\ stage' = [stage EXCEPT ![a] = "done"]
          /\ Answer(a, "error")
          /\ UNCHANGED <<entries, promise>>
    /\ UNCHANGED <<up, crashes, connected, gone, removing, editing, clickVars, told>>

\* The edit after a CapacityExceededError returned.
CapacityEdited(a) ==
    /\ stage[a] = "capacityEdit"
    /\ stage' = [stage EXCEPT ![a] = "done"]
    /\ message' \in {message, [message EXCEPT ![a] = "over_capacity"]}
    /\ Answer(a, "error")
    /\ UNCHANGED <<up, crashes, connected, gone, entries, promise, removing, editing, clickVars,
                   told>>

-----------------------------------------------------------------------------
(* The admin presses a button; handleCallback and resolveApproval *)

Press(c, a, o) ==
    /\ click[c] = "unused"
    /\ message[a] = "buttons"
    /\ click' = [click EXCEPT ![c] = "pressed"]
    /\ clickOn' = [clickOn EXCEPT ![c] = <<a, o>>]
    /\ UNCHANGED <<daemonVars, message, proxyVars>>

\* lookupByPendingId: an unknown request gets the "approval expired" popup,
\* a known one is answered first.
HandleCallback(c) ==
    /\ click[c] = "pressed"
    /\ up
    /\ IF clickOn[c][1] \in entries
       THEN click' = [click EXCEPT ![c] = "answering"] /\ UNCHANGED clickOn
       ELSE /\ click' = [click EXCEPT ![c] = "expired"]
            /\ clickOn' = [clickOn EXCEPT ![c] = None]
    /\ UNCHANGED <<daemonVars, message, proxyVars>>

\* Variant with a bug: a resolution that leaves the entry in the registry.
ResolveKeepsEntry(c) ==
    LET a == clickOn[c][1]
        o == clickOn[c][2]
    IN /\ click[c] = "answering"
       /\ click' = [click EXCEPT ![c] = "resolved"]
       /\ IF promise[a] = "pending"
          THEN /\ promise' = [promise EXCEPT ![a] = o]
               /\ stage' = [stage EXCEPT ![a] = "done"]
               /\ Answer(a, o)
          ELSE UNCHANGED <<promise, stage, frame>>
       /\ UNCHANGED <<up, crashes, connected, gone, entries, removing, editing, message, clickOn,
                      told>>

\* Variant with a bug: an answerCallbackQuery that fails throws out of it.
ResolveThrows(c) ==
    LET a == clickOn[c][1]
        o == clickOn[c][2]
    IN /\ click[c] = "answering"
       /\ click' = [click EXCEPT ![c] = "resolved"]
       /\ \/ /\ promise[a] = "pending"
             /\ promise' = [promise EXCEPT ![a] = o]
             /\ stage' = [stage EXCEPT ![a] = "done"]
             /\ Answer(a, o)
             /\ entries' = entries \ {a}
          \/ UNCHANGED <<promise, stage, frame, entries>>
       /\ UNCHANGED <<up, crashes, connected, gone, removing, editing, message, clickOn, told>>

\* answerCallbackQuery returned (or failed): resolver(choice), a no-op on a
\* settled promise; delete; callback_resolved.
ResolveApproval(c) ==
    LET a == clickOn[c][1]
        o == clickOn[c][2]
    IN /\ click[c] = "answering"
       /\ click' = [click EXCEPT ![c] = "resolved"]
       /\ IF promise[a] = "pending"
          THEN /\ promise' = [promise EXCEPT ![a] = o]
               /\ stage' = [stage EXCEPT ![a] = "done"]
               /\ Answer(a, o)
          ELSE UNCHANGED <<promise, stage, frame>>
       /\ entries' = entries \ {a}
       /\ UNCHANGED <<up, crashes, connected, gone, removing, editing, message, clickOn, told>>

-----------------------------------------------------------------------------
(* The session goes away: session_disconnected and cleanupBySession *)

\* Variant with a bug: a cleanup that trusts its snapshot and cancels a request
\* that was answered meanwhile.
CleanupSnapshot(s, todo) ==
    IF todo = {}
    THEN /\ removing' = [removing EXCEPT ![s] = {}]
         /\ editing' = [editing EXCEPT ![s] = None]
         /\ UNCHANGED <<entries, promise, stage>>
    ELSE \E a \in todo :
         /\ removing' = [removing EXCEPT ![s] = todo \ {a}]
         /\ editing' = [editing EXCEPT ![s] = a]
         /\ entries' = entries \ {a}
         /\ promise' = [promise EXCEPT ![a] = IF @ = "pending" THEN "rejected" ELSE @]
         /\ stage' = [stage EXCEPT ![a] = "done"]

\* The head of cleanupBySession's loop over todo: entries answered meanwhile
\* are passed over; the next one is deleted and rejected, then its button is
\* edited.
CleanupNext(s, todo) ==
    LET left == todo \cap entries
    IN IF left = {}
       THEN /\ removing' = [removing EXCEPT ![s] = {}]
            /\ editing' = [editing EXCEPT ![s] = None]
            /\ UNCHANGED <<entries, promise, stage>>
       ELSE \E a \in left :
            /\ removing' = [removing EXCEPT ![s] = left \ {a}]
            /\ editing' = [editing EXCEPT ![s] = a]
            /\ entries' = entries \ {a}
            /\ promise' = [promise EXCEPT ![a] = "rejected"]
            /\ stage' = [stage EXCEPT ![a] = "done"]

\* The socket of s closes: the acceptor removes it and emits
\* session_disconnected; the proxy rejects what it still waits for.
Disconnect(s) ==
    /\ s \in connected
    /\ connected' = connected \ {s}
    /\ gone' = gone \cup {s}
    /\ CleanupNext(s, {a \in entries : Owner[a] = s})
    /\ told' = [a \in Requests |->
                   IF Owner[a] = s /\ stage[a] # "idle" /\ told[a] = "none"
                   THEN "disconnected" ELSE told[a]]
    /\ frame' = [a \in Requests |-> IF Owner[a] = s THEN None ELSE frame[a]]
    /\ UNCHANGED <<up, crashes, message, clickVars>>

\* editMessageText returned; in a quarantine, or on an error, nothing changed.
ButtonEdited(s) ==
    /\ editing[s] # None
    /\ message' \in {message, [message EXCEPT ![editing[s]] = "cancelled"]}
    /\ CleanupNext(s, removing[s])
    /\ UNCHANGED <<up, crashes, connected, gone, clickVars, proxyVars>>

\* The daemon dies: the registry and every await are gone, the buttons stay. A
\* press it had fetched is lost, one still at Telegram (late) is not.
Crash ==
    /\ up
    /\ crashes < MaxCrashes
    /\ crashes' = crashes + 1
    /\ up' = FALSE
    /\ connected' = {}
    /\ gone' = gone \cup connected
    /\ entries' = {}
    /\ removing' = [s \in Sessions |-> {}]
    /\ editing' = [s \in Sessions |-> None]
    /\ stage' = [a \in Requests |-> IF stage[a] = "idle" THEN "idle" ELSE "done"]
    /\ promise' = [a \in Requests |-> IF promise[a] = "pending" THEN "none"
                                                             ELSE promise[a]]
    /\ \E late \in SUBSET {c \in Clicks : click[c] = "pressed"} :
          LET lost == {c \in Clicks \ late : click[c] \in {"pressed", "answering"}} IN
          /\ click' = [c \in Clicks |-> IF c \in lost THEN "lost" ELSE click[c]]
          /\ clickOn' = [c \in Clicks |-> IF c \in lost THEN None ELSE clickOn[c]]
    /\ told' = [a \in Requests |->
                   IF stage[a] # "idle" /\ told[a] = "none"
                   THEN "disconnected" ELSE told[a]]
    /\ frame' = [a \in Requests |-> None]
    /\ UNCHANGED message

Restart ==
    /\ ~up
    /\ up' = TRUE
    /\ UNCHANGED <<crashes, connected, gone, stage, entries, promise, removing, editing,
                   message, clickVars, proxyVars>>

-----------------------------------------------------------------------------
(* The proxy *)

\* A tool_result resolves the pending request, if the proxy still has it.
ProxyReceives(a) ==
    /\ frame[a] # None
    /\ frame' = [frame EXCEPT ![a] = None]
    /\ told' = [told EXCEPT ![a] = IF @ = "none" THEN frame[a] ELSE @]
    /\ UNCHANGED <<daemonVars, message, clickVars>>

\* 60 s after the call the proxy gives up on it.
ProxyTimeout(a) ==
    /\ stage[a] # "idle"
    /\ Owner[a] \in connected
    /\ told[a] = "none"
    /\ told' = [told EXCEPT ![a] = "timeout"]
    /\ UNCHANGED <<daemonVars, message, clickVars, frame>>

-----------------------------------------------------------------------------
Progress ==
    \/ \E a \in Requests : \/ TypeChecked(a) \/ Posted(a) \/ CapacityEdited(a)
                           \/ ProxyReceives(a)
    \/ \E c \in Clicks : HandleCallback(c) \/ ResolveApproval(c)
    \/ \E s \in Sessions : ButtonEdited(s)

Next ==
    \/ Progress
    \/ \E a \in Requests : Request(a) \/ ProxyTimeout(a)
    \/ \E c \in Clicks, a \in Requests, o \in Options : Press(c, a, o)
    \/ \E s \in Sessions : Connect(s) \/ Disconnect(s)
    \/ Crash
    \/ Restart

Spec == Init /\ [][Next]_vars

\* Telegram answers every request of the daemon, in a quarantine or out of it,
\* the event loop gets round to every continuation, and launchd (or the next
\* proxy) starts a daemon that died.
FairSpec ==
    /\ Spec
    /\ \A a \in Requests : /\ WF_vars(TypeChecked(a)) /\ WF_vars(Posted(a))
                           /\ WF_vars(CapacityEdited(a)) /\ WF_vars(ProxyReceives(a))
    /\ \A c \in Clicks : WF_vars(HandleCallback(c)) /\ WF_vars(ResolveApproval(c))
    /\ \A s \in Sessions : WF_vars(ButtonEdited(s))
    /\ WF_vars(Restart)

-----------------------------------------------------------------------------
(* Properties *)

\* The shape of the state; the registry never exceeds its capacity, although
\* an entry is added an await after the tool was called.
TypeOK ==
    /\ up \in BOOLEAN /\ crashes \in 0..MaxCrashes
    /\ connected \subseteq Sessions /\ gone \subseteq Sessions
    /\ stage \in [Requests -> Stages]
    /\ entries \subseteq Requests
    /\ Cardinality(entries) <= Capacity
    /\ promise \in [Requests -> {"none", "pending", "rejected"} \cup Options]
    /\ removing \in [Sessions -> SUBSET Requests]
    /\ editing \in [Sessions -> Requests \cup {None}]
    /\ message \in [Requests -> Messages]
    /\ click \in [Clicks -> ClickStates]
    /\ clickOn \in [Clicks -> (Requests \X Options) \cup {None}]
    /\ frame \in [Requests -> {None, "error"} \cup Options]
    /\ told \in [Requests -> {"none", "error", "timeout", "disconnected"} \cup Options]

\* An entry is in the registry exactly while its promise is pending: none
\* leaks after its answer, and nobody waits on a promise that nothing can
\* settle any more, however clicks, cleanups and crashes interleave.
PendingIffRegistered ==
    \A a \in Requests : a \in entries <=> promise[a] = "pending"

\* A session is told an option only if the admin pressed that option of that
\* very request: no answer crosses to another request or session.  And
\* "approval cancelled" in the chat is never a lie: a request whose button was
\* edited so has given no option to its session, though a press may have been
\* in flight through the cleanup.
ChoiceIsTheAdmins ==
    \A a \in Requests :
        /\ told[a] \in Options =>
              \E c \in Clicks : click[c] = "resolved" /\ clickOn[c] = <<a, told[a]>>
        /\ message[a] = "cancelled" => promise[a] \notin Options /\ told[a] \notin Options

\* The round trip as the desk sees it: a request is open until it has an option
\* or is over, and a press counts until it is found to be in vain.
Decision == [a \in Requests |-> IF promise[a] \in Options THEN promise[a]
                                ELSE IF stage[a] = "done" THEN "withdrawn" ELSE "open"]
Presses == {clickOn[c] : c \in Clicks} \ {None}
Cancelled == {a \in Requests : message[a] = "cancelled"}

Desk == INSTANCE ApprovalDesk WITH presses <- Presses, decision <- Decision,
                                   cancelled <- Cancelled, heard <- told

\* Through disconnects, crashes, timeouts and presses that cross them: at most
\* one decision per request, made by a press of the admin and never revised;
\* none once the request is over; "cancelled" in the chat and the one thing the
\* session is told are never at odds with it.
ImplementsDesk == Desk!Spec

\* The daemon drops no choice: while the session that asked is connected, the
\* frame is on its way to it or the call already has its outcome.
ChoiceReachesSession ==
    \A a \in Requests :
        promise[a] \in Options /\ Owner[a] \in connected
        => frame[a] = promise[a] \/ told[a] # "none"

\* A cleanup passes over no request it has listed: it is settled when it leaves
\* the list, even when another one of the list is answered meanwhile.
CleanupSettles ==
    [][\A a \in Requests :
          a \in removing[Owner[a]] /\ a \notin removing'[Owner[a]]
          => promise'[a] # "pending"]_vars

\* The press that is through with its handler has settled the request, whether
\* or not Telegram took the answer to the press.
PressSettles ==
    \A c \in Clicks : click[c] = "resolved" => promise[clickOn[c][1]] # "pending"

\* Every press the daemon fetches comes to the end of its handler or is lost in
\* a crash, and every cleanup ends (as they are finitely many, again and again
\* none is under way); no cleanup ends by leaving out what it has listed, and no
\* press without its request being settled.  That the admin's client stops
\* showing the press as pending is not claimed: an answerCallbackQuery that
\* fails is swallowed, and a press that is lost is never answered.
AllSettled ==
    /\ []<>(/\ \A c \in Clicks : click[c] \notin {"pressed", "answering"}
           /\ \A s \in Sessions : editing[s] = None)
    /\ CleanupSettles
    /\ [][PressSettles']_vars

\* The documented cleanup (MODULE-004 1.4.5): when a session is disconnected
\* every pending request of it is cancelled. Violated: a request whose message
\* was still being posted registers afterwards, with nobody left to cancel it.
NoOrphan ==
    \A a \in Requests : stage[a] = "waiting" /\ Owner[a] \in gone
                        => a \in removing[Owner[a]]

\* The documented wait (PRD 3.3): no timer ends a call and the session's await
\* does not get lost, so a session that stays connected is told what the admin
\* chose. Violated by the proxy's 60 s: the daemon still counts the request as
\* pending, resolves it later, and the answer is dropped.
AnswerNotLost ==
    \A a \in Requests : promise[a] \in Options /\ Owner[a] \in connected
                        => told[a] \in {"none", promise[a]}
=============================================================================
