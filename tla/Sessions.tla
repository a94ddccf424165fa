------------------------------ MODULE Sessions ------------------------------
(***************************************************************************)
(* The sessions of the daemon: the connections the acceptor takes          *)
(* (mcp/daemon-acceptor.ts, mcp/session-map.ts), the routing registry that *)
(* orders the sessions by activity (routing/session-registry.ts), the      *)
(* handshake that turns sessions away while the daemon waits for a reset   *)
(* (routing/wait-for-reset-handshake.ts), the watchdog's count of clients  *)
(* (daemon/watchdog.ts), and the admin's texts and /session commands       *)
(* (routing/inbound-dispatcher.ts).                                        *)
(*                                                                         *)
(* The event bus is synchronous: a callback of a socket, with everything   *)
(* its events set off, is one action.  A session is named by its           *)
(* connection, since its session_id is drawn afresh.                       *)
(***************************************************************************)
EXTENDS Integers, Sequences, FiniteSets

CONSTANTS
    Conns,      \* the connections proxies make, each once
    Shortids,   \* the values randomBytes may draw for a shortid
    Capacity,   \* DEFAULT_CAPACITY of the registry
    MaxTexts,   \* bound: how many texts the admin sends
    Nobody      \* no session

ASSUME SessionsAssumption ==
    /\ Capacity \in Nat \ {0}
    /\ MaxTexts \in Nat
    /\ Nobody \notin Conns
    /\ IsFiniteSet(Conns)

VARIABLES
    sock,        \* the daemon's end of each connection
    shortid,     \* the shortid each session was assigned
    sessionMap,  \* SessionMap.byId
    order,       \* SessionRegistry.orderedEntries, the focus first
    clients,     \* Watchdog.mcpClientCount
    gate,        \* RegistrationGate.currentState
    throttled,   \* a no-session reply went out in the last five minutes
    inbox,       \* the frames written to each socket
    outcome,     \* what became of each of the admin's texts, in order
    \* history
    refused,     \* why a session was turned away as it connected
    lastUsed     \* the registered session that was last active

acceptorVars == <<sock, shortid, sessionMap, inbox, refused>>
routingVars  == <<order, throttled, outcome, lastUsed>>
vars == <<acceptorVars, routingVars, clients, gate>>

Ack       == [kind |-> "ack", text |-> 0]
Farewell  == [kind |-> "farewell", text |-> 0]
Text(t)   == [kind |-> "text", text |-> t]
Elements(s) == {s[i] : i \in 1..Len(s)}
Registered  == Elements(order)

Init ==
    /\ sock = [c \in Conns |-> "new"]
    /\ shortid = [c \in Conns |-> Nobody]
    /\ sessionMap = {}
    /\ order = <<>>
    /\ clients = 0
    /\ gate \in {"closed", "open"}
    /\ throttled = FALSE
    /\ inbox = [c \in Conns |-> <<>>]
    /\ outcome = <<>>
    /\ refused = [c \in Conns |-> "no"]
    /\ lastUsed = Nobody

-----------------------------------------------------------------------------
(* The registry's list *)

\* orderedEntries.splice(k, 1)
Splice(s, k) == [i \in 1..(Len(s) - 1) |-> IF i < k THEN s[i] ELSE s[i + 1]]

\* orderedEntries.findIndex(...): the first place whose session is in S.
Found(s, S) == \E k \in 1..Len(s) : s[k] \in S
FindIndex(s, S) ==
    CHOOSE k \in 1..Len(s) : s[k] \in S /\ \A j \in 1..(k - 1) : s[j] \notin S

\* Variant with a bug: the activity is noted, the entry stays in its place.
BumpInPlace(c) ==
    /\ order' = order
    /\ lastUsed' = IF c \in Registered THEN c ELSE lastUsed

\* bumpActivity: the session, if registered, moves to the head.
Bump(c) ==
    IF Found(order, {c})
    THEN /\ order' = <<c>> \o Splice(order, FindIndex(order, {c}))
         /\ lastUsed' = c
    ELSE UNCHANGED <<order, lastUsed>>

\* Variant with a bug: session_disconnected drops the focus.
UnregisterFocus(c) ==
    order' = IF order = <<>> THEN order ELSE Splice(order, 1)

\* handleSessionDisconnected
Unregister(c) ==
    order' = IF Found(order, {c})
             THEN Splice(order, FindIndex(order, {c}))
             ELSE order

-----------------------------------------------------------------------------
(* The acceptor *)

\* server "connection": the daemon now waits for session_init.
Connect(c) ==
    /\ sock[c] = "new"
    /\ sock' = [sock EXCEPT ![c] = "init"]
    /\ UNCHANGED <<shortid, sessionMap, inbox, refused, routingVars, clients,
                   gate>>

\* assignUniqueShortid passes over the shortids of the session map.
InUse == {shortid[c] : c \in sessionMap}

\* Variant with a bug: the capacity check is off by one.
FullOffByOne == Len(order) > Capacity

\* handleSessionConnected's capacity check.
Full == Len(order) >= Capacity

\* The handshake asks the gate at every session_connected, before the registry.
TurnedAway == gate = "waiting"

\* The ack is written before session_connected lets anyone write.
Greeting(frames) == <<Ack>> \o frames

\* Variant with a bug: the capacity branch does not return.
RegisterAnyway(c) ==
    /\ order' = <<c>> \o order
    /\ lastUsed' = c

\* handleSessionConnected
Register(c) ==
    IF Full
    THEN UNCHANGED <<order, lastUsed>>
    ELSE /\ order' = <<c>> \o order
         /\ lastUsed' = c

\* A session_init in time: acceptSession, then the subscribers of
\* session_connected in the order they were installed: the handshake, the
\* registry, the watchdog.  A disconnect writes a farewell and ends the socket;
\* what is written after that is lost.
SessionInit(c) ==
    /\ sock[c] = "init"
    /\ \E id \in Shortids \ InUse : shortid' = [shortid EXCEPT ![c] = id]
    /\ sessionMap' = sessionMap \union {c}
    /\ clients' = clients + 1
    /\ Register(c)
    /\ LET reason == IF TurnedAway THEN "waiting"
                     ELSE IF Full THEN "capacity" ELSE "no"
       IN  /\ refused' = [refused EXCEPT ![c] = reason]
           /\ sock' = [sock EXCEPT ![c] =
                          IF reason = "no" THEN "open" ELSE "ending"]
           /\ inbox' = [inbox EXCEPT ![c] =
                          Greeting(IF reason = "no" THEN <<>> ELSE <<Farewell>>)]
    /\ UNCHANGED <<gate, throttled, outcome>>

\* assignUniqueShortid gives up after 1024 draws of a shortid in use: the
\* connection is destroyed, nothing is added.
ShortidsExhausted(c) ==
    /\ sock[c] = "init"
    /\ InUse # {}
    /\ sock' = [sock EXCEPT ![c] = "closed"]
    /\ UNCHANGED <<shortid, sessionMap, inbox, refused, routingVars, clients,
                   gate>>

\* The watchdog's handler of session_disconnected.
ClientGone(c) ==
    clients' = IF c \in sessionMap /\ clients > 0 THEN clients - 1 ELSE clients

\* cleanup(): the entry leaves the map, its subscribers hear of it once.
Cleanup(c) ==
    /\ sock' = [sock EXCEPT ![c] = "closed"]
    /\ sessionMap' = sessionMap \ {c}
    /\ IF c \in sessionMap THEN Unregister(c) ELSE UNCHANGED order
    /\ ClientGone(c)
    /\ UNCHANGED <<shortid, inbox, refused, throttled, outcome, lastUsed, gate>>

\* The proxy goes away, the socket fails, or a frame is invalid or incomplete.
PeerCloses(c) ==
    /\ sock[c] \in {"init", "open", "ending"}
    /\ Cleanup(c)

\* The init timer fires and no session_init has come.
InitTimeout(c) ==
    /\ sock[c] = "init"
    /\ Cleanup(c)

\* Variant with a bug: only the capacity check arms the timer.
DestroyTimerForCapacity(c) ==
    /\ sock[c] = "ending"
    /\ refused[c] = "capacity"
    /\ Cleanup(c)

\* closeSession destroys the socket 100 ms after it ended it.
DestroyTimer(c) ==
    /\ sock[c] = "ending"
    /\ Cleanup(c)

\* A tool_call frame; a session being closed may still send one.
ToolCall(c) ==
    /\ sock[c] \in {"open", "ending"}
    /\ Bump(c)
    /\ UNCHANGED <<acceptorVars, clients, gate, throttled, outcome>>

-----------------------------------------------------------------------------
(* The admin *)

\* /session <prefix>: the prefix is the set of shortids that start with it.
SessionCommand(prefix) ==
    /\ gate # "open"
    /\ LET matches == {c \in Registered : shortid[c] \in prefix}
       IN  /\ Found(order, matches)
           /\ Bump(order[FindIndex(order, matches)])
    /\ UNCHANGED <<acceptorVars, clients, gate, throttled, outcome>>

\* Variant with a bug: the fallback loop goes on after a delivery.
DispatchToAll(t) ==
    /\ inbox' = [c \in Conns |-> IF c \in Registered /\ sock[c] = "open"
                                 THEN Append(inbox[c], Text(t)) ELSE inbox[c]]
    /\ outcome' = Append(outcome, IF order = <<>> THEN Nobody ELSE order[1])
    /\ UNCHANGED <<order, throttled>>

\* dispatchToFocus: the first registered session the acceptor knows gets the
\* text, the ones before it are removed as stale; without one the admin is told
\* so, unless told within the interval.  A write to an ended socket is lost and
\* reported as delivered.
DispatchToFocus(t) ==
    IF Found(order, sessionMap)
    THEN LET k == FindIndex(order, sessionMap)
             c == order[k]
         IN  /\ order' = SubSeq(order, k, Len(order))
             /\ outcome' = Append(outcome, c)
             /\ inbox' = IF sock[c] = "open"
                         THEN [inbox EXCEPT ![c] = Append(@, Text(t))]
                         ELSE inbox
             /\ UNCHANGED throttled
    ELSE /\ order' = <<>>
         /\ outcome' = Append(outcome, Nobody)
         /\ throttled' = TRUE
         /\ UNCHANGED inbox

\* A text of a user on the allowlist, while no registration window is open.
AdminText ==
    /\ gate # "open"
    /\ Len(outcome) < MaxTexts
    /\ DispatchToFocus(Len(outcome) + 1)
    /\ UNCHANGED <<sock, shortid, sessionMap, refused, lastUsed, clients, gate>>

\* Five minutes after the last no-session reply.
ThrottleEnds ==
    /\ throttled
    /\ throttled' = FALSE
    /\ UNCHANGED <<acceptorVars, order, outcome, lastUsed, clients, gate>>

\* The gate: reset opens it; a registration closes it; a timeout closes it or
\* makes the daemon wait for a reset, as does a run of wrong codes.
GateMoves ==
    /\ gate' \in IF gate = "open" THEN {"closed", "waiting"} ELSE {"open"}
    /\ UNCHANGED <<acceptorVars, routingVars, clients>>

-----------------------------------------------------------------------------
ConnStep(c) ==
    \/ Connect(c)
    \/ SessionInit(c)
    \/ ShortidsExhausted(c)
    \/ PeerCloses(c)
    \/ InitTimeout(c)
    \/ DestroyTimer(c)
    \/ ToolCall(c)

Next ==
    \/ \E c \in Conns : ConnStep(c)
    \/ \E prefix \in SUBSET Shortids : SessionCommand(prefix)
    \/ AdminText
    \/ ThrottleEnds
    \/ GateMoves

Spec == Init /\ [][Next]_vars

\* Timers fire.
FairSpec ==
    /\ Spec
    /\ \A c \in Conns : WF_vars(InitTimeout(c)) /\ WF_vars(DestroyTimer(c))

-----------------------------------------------------------------------------
(* Properties *)

\* Types, and the registry's capacity.
TypeOK ==
    /\ sock \in [Conns -> {"new", "init", "open", "ending", "closed"}]
    /\ shortid \in [Conns -> Shortids \union {Nobody}]
    /\ sessionMap \subseteq Conns
    /\ order \in Seq(Conns) /\ Len(order) <= Capacity
    /\ clients \in Nat
    /\ gate \in {"closed", "open", "waiting"}
    /\ throttled \in BOOLEAN
    /\ inbox \in [Conns -> Seq([kind : {"ack", "farewell", "text"},
                                text : 0..MaxTexts])]
    /\ outcome \in Seq(Conns \union {Nobody}) /\ Len(outcome) <= MaxTexts
    /\ refused \in [Conns -> {"no", "waiting", "capacity"}]
    /\ lastUsed \in Conns \union {Nobody}

\* The acceptor and the registry hold two lists of the same sessions and tell
\* each other by events: every registered session is in the acceptor's map, so
\* a dispatch never meets a stale one; every open session is registered, so the
\* admin can reach it; and none is registered twice.  The watchdog's count of
\* clients, kept by the same events, is the number of sessions the acceptor
\* holds: the idle shutdown neither strikes a daemon in use nor spares an idle
\* one because an event was missed or doubled.  No two of these sessions, those
\* being closed included, have one shortid: /session never means two of them.
RegistryMatches ==
    /\ Registered \subseteq sessionMap
    /\ {c \in Conns : sock[c] = "open"} \subseteq Registered
    /\ Cardinality(Registered) = Len(order)
    /\ clients = Cardinality(sessionMap)
    /\ \A c, d \in sessionMap : shortid[c] = shortid[d] => c = d

\* A session turned away on connecting is never served: it is being closed or
\* closed, and for want of room it is never registered.  Every session that
\* connected while the daemon waited for a reset was turned away.
TurnedAwayIsClosed ==
    /\ [](\A c \in Conns :
             /\ refused[c] # "no" => sock[c] \in {"ending", "closed"}
             /\ refused[c] = "capacity" => c \notin Registered)
    /\ [][\A c \in Conns : gate = "waiting" /\ c \notin sessionMap
                           => sock'[c] # "open"]_vars

\* The proxy's first frame is the ack with its shortid, whatever subscribers of
\* session_connected write.  Every text goes to one session at most, and a
\* session gets its texts in the order the admin sent them, however the focus
\* moves in between.  And a text reported delivered was written to the session,
\* unless the daemon was closing that session because it waits for a reset.
FramesInOrder ==
    /\ \A c \in Conns : \A i \in 1..Len(inbox[c]) :
          /\ inbox[c][i].kind = "ack" <=> i = 1
          /\ inbox[c][i].kind = "text" =>
              /\ outcome[inbox[c][i].text] = c
              /\ \A j \in 1..(i - 1) : inbox[c][j].text < inbox[c][i].text
    /\ \A t \in 1..Len(outcome) : LET c == outcome[t] IN
          c # Nobody =>
              \/ \E i \in 1..Len(inbox[c]) : inbox[c][i] = Text(t)
              \/ refused[c] = "waiting"

\* The focus is the session that was last active, for as long as it is
\* registered: no arrival, departure or refusal of another takes it away.
FocusIsLastUsed ==
    lastUsed \in Registered => order[1] = lastUsed

\* A connection that says nothing and a session that was turned away both end.
ConnectionsSettle ==
    \A c \in Conns : sock[c] \in {"init", "ending"}
                        ~> sock[c] \in {"open", "closed"}
=============================================================================
