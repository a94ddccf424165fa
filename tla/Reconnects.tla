---------------------------- MODULE Reconnects ----------------------------
(***************************************************************************)
(* What the acceptor of mcp/daemon-acceptor.ts knows about reconnects: the *)
(* announced ones (scriptedReconnectMap) with their timers, and the marker *)
(* of daemon/state-dir.ts that a SIGTERM leaves for the next daemon.  Each *)
(* session_init is classified by them, so that the stability figures count *)
(* only the reconnects nobody asked for.  Proxy composes it with the       *)
(* processes that announce and reconnect.                                  *)
(*                                                                         *)
(* 60 seconds are Expiry ticks.  A timer that is due holds the clock.      *)
(***************************************************************************)
EXTENDS Integers, Sequences, SequencesExt

CONSTANTS
    Projects,     \* the PROXY_IDs: one per project path
    Expiry,       \* the 60 s an announcement lasts, in ticks
    MaxEntries,   \* SCRIPTED_RECONNECT_MAX_ENTRIES
    Launchd       \* whether launchd starts the daemon (XPC_SERVICE_NAME)

ASSUME ReconnectsAssumption ==
    /\ Expiry \in Nat \ {0}
    /\ MaxEntries \in Nat \ {0}
    /\ Launchd \in BOOLEAN

VARIABLES
    scripted,   \* scriptedReconnectMap: [id, left], the oldest first
    timers,     \* the timers of its entries: [id, left]
    resolved,   \* whether getPostBootShutdownContext has been asked
    marker,     \* last_shutdown.json is there and names SIGTERM
    \* history
    due,        \* the ticks an announcement nobody used yet has to live
    excuses     \* the sessions of this daemon its boot has excused

recVars == <<scripted, timers, resolved, marker, due, excuses>>

Announced(id) == \E i \in DOMAIN scripted :
                     scripted[i].id = id /\ scripted[i].left > 0

\* Map.delete: an id has one entry at most.
Without(s, id) ==
    IF \E i \in DOMAIN s : s[i].id = id
    THEN RemoveAt(s, CHOOSE i \in DOMAIN s : s[i].id = id)
    ELSE s

\* The memory of a daemon that has just started; the marker is a file.
Forgotten ==
    /\ scripted' = <<>> /\ timers' = {} /\ resolved' = FALSE
    /\ due' = [id \in Projects |-> 0] /\ excuses' = 0

NothingAnnounced ==
    /\ scripted = <<>> /\ timers = {} /\ resolved = FALSE /\ marker = FALSE
    /\ due = [id \in Projects |-> 0] /\ excuses = 0

-----------------------------------------------------------------------------
(* will_reconnect *)

\* Variant with a bug: an entry too many.
EvictedLate == IF Len(scripted) > MaxEntries THEN Tail(scripted) ELSE scripted

\* What the cap takes away: the oldest entry, the refreshed one included.
Evicted == IF Len(scripted) >= MaxEntries THEN Tail(scripted) ELSE scripted

\* Map.set: an entry that is still there keeps its place.
Entered(s, id) ==
    LET fresh == [id |-> id, left |-> Expiry] IN
    IF \E i \in DOMAIN s : s[i].id = id
    THEN [i \in DOMAIN s |-> IF s[i].id = id THEN fresh ELSE s[i]]
    ELSE Append(s, fresh)

Kept(id) == \E i \in DOMAIN Evicted : Evicted[i].id = id

DueAfter(id) == [x \in Projects |-> IF x = id THEN Expiry
                                   ELSE IF Kept(x) THEN due[x] ELSE 0]

\* Variant with a bug: the timer of the entry it refreshes goes on running.
RecordKeepsTimer(id) ==
    /\ scripted' = Entered(Evicted, id)
    /\ timers' = {t \in timers : t.id = id \/ Kept(t.id)}
                   \cup {[id |-> id, left |-> Expiry]}
    /\ due' = DueAfter(id)
    /\ UNCHANGED <<resolved, marker, excuses>>

\* recordWillReconnect: the timers of what it replaces and evicts are cancelled.
RecordWillReconnect(id) ==
    /\ scripted' = Entered(Evicted, id)
    /\ timers' = {t \in timers : t.id # id /\ Kept(t.id)}
                   \cup {[id |-> id, left |-> Expiry]}
    /\ due' = DueAfter(id)
    /\ UNCHANGED <<resolved, marker, excuses>>

\* The 60 s timer of an entry deletes whatever its id has in the map.
ExpiryTimer(t) ==
    /\ t \in timers /\ t.left = 0
    /\ timers' = timers \ {t}
    /\ scripted' = Without(scripted, t.id)
    /\ UNCHANGED <<resolved, marker, due, excuses>>

-----------------------------------------------------------------------------
(* session_init *)

\* Variant with a bug: the cause of the last shutdown is asked every time.
ContextEveryTime ==
    /\ resolved' = FALSE
    /\ marker' = IF resolved THEN marker ELSE FALSE
    /\ excuses' = IF marker \/ Launchd
                  THEN excuses + 1 ELSE excuses

\* getPostBootShutdownContext: the first question removes the marker and
\* learns the cause; later ones hear "none".
PostBootContext ==
    /\ resolved' = TRUE
    /\ marker' = IF resolved THEN marker ELSE FALSE
    /\ excuses' = IF ~resolved /\ (marker \/ Launchd)
                  THEN excuses + 1 ELSE excuses

\* acceptSession: an announced reconnect uses its entry up; any other session
\* is excused by what ended the last daemon, or counts as spurious.
Classify(id) ==
    /\ IF Announced(id)
       THEN /\ scripted' = Without(scripted, id)
            /\ timers' = {t \in timers : t.id # id}
            /\ UNCHANGED <<resolved, marker, excuses>>
       ELSE PostBootContext /\ UNCHANGED <<scripted, timers>>
    /\ due' = [due EXCEPT ![id] = 0]

\* writeShutdownMarker: best effort.  (A death inside it leaves a file that does
\* not validate, which counts as none.)
WriteShutdownMarker ==
    /\ marker' \in {marker, TRUE}
    /\ UNCHANGED <<scripted, timers, resolved, due, excuses>>

-----------------------------------------------------------------------------
Lower(n) == IF n > 0 THEN n - 1 ELSE 0

\* A second passes; every timer that is due has fired.
Passed ==
    /\ timers # {} /\ \A t \in timers : t.left > 0
    /\ timers' = {[t EXCEPT !.left = @ - 1] : t \in timers}
    /\ scripted' = [i \in DOMAIN scripted |-> [scripted[i] EXCEPT !.left = Lower(@)]]
    /\ due' = [id \in Projects |-> Lower(due[id])]
    /\ UNCHANGED <<resolved, marker, excuses>>
=============================================================================
