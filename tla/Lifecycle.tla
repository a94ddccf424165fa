----------------------------- MODULE Lifecycle -----------------------------
(***************************************************************************)
(* What decides whether the daemon lives on: the watchdog                  *)
(* (daemon/watchdog.ts) composed with the parts it watches and that act on *)
(* one another: the polling loop, whose successes are its heartbeat        *)
(* (telegram/polling-loop.ts), the registration gate, whose timeout pauses *)
(* that loop (Registration), and the sessions, whose absence lets a lazily *)
(* spawned daemon go.  The loop is reduced to its states and awaits;       *)
(* PollingLoop has the rest of it.                                         *)
(*                                                                         *)
(* Time passes in ticks.  A timer that is due and a watchdog that would    *)
(* signal hold the clock, as both act within a second; an answer of        *)
(* Telegram may take for ever, since getUpdates is fetched without a       *)
(* timeout.                                                                *)
(***************************************************************************)
EXTENDS Registration

CONSTANTS
    HeartbeatTimeout,  \* heartbeatTimeoutMs, in ticks
    Cooldown,          \* the quarantine's cooldown, in ticks
    IdleTtl,           \* idleTtlMs, in ticks
    MaxClients,        \* bound: how many sessions connect at a time
    MaxBoots           \* bound: how often the daemon is started

ASSUME LifecycleAssumption ==
    /\ HeartbeatTimeout \in Nat \ {0}
    /\ Cooldown \in Nat \ {0}
    /\ IdleTtl \in Nat \ {0}
    /\ MaxClients \in Nat
    /\ MaxBoots \in Nat \ {0}

VARIABLES
    up,          \* the daemon runs
    at,          \* the await of the polling loop
    polling,     \* its state
    cooled,      \* the ticks it has spent in this cooldown
    heartbeat,   \* now - Watchdog.lastPollingHealthTs
    clients,     \* Watchdog.mcpClientCount
    idle,        \* now - Watchdog.lastClientDisconnectTs
    signalled,   \* the kind of the watchdog's signal, or "none"
    parentGone,  \* the parent process has died
    boots,       \* how often the daemon was started
    \* history
    deserted     \* the ticks since a session was last connected, or the boot

loopVars == <<at, polling, cooled>>
dogVars  == <<heartbeat, clients, idle, signalled, parentGone, deserted>>
vars     == <<regVars, up, loopVars, dogVars, boots>>

UpTo(limit, n) == IF n > limit THEN limit ELSE n

\* What a boot makes of the loop and the watchdog.
Fresh ==
    /\ up' = TRUE
    /\ at' = "poll" /\ polling' = "running" /\ cooled' = 0
    /\ heartbeat' = 0 /\ clients' = 0 /\ idle' = 0
    /\ signalled' = "none" /\ parentGone' = FALSE /\ deserted' = 0
    /\ boots' = boots + 1

Init ==
    /\ NotBooted
    /\ up = FALSE
    /\ at = "poll" /\ polling = "running" /\ cooled = 0
    /\ heartbeat = 0 /\ clients = 0 /\ idle = 0
    /\ signalled = "none" /\ parentGone = FALSE /\ deserted = 0
    /\ boots = 0

\* launchd, or the next claude session, starts the daemon.
Start ==
    /\ ~up
    /\ boots < MaxBoots
    /\ Boot
    /\ Fresh

-----------------------------------------------------------------------------
(* The polling loop *)

LoopTop(state) == CASE state = "running"    -> "poll"
                    [] state = "quarantine" -> "cooldown"
                    [] state = "paused"     -> "pausedSleep"

\* What an answer brings: no message for the gate, or one.
Served ==
    \/ UNCHANGED regVars
    \/ \E u \in Users : \E guess \in {BadFormat, WrongCode} \union 1..window :
           ProcessRegistrationDM(u, guess)

\* getUpdates answers: the heartbeat, then the updates.
PollOk ==
    /\ up /\ at = "poll"
    /\ heartbeat' = 0
    /\ Served
    /\ at' = LoopTop(polling)
    /\ cooled' = 0
    /\ UNCHANGED <<up, polling, clients, idle, signalled, parentGone, deserted,
                   boots>>

\* The fatal window fills up.
PollFatal ==
    /\ up /\ at = "poll"
    /\ polling' = "quarantine"
    /\ at' = "cooldown"
    /\ cooled' = 0
    /\ UNCHANGED <<regVars, up, dogVars, boots>>

CooldownOver ==
    /\ up /\ at = "cooldown" /\ cooled >= Cooldown
    /\ at' = "probe"
    /\ UNCHANGED <<regVars, up, polling, cooled, dogVars, boots>>

\* The probe answers; its updates are published, but no heartbeat is.
ProbeOk ==
    /\ up /\ at = "probe"
    /\ polling' = "running"
    /\ at' = "poll"
    /\ Served
    /\ UNCHANGED <<up, cooled, dogVars, boots>>

ProbeFails ==
    /\ up /\ at = "probe"
    /\ at' = LoopTop(polling)
    /\ cooled' = 0
    /\ UNCHANGED <<regVars, up, polling, dogVars, boots>>

-----------------------------------------------------------------------------
(* The gate and the control socket *)

\* The window's timer; registration_timeout pauses the loop at any await.
WindowTimeout(w) ==
    /\ up
    /\ HandleTimeout(w)
    /\ polling' = IF Announces(w) THEN "paused" ELSE polling
    /\ UNCHANGED <<up, at, cooled, dogVars, boots>>

ResetRequest ==
    /\ up
    /\ Reset
    /\ UNCHANGED <<up, loopVars, dogVars, boots>>

Edit ==
    /\ Edited
    /\ UNCHANGED <<up, loopVars, dogVars, boots>>

-----------------------------------------------------------------------------
(* The watchdog *)

SessionConnects ==
    /\ up /\ clients < MaxClients
    /\ clients' = clients + 1
    /\ deserted' = 0
    /\ UNCHANGED <<regVars, up, loopVars, heartbeat, idle, signalled, parentGone,
                   boots>>

\* Variant with a bug: only the arrival of a session marks the time.
SessionLeavesUnmarked ==
    /\ up /\ clients > 0
    /\ clients' = clients - 1
    /\ UNCHANGED <<regVars, up, loopVars, heartbeat, idle, signalled, parentGone,
                   deserted, boots>>

SessionLeaves ==
    /\ up /\ clients > 0
    /\ clients' = clients - 1
    /\ idle' = 0
    /\ UNCHANGED <<regVars, up, loopVars, heartbeat, signalled, parentGone,
                   deserted, boots>>

\* A daemon launchd starts has launchd for a parent, bootPpid = 1.
ParentDies ==
    /\ up /\ mode = "lazy-spawn" /\ ~parentGone
    /\ parentGone' = TRUE
    /\ UNCHANGED <<regVars, up, loopVars, heartbeat, clients, idle, signalled,
                   deserted, boots>>

Orphaned == parentGone

\* Variant with a bug: a paused loop is left alone, as the document has it.
StuckUnlessPaused == heartbeat > HeartbeatTimeout /\ polling # "paused"

Stuck == heartbeat > HeartbeatTimeout
Idle  == mode = "lazy-spawn" /\ clients = 0 /\ idle > IdleTtl

\* probeOnce, when it signals: the shutdown it requests ends the process.
Signal ==
    /\ up
    /\ Orphaned \/ Stuck \/ Idle
    /\ signalled' = IF Orphaned THEN "orphan" ELSE IF Stuck THEN "stuck" ELSE "idle"
    /\ up' = FALSE
    /\ UNCHANGED <<regVars, loopVars, heartbeat, clients, idle, parentGone,
                   deserted, boots>>

\* Any other death.
Crash ==
    /\ up
    /\ up' = FALSE
    /\ UNCHANGED <<regVars, loopVars, dogVars, boots>>

-----------------------------------------------------------------------------
\* A tick: nothing is due.
Tick ==
    /\ up
    /\ ~Orphaned /\ ~Stuck /\ ~Idle
    /\ ~(at = "cooldown" /\ cooled >= Cooldown)
    /\ TickTimers
    /\ heartbeat' = UpTo(HeartbeatTimeout + 1, heartbeat + 1)
    /\ idle' = UpTo(IdleTtl + 1, idle + 1)
    /\ deserted' = IF clients > 0 THEN 0 ELSE UpTo(IdleTtl + 1, deserted + 1)
    /\ cooled' = IF at = "cooldown" THEN cooled + 1 ELSE cooled
    /\ UNCHANGED <<up, at, polling, clients, signalled, parentGone, boots>>

Next ==
    \/ Start
    \/ PollOk
    \/ PollFatal
    \/ CooldownOver
    \/ ProbeOk
    \/ ProbeFails
    \/ \E w \in Windows : WindowTimeout(w)
    \/ ResetRequest
    \/ Edit
    \/ SessionConnects
    \/ SessionLeaves
    \/ ParentDies
    \/ Signal
    \/ Crash
    \/ Tick

Spec == Init /\ [][Next]_vars

\* Timers fire: the clock's, the watchdog's interval, the sleep of a cooldown and
\* the windows'.  Nothing is assumed of Telegram, of the users, or of who starts
\* the daemon, and nobody has to reset anything.
FairSpec ==
    /\ Spec
    /\ WF_vars(Tick)
    /\ WF_vars(Signal)
    /\ WF_vars(CooldownOver)
    /\ \A w \in Windows : WF_vars(WindowTimeout(w))

-----------------------------------------------------------------------------
(* Properties *)

\* Types, those of Registration included.
TypeOK ==
    /\ RegTypeOK
    /\ up \in BOOLEAN
    /\ at \in {"poll", "cooldown", "probe", "pausedSleep"}
    /\ polling \in {"running", "quarantine", "paused"}
    /\ cooled \in 0..Cooldown
    /\ heartbeat \in 0..(HeartbeatTimeout + 1)
    /\ clients \in 0..MaxClients
    /\ idle \in 0..(IdleTtl + 1) /\ deserted \in 0..(IdleTtl + 1)
    /\ signalled \in {"none", "orphan", "stuck", "idle"}
    /\ parentGone \in BOOLEAN
    /\ boots \in 0..MaxBoots

\* Without TELEGRAM_AUTHORIZED_USERS a restart obeys nobody whom the daemon did
\* not obey before it: no reset, failed write or edit brings an earlier admin
\* back.  It obeys the same one unless a write of admin.json failed or somebody
\* edited it.  (With that variable set, each boot obeys the environment: an admin
\* who registered after a reset is obeyed until the restart only.)
RestartObeysSame ==
    boots > 0 /\ env = {} =>
        /\ AdminsAtBoot \subseteq members
        /\ ~spoiled => AdminsAtBoot = members

\* Under launchd no daemon stays up for good where nobody is heard, or nobody
\* can get to be: it comes back again and again to a loop that is not paused
\* and an admin, an open window or a wait for a reset; or it ends, so that
\* launchd starts the next one.  A loop paused by a window's timeout is resumed
\* neither by a reset, which opens a window nobody can be heard in, nor by
\* anything else, if it sleeps already.
SomebodyIsHeard ==
    up /\ mode = "launchd" ~>
        \/ ~up
        \/ polling # "paused" /\ (members # {} \/ gate \in {"open", "waiting"})

\* The watchdog lets a daemon go as idle only when it was lazily spawned and no
\* session has been connected for longer than the idle time.
IdleIsDeserted ==
    signalled = "idle" =>
        mode = "lazy-spawn" /\ clients = 0 /\ deserted > IdleTtl

\* docs/modules/MODULE-006-admin-auth.md:158: after a registration timeout under
\* launchd the "daemon stays alive in wait-for-reset state".  A loop that sleeps
\* in its paused branch is not stuck.
WaitsForReset ==
    gate = "waiting" /\ at = "pausedSleep" => signalled # "stuck"
=============================================================================
