---------------------------- MODULE Registration ----------------------------
(***************************************************************************)
(* Who may talk to the daemon: the registration gate                       *)
(* (auth/registration-gate.ts), the allowlist (auth/allowlist.ts),         *)
(* admin.json (auth/admin-file.ts), how a boot fills them                  *)
(* (auth/boot-resolver.ts) and reset-admin (auth/state-reset.ts, main.ts). *)
(*                                                                         *)
(* Every handler runs to its end before another starts: writeAdminFile is  *)
(* awaited, but is itself synchronous.  A window is named by its number    *)
(* since the first boot, and its code by the window: codes are drawn       *)
(* afresh and do not repeat.                                               *)
(***************************************************************************)
EXTENDS Integers, Sequences, FiniteSets

CONSTANTS
    Users,           \* the Telegram users that send direct messages
    PerSenderLimit,  \* perSenderLimit
    GlobalLimit,     \* globalLimit
    WindowLength,    \* windowMs, in ticks
    MaxWindows,      \* bound: how many windows open
    None             \* no user

ASSUME RegistrationAssumption ==
    /\ PerSenderLimit \in Nat \ {0}
    /\ GlobalLimit \in Nat \ {0}
    /\ WindowLength \in Nat \ {0}
    /\ MaxWindows \in Nat \ {0}
    /\ {None, "malformed", "invalid"} \cap Users = {}

VARIABLES
    mode,            \* the deployment mode, fixed
    env,             \* TELEGRAM_AUTHORIZED_USERS, fixed
    gate,            \* RegistrationGate.currentState
    code,            \* currentCode: a window, or 0 for null
    window,          \* the windows opened so far
    timers,          \* the armed timers: for their window, the ticks left
    timer,           \* RegistrationGate.timer: a window, or 0 for null
    senderFails,     \* perSenderCount
    globalFails,     \* globalCount
    members, source, \* the allowlist
    adminFile,       \* admin.json: a user, None, "malformed" or "invalid"
    \* history
    spoiled,         \* a write of admin.json failed, or somebody edited it
    claims           \* the windows whose code registered an admin, in order

gateVars  == <<gate, code, window, timers, timer, senderFails, globalFails>>
adminVars == <<members, source, adminFile, spoiled, claims>>
regVars   == <<mode, env, gateVars, adminVars>>

Windows == 1..MaxWindows
BadFormat == 0
WrongCode == MaxWindows + 1

-----------------------------------------------------------------------------
(* The window and its timer *)

Without(armed, w) == [v \in DOMAIN armed \ {w} |-> armed[v]]

\* clock.setTimeout(handleTimeout, windowMs)
Armed(armed, w) == [v \in DOMAIN armed \union {w} |->
                       IF v = w THEN WindowLength ELSE armed[v]]

\* openWindow, from a closed gate: a code, counters at zero, the timer armed.
OpenWindow(armed) ==
    /\ window < MaxWindows
    /\ gate' = "open"
    /\ window' = window + 1
    /\ code' = window + 1
    /\ senderFails' = [u \in Users |-> 0]
    /\ globalFails' = 0
    /\ timers' = Armed(armed, window + 1)
    /\ timer' = window + 1

\* Variant with a bug: reset does not cancel the timer of the old window.
UncancelledTimers == timers

\* timer.cancel(): what is armed once this.timer is cancelled.
CancelledTimers == Without(timers, timer)

\* handleTimeout: a lazily spawned daemon closes the gate; one under launchd
\* emits registration_timeout and waits for a reset.
HandleTimeout(w) ==
    /\ w \in DOMAIN timers /\ timers[w] = 0
    /\ timers' = Without(timers, w)
    /\ IF gate = "open"
       THEN /\ gate' = IF mode = "launchd" THEN "waiting" ELSE "closed"
            /\ code' = 0
       ELSE UNCHANGED <<gate, code>>
    /\ UNCHANGED <<mode, env, window, timer, senderFails, globalFails,
                   adminVars>>

\* Did the timer of w, as it fires, emit registration_timeout?
Announces(w) == gate = "open" /\ mode = "launchd"

-----------------------------------------------------------------------------
(* A direct message in the open window *)

\* tripGlobal
TripGlobal ==
    /\ gate' = "waiting"
    /\ code' = 0
    /\ timers' = CancelledTimers
    /\ timer' = 0

\* incFails
IncFails(u) ==
    /\ senderFails' = [senderFails EXCEPT ![u] = @ + 1]
    /\ globalFails' = globalFails + 1
    /\ IF globalFails + 1 >= GlobalLimit
       THEN TripGlobal
       ELSE UNCHANGED <<gate, code, timers, timer>>

\* Variant with a bug: the gate is closed only once the file is written, so
\* that a message handled meanwhile still finds it open.
RegisteredLater(u) ==
    /\ timers' = CancelledTimers
    /\ timer' = 0
    /\ claims' = Append(claims, code)
    /\ UNCHANGED <<gate, code>>

\* The right code: timer, gate and code first, then the admin.
Registered(u) ==
    /\ timers' = CancelledTimers
    /\ timer' = 0
    /\ gate' = "closed"
    /\ code' = 0
    /\ claims' = Append(claims, code)

\* setFromFile and writeAdminFile (tmp + rename), which may fail.
SetAdmin(u) ==
    /\ members' = {u}
    /\ source' = "file"
    /\ \/ adminFile' = u /\ UNCHANGED spoiled
       \/ adminFile' = adminFile /\ spoiled' = TRUE

\* Variant with a bug: the check of the sender's failures is off by one.
RateLimitedLate(u) == senderFails[u] > PerSenderLimit

\* The sender's messages are ignored for the rest of the window.
RateLimited(u) == senderFails[u] >= PerSenderLimit

\* processRegistrationDM, called while the gate is open only.
ProcessRegistrationDM(u, guess) ==
    /\ gate = "open"
    /\ ~RateLimited(u)
    /\ IF guess = code
       THEN /\ Registered(u)
            /\ SetAdmin(u)
            /\ UNCHANGED <<senderFails, globalFails>>
       ELSE /\ IncFails(u)
            /\ UNCHANGED adminVars
    /\ UNCHANGED <<mode, env, window>>

-----------------------------------------------------------------------------
(* reset-admin and boot *)

\* Variant with a bug: a reset that clears the allowlist and leaves the file.
ResetAdminKeepsFile ==
    /\ members' = {} /\ source' = "none"
    /\ UNCHANGED <<adminFile, spoiled, claims>>

\* resetAdmin: readAdminFile removes a malformed file itself, deleteAdminFile
\* removes what is left; the allowlist is cleared if either found one.
ResetAdmin ==
    /\ adminFile' = None
    /\ IF adminFile \in Users \union {"invalid"}
       THEN members' = {} /\ source' = "none"
       ELSE UNCHANGED <<members, source>>
    /\ UNCHANGED <<spoiled, claims>>

\* The control socket's reset_admin_request: reset, then forceReopenForReset.
Reset ==
    /\ ResetAdmin
    /\ OpenWindow(CancelledTimers)
    /\ UNCHANGED <<mode, env>>

\* Somebody edits admin.json.
Edited ==
    /\ \E content \in {"malformed", "invalid"} \ {adminFile} :
          adminFile' = content
    /\ spoiled' = TRUE
    /\ UNCHANGED <<mode, env, gateVars, members, source, claims>>

\* resolveAdminBoot: whom the environment or the file names.
AdminsAtBoot == IF env # {} THEN env
                ELSE IF adminFile \in Users THEN {adminFile} ELSE {}
SourceAtBoot == IF env # {} THEN "env"
                ELSE IF adminFile \in Users THEN "file" ELSE "none"

\* A boot: a fresh gate and allowlist; without an admin the window opens.
Boot ==
    /\ members' = AdminsAtBoot
    /\ source' = SourceAtBoot
    /\ adminFile' = IF env = {} /\ adminFile = "malformed" THEN None ELSE adminFile
    /\ UNCHANGED <<mode, env, spoiled, claims>>
    /\ IF AdminsAtBoot = {}
       THEN OpenWindow(<<>>)
       ELSE /\ gate' = "closed" /\ code' = 0 /\ timers' = <<>> /\ timer' = 0
            /\ senderFails' = [u \in Users |-> 0] /\ globalFails' = 0
            /\ UNCHANGED window

\* Before the first boot: nothing in memory, and a state directory.
NotBooted ==
    /\ mode \in {"launchd", "lazy-spawn"}
    /\ env \in SUBSET Users
    /\ adminFile \in Users \union {None}
    /\ gate = "closed" /\ code = 0 /\ window = 0
    /\ timers = <<>> /\ timer = 0
    /\ senderFails = [u \in Users |-> 0] /\ globalFails = 0
    /\ members = {} /\ source = "none"
    /\ spoiled = FALSE
    /\ claims = <<>>

\* A tick of the clock, for the timers of the gate.
TickTimers ==
    /\ \A w \in DOMAIN timers : timers[w] > 0
    /\ timers' = [w \in DOMAIN timers |-> timers[w] - 1]
    /\ UNCHANGED <<mode, env, gate, code, window, timer, senderFails,
                   globalFails, adminVars>>

-----------------------------------------------------------------------------
(* Properties *)

\* Types.
RegTypeOK ==
    /\ mode \in {"launchd", "lazy-spawn"}
    /\ env \subseteq Users
    /\ gate \in {"closed", "open", "waiting"}
    /\ window \in 0..MaxWindows
    /\ code \in 0..window /\ timer \in 0..window
    /\ DOMAIN timers \subseteq 1..window
    /\ \A w \in DOMAIN timers : timers[w] \in 0..WindowLength
    /\ senderFails \in [Users -> 0..PerSenderLimit]
    /\ globalFails \in 0..GlobalLimit
    /\ members \subseteq Users
    /\ source \in {"env", "file", "none"}
    /\ adminFile \in Users \union {None, "malformed", "invalid"}
    /\ spoiled \in BOOLEAN
    /\ claims \in Seq(Windows)

\* An open window has its own timer and no other is armed, through any order of
\* resets, registrations, trips and boots: no window stays open for ever, and
\* none is closed early by the timer of an older one.
WindowHasItsTimer ==
    /\ gate = "open" => DOMAIN timers = {code} /\ timer = code /\ code = window
    /\ gate # "open" => DOMAIN timers = {} /\ code = 0

\* A code registers at most one admin, and a code older than the last one used
\* never does, though messages with it may be in the same batch of updates.
CodesWorkOnce ==
    \A i, j \in 1..Len(claims) : i < j => claims[i] < claims[j]
=============================================================================
