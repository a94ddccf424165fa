-------------------------- MODULE LifecycleProofs --------------------------
(***************************************************************************)
(* Theorems about Registration and Lifecycle, for any set of users, any    *)
(* limits and times, and any number of windows and boots.                  *)
(***************************************************************************)
EXTENDS Lifecycle, TLAPS

-----------------------------------------------------------------------------
(* The gate: its types, its timer, and the failures an open window has left *)

\* The type invariant needs the timer's: a window that is open has a code, and
\* the room an open window has for one more failure keeps the count bounded.
GateInv ==
    /\ RegTypeOK
    /\ WindowHasItsTimer
    /\ gate = "open" => globalFails < GlobalLimit

\* Every step of the daemon is one of these for the gate and the admin.
RegStep ==
    \/ UNCHANGED regVars
    \/ \E u \in Users, guess \in Nat : ProcessRegistrationDM(u, guess)
    \/ \E w \in Windows : HandleTimeout(w)
    \/ Reset
    \/ Edited
    \/ Boot
    \/ TickTimers

LEMMA NextIsRegStep == [Next]_vars => RegStep
<1> USE RegistrationAssumption
<1> SUFFICES ASSUME [Next]_vars PROVE RegStep
  OBVIOUS
<1>1. Served => RegStep
  BY DEF Served, RegStep, BadFormat, WrongCode
<1>2. CASE Start
  BY <1>2 DEF Start, RegStep
<1>3. CASE PollOk \/ ProbeOk
  BY <1>1, <1>3 DEF PollOk, ProbeOk
<1>4. CASE PollFatal \/ CooldownOver \/ ProbeFails \/ SessionConnects
           \/ SessionLeaves \/ ParentDies \/ Signal \/ Crash
  BY <1>4 DEF RegStep, PollFatal, CooldownOver, ProbeFails, SessionConnects,
              SessionLeaves, ParentDies, Signal, Crash
<1>5. CASE \E w \in Windows : WindowTimeout(w)
  BY <1>5 DEF RegStep, WindowTimeout
<1>6. CASE ResetRequest \/ Edit \/ Tick
  BY <1>6 DEF RegStep, ResetRequest, Edit, Tick
<1>7. CASE UNCHANGED vars
  BY <1>7 DEF RegStep, vars
<1> QED
  BY <1>2, <1>3, <1>4, <1>5, <1>6, <1>7 DEF Next

LEMMA InitGate == Init => GateInv
<1> USE RegistrationAssumption
<1> SUFFICES ASSUME Init PROVE GateInv
  OBVIOUS
<1>1. timers = <<>> /\ gate = "closed" /\ code = 0 /\ window = 0 /\ timer = 0
  BY DEF Init, NotBooted
<1>2. DOMAIN timers = {}
  BY <1>1
<1>3. WindowHasItsTimer
  BY <1>1, <1>2 DEF WindowHasItsTimer
<1>4. /\ DOMAIN timers \subseteq 1..window
      /\ \A w \in DOMAIN timers : timers[w] \in 0..WindowLength
  BY <1>2
<1>5. /\ mode \in {"launchd", "lazy-spawn"} /\ env \subseteq Users
      /\ members \subseteq Users /\ source \in {"env", "file", "none"}
      /\ adminFile \in Users \union {None, "malformed", "invalid"}
      /\ spoiled \in BOOLEAN
  BY DEF Init, NotBooted
<1>6. senderFails \in [Users -> 0..PerSenderLimit] /\ globalFails \in 0..GlobalLimit
  BY DEF Init, NotBooted
<1>7. claims \in Seq(Windows)
  BY DEF Init, NotBooted
<1> QED
  BY <1>1, <1>3, <1>4, <1>5, <1>6, <1>7 DEF GateInv, RegTypeOK

\* What reset and boot may do to the admin beside opening a window.
AdminTypes ==
    /\ members \subseteq Users
    /\ source \in {"env", "file", "none"}
    /\ adminFile \in Users \union {None, "malformed", "invalid"}

\* A window opens once the timers of older ones are gone.
LEMMA OpenWindowGate ==
  ASSUME GateInv, NEW armed, DOMAIN armed = {}, OpenWindow(armed),
         AdminTypes', UNCHANGED <<mode, env, spoiled, claims>>
  PROVE  GateInv'
<1> USE RegistrationAssumption
<1>1. /\ gate' = "open" /\ window' \in 1..MaxWindows
      /\ code' = window' /\ timer' = window'
      /\ senderFails' \in [Users -> 0..PerSenderLimit]
      /\ globalFails' = 0
  BY DEF GateInv, RegTypeOK, OpenWindow
<1>2. DOMAIN timers' = {window'} /\ timers'[window'] = WindowLength
  BY <1>1 DEF OpenWindow, Armed
<1>3. WindowHasItsTimer'
  BY <1>1, <1>2 DEF WindowHasItsTimer
<1>4. DOMAIN timers' \subseteq 1..window' /\ \A w \in DOMAIN timers' : timers'[w] \in 0..WindowLength
  BY <1>1, <1>2
<1>5. /\ mode' \in {"launchd", "lazy-spawn"} /\ env' \subseteq Users
      /\ spoiled' \in BOOLEAN /\ claims' \in Seq(Windows)
  BY DEF GateInv, RegTypeOK, Windows
<1>6. RegTypeOK'
  BY <1>1, <1>4, <1>5 DEF RegTypeOK, AdminTypes
<1> QED
  BY <1>1, <1>3, <1>6 DEF GateInv

LEMMA CancelledIsEmpty == ASSUME GateInv PROVE DOMAIN CancelledTimers = {}
  BY DEF GateInv, WindowHasItsTimer, CancelledTimers, Without

LEMMA MessageGate ==
  ASSUME GateInv, NEW u \in Users, NEW guess \in Nat,
         ProcessRegistrationDM(u, guess)
  PROVE  GateInv'
<1> USE RegistrationAssumption
<1>1. DOMAIN CancelledTimers = {}
  BY CancelledIsEmpty
<1>2. /\ gate = "open" /\ code = window /\ timer = code /\ DOMAIN timers = {code}
      /\ window \in 1..MaxWindows
  BY DEF GateInv, RegTypeOK, WindowHasItsTimer, ProcessRegistrationDM
<1>3. CASE guess = code
  <2>1. /\ gate' = "closed" /\ code' = 0 /\ timer' = 0 /\ timers' = CancelledTimers
        /\ claims' = Append(claims, code)
        /\ UNCHANGED <<mode, env, window, senderFails, globalFails>>
    BY <1>3 DEF ProcessRegistrationDM, Registered
  <2>2. claims' \in Seq(Windows)
    BY <1>2, <2>1 DEF GateInv, RegTypeOK, Windows
  <2>3. /\ members' \subseteq Users /\ source' = "file"
        /\ adminFile' \in Users \union {None, "malformed", "invalid"}
        /\ spoiled' \in BOOLEAN
    BY <1>3 DEF ProcessRegistrationDM, SetAdmin, GateInv, RegTypeOK
  <2> QED
    BY <1>1, <1>2, <2>1, <2>2, <2>3 DEF GateInv, RegTypeOK, WindowHasItsTimer
<1>4. CASE guess # code
  <2>1. /\ senderFails' = [senderFails EXCEPT ![u] = @ + 1]
        /\ globalFails' = globalFails + 1
        /\ UNCHANGED <<mode, env, window, adminVars>>
    BY <1>4 DEF ProcessRegistrationDM, IncFails
  <2>2. /\ senderFails' \in [Users -> 0..PerSenderLimit]
        /\ globalFails' \in 0..GlobalLimit
    BY <1>2, <2>1 DEF ProcessRegistrationDM, RateLimited, GateInv, RegTypeOK
  <2>3. CASE globalFails + 1 >= GlobalLimit
    <3>1. gate' = "waiting" /\ code' = 0 /\ timers' = CancelledTimers /\ timer' = 0
      BY <1>4, <2>3 DEF ProcessRegistrationDM, IncFails, TripGlobal
    <3> QED
      BY <1>1, <1>2, <2>1, <2>2, <3>1
      DEF GateInv, RegTypeOK, WindowHasItsTimer, adminVars
  <2>4. CASE ~(globalFails + 1 >= GlobalLimit)
    <3>1. UNCHANGED <<gate, code, timers, timer>>
      BY <1>4, <2>4 DEF ProcessRegistrationDM, IncFails
    <3> QED
      BY <1>2, <2>1, <2>2, <2>4, <3>1
      DEF GateInv, RegTypeOK, WindowHasItsTimer, adminVars
  <2> QED
    BY <2>3, <2>4
<1> QED
  BY <1>3, <1>4

LEMMA TimeoutGate ==
  ASSUME GateInv, NEW w \in Windows, HandleTimeout(w)
  PROVE  GateInv'
<1> USE RegistrationAssumption
<1>1. gate = "open" /\ w = code /\ DOMAIN timers = {w}
  BY DEF GateInv, WindowHasItsTimer, HandleTimeout
<1>2. DOMAIN Without(timers, w) = {}
  BY <1>1 DEF Without
<1>3. gate' \in {"closed", "waiting"} /\ code' = 0 /\ DOMAIN timers' = {}
  BY <1>1, <1>2 DEF HandleTimeout
<1> QED
  BY <1>3 DEF HandleTimeout, GateInv, RegTypeOK, WindowHasItsTimer, adminVars

LEMMA BootGate == ASSUME GateInv, Boot PROVE GateInv'
<1> USE RegistrationAssumption
<1>1. AdminsAtBoot \subseteq Users
  BY DEF AdminsAtBoot, GateInv, RegTypeOK
<1>2. AdminTypes' /\ UNCHANGED <<mode, env, spoiled, claims>>
  BY <1>1 DEF Boot, SourceAtBoot, GateInv, RegTypeOK, AdminTypes
<1>3. CASE AdminsAtBoot = {}
  <2>1. OpenWindow(<<>>)
    BY <1>3 DEF Boot
  <2>2. DOMAIN <<>> = {}
    OBVIOUS
  <2> QED
    BY <1>2, <2>1, <2>2, OpenWindowGate
<1>4. CASE AdminsAtBoot # {}
  <2>1. /\ gate' = "closed" /\ code' = 0 /\ timers' = <<>> /\ timer' = 0
        /\ senderFails' = [v \in Users |-> 0] /\ globalFails' = 0
        /\ window' = window
    BY <1>4 DEF Boot
  <2>2. DOMAIN timers' = {}
    BY <2>1
  <2> QED
    BY <1>2, <2>1, <2>2 DEF GateInv, RegTypeOK, WindowHasItsTimer, AdminTypes
<1> QED
  BY <1>3, <1>4

LEMMA ResetGate == ASSUME GateInv, Reset PROVE GateInv'
<1> USE RegistrationAssumption
<1>1. OpenWindow(CancelledTimers) /\ DOMAIN CancelledTimers = {}
  BY CancelledIsEmpty DEF Reset
<1>2. AdminTypes' /\ UNCHANGED <<mode, env, spoiled, claims>>
  BY DEF Reset, ResetAdmin, GateInv, RegTypeOK, AdminTypes
<1> QED
  BY <1>1, <1>2, OpenWindowGate

LEMMA TickGate == ASSUME GateInv, TickTimers PROVE GateInv'
<1>1. /\ DOMAIN timers' = DOMAIN timers
      /\ \A w \in DOMAIN timers' : timers'[w] \in 0..WindowLength
  BY RegistrationAssumption DEF TickTimers, GateInv, RegTypeOK
<1> QED
  BY <1>1 DEF TickTimers, GateInv, RegTypeOK, WindowHasItsTimer, adminVars

LEMMA StepGate == GateInv /\ RegStep => GateInv'
<1> SUFFICES ASSUME GateInv, RegStep PROVE GateInv'
  OBVIOUS
<1>1. CASE UNCHANGED regVars
  BY <1>1 DEF regVars, gateVars, adminVars, GateInv, RegTypeOK, WindowHasItsTimer
<1>2. CASE Edited
  BY <1>2 DEF Edited, gateVars, GateInv, RegTypeOK, WindowHasItsTimer
<1> QED
  BY <1>1, <1>2, MessageGate, TimeoutGate, ResetGate, BootGate, TickGate DEF RegStep

LEMMA GateInvariant == Spec => []GateInv
  BY InitGate, NextIsRegStep, StepGate, PTL DEF Spec

\* Through any resets, registrations, trips, timeouts and boots an open window
\* has its own timer, and no timer of an older one is armed.
THEOREM TimerOfItsWindow == Spec => []WindowHasItsTimer
<1>1. GateInv => WindowHasItsTimer
  BY DEF GateInv
<1> QED
  BY <1>1, GateInvariant, PTL

-----------------------------------------------------------------------------
(* Types *)

\* The ages and counters of the watchdog and the loop.
DogTypeOK ==
    /\ up \in BOOLEAN
    /\ at \in {"poll", "cooldown", "probe", "pausedSleep"}
    /\ polling \in {"running", "quarantine", "paused"}
    /\ cooled \in 0..Cooldown
    /\ heartbeat \in 0..(HeartbeatTimeout + 1)
    /\ clients \in 0..MaxClients
    /\ idle \in 0..(IdleTtl + 1) /\ deserted \in 0..(IdleTtl + 1)
    /\ signalled \in {"none", "orphan", "stuck", "idle"}
    /\ parentGone \in BOOLEAN
    /\ boots \in 0..MaxBoots

LEMMA LoopTopAwaits ==
  ASSUME NEW state \in {"running", "quarantine", "paused"}
  PROVE  LoopTop(state) \in {"poll", "cooldown", "pausedSleep"}
<1>1. CASE state = "running"
  BY <1>1, Zenon DEF LoopTop
<1>2. CASE state = "quarantine"
  BY <1>2, Zenon DEF LoopTop
<1>3. CASE state = "paused"
  BY <1>3, Zenon DEF LoopTop
<1> QED
  BY <1>1, <1>2, <1>3

LEMMA Zeros ==
    /\ 0 \in 0..Cooldown /\ 0 \in 0..(HeartbeatTimeout + 1)
    /\ 0 \in 0..MaxClients /\ 0 \in 0..(IdleTtl + 1) /\ 0 \in 0..MaxBoots
  BY LifecycleAssumption

LEMMA InitDog == Init => DogTypeOK
  BY Zeros DEF Init, DogTypeOK

LEMMA StepDog == DogTypeOK /\ [Next]_vars => DogTypeOK'
<1> USE LifecycleAssumption DEF DogTypeOK
<1> SUFFICES ASSUME DogTypeOK, [Next]_vars PROVE DogTypeOK'
  OBVIOUS
<1>1. CASE Start
  <2>1. boots' \in 0..MaxBoots
    BY <1>1 DEF Start, Fresh
  <2> QED
    BY <1>1, <2>1, Zeros DEF Start, Fresh
<1>2. CASE PollOk \/ ProbeFails
  BY <1>2, LoopTopAwaits DEF PollOk, ProbeFails, dogVars
<1>3. CASE PollFatal \/ CooldownOver \/ ProbeOk
  BY <1>3 DEF PollFatal, CooldownOver, ProbeOk, dogVars
<1>4. CASE \E w \in Windows : WindowTimeout(w)
  BY <1>4 DEF WindowTimeout, dogVars
<1>5. CASE ResetRequest \/ Edit \/ Crash
  BY <1>5 DEF ResetRequest, Edit, Crash, loopVars, dogVars
<1>6. CASE SessionConnects \/ SessionLeaves \/ ParentDies
  <2>1. clients' \in 0..MaxClients
    BY <1>6 DEF SessionConnects, SessionLeaves, ParentDies
  <2>2. /\ idle' \in {0, idle} /\ deserted' \in {0, deserted}
        /\ parentGone' \in BOOLEAN
        /\ UNCHANGED <<up, at, polling, cooled, heartbeat, signalled, boots>>
    BY <1>6 DEF SessionConnects, SessionLeaves, ParentDies, loopVars
  <2> QED
    BY <2>1, <2>2, Zeros
<1>7. CASE Signal
  BY <1>7 DEF Signal, loopVars
<1>8. CASE Tick
  BY <1>8 DEF Tick, UpTo
<1>9. CASE UNCHANGED vars
  BY <1>9 DEF vars, loopVars, dogVars
<1> QED
  BY <1>1, <1>2, <1>3, <1>4, <1>5, <1>6, <1>7, <1>8, <1>9 DEF Next

\* Every state has its types: no count of failures passes its limit, and no age
\* the time at which somebody acts on it.
THEOREM TypeCorrect == Spec => []TypeOK
<1>1. GateInv /\ DogTypeOK => TypeOK
  BY DEF GateInv, DogTypeOK, TypeOK
<1>2. Spec => []DogTypeOK
  BY InitDog, StepDog, PTL DEF Spec
<1> QED
  BY <1>1, <1>2, GateInvariant, PTL

-----------------------------------------------------------------------------
(* Codes *)

\* The codes that have registered somebody are older than the one of an open
\* window, and no code of the future is among them.
ClaimInv ==
    /\ CodesWorkOnce
    /\ \A i \in 1..Len(claims) : claims[i] <= window
    /\ gate = "open" => \A i \in 1..Len(claims) : claims[i] < code

LEMMA InitClaims == Init => ClaimInv
  BY DEF Init, NotBooted, ClaimInv, CodesWorkOnce

\* A step that registers nobody: a new window's code is newer than all others.
LEMMA ClaimsKept ==
  ASSUME GateInv, ClaimInv, UNCHANGED claims,
         \/ UNCHANGED window /\ (gate' = "open" => gate = "open" /\ code' = code)
         \/ window' = window + 1 /\ code' = window + 1
  PROVE  ClaimInv'
<1>1. window \in Nat /\ \A i \in 1..Len(claims) : claims[i] \in Nat
  BY RegistrationAssumption DEF GateInv, RegTypeOK, Windows
<1> QED
  BY <1>1 DEF ClaimInv, CodesWorkOnce

LEMMA MessageClaims ==
  ASSUME GateInv, ClaimInv, NEW u \in Users, NEW guess \in Nat,
         ProcessRegistrationDM(u, guess)
  PROVE  ClaimInv'
<1> USE RegistrationAssumption
<1>1. gate = "open" /\ code = window /\ code \in Windows
  BY DEF GateInv, RegTypeOK, WindowHasItsTimer, ProcessRegistrationDM, Windows
<1>2. CASE guess = code
  <2>1. claims' = Append(claims, code) /\ gate' = "closed" /\ window' = window
    BY <1>2 DEF ProcessRegistrationDM, Registered
  <2>2. claims \in Seq(Windows)
    BY DEF GateInv, RegTypeOK
  <2>3. /\ Len(claims') = Len(claims) + 1
        /\ claims'[Len(claims) + 1] = code
        /\ \A i \in 1..Len(claims) : claims'[i] = claims[i] /\ claims[i] \in Windows
    BY <1>1, <2>1, <2>2
  <2>4. Len(claims) \in Nat
    BY <2>2
  <2>5. \A i \in 1..Len(claims) : claims[i] < code
    BY <1>1 DEF ClaimInv
  <2>6. CodesWorkOnce'
    BY <1>1, <2>3, <2>4, <2>5 DEF ClaimInv, CodesWorkOnce, Windows
  <2>7. \A i \in 1..Len(claims') : claims'[i] <= window'
    BY <1>1, <2>1, <2>3, <2>4, <2>5 DEF Windows
  <2> QED
    BY <2>1, <2>6, <2>7 DEF ClaimInv
<1>3. CASE guess # code
  <2>1. UNCHANGED claims /\ UNCHANGED window
    BY <1>3 DEF ProcessRegistrationDM, adminVars
  <2>2. gate' = "open" => gate = "open" /\ code' = code
    BY <1>3 DEF ProcessRegistrationDM, IncFails, TripGlobal
  <2> QED
    BY <2>1, <2>2, ClaimsKept
<1> QED
  BY <1>2, <1>3

LEMMA StepClaims == GateInv /\ ClaimInv /\ RegStep => ClaimInv'
<1> SUFFICES ASSUME GateInv, ClaimInv, RegStep PROVE ClaimInv'
  OBVIOUS
<1>1. CASE UNCHANGED regVars
  BY <1>1, ClaimsKept DEF regVars, gateVars, adminVars
<1>2. ASSUME NEW w \in Windows, HandleTimeout(w) PROVE ClaimInv'
  BY <1>2, ClaimsKept DEF HandleTimeout, adminVars
<1>3. CASE Reset
  BY <1>3, ClaimsKept DEF Reset, ResetAdmin, OpenWindow
<1>4. CASE Edited
  BY <1>4, ClaimsKept DEF Edited, gateVars
<1>5. CASE Boot
  BY <1>5, ClaimsKept DEF Boot, OpenWindow
<1>6. CASE TickTimers
  BY <1>6, ClaimsKept DEF TickTimers, adminVars
<1> QED
  BY <1>1, <1>2, <1>3, <1>4, <1>5, <1>6, MessageClaims DEF RegStep

\* However messages, resets, timeouts and boots follow one another, a code
\* registers at most one admin, and none works once a newer one has.
THEOREM CodesOnce == Spec => []CodesWorkOnce
<1>1. ClaimInv => CodesWorkOnce
  BY DEF ClaimInv
<1> QED
  BY <1>1, InitClaims, NextIsRegStep, StepClaims, GateInvariant, PTL DEF Spec

-----------------------------------------------------------------------------
(* The admin after a restart *)

\* Unless the environment names the admin, an open window means that the file
\* names none: whoever registers finds no earlier admin in it, should the write
\* of his name fail.
FileInv ==
    /\ RestartObeysSame
    /\ env = {} /\ gate = "open" => adminFile \notin Users

\* Only a start boots the gate.
LEMMA NextBoots == [Next]_vars => Boot \/ boots' = boots
  BY DEF Next, Start, PollOk, PollFatal, CooldownOver, ProbeOk, ProbeFails,
         WindowTimeout, ResetRequest, Edit, SessionConnects, SessionLeaves,
         ParentDies, Signal, Crash, Tick, vars

LEMMA StepFile ==
  ASSUME GateInv, FileInv, RegStep, Boot \/ boots' = boots
  PROVE  FileInv'
<1> USE RegistrationAssumption DEF FileInv, RestartObeysSame, AdminsAtBoot
<1>1. CASE UNCHANGED regVars /\ boots' = boots
  BY <1>1 DEF regVars, gateVars, adminVars
<1>2. ASSUME NEW u \in Users, NEW guess \in Nat, ProcessRegistrationDM(u, guess),
             boots' = boots
      PROVE  FileInv'
  <2>1. CASE guess = code
    BY <1>2, <2>1 DEF ProcessRegistrationDM, Registered, SetAdmin
  <2>2. CASE guess # code
    BY <1>2, <2>2 DEF ProcessRegistrationDM, adminVars, IncFails, TripGlobal
  <2> QED
    BY <2>1, <2>2
<1>3. ASSUME NEW w \in Windows, HandleTimeout(w), boots' = boots
      PROVE  FileInv'
  BY <1>3 DEF HandleTimeout, adminVars
<1>4. CASE Reset /\ boots' = boots
  <2>1. adminFile' = None /\ env' = env /\ spoiled' = spoiled
    BY <1>4 DEF Reset, ResetAdmin
  <2>2. CASE adminFile \in Users \union {"invalid"}
    <3>1. members' = {}
      BY <1>4, <2>2 DEF Reset, ResetAdmin
    <3> QED
      BY <1>4, <2>1, <3>1
  <2>3. CASE adminFile \notin Users \union {"invalid"}
    <3>1. members' = members
      BY <1>4, <2>3 DEF Reset, ResetAdmin
    <3> QED
      BY <1>4, <2>1, <2>3, <3>1
  <2> QED
    BY <2>2, <2>3
<1>5. CASE Edited /\ boots' = boots
  BY <1>5 DEF Edited, gateVars
<1>6. CASE Boot
  <2>1. /\ members' = AdminsAtBoot /\ env' = env
        /\ env = {} => adminFile' \in {adminFile, None} /\ (adminFile \in Users => adminFile' = adminFile)
    BY <1>6 DEF Boot
  <2>2. env = {} => AdminsAtBoot' = AdminsAtBoot
    BY <2>1
  <2>3. env = {} /\ gate' = "open" => adminFile' \notin Users
    BY <1>6, <2>1 DEF Boot
  <2> QED
    BY <2>1, <2>2, <2>3
<1>7. CASE TickTimers /\ boots' = boots
  BY <1>7 DEF TickTimers, adminVars
<1> QED
  BY <1>1, <1>2, <1>3, <1>4, <1>5, <1>6, <1>7 DEF RegStep

\* Without TELEGRAM_AUTHORIZED_USERS, however resets, registrations, failed
\* writes and edits follow one another, a restart obeys nobody who was not
\* obeyed before it, and the same admin if nothing happened to the file.
THEOREM AdminSurvives == Spec => []RestartObeysSame
<1>1. Init => FileInv
  BY DEF Init, NotBooted, FileInv, RestartObeysSame
<1>2. FileInv => RestartObeysSame
  BY DEF FileInv
<1> QED
  BY <1>1, <1>2, NextIsRegStep, NextBoots, StepFile, GateInvariant, PTL DEF Spec

-----------------------------------------------------------------------------
(* A paused loop *)

PausedSleeps == up /\ at = "pausedSleep" => polling = "paused"

LEMMA LoopTopPaused ==
  ASSUME NEW state \in {"running", "quarantine", "paused"}, LoopTop(state) = "pausedSleep"
  PROVE  state = "paused"
<1>1. CASE state = "running"
  BY <1>1, Zenon DEF LoopTop
<1>2. CASE state = "quarantine"
  BY <1>2, Zenon DEF LoopTop
<1> QED
  BY <1>1, <1>2

LEMMA StepSleeps == DogTypeOK /\ PausedSleeps /\ [Next]_vars => PausedSleeps'
<1> USE DEF PausedSleeps
<1> SUFFICES ASSUME DogTypeOK, PausedSleeps, [Next]_vars PROVE PausedSleeps'
  OBVIOUS
<1>1. CASE Start
  BY <1>1 DEF Start, Fresh
<1>2. CASE PollOk \/ ProbeFails
  BY <1>2, LoopTopPaused DEF PollOk, ProbeFails, DogTypeOK
<1>3. CASE PollFatal \/ CooldownOver \/ ProbeOk
  BY <1>3 DEF PollFatal, CooldownOver, ProbeOk
<1>4. CASE \E w \in Windows : WindowTimeout(w)
  BY <1>4 DEF WindowTimeout
<1>5. CASE ResetRequest \/ Edit \/ SessionConnects \/ SessionLeaves \/ ParentDies
           \/ Signal \/ Crash \/ Tick
  BY <1>5 DEF ResetRequest, Edit, SessionConnects, SessionLeaves, ParentDies, Signal,
              Crash, Tick, loopVars
<1>6. CASE UNCHANGED vars
  BY <1>6 DEF vars, loopVars
<1> QED
  BY <1>1, <1>2, <1>3, <1>4, <1>5, <1>6 DEF Next

\* What a step leaves of the sleep of a paused loop.
StillPaused ==
    up /\ at = "pausedSleep" /\ up'
        => at' = "pausedSleep" /\ polling' = "paused" /\ heartbeat' >= heartbeat

LEMMA StepPaused == DogTypeOK /\ PausedSleeps /\ [Next]_vars => StillPaused
<1> SUFFICES ASSUME DogTypeOK, [Next]_vars, up, at = "pausedSleep", up', polling = "paused"
             PROVE  at' = "pausedSleep" /\ polling' = "paused" /\ heartbeat' >= heartbeat
  BY DEF PausedSleeps, StillPaused
<1>1. heartbeat \in Nat /\ heartbeat <= HeartbeatTimeout + 1
  BY LifecycleAssumption DEF DogTypeOK
<1>2. ~(Start \/ PollOk \/ PollFatal \/ CooldownOver \/ ProbeOk \/ ProbeFails
         \/ Signal \/ Crash)
  BY DEF Start, PollOk, PollFatal, CooldownOver, ProbeOk, ProbeFails, Signal, Crash
<1>3. CASE \E w \in Windows : WindowTimeout(w)
  BY <1>1, <1>3 DEF WindowTimeout, dogVars
<1>4. CASE ResetRequest \/ Edit \/ SessionConnects \/ SessionLeaves \/ ParentDies
  BY <1>1, <1>4 DEF ResetRequest, Edit, SessionConnects, SessionLeaves, ParentDies,
                    loopVars, dogVars
<1>5. CASE Tick
  BY <1>1, <1>5, LifecycleAssumption DEF Tick, UpTo
<1>6. CASE UNCHANGED vars
  BY <1>1, <1>6 DEF vars, loopVars, dogVars
<1> QED
  BY <1>2, <1>3, <1>4, <1>5, <1>6 DEF Next

\* Once the loop sleeps in its paused branch nothing wakes it, no reset and no
\* registration, and its heartbeat only gets older: what is left is the end of
\* the daemon.
THEOREM PausedForGood == Spec => [][StillPaused]_vars
<1>1. Init => PausedSleeps
  BY DEF Init, PausedSleeps
<1>2. DogTypeOK /\ PausedSleeps /\ [Next]_vars => [StillPaused]_vars
  BY StepPaused
<1> QED
  BY <1>1, <1>2, InitDog, StepDog, StepSleeps, PTL DEF Spec

-----------------------------------------------------------------------------
(* Idle *)

\* What the watchdog takes for the time without sessions is never more than
\* that time, and it signals once.
IdleInv ==
    /\ IdleIsDeserted
    /\ clients = 0 => deserted >= idle
    /\ up => signalled = "none"

LEMMA StepIdle == DogTypeOK /\ IdleInv /\ [Next]_vars => IdleInv'
<1> USE LifecycleAssumption DEF IdleInv, IdleIsDeserted
<1> SUFFICES ASSUME DogTypeOK, IdleInv, [Next]_vars PROVE IdleInv'
  OBVIOUS
<1>1. CASE Start
  BY <1>1 DEF Start, Boot, Fresh
<1>2. CASE PollOk \/ PollFatal \/ CooldownOver \/ ProbeOk \/ ProbeFails
  BY <1>2 DEF PollOk, PollFatal, CooldownOver, ProbeOk, ProbeFails, dogVars
<1>3. CASE \E w \in Windows : WindowTimeout(w)
  BY <1>3 DEF WindowTimeout, dogVars
<1>4. CASE ResetRequest \/ Edit
  BY <1>4 DEF ResetRequest, Edit, Edited, dogVars
<1>5. CASE SessionConnects \/ SessionLeaves \/ ParentDies
  BY <1>5 DEF SessionConnects, SessionLeaves, ParentDies, DogTypeOK
<1>6. CASE Signal
  BY <1>6 DEF Signal, Idle, regVars, DogTypeOK
<1>7. CASE Crash
  BY <1>7 DEF Crash, dogVars
<1>8. CASE Tick
  BY <1>8 DEF Tick, UpTo, DogTypeOK
<1>9. CASE UNCHANGED vars
  BY <1>9 DEF vars, dogVars, regVars
<1> QED
  BY <1>1, <1>2, <1>3, <1>4, <1>5, <1>6, <1>7, <1>8, <1>9 DEF Next

\* The watchdog ends a daemon as idle only when it was lazily spawned and has
\* had no session for longer than the idle time.
THEOREM IdleOnlyDeserted == Spec => []IdleIsDeserted
<1>1. Init => IdleInv
  BY DEF Init, IdleInv, IdleIsDeserted
<1>2. IdleInv => IdleIsDeserted
  BY DEF IdleInv
<1> QED
  BY <1>1, <1>2, InitDog, StepDog, StepIdle, PTL DEF Spec
=============================================================================
