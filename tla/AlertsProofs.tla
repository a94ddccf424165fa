---------------------------- MODULE AlertsProofs ----------------------------
(***************************************************************************)
(* Facts about Alerts that hold in whatever it is composed with: its own   *)
(* steps, and the end of a quarantine, keep the invariants below.          *)
(* OutboundProofs makes theorems of them.                                  *)
(***************************************************************************)
EXTENDS Alerts, FiniteSetTheorems, TLAPS

\* The senders whose bucket for one kind of denial is empty.
Empty(kind) == {s \in Senders : <<kind, s>> \in spent}

\* A quarantine the dispatcher has not heard of may still raise an alert, and
\* one that has not ended both alerts of its end; a kind of denial has cost an
\* alert for each bucket that is empty or was refilled.
StormInv ==
    /\ raised["quarantine_enter"]
         + (IF polling = "quarantine" /\ dispatcher = "running" THEN 1 ELSE 0) <= 2 * turns
    /\ raised["quarantine_exit"] + (IF polling = "quarantine" THEN 2 ELSE 0) <= 2 * turns
    /\ \A kind \in DenyTopics : raised[kind] <= Cardinality(Empty(kind)) + refills[kind]

AlertInv == ObsTypeOK /\ StormInv /\ AlertsAccounted

-----------------------------------------------------------------------------
(* Lemmas *)

LEMMA TopicsRaised ==
    ASSUME NEW f \in [Topics -> Nat], NEW topic \in Topics, NEW n \in Nat
    PROVE  /\ [f EXCEPT ![topic] = @ + n] \in [Topics -> Nat]
           /\ [f EXCEPT ![topic] = @ + n][topic] = f[topic] + n
           /\ \A t \in Topics \ {topic} : [f EXCEPT ![topic] = @ + n][t] = f[t]
  OBVIOUS

\* The senders with an empty bucket are finitely many.
LEMMA EmptyFinite ==
    ASSUME NEW kind
    PROVE  /\ IsFiniteSet(Empty(kind)) /\ Cardinality(Empty(kind)) \in Nat
           /\ Cardinality(Empty(kind)) <= Cardinality(Senders)
           /\ Cardinality(Senders) \in Nat
<1>1. Empty(kind) \in SUBSET Senders
  BY DEF Empty
<1> QED
  BY <1>1, AlertsAssumption, FS_Subset, FS_CardinalityType

\* An alert is raised: it is under way, or there is a line for it.
LEMMA RaiseAccounts ==
    ASSUME ObsTypeOK, NEW topic \in Topics, NEW n \in Nat, Raise(topic, n)
    PROVE  /\ raised' \in [Topics -> Nat] /\ posting' \in [AdminChats -> Nat]
           /\ settled' \in Nat
           /\ raised'[topic] = raised[topic] + n
           /\ \A t \in Topics \ {topic} : raised'[t] = raised[t]
           /\ TotalRaised' = TotalRaised + n
           /\ TotalPosting' + settled' = TotalPosting + settled + n
<1>1. /\ raised' \in [Topics -> Nat] /\ raised'[topic] = raised[topic] + n
      /\ \A t \in Topics \ {topic} : raised'[t] = raised[t]
  <2>1. raised \in [Topics -> Nat] /\ raised' = [raised EXCEPT ![topic] = @ + n]
    BY DEF Raise, ObsTypeOK
  <2> QED
    BY <2>1, TopicsRaised
<1>2. TotalRaised' = TotalRaised + n
  BY <1>1 DEF TotalRaised, Topics, DenyTopics, ObsTypeOK
<1>3. /\ posting' \in [AdminChats -> Nat] /\ settled' \in Nat
      /\ TotalPosting' + settled' = TotalPosting + settled + n
  <2>1. posting \in [AdminChats -> Nat] /\ settled \in Nat /\ adminChat \in AdminChats
    BY DEF ObsTypeOK
  <2>2. CASE settled' = settled + n /\ posting' = posting
    BY <2>1, <2>2 DEF TotalPosting, AdminChats
  <2>3. CASE posting' = [posting EXCEPT ![adminChat] = @ + n] /\ settled' = settled
    BY <2>1, <2>3 DEF TotalPosting, AdminChats
  <2> QED
    BY <2>2, <2>3 DEF Raise
<1> QED
  BY <1>1, <1>2, <1>3

\* What no alert has a part in keeps the account.
LEMMA AccountKept ==
    ASSUME AlertsAccounted, UNCHANGED <<raised, posting, settled>>,
           phase' = "crashed" <=> phase = "crashed"
    PROVE  AlertsAccounted'
  BY DEF AlertsAccounted, TotalRaised, TotalPosting

LEMMA RaiseKeepsAccount ==
    ASSUME ObsTypeOK, AlertsAccounted, NEW topic \in Topics, NEW n \in Nat,
           Raise(topic, n), phase # "crashed", phase' # "crashed"
    PROVE  AlertsAccounted'
<1>1. /\ TotalRaised' = TotalRaised + n
      /\ TotalPosting' + settled' = TotalPosting + settled + n
      /\ raised' \in [Topics -> Nat] /\ posting' \in [AdminChats -> Nat] /\ settled' \in Nat
  BY RaiseAccounts
<1>2. TotalRaised \in Nat /\ TotalPosting \in Nat /\ TotalPosting' \in Nat /\ settled \in Nat
  BY <1>1 DEF ObsTypeOK, TotalRaised, TotalPosting, Topics, DenyTopics, AdminChats
<1>3. TotalRaised - TotalPosting - settled = 0
  BY DEF AlertsAccounted
<1>4. TotalRaised' - TotalPosting' - settled' = 0
  <2>1. PICK r \in Nat, p \in Nat, q \in Nat, d \in Nat, e \in Nat :
          r = TotalRaised /\ p = TotalPosting /\ q = TotalPosting'
          /\ d = settled /\ e = settled'
    BY <1>1, <1>2
  <2>2. r - p - d = 0 /\ q + e = p + d + n
    BY <1>1, <1>3, <2>1
  <2>3. (r + n) - q - e = 0
    BY <2>2
  <2> QED
    BY <1>1, <2>1, <2>3
<1> QED
  BY <1>4 DEF AlertsAccounted

-----------------------------------------------------------------------------
(* The steps *)

LEMMA ObsInitInv == ObsInit => AlertInv
<1> SUFFICES ASSUME ObsInit PROVE AlertInv
  OBVIOUS
<1>1. ObsTypeOK
  BY AlertsAssumption DEF ObsInit, ObsTypeOK, Phases, AdminChats
<1>2. StormInv
  <2>1. \A kind \in DenyTopics : Empty(kind) = {} /\ raised[kind] = 0 /\ refills[kind] = 0
    BY DEF ObsInit, Empty, Topics
  <2> QED
    BY <2>1, FS_EmptySet DEF ObsInit, StormInv, Topics
<1>3. AlertsAccounted
  BY DEF ObsInit, AlertsAccounted, TotalRaised, TotalPosting, Topics, DenyTopics, AdminChats
<1> QED
  BY <1>1, <1>2, <1>3 DEF AlertInv

\* A step of the boot, of the disk, of the admin's chat or of the end.
LEMMA QuietStep ==
    ASSUME AlertInv,
           \/ Anomaly \/ SetStateDir \/ SetTgClient \/ SetAdminChat
           \/ DiskChanges \/ PersistFails \/ Exit
    PROVE  AlertInv'
<1> USE DEF alertVars
<1>1. /\ UNCHANGED <<polling, turns, refills, alertVars>>
      /\ phase' = "crashed" <=> phase = "crashed"
  BY DEF Anomaly, SetStateDir, SetTgClient, SetAdminChat, DiskChanges, PersistFails, Exit, Serving
<1>2. ObsTypeOK'
  <2>1. phase' \in Phases /\ buffered' \in 0..1 /\ adminChat' \in AdminChats
    BY DEF AlertInv, ObsTypeOK, Phases, AdminChats, Anomaly, SetStateDir, SetTgClient,
           SetAdminChat, DiskChanges, PersistFails, Exit
  <2>2. diskFull' = diskFull \/ diskFull' = ~diskFull
    BY DEF Anomaly, SetStateDir, SetTgClient, SetAdminChat, DiskChanges, PersistFails, Exit
  <2>3. diskFull' \in BOOLEAN
    BY <2>2, Zenon DEF AlertInv, ObsTypeOK
  <2> QED
    BY <1>1, <2>1, <2>3 DEF AlertInv, ObsTypeOK
<1>3. StormInv'
  BY <1>1 DEF AlertInv, StormInv, Empty
<1>4. AlertsAccounted'
  BY <1>1, AccountKept DEF AlertInv
<1> QED
  BY <1>2, <1>3, <1>4 DEF AlertInv

\* An event of the bus, to which the dispatcher may answer with alerts.
LEMMA EventKeeps ==
    ASSUME AlertInv, Serving, NEW topic \in Topics, NEW n \in Nat,
           NEW state \in {"running", "quarantine"}, NEW bucket \in SUBSET (DenyTopics \X Senders),
           InvokeSync(topic, n, state, bucket),
           UNCHANGED <<buffered, diskFull, adminChat, refills>>,
           polling' \in {"running", "quarantine"}, turns' \in 0..MaxTurns
    PROVE  ObsTypeOK' /\ AlertsAccounted'
<1>1. phase' = phase /\ phase # "crashed"
  BY DEF InvokeSync, Serving
<1>2. CASE diskFull
  <2>1. UNCHANGED alertVars
    BY <1>2 DEF InvokeSync
  <2>2. AlertsAccounted'
    BY <1>1, <2>1, AccountKept DEF AlertInv, alertVars
  <2> QED
    BY <1>1, <2>1, <2>2 DEF AlertInv, ObsTypeOK, alertVars
<1>3. CASE ~diskFull
  <2>1. Raise(topic, n) /\ dispatcher' = state /\ spent' = bucket
    BY <1>3 DEF InvokeSync
  <2>2. /\ raised' \in [Topics -> Nat] /\ posting' \in [AdminChats -> Nat]
        /\ settled' \in Nat
    BY <2>1, RaiseAccounts DEF AlertInv
  <2>3. AlertsAccounted'
    BY <1>1, <2>1, RaiseKeepsAccount DEF AlertInv
  <2> QED
    BY <1>1, <2>1, <2>2, <2>3 DEF AlertInv, ObsTypeOK
<1> QED
  BY <1>2, <1>3

\* What an event does to the alerts raised so far.
LEMMA EventRaises ==
    ASSUME AlertInv, NEW topic \in Topics, NEW n \in Nat, NEW state, NEW bucket,
           InvokeSync(topic, n, state, bucket)
    PROVE  /\ \A t \in Topics \ {topic} : raised'[t] = raised[t]
           /\ \/ /\ raised'[topic] = raised[topic]
                 /\ dispatcher' = dispatcher /\ spent' = spent
              \/ /\ raised'[topic] = raised[topic] + n
                 /\ dispatcher' = state /\ spent' = bucket
<1>1. CASE diskFull
  BY <1>1 DEF InvokeSync, alertVars
<1>2. CASE ~diskFull
  BY <1>2, RaiseAccounts DEF InvokeSync, AlertInv
<1> QED
  BY <1>1, <1>2

LEMMA TypeFacts ==
    ASSUME AlertInv
    PROVE  /\ raised \in [Topics -> Nat] /\ turns \in Nat /\ refills \in [DenyTopics -> Nat]
           /\ raised["quarantine_enter"] \in Nat /\ raised["quarantine_exit"] \in Nat
           /\ \A kind \in DenyTopics :
                 raised[kind] \in Nat /\ refills[kind] \in Nat /\ Cardinality(Empty(kind)) \in Nat
           /\ dispatcher \in {"running", "quarantine"}
           /\ polling \in {"running", "quarantine"}
           /\ spent \in SUBSET (DenyTopics \X Senders)
  BY EmptyFinite, AlertsAssumption DEF AlertInv, ObsTypeOK, Topics

\* The share of the denials in StormInv, where no denial has a part.
DenialInv == \A kind \in DenyTopics : raised[kind] <= Cardinality(Empty(kind)) + refills[kind]

LEMMA DenialsKept ==
    ASSUME AlertInv, \A kind \in DenyTopics : raised'[kind] = raised[kind],
           spent' = spent, refills' = refills
    PROVE  DenialInv'
  BY DEF AlertInv, StormInv, DenialInv, Empty

LEMMA QuarantineEnterStep == ASSUME AlertInv, QuarantineEnter PROVE AlertInv'
<1> DEFINE n == HandleQuarantine("quarantine") + 1
<1>1. /\ Serving /\ polling = "running" /\ polling' = "quarantine" /\ turns' = turns + 1
      /\ UNCHANGED <<buffered, diskFull, adminChat, refills>> /\ turns < MaxTurns
      /\ InvokeSync("quarantine_enter", n, "quarantine", spent)
  BY DEF QuarantineEnter
<1>2. n \in {1, 2} /\ (dispatcher = "quarantine" => n = 1)
  BY DEF HandleQuarantine
<1> HIDE DEF n
<1>3. turns' \in 0..MaxTurns
  BY <1>1, AlertsAssumption, TypeFacts
<1>4. "quarantine_enter" \in Topics /\ n \in Nat /\ spent \in SUBSET (DenyTopics \X Senders)
  BY <1>2, TypeFacts DEF Topics
<1>5. ObsTypeOK' /\ AlertsAccounted'
  BY <1>1, <1>3, <1>4, EventKeeps
<1>6. /\ \A t \in Topics \ {"quarantine_enter"} : raised'[t] = raised[t]
      /\ \/ raised'["quarantine_enter"] = raised["quarantine_enter"]
            /\ dispatcher' = dispatcher
         \/ raised'["quarantine_enter"] = raised["quarantine_enter"] + n
            /\ dispatcher' = "quarantine"
      /\ spent' = spent
  BY <1>1, <1>4, EventRaises
<1>7. StormInv'
  <2>1. /\ raised["quarantine_enter"] <= 2 * turns /\ raised["quarantine_exit"] <= 2 * turns
    BY <1>1, TypeFacts DEF AlertInv, StormInv
  <2>2. /\ raised'["quarantine_exit"] = raised["quarantine_exit"]
        /\ \A kind \in DenyTopics : raised'[kind] = raised[kind]
    BY <1>6 DEF Topics, DenyTopics
  <2>3. raised'["quarantine_enter"]
          + (IF polling' = "quarantine" /\ dispatcher' = "running" THEN 1 ELSE 0) <= 2 * turns'
    BY <1>1, <1>2, <1>6, <2>1, TypeFacts
  <2>4. DenialInv'
    BY <1>1, <1>6, <2>2, DenialsKept
  <2>5. raised'["quarantine_exit"] + 2 <= 2 * turns'
    BY <1>1, <2>1, <2>2, TypeFacts
  <2> QED
    BY <1>1, <2>3, <2>4, <2>5 DEF StormInv, DenialInv
<1> QED
  BY <1>5, <1>7 DEF AlertInv

LEMMA ProbeFailsStep == ASSUME AlertInv, ProbeFails PROVE AlertInv'
<1> DEFINE n == HandleQuarantine("quarantine")
<1>1. /\ Serving /\ polling = "quarantine" /\ polling' = polling /\ turns' = turns
      /\ UNCHANGED <<buffered, diskFull, adminChat, refills>>
      /\ InvokeSync("quarantine_enter", n, "quarantine", spent)
  BY DEF ProbeFails
<1>2. n \in {0, 1} /\ (dispatcher = "quarantine" => n = 0)
  BY DEF HandleQuarantine
<1> HIDE DEF n
<1>4. "quarantine_enter" \in Topics /\ n \in Nat /\ spent \in SUBSET (DenyTopics \X Senders)
  BY <1>2, TypeFacts DEF Topics
<1>5. ObsTypeOK' /\ AlertsAccounted'
  BY <1>1, <1>4, EventKeeps DEF AlertInv, ObsTypeOK
<1>6. /\ \A t \in Topics \ {"quarantine_enter"} : raised'[t] = raised[t]
      /\ \/ raised'["quarantine_enter"] = raised["quarantine_enter"]
            /\ dispatcher' = dispatcher
         \/ raised'["quarantine_enter"] = raised["quarantine_enter"] + n
            /\ dispatcher' = "quarantine"
      /\ spent' = spent
  BY <1>1, <1>4, EventRaises
<1>7. StormInv'
  <2>1. /\ raised["quarantine_enter"] + (IF dispatcher = "running" THEN 1 ELSE 0) <= 2 * turns
        /\ raised["quarantine_exit"] + 2 <= 2 * turns
    BY <1>1 DEF AlertInv, StormInv
  <2>2. /\ raised'["quarantine_exit"] = raised["quarantine_exit"]
        /\ \A kind \in DenyTopics : raised'[kind] = raised[kind]
    BY <1>6 DEF Topics, DenyTopics
  <2>3. raised'["quarantine_enter"]
          + (IF polling' = "quarantine" /\ dispatcher' = "running" THEN 1 ELSE 0) <= 2 * turns'
    BY <1>1, <1>2, <1>6, <2>1, TypeFacts
  <2>4. DenialInv'
    BY <1>1, <1>6, <2>2, DenialsKept
  <2> QED
    BY <1>1, <2>1, <2>2, <2>3, <2>4 DEF StormInv, DenialInv
<1> QED
  BY <1>5, <1>7 DEF AlertInv

LEMMA QuarantineExitStep == ASSUME AlertInv, QuarantineExit PROVE AlertInv'
<1> DEFINE n == HandleQuarantine("running") + 1
<1>1. /\ Serving /\ polling = "quarantine" /\ polling' = "running" /\ turns' = turns
      /\ UNCHANGED <<buffered, diskFull, adminChat, refills>>
      /\ InvokeSync("quarantine_exit", n, "running", spent)
  BY DEF QuarantineExit
<1>2. n \in {1, 2}
  BY DEF HandleQuarantine
<1> HIDE DEF n
<1>4. "quarantine_exit" \in Topics /\ n \in Nat /\ spent \in SUBSET (DenyTopics \X Senders)
  BY <1>2, TypeFacts DEF Topics
<1>5. ObsTypeOK' /\ AlertsAccounted'
  BY <1>1, <1>4, EventKeeps DEF AlertInv, ObsTypeOK
<1>6. /\ \A t \in Topics \ {"quarantine_exit"} : raised'[t] = raised[t]
      /\ \/ raised'["quarantine_exit"] = raised["quarantine_exit"]
         \/ raised'["quarantine_exit"] = raised["quarantine_exit"] + n
      /\ spent' = spent
  BY <1>1, <1>4, EventRaises
<1>7. StormInv'
  <2>1. /\ raised["quarantine_enter"] <= 2 * turns
        /\ raised["quarantine_exit"] + 2 <= 2 * turns
    BY <1>1, TypeFacts DEF AlertInv, StormInv
  <2>2. /\ raised'["quarantine_enter"] = raised["quarantine_enter"]
        /\ \A kind \in DenyTopics : raised'[kind] = raised[kind]
    BY <1>6 DEF Topics, DenyTopics
  <2>3. DenialInv'
    BY <1>1, <1>6, <2>2, DenialsKept
  <2>4. raised'["quarantine_exit"] <= 2 * turns'
    BY <1>1, <1>2, <1>6, <2>1, TypeFacts
  <2>5. raised'["quarantine_enter"] <= 2 * turns' /\ raised'["quarantine_enter"] \in Nat
    BY <1>1, <2>1, <2>2, TypeFacts
  <2>6. raised'["quarantine_exit"] \in Nat
    BY <1>2, <1>6, TypeFacts
  <2> QED
    BY <1>1, <2>3, <2>4, <2>5, <2>6 DEF StormInv, DenialInv
<1> QED
  BY <1>5, <1>7 DEF AlertInv

\* A denied message takes from its sender's bucket what it raises.
LEMMA DeniedStep ==
    ASSUME AlertInv, NEW kind \in DenyTopics, NEW s \in Senders, Denied(kind, s)
    PROVE  AlertInv'
<1> DEFINE n == IF <<kind, s>> \in spent THEN 0 ELSE 1
           bucket == spent \cup {<<kind, s>>}
<1>1. /\ Serving /\ polling' = polling /\ turns' = turns
      /\ UNCHANGED <<buffered, diskFull, adminChat, refills>>
      /\ InvokeSync(kind, n, dispatcher, bucket)
  BY DEF Denied
<1>2. /\ n \in {0, 1}
      /\ spent' = bucket => Cardinality(Empty(kind)') = Cardinality(Empty(kind)) + n
  <2>1. spent' = bucket => Empty(kind)' = Empty(kind) \cup {s}
    BY DEF Empty
  <2>2. Cardinality(Empty(kind) \cup {s})
          = IF s \in Empty(kind) THEN Cardinality(Empty(kind)) ELSE Cardinality(Empty(kind)) + 1
    BY EmptyFinite, FS_AddElement
  <2>3. s \in Empty(kind) <=> <<kind, s>> \in spent
    BY DEF Empty
  <2>4. n = IF s \in Empty(kind) THEN 0 ELSE 1
    BY <2>3
  <2>5. Cardinality(Empty(kind) \cup {s}) = Cardinality(Empty(kind)) + n
    BY <2>2, <2>4, EmptyFinite
  <2> HIDE DEF n, bucket
  <2> QED
    BY <2>1, <2>4, <2>5
<1>3. /\ \A k \in DenyTopics \ {kind} : spent' = bucket => Empty(k)' = Empty(k)
      /\ \A k \in DenyTopics : spent' = spent => Empty(k)' = Empty(k)
  BY DEF Empty
<1>4. /\ kind \in Topics /\ n \in Nat /\ bucket \in SUBSET (DenyTopics \X Senders)
      /\ dispatcher \in {"running", "quarantine"}
  BY <1>2, TypeFacts DEF Topics
<1> HIDE DEF n, bucket
<1>5. ObsTypeOK' /\ AlertsAccounted'
  BY <1>1, <1>4, EventKeeps DEF AlertInv, ObsTypeOK
<1>6. /\ \A t \in Topics \ {kind} : raised'[t] = raised[t]
      /\ \/ raised'[kind] = raised[kind] /\ spent' = spent
         \/ raised'[kind] = raised[kind] + n /\ spent' = bucket
      /\ dispatcher' = dispatcher
  BY <1>1, <1>4, EventRaises
<1>7. StormInv'
  <2>1. /\ raised'["quarantine_enter"] = raised["quarantine_enter"]
        /\ raised'["quarantine_exit"] = raised["quarantine_exit"]
    BY <1>6 DEF Topics, DenyTopics
  <2>2. ASSUME NEW k \in DenyTopics
        PROVE  raised'[k] <= Cardinality(Empty(k)') + refills'[k]
    <3>1. raised[k] <= Cardinality(Empty(k)) + refills[k] /\ refills' = refills
      BY <1>1 DEF AlertInv, StormInv
    <3>2. CASE k # kind
      <4>1. raised'[k] = raised[k] /\ Empty(k)' = Empty(k)
        BY <1>3, <1>6, <3>2 DEF Topics
      <4> QED
        BY <3>1, <4>1
    <3>3. CASE k = kind
      BY <1>2, <1>3, <1>6, <3>1, <3>3, TypeFacts
    <3> QED
      BY <3>2, <3>3
  <2> QED
    BY <1>1, <1>6, <2>1, <2>2 DEF AlertInv, StormInv
<1> QED
  BY <1>5, <1>7 DEF AlertInv

LEMMA RefillStep ==
    ASSUME AlertInv, NEW kind \in DenyTopics, NEW s \in Senders, Refill(kind, s)
    PROVE  AlertInv'
<1>1. /\ <<kind, s>> \in spent /\ spent' = spent \ {<<kind, s>>}
      /\ refills' = [refills EXCEPT ![kind] = @ + 1] /\ refills[kind] < MaxRefills[kind]
      /\ UNCHANGED <<phase, buffered, diskFull, polling, adminChat, dispatcher,
                     posting, raised, settled, turns>>
  BY DEF Refill
<1>2. Cardinality(Empty(kind)') = Cardinality(Empty(kind)) - 1
  <2>1. Empty(kind)' = Empty(kind) \ {s} /\ s \in Empty(kind)
    BY <1>1 DEF Empty
  <2> QED
    BY <2>1, EmptyFinite, FS_RemoveElement
<1>3. /\ refills' \in [DenyTopics -> Nat] /\ refills'[kind] = refills[kind] + 1
      /\ \A k \in DenyTopics \ {kind} : refills'[k] = refills[k] /\ Empty(k)' = Empty(k)
  BY <1>1, TypeFacts DEF Empty
<1>4. ObsTypeOK'
  <2>1. \A k \in DenyTopics : refills'[k] <= MaxRefills[k]
    BY <1>1, <1>3, AlertsAssumption, TypeFacts DEF AlertInv, ObsTypeOK
  <2> QED
    BY <1>1, <1>3, <2>1 DEF AlertInv, ObsTypeOK
<1>5. StormInv'
  <2>1. ASSUME NEW k \in DenyTopics
        PROVE  raised'[k] <= Cardinality(Empty(k)') + refills'[k]
    <3>1. raised[k] <= Cardinality(Empty(k)) + refills[k] /\ raised'[k] = raised[k]
      BY <1>1 DEF AlertInv, StormInv
    <3>2. CASE k # kind
      BY <1>3, <3>1, <3>2
    <3>3. CASE k = kind
      BY <1>2, <1>3, <3>1, <3>3, TypeFacts
    <3> QED
      BY <3>2, <3>3
  <2> QED
    BY <1>1, <2>1 DEF AlertInv, StormInv
<1>6. AlertsAccounted'
  BY <1>1, AccountKept DEF AlertInv
<1> QED
  BY <1>4, <1>5, <1>6 DEF AlertInv

LEMMA WatchdogStep == ASSUME AlertInv, WatchdogSignals PROVE AlertInv'
<1>1. /\ phase = "up" /\ phase' = "stopping"
      /\ UNCHANGED <<buffered, diskFull, polling, adminChat, dispatcher, spent, turns, refills>>
      /\ \/ UNCHANGED <<posting, raised, settled>>
         \/ Raise("watchdog", 1)
  BY DEF WatchdogSignals
<1>2. "watchdog" \in Topics /\ 1 \in Nat /\ phase' \in Phases
  BY <1>1 DEF Topics, Phases
<1>3. CASE UNCHANGED <<posting, raised, settled>>
  <2>1. ObsTypeOK'
    BY <1>1, <1>2, <1>3 DEF AlertInv, ObsTypeOK
  <2>2. StormInv'
    BY <1>1, <1>3 DEF AlertInv, StormInv, Empty
  <2>3. AlertsAccounted'
    BY <1>1, <1>3, AccountKept DEF AlertInv
  <2> QED
    BY <2>1, <2>2, <2>3 DEF AlertInv
<1>4. CASE Raise("watchdog", 1)
  <2>1. /\ raised' \in [Topics -> Nat] /\ posting' \in [AdminChats -> Nat]
        /\ settled' \in Nat
        /\ \A t \in Topics \ {"watchdog"} : raised'[t] = raised[t]
    BY <1>2, <1>4, RaiseAccounts DEF AlertInv
  <2>2. ObsTypeOK'
    BY <1>1, <1>2, <2>1 DEF AlertInv, ObsTypeOK
  <2>3. StormInv'
    <3>1. /\ raised'["quarantine_enter"] = raised["quarantine_enter"]
          /\ raised'["quarantine_exit"] = raised["quarantine_exit"]
          /\ \A kind \in DenyTopics : raised'[kind] = raised[kind]
      BY <2>1 DEF Topics, DenyTopics
    <3> QED
      BY <1>1, <3>1 DEF AlertInv, StormInv, Empty
  <2>4. AlertsAccounted'
    BY <1>1, <1>2, <1>4, RaiseKeepsAccount DEF AlertInv
  <2> QED
    BY <2>2, <2>3, <2>4 DEF AlertInv
<1> QED
  BY <1>1, <1>3, <1>4

\* A post that ends is delivered, has its line, or takes the daemon with it.
LEMMA AlertEndsStep == ASSUME AlertInv, NEW ch \in AdminChats, AlertEnds(ch) PROVE AlertInv'
<1>1. /\ posting[ch] > 0 /\ posting' = [posting EXCEPT ![ch] = @ - 1] /\ phase # "crashed"
      /\ UNCHANGED <<buffered, diskFull, polling, adminChat, dispatcher, spent,
                     raised, turns, refills>>
      /\ \/ settled' = settled + 1 /\ phase' = phase
         \/ phase' = "crashed" /\ settled' = settled
  BY DEF AlertEnds, Flushed, Serving
<1>2. /\ posting \in [AdminChats -> Nat] /\ settled \in Nat
      /\ raised \in [Topics -> Nat] /\ phase \in Phases
  BY DEF AlertInv, ObsTypeOK
<1>3. posting' \in [AdminChats -> Nat] /\ TotalPosting' = TotalPosting - 1
  BY <1>1, <1>2 DEF TotalPosting, AdminChats
<1>4. ObsTypeOK'
  BY <1>1, <1>2, <1>3 DEF AlertInv, ObsTypeOK, Phases
<1>5. StormInv'
  BY <1>1 DEF AlertInv, StormInv, Empty
<1>6. AlertsAccounted'
  <2>1. TotalRaised' = TotalRaised /\ TotalRaised \in Nat /\ TotalPosting \in Nat
    BY <1>1, <1>2 DEF TotalRaised, TotalPosting, Topics, DenyTopics, AdminChats
  <2>2. TotalRaised - TotalPosting - settled = 0
    BY <1>1 DEF AlertInv, AlertsAccounted
  <2> QED
    BY <1>1, <1>2, <1>3, <2>1, <2>2 DEF AlertsAccounted
<1> QED
  BY <1>4, <1>5, <1>6 DEF AlertInv

-----------------------------------------------------------------------------
(* For the modules that compose Alerts *)

LEMMA ObsKeeps == ASSUME AlertInv, ObsStep \/ QuarantineExit PROVE AlertInv'
<1>1. CASE QuarantineExit
  BY <1>1, QuarantineExitStep
<1>2. CASE ObsStep
  BY <1>2, QuietStep, QuarantineEnterStep, ProbeFailsStep, DeniedStep, RefillStep,
     WatchdogStep, AlertEndsStep DEF ObsStep
<1> QED
  BY <1>1, <1>2

LEMMA ObsStutters == ASSUME AlertInv, UNCHANGED obsVars PROVE AlertInv'
<1> USE DEF obsVars, alertVars
<1>1. ObsTypeOK' /\ StormInv'
  BY DEF AlertInv, ObsTypeOK, StormInv, Empty
<1>2. AlertsAccounted'
  BY AccountKept DEF AlertInv
<1> QED
  BY <1>1, <1>2 DEF AlertInv

LEMMA StormBounded == AlertInv => NoAlertStorm
<1> SUFFICES ASSUME AlertInv PROVE NoAlertStorm
  OBVIOUS
<1>1. \A kind \in DenyTopics : raised[kind] <= Cardinality(Senders) + refills[kind]
  BY EmptyFinite, TypeFacts DEF AlertInv, StormInv
<1> QED
  BY <1>1, TypeFacts DEF AlertInv, StormInv, NoAlertStorm
=============================================================================
