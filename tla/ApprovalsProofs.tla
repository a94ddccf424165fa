-------------------------- MODULE ApprovalsProofs --------------------------
(***************************************************************************)
(* Theorems about Approvals, for any number of requests, sessions, presses *)
(* and crashes.                                                            *)
(***************************************************************************)
EXTENDS Approvals, FiniteSetTheorems, TLAPS

Early == {"idle", "typeCheck", "posting", "capacityEdit"}

\* A request that the registry has not taken has no promise, and a session
\* that has asked never connects again.
StageInv ==
    \A a \in Requests :
        /\ stage[a] \in Early => promise[a] = "none"
        /\ stage[a] # "idle" => Owner[a] \in connected \cup gone

\* A press is about a button until it is found to be in vain.
PressInv ==
    \A c \in Clicks :
        click[c] \in {"pressed", "answering", "resolved"} => clickOn[c] \in Requests \X Options

\* A promise that has an option got it from a press, and nobody downstream
\* has another one.
OptionInv ==
    \A a \in Requests :
        /\ promise[a] \in Options =>
              \E c \in Clicks : click[c] = "resolved" /\ clickOn[c] = <<a, promise[a]>>
        /\ frame[a] \in Options => frame[a] = promise[a]
        /\ told[a] \in Options => told[a] = promise[a]

\* Only rejected requests have their buttons edited.
CancelInv ==
    /\ \A a \in Requests : message[a] = "cancelled" => promise[a] = "rejected"
    /\ \A s \in Sessions : editing[s] # None => promise[editing[s]] = "rejected"

IInv ==
    /\ TypeOK
    /\ PendingIffRegistered
    /\ StageInv /\ PressInv /\ OptionInv /\ CancelInv
    /\ ChoiceReachesSession

Words == {"none", "pending", "rejected", "error", "timeout", "disconnected", "open",
          "withdrawn"}

USE DEF daemonVars, clickVars, proxyVars

LEMMA WordsNoOptions == \A w \in Words \cup {None} : w \notin Options
BY ApprovalAssumption DEF Words

LEMMA EntriesFinite == ASSUME TypeOK PROVE IsFiniteSet(entries)
BY ApprovalAssumption, FS_Subset DEF TypeOK

LEMMA InitIInv == Init => IInv
<1> SUFFICES ASSUME Init PROVE IInv
  OBVIOUS
<1>1. TypeOK
  <2>1. Cardinality({}) = 0
    BY FS_EmptySet
  <2> QED
    BY <2>1, ApprovalAssumption DEF Init, TypeOK, Stages, Messages, ClickStates
<1>2. PendingIffRegistered /\ StageInv /\ PressInv /\ CancelInv
  BY DEF Init, PendingIffRegistered, StageInv, PressInv, CancelInv
<1>3. OptionInv /\ ChoiceReachesSession
  BY WordsNoOptions DEF Init, OptionInv, ChoiceReachesSession, Words
<1> QED
  BY <1>1, <1>2, <1>3 DEF IInv

-----------------------------------------------------------------------------
(* The answer of a request that is not in the registry *)

LEMMA AnswerTypes ==
    ASSUME TypeOK, NEW a \in Requests, NEW what \in {"error"} \cup Options,
           Answer(a, what)
    PROVE  /\ frame' \in [Requests -> {None, "error"} \cup Options]
           /\ \A b \in Requests \ {a} : frame'[b] = frame[b]
           /\ frame'[a] \in {frame[a], what}
           /\ Owner[a] \in connected => frame'[a] = what
BY DEF Answer, TypeOK

\* A refusal: the request ends before the registry took it.
LEMMA RefuseStep ==
    ASSUME IInv, NEW a \in Requests, stage[a] \in Early, Owner[a] \in connected \cup gone,
           stage' = [stage EXCEPT ![a] = "done"], Answer(a, "error"),
           message' \in [Requests -> Messages],
           \A b \in Requests : message'[b] = "cancelled" => message[b] = "cancelled",
           UNCHANGED <<up, crashes, connected, gone, entries, promise, removing, editing,
                       clickVars, told>>
    PROVE  IInv'
<1>1. /\ frame' \in [Requests -> {None, "error"} \cup Options]
      /\ \A b \in Requests : frame'[b] = frame[b] \/ (frame'[b] = "error" /\ b = a)
  <2>1. TypeOK /\ "error" \in {"error"} \cup Options
    BY DEF IInv
  <2>2. /\ frame' \in [Requests -> {None, "error"} \cup Options]
        /\ \A b \in Requests \ {a} : frame'[b] = frame[b]
        /\ frame'[a] \in {frame[a], "error"}
    BY <2>1, AnswerTypes
  <2> QED
    BY <2>2
<1>2. TypeOK'
  BY <1>1 DEF IInv, TypeOK, Stages
<1>3. PendingIffRegistered' /\ PressInv'
  BY DEF IInv, PendingIffRegistered, PressInv
<1>4. StageInv'
  BY DEF IInv, StageInv, TypeOK, Early
<1>5. OptionInv'
  BY <1>1, WordsNoOptions DEF IInv, OptionInv, Words
<1>6. CancelInv'
  BY DEF IInv, CancelInv
<1>7. promise[a] = "none"
  BY DEF IInv, StageInv
<1>8. ChoiceReachesSession'
  BY <1>1, <1>7, WordsNoOptions DEF IInv, ChoiceReachesSession, Words
<1> QED
  BY <1>2, <1>3, <1>4, <1>5, <1>6, <1>8 DEF IInv

\* A request comes one await further.
LEMMA StageStep ==
    ASSUME IInv, NEW a \in Requests, stage[a] \in Early, Owner[a] \in connected \cup gone,
           NEW l \in Early, stage' = [stage EXCEPT ![a] = l],
           message' \in [Requests -> Messages],
           \A b \in Requests : message'[b] = "cancelled" => message[b] = "cancelled",
           UNCHANGED <<up, crashes, connected, gone, entries, promise, removing, editing,
                       clickVars, told, frame>>
    PROVE  IInv'
<1>1. TypeOK'
  BY DEF IInv, TypeOK, Stages, Early
<1>2. PendingIffRegistered' /\ PressInv' /\ OptionInv' /\ ChoiceReachesSession'
  BY DEF IInv, PendingIffRegistered, PressInv, OptionInv, ChoiceReachesSession
<1>3. StageInv'
  BY DEF IInv, StageInv, TypeOK
<1>4. CancelInv'
  BY DEF IInv, CancelInv
<1> QED
  BY <1>1, <1>2, <1>3, <1>4 DEF IInv

LEMMA RequestStep ==
    ASSUME IInv, NEW a \in Requests, Request(a)
    PROVE  IInv'
<1>1. /\ stage[a] = "idle" /\ stage[a] \in Early /\ Owner[a] \in connected \cup gone
      /\ message' \in [Requests -> Messages] /\ message' = message
  BY DEF Request, Early, IInv, TypeOK
<1>2. CASE stage' = [stage EXCEPT ![a] = "typeCheck"] /\ UNCHANGED frame
  <2>1. "typeCheck" \in Early
    BY DEF Early
  <2> QED
    BY <1>1, <1>2, <2>1, StageStep DEF Request
<1>3. CASE stage' = [stage EXCEPT ![a] = "done"] /\ Answer(a, "error")
  BY <1>1, <1>3, RefuseStep DEF Request
<1> QED
  BY <1>2, <1>3 DEF Request

LEMMA TypeCheckedStep ==
    ASSUME IInv, NEW a \in Requests, TypeChecked(a)
    PROVE  IInv'
<1>1. /\ stage[a] \in Early /\ Owner[a] \in connected \cup gone
      /\ message' \in [Requests -> Messages] /\ message' = message
  BY DEF TypeChecked, Early, IInv, TypeOK, StageInv
<1>2. CASE stage' = [stage EXCEPT ![a] = "posting"] /\ UNCHANGED frame
  <2>1. "posting" \in Early
    BY DEF Early
  <2> QED
    BY <1>1, <1>2, <2>1, StageStep DEF TypeChecked
<1>3. CASE stage' = [stage EXCEPT ![a] = "done"] /\ Answer(a, "error")
  BY <1>1, <1>3, RefuseStep DEF TypeChecked
<1> QED
  BY <1>2, <1>3 DEF TypeChecked

LEMMA CapacityEditedStep ==
    ASSUME IInv, NEW a \in Requests, CapacityEdited(a)
    PROVE  IInv'
<1>1. /\ stage[a] \in Early /\ Owner[a] \in connected \cup gone
      /\ message' \in [Requests -> Messages]
      /\ \A b \in Requests : message'[b] = "cancelled" => message[b] = "cancelled"
  BY DEF CapacityEdited, Early, IInv, TypeOK, StageInv, Messages
<1> QED
  BY <1>1, RefuseStep DEF CapacityEdited

LEMMA PostedStep ==
    ASSUME IInv, NEW a \in Requests, Posted(a)
    PROVE  IInv'
<1>1. /\ stage[a] = "posting" /\ stage[a] \in Early /\ Owner[a] \in connected \cup gone
      /\ message' \in [Requests -> Messages]
      /\ \A b \in Requests : message'[b] = "cancelled" => message[b] = "cancelled"
      /\ promise[a] = "none"
  BY DEF Posted, Early, IInv, TypeOK, StageInv, Messages
<1>2. CASE stage' = [stage EXCEPT ![a] = "done"] /\ Answer(a, "error")
           /\ UNCHANGED <<entries, promise>>
  BY <1>1, <1>2, RefuseStep DEF Posted
<1>3. CASE Add(a) /\ UNCHANGED frame
  <2>1. CASE Cardinality(entries) >= Capacity
    <3>1. "capacityEdit" \in Early
      BY DEF Early
    <3> QED
      BY <1>1, <1>3, <2>1, <3>1, StageStep DEF Posted, Add
  <2>2. CASE ~(Cardinality(entries) >= Capacity)
    <3>1. /\ entries' = entries \cup {a}
          /\ promise' = [promise EXCEPT ![a] = "pending"]
          /\ stage' = [stage EXCEPT ![a] = "waiting"]
          /\ UNCHANGED <<up, crashes, connected, gone, removing, editing, clickVars, told, frame>>
      BY <1>3, <2>2 DEF Posted, Add
    <3>2. Cardinality(entries') <= Capacity
      <4>1. IsFiniteSet(entries)
        BY EntriesFinite DEF IInv
      <4>2. Cardinality(entries) \in Nat
        BY <4>1, FS_CardinalityType
      <4>3. Cardinality(entries') <= Cardinality(entries) + 1
        <5>1. Cardinality(entries \cup {a})
                = IF a \in entries THEN Cardinality(entries) ELSE Cardinality(entries) + 1
          BY <4>1, FS_AddElement
        <5> QED
          BY <3>1, <4>2, <5>1
      <4>4. Cardinality(entries') \in Nat
        BY <3>1, <4>1, FS_AddElement, FS_CardinalityType
      <4> QED
        BY <2>2, <4>2, <4>3, <4>4, ApprovalAssumption
    <3>3. TypeOK'
      BY <1>1, <3>1, <3>2 DEF IInv, TypeOK, Stages
    <3>4. PendingIffRegistered' /\ PressInv'
      BY <3>1 DEF IInv, PendingIffRegistered, PressInv, TypeOK
    <3>5. StageInv'
      BY <1>1, <3>1 DEF IInv, StageInv, TypeOK, Early
    <3>6. OptionInv'
      <4> SUFFICES ASSUME NEW b \in Requests
                   PROVE  /\ promise'[b] \in Options =>
                                \E c \in Clicks : click'[c] = "resolved"
                                                 /\ clickOn'[c] = <<b, promise'[b]>>
                          /\ frame'[b] \in Options => frame'[b] = promise'[b]
                          /\ told'[b] \in Options => told'[b] = promise'[b]
        BY DEF OptionInv
      <4>1. "pending" \notin Options /\ "none" \notin Options
        BY WordsNoOptions DEF Words
      <4>2. CASE b = a
        BY <1>1, <3>1, <4>1, <4>2 DEF IInv, OptionInv, TypeOK
      <4>3. CASE b # a
        <5>1. /\ promise'[b] = promise[b] /\ click' = click /\ clickOn' = clickOn
              /\ frame' = frame /\ told' = told
          BY <3>1, <4>3 DEF IInv, TypeOK
        <5> QED
          BY <5>1 DEF IInv, OptionInv
      <4> QED
        BY <4>2, <4>3
    <3>7. CancelInv'
      BY <1>1, <3>1 DEF IInv, CancelInv, TypeOK
    <3>8. ChoiceReachesSession'
      BY <1>1, <3>1, WordsNoOptions DEF IInv, ChoiceReachesSession, TypeOK, Words
    <3> QED
      BY <3>3, <3>4, <3>5, <3>6, <3>7, <3>8 DEF IInv
  <2> QED
    BY <2>1, <2>2
<1> QED
  BY <1>2, <1>3 DEF Posted

-----------------------------------------------------------------------------
(* Presses *)

LEMMA PressStep ==
    ASSUME IInv, NEW c \in Clicks, NEW a \in Requests, NEW o \in Options, Press(c, a, o)
    PROVE  IInv'
<1>1. /\ click[c] = "unused" /\ click' = [click EXCEPT ![c] = "pressed"]
      /\ clickOn' = [clickOn EXCEPT ![c] = <<a, o>>]
      /\ UNCHANGED <<daemonVars, message, proxyVars>>
  BY DEF Press
<1>2. TypeOK'
  BY <1>1 DEF IInv, TypeOK, ClickStates
<1>3. PressInv'
  BY <1>1 DEF IInv, PressInv, TypeOK
<1>4. \A d \in Clicks : click[d] = "resolved" => click'[d] = "resolved" /\ clickOn'[d] = clickOn[d]
  BY <1>1 DEF IInv, TypeOK
<1>5. OptionInv'
  BY <1>1, <1>4 DEF IInv, OptionInv
<1>6. PendingIffRegistered' /\ StageInv' /\ CancelInv' /\ ChoiceReachesSession'
  BY <1>1 DEF IInv, PendingIffRegistered, StageInv, CancelInv, ChoiceReachesSession
<1> QED
  BY <1>2, <1>3, <1>5, <1>6 DEF IInv

LEMMA HandleStep ==
    ASSUME IInv, NEW c \in Clicks, HandleCallback(c)
    PROVE  IInv'
<1>1. /\ click[c] = "pressed" /\ UNCHANGED <<daemonVars, message, proxyVars>>
      /\ \/ click' = [click EXCEPT ![c] = "answering"] /\ clickOn' = clickOn
         \/ /\ click' = [click EXCEPT ![c] = "expired"]
            /\ clickOn' = [clickOn EXCEPT ![c] = None]
  BY DEF HandleCallback
<1>2. TypeOK'
  BY <1>1 DEF IInv, TypeOK, ClickStates
<1>3. PressInv'
  BY <1>1 DEF IInv, PressInv, TypeOK
<1>4. \A d \in Clicks : click[d] = "resolved" => click'[d] = "resolved" /\ clickOn'[d] = clickOn[d]
  BY <1>1 DEF IInv, TypeOK
<1>5. OptionInv'
  BY <1>1, <1>4 DEF IInv, OptionInv
<1>6. PendingIffRegistered' /\ StageInv' /\ CancelInv' /\ ChoiceReachesSession'
  BY <1>1 DEF IInv, PendingIffRegistered, StageInv, CancelInv, ChoiceReachesSession
<1> QED
  BY <1>2, <1>3, <1>5, <1>6 DEF IInv

LEMMA ResolveStep ==
    ASSUME IInv, NEW c \in Clicks, ResolveApproval(c)
    PROVE  IInv'
<1>1. PICK a \in Requests, o \in Options :
        /\ clickOn[c] = <<a, o>> /\ clickOn[c][1] = a /\ clickOn[c][2] = o
  BY DEF ResolveApproval, IInv, PressInv
<1>2. /\ click[c] = "answering" /\ click' = [click EXCEPT ![c] = "resolved"]
      /\ \/ /\ promise[a] = "pending" /\ promise' = [promise EXCEPT ![a] = o]
            /\ stage' = [stage EXCEPT ![a] = "done"] /\ Answer(a, o)
         \/ promise[a] # "pending" /\ UNCHANGED <<promise, stage, frame>>
      /\ entries' = entries \ {a}
      /\ UNCHANGED <<up, crashes, connected, gone, removing, editing, message, clickOn, told>>
  BY <1>1 DEF ResolveApproval
<1>3. /\ frame' \in [Requests -> {None, "error"} \cup Options]
      /\ \A b \in Requests \ {a} : frame'[b] = frame[b]
      /\ promise[a] = "pending" =>
            frame'[a] \in {frame[a], o} /\ (Owner[a] \in connected => frame'[a] = o)
      /\ promise[a] # "pending" => frame'[a] = frame[a]
  BY <1>2, AnswerTypes DEF IInv, TypeOK
<1>4. Cardinality(entries') <= Capacity
  <2>1. IsFiniteSet(entries)
    BY EntriesFinite DEF IInv
  <2>2. /\ Cardinality(entries') <= Cardinality(entries)
        /\ Cardinality(entries') \in Nat /\ Cardinality(entries) \in Nat
    BY <1>2, <2>1, FS_Subset, FS_CardinalityType
  <2> QED
    BY <2>2, ApprovalAssumption DEF IInv, TypeOK
<1>5. /\ \A b \in Requests \ {a} : promise'[b] = promise[b] /\ stage'[b] = stage[b]
      /\ promise' \in [Requests -> {"none", "pending", "rejected"} \cup Options]
      /\ stage' \in [Requests -> Stages]
      /\ promise[a] = "pending" => promise'[a] = o /\ stage'[a] = "done"
      /\ promise[a] # "pending" => promise'[a] = promise[a] /\ stage'[a] = stage[a]
  BY <1>2 DEF IInv, TypeOK, Stages
<1>6. TypeOK'
  BY <1>2, <1>3, <1>4, <1>5 DEF IInv, TypeOK, ClickStates
<1>7. "pending" \notin Options /\ "rejected" \notin Options /\ "none" \notin Options
  BY WordsNoOptions DEF Words
<1>8. PendingIffRegistered'
  BY <1>2, <1>5, <1>7 DEF IInv, PendingIffRegistered
<1>9. StageInv'
  BY <1>2, <1>5 DEF IInv, StageInv, Early
<1>10. PressInv'
  BY <1>1, <1>2 DEF IInv, PressInv, TypeOK
<1>11. /\ click'[c] = "resolved" /\ clickOn'[c] = <<a, o>>
       /\ \A d \in Clicks : click[d] = "resolved" => click'[d] = "resolved" /\ clickOn'[d] = clickOn[d]
  BY <1>1, <1>2 DEF IInv, TypeOK
<1>12. OptionInv'
  <2> SUFFICES ASSUME NEW b \in Requests
               PROVE  /\ promise'[b] \in Options =>
                            \E d \in Clicks : click'[d] = "resolved"
                                             /\ clickOn'[d] = <<b, promise'[b]>>
                      /\ frame'[b] \in Options => frame'[b] = promise'[b]
                      /\ told'[b] \in Options => told'[b] = promise'[b]
    BY DEF OptionInv
  <2>1. CASE b = a /\ promise[a] = "pending"
    BY <1>2, <1>3, <1>5, <1>7, <1>11, <2>1 DEF IInv, OptionInv
  <2>2. CASE b # a \/ promise[a] # "pending"
    <3>1. promise'[b] = promise[b] /\ frame'[b] = frame[b] /\ told'[b] = told[b]
      BY <1>2, <1>3, <1>5, <2>2
    <3> QED
      BY <3>1, <1>11 DEF IInv, OptionInv
  <2> QED
    BY <2>1, <2>2
<1>13. CancelInv'
  BY <1>2, <1>5 DEF IInv, CancelInv, TypeOK
<1>14. ChoiceReachesSession'
  BY <1>2, <1>3, <1>5 DEF IInv, ChoiceReachesSession
<1> QED
  BY <1>6, <1>8, <1>9, <1>10, <1>12, <1>13, <1>14 DEF IInv

-----------------------------------------------------------------------------
(* Sessions that come and go *)

LEMMA ConnectStep ==
    ASSUME IInv, NEW s \in Sessions, Connect(s)
    PROVE  IInv'
<1>1. /\ s \notin connected \cup gone /\ connected' = connected \cup {s}
      /\ UNCHANGED <<up, crashes, gone, stage, entries, promise, removing, editing, message,
                     clickVars, proxyVars>>
  BY DEF Connect
<1>2. TypeOK'
  BY <1>1 DEF IInv, TypeOK
<1>3. PendingIffRegistered' /\ PressInv' /\ OptionInv' /\ CancelInv' /\ StageInv'
  BY <1>1 DEF IInv, PendingIffRegistered, PressInv, OptionInv, CancelInv, StageInv
<1>4. ChoiceReachesSession'
  <2> SUFFICES ASSUME NEW a \in Requests, promise[a] \in Options, Owner[a] \in connected'
               PROVE  frame[a] = promise[a] \/ told[a] # "none"
    BY <1>1 DEF ChoiceReachesSession
  <2>1. stage[a] # "idle"
    BY WordsNoOptions DEF IInv, StageInv, Early, Words
  <2>2. Owner[a] \in connected
    BY <1>1, <2>1 DEF IInv, StageInv
  <2> QED
    BY <2>2 DEF IInv, ChoiceReachesSession
<1> QED
  BY <1>2, <1>3, <1>4 DEF IInv

\* What cleanupBySession takes from the registry is rejected.
LEMMA CleanupFacts ==
    ASSUME IInv, NEW s \in Sessions, NEW todo \in SUBSET Requests, CleanupNext(s, todo)
    PROVE  /\ \E S \in SUBSET entries :
                 /\ entries' = entries \ S
                 /\ promise' = [a \in Requests |-> IF a \in S THEN "rejected" ELSE promise[a]]
                 /\ stage' = [a \in Requests |-> IF a \in S THEN "done" ELSE stage[a]]
           /\ removing' \in [Sessions -> SUBSET Requests]
           /\ editing' \in [Sessions -> Requests \cup {None}]
           /\ \A x \in Sessions : editing'[x] # None =>
                 editing'[x] = editing[x] \/ promise'[editing'[x]] = "rejected"
<1> USE DEF IInv, TypeOK
<1>1. CASE todo \cap entries = {}
  <2>1. /\ removing' = [removing EXCEPT ![s] = {}]
        /\ editing' = [editing EXCEPT ![s] = None]
        /\ UNCHANGED <<entries, promise, stage>>
    BY <1>1 DEF CleanupNext
  <2> DEFINE S == {}
  <2>2. /\ S \in SUBSET entries /\ entries' = entries \ S
        /\ promise' = [a \in Requests |-> IF a \in S THEN "rejected" ELSE promise[a]]
        /\ stage' = [a \in Requests |-> IF a \in S THEN "done" ELSE stage[a]]
    BY <2>1
  <2> QED
    BY <2>1, <2>2
<1>2. CASE todo \cap entries # {}
  <2>1. PICK b \in todo \cap entries :
          /\ removing' = [removing EXCEPT ![s] = (todo \cap entries) \ {b}]
          /\ editing' = [editing EXCEPT ![s] = b]
          /\ entries' = entries \ {b}
          /\ promise' = [promise EXCEPT ![b] = "rejected"]
          /\ stage' = [stage EXCEPT ![b] = "done"]
    BY <1>2 DEF CleanupNext
  <2> DEFINE S == {b}
  <2>2. /\ S \in SUBSET entries /\ entries' = entries \ S
        /\ promise' = [a \in Requests |-> IF a \in S THEN "rejected" ELSE promise[a]]
        /\ stage' = [a \in Requests |-> IF a \in S THEN "done" ELSE stage[a]]
    BY <2>1
  <2>3. /\ removing' \in [Sessions -> SUBSET Requests]
        /\ editing' \in [Sessions -> Requests \cup {None}]
        /\ \A x \in Sessions : editing'[x] # None =>
                 editing'[x] = editing[x] \/ promise'[editing'[x]] = "rejected"
    BY <2>1
  <2> HIDE DEF S
  <2> QED
    BY <2>2, <2>3
<1> QED
  BY <1>1, <1>2

\* A cleanup keeps the invariant, whatever its step does to frames and messages.
LEMMA CleanupKeeps ==
    ASSUME IInv, NEW s \in Sessions, NEW todo \in SUBSET Requests, CleanupNext(s, todo),
           connected' \subseteq connected,
           connected' \cup gone' = connected \cup gone,
           message' \in [Requests -> Messages],
           \A a \in Requests : message'[a] = "cancelled" /\ message[a] # "cancelled"
                                  => promise[a] = "rejected",
           told' \in [Requests -> {"none", "error", "timeout", "disconnected"} \cup Options],
           \A a \in Requests : /\ told'[a] = told[a] \/ told'[a] = "disconnected"
                               /\ told[a] # "none" => told'[a] = told[a],
           frame' \in [Requests -> {None, "error"} \cup Options],
           \A a \in Requests : \/ frame'[a] = frame[a]
                               \/ frame'[a] = None /\ Owner[a] \notin connected',
           UNCHANGED <<up, crashes, clickVars>>
    PROVE  IInv'
<1>1. PICK S \in SUBSET entries :
        /\ entries' = entries \ S
        /\ promise' = [a \in Requests |-> IF a \in S THEN "rejected" ELSE promise[a]]
        /\ stage' = [a \in Requests |-> IF a \in S THEN "done" ELSE stage[a]]
  BY CleanupFacts
<1>2. /\ removing' \in [Sessions -> SUBSET Requests]
      /\ editing' \in [Sessions -> Requests \cup {None}]
      /\ \A x \in Sessions : editing'[x] # None =>
            editing'[x] = editing[x] \/ promise'[editing'[x]] = "rejected"
  BY CleanupFacts
<1>3. \A a \in S : promise[a] = "pending"
  BY DEF IInv, PendingIffRegistered, TypeOK
<1>4. Cardinality(entries') <= Capacity
  <2>1. IsFiniteSet(entries)
    BY EntriesFinite DEF IInv
  <2>2. /\ Cardinality(entries') <= Cardinality(entries)
        /\ Cardinality(entries') \in Nat /\ Cardinality(entries) \in Nat
    BY <1>1, <2>1, FS_Subset, FS_CardinalityType
  <2> QED
    BY <2>2, ApprovalAssumption DEF IInv, TypeOK
<1>5. TypeOK'
  <2>1. /\ entries' \subseteq Requests
        /\ promise' \in [Requests -> {"none", "pending", "rejected"} \cup Options]
        /\ stage' \in [Requests -> Stages]
    BY <1>1 DEF IInv, TypeOK, Stages
  <2>2. connected' \subseteq Sessions /\ gone' \subseteq Sessions
    BY DEF IInv, TypeOK
  <2> QED
    BY <1>2, <1>4, <2>1, <2>2 DEF IInv, TypeOK
<1>6. PendingIffRegistered'
  BY <1>1 DEF IInv, PendingIffRegistered
<1>7. StageInv'
  <2> SUFFICES ASSUME NEW a \in Requests
               PROVE  /\ stage'[a] \in Early => promise'[a] = "none"
                      /\ stage'[a] # "idle" => Owner[a] \in connected' \cup gone'
    BY DEF StageInv
  <2>1. CASE a \in S
    <3>1. stage'[a] = "done" /\ "done" \notin Early
      BY <1>1, <2>1 DEF Early
    <3>2. stage[a] # "idle"
      BY <1>3, <2>1 DEF IInv, StageInv, Early
    <3> QED
      BY <3>1, <3>2 DEF IInv, StageInv
  <2>2. CASE a \notin S
    <3>1. stage'[a] = stage[a] /\ promise'[a] = promise[a]
      BY <1>1, <2>2
    <3> QED
      BY <3>1 DEF IInv, StageInv
  <2> QED
    BY <2>1, <2>2
<1>8. PressInv'
  BY DEF IInv, PressInv
<1>9. /\ "rejected" \notin Options /\ "disconnected" \notin Options
      /\ "pending" \notin Options /\ None \notin Options
  BY WordsNoOptions DEF Words
<1>10. OptionInv'
  <2> SUFFICES ASSUME NEW a \in Requests
               PROVE  /\ promise'[a] \in Options =>
                            \E d \in Clicks : click[d] = "resolved"
                                             /\ clickOn[d] = <<a, promise'[a]>>
                      /\ frame'[a] \in Options => frame'[a] = promise'[a]
                      /\ told'[a] \in Options => told'[a] = promise'[a]
    BY DEF OptionInv
  <2>1. frame'[a] \in Options => frame'[a] = frame[a]
    BY <1>9
  <2>2. told'[a] \in Options => told'[a] = told[a]
    BY <1>9
  <2>3. CASE a \in S
    <3>1. promise[a] = "pending" /\ promise'[a] = "rejected"
      BY <1>1, <1>3, <2>3
    <3> QED
      BY <1>9, <2>1, <2>2, <3>1 DEF IInv, OptionInv
  <2>4. CASE a \notin S
    <3>1. promise'[a] = promise[a]
      BY <1>1, <2>4
    <3>2. /\ promise[a] \in Options =>
                \E d \in Clicks : click[d] = "resolved" /\ clickOn[d] = <<a, promise[a]>>
          /\ frame[a] \in Options => frame[a] = promise[a]
          /\ told[a] \in Options => told[a] = promise[a]
      BY DEF IInv, OptionInv
    <3>3. promise'[a] \in Options =>
             \E d \in Clicks : click[d] = "resolved" /\ clickOn[d] = <<a, promise'[a]>>
      BY <3>1, <3>2
    <3>4. frame'[a] \in Options => frame'[a] = promise'[a]
      BY <2>1, <3>1, <3>2
    <3>5. told'[a] \in Options => told'[a] = promise'[a]
      BY <2>2, <3>1, <3>2
    <3> QED
      BY <3>3, <3>4, <3>5
  <2> QED
    BY <2>3, <2>4
<1>11. CancelInv'
  <2>1. \A a \in Requests : promise[a] = "rejected" => promise'[a] = "rejected"
    BY <1>1
  <2> QED
    BY <1>2, <2>1 DEF IInv, CancelInv, TypeOK
<1>12. ChoiceReachesSession'
  <2> SUFFICES ASSUME NEW a \in Requests, promise'[a] \in Options, Owner[a] \in connected'
               PROVE  frame'[a] = promise'[a] \/ told'[a] # "none"
    BY DEF ChoiceReachesSession
  <2>1. promise'[a] = promise[a] /\ Owner[a] \in connected /\ frame'[a] = frame[a]
    BY <1>1, <1>9
  <2> QED
    BY <2>1 DEF IInv, ChoiceReachesSession
<1> QED
  BY <1>5, <1>6, <1>7, <1>8, <1>10, <1>11, <1>12 DEF IInv

LEMMA DisconnectStep ==
    ASSUME IInv, NEW s \in Sessions, Disconnect(s)
    PROVE  IInv'
<1> DEFINE todo == {a \in entries : Owner[a] = s}
<1>1. todo \in SUBSET Requests /\ CleanupNext(s, todo)
  BY DEF Disconnect, IInv, TypeOK
<1>2. /\ connected' = connected \ {s} /\ gone' = gone \cup {s} /\ s \in connected
      /\ told' = [a \in Requests |->
                     IF Owner[a] = s /\ stage[a] # "idle" /\ told[a] = "none"
                     THEN "disconnected" ELSE told[a]]
      /\ frame' = [a \in Requests |-> IF Owner[a] = s THEN None ELSE frame[a]]
      /\ UNCHANGED <<up, crashes, message, clickVars>>
  BY DEF Disconnect
<1>3. /\ told' \in [Requests -> {"none", "error", "timeout", "disconnected"} \cup Options]
      /\ frame' \in [Requests -> {None, "error"} \cup Options]
      /\ message' \in [Requests -> Messages]
  BY <1>2 DEF IInv, TypeOK
<1>4. \A a \in Requests : /\ told'[a] = told[a] \/ told'[a] = "disconnected"
                          /\ told[a] # "none" => told'[a] = told[a]
  BY <1>2
<1>5. \A a \in Requests : \/ frame'[a] = frame[a]
                          \/ frame'[a] = None /\ Owner[a] \notin connected'
  BY <1>2
<1>6. connected' \subseteq connected /\ connected' \cup gone' = connected \cup gone
  BY <1>2
<1> HIDE DEF todo
<1> QED
  BY <1>1, <1>2, <1>3, <1>4, <1>5, <1>6, CleanupKeeps

LEMMA ButtonEditedStep ==
    ASSUME IInv, NEW s \in Sessions, ButtonEdited(s)
    PROVE  IInv'
<1>1. /\ editing[s] # None /\ editing[s] \in Requests /\ promise[editing[s]] = "rejected"
      /\ removing[s] \in SUBSET Requests /\ CleanupNext(s, removing[s])
      /\ UNCHANGED <<up, crashes, connected, gone, clickVars, proxyVars>>
      /\ message' \in {message, [message EXCEPT ![editing[s]] = "cancelled"]}
  BY DEF ButtonEdited, IInv, TypeOK, CancelInv
<1>2. /\ message' \in [Requests -> Messages]
      /\ \A a \in Requests : message'[a] = "cancelled" /\ message[a] # "cancelled"
                                => promise[a] = "rejected"
  BY <1>1 DEF IInv, TypeOK, Messages
<1>3. /\ told' \in [Requests -> {"none", "error", "timeout", "disconnected"} \cup Options]
      /\ frame' \in [Requests -> {None, "error"} \cup Options]
      /\ told' = told /\ frame' = frame
  BY <1>1 DEF IInv, TypeOK
<1> QED
  BY <1>1, <1>2, <1>3, CleanupKeeps

LEMMA CrashStep ==
    ASSUME IInv, Crash
    PROVE  IInv'
<1>1. /\ crashes' = crashes + 1 /\ crashes < MaxCrashes /\ up' = FALSE
      /\ connected' = {} /\ gone' = gone \cup connected /\ entries' = {}
      /\ removing' = [s \in Sessions |-> {}]
      /\ editing' = [s \in Sessions |-> None]
      /\ stage' = [a \in Requests |-> IF stage[a] = "idle" THEN "idle" ELSE "done"]
      /\ promise' = [a \in Requests |-> IF promise[a] = "pending" THEN "none" ELSE promise[a]]
      /\ told' = [a \in Requests |-> IF stage[a] # "idle" /\ told[a] = "none"
                                     THEN "disconnected" ELSE told[a]]
      /\ frame' = [a \in Requests |-> None]
      /\ message' = message
  BY DEF Crash
<1>2. PICK lost \in SUBSET {c \in Clicks : click[c] \in {"pressed", "answering"}} :
        /\ click' = [c \in Clicks |-> IF c \in lost THEN "lost" ELSE click[c]]
        /\ clickOn' = [c \in Clicks |-> IF c \in lost THEN None ELSE clickOn[c]]
  BY DEF Crash
<1>3. /\ None \notin Options /\ "none" \notin Options /\ "disconnected" \notin Options
      /\ "pending" \notin Options
  BY WordsNoOptions DEF Words
<1>4. TypeOK'
  <2>1. crashes' \in 0..MaxCrashes /\ Cardinality(entries') <= Capacity
    <3>1. Cardinality({}) = 0
      BY FS_EmptySet
    <3> QED
      BY <1>1, <3>1, ApprovalAssumption DEF IInv, TypeOK
  <2>2. /\ up' \in BOOLEAN /\ connected' \subseteq Sessions /\ gone' \subseteq Sessions
        /\ entries' \subseteq Requests
        /\ removing' \in [Sessions -> SUBSET Requests]
        /\ editing' \in [Sessions -> Requests \cup {None}]
        /\ message' \in [Requests -> Messages]
    BY <1>1 DEF IInv, TypeOK
  <2>3. /\ stage' \in [Requests -> Stages]
        /\ promise' \in [Requests -> {"none", "pending", "rejected"} \cup Options]
        /\ frame' \in [Requests -> {None, "error"} \cup Options]
        /\ told' \in [Requests -> {"none", "error", "timeout", "disconnected"} \cup Options]
    BY <1>1 DEF IInv, TypeOK, Stages
  <2>4. /\ click' \in [Clicks -> ClickStates]
        /\ clickOn' \in [Clicks -> (Requests \X Options) \cup {None}]
    BY <1>2 DEF IInv, TypeOK, ClickStates
  <2> QED
    BY <2>1, <2>2, <2>3, <2>4 DEF TypeOK
<1>5. PendingIffRegistered'
  BY <1>1 DEF PendingIffRegistered
<1>6. StageInv'
  BY <1>1 DEF IInv, StageInv, Early
<1>7. PressInv'
  BY <1>2 DEF IInv, PressInv
<1>8. OptionInv'
  <2> SUFFICES ASSUME NEW a \in Requests
               PROVE  /\ promise'[a] \in Options =>
                            \E d \in Clicks : click'[d] = "resolved"
                                             /\ clickOn'[d] = <<a, promise'[a]>>
                      /\ frame'[a] \in Options => frame'[a] = promise'[a]
                      /\ told'[a] \in Options => told'[a] = promise'[a]
    BY DEF OptionInv
  <2>1. promise'[a] \in Options => promise'[a] = promise[a]
    BY <1>1, <1>3
  <2>2. promise[a] \in Options => promise'[a] = promise[a]
    BY <1>1, <1>3
  <2>3. told'[a] \in Options => told'[a] = told[a]
    BY <1>1, <1>3
  <2>4. \A d \in Clicks : click[d] = "resolved" => click'[d] = click[d] /\ clickOn'[d] = clickOn[d]
    BY <1>2
  <2>5. frame'[a] \notin Options
    BY <1>1, <1>3
  <2> QED
    BY <2>1, <2>2, <2>3, <2>4, <2>5 DEF IInv, OptionInv
<1>9. CancelInv'
  BY <1>1 DEF IInv, CancelInv
<1>10. ChoiceReachesSession'
  BY <1>1 DEF ChoiceReachesSession
<1> QED
  BY <1>4, <1>5, <1>6, <1>7, <1>8, <1>9, <1>10 DEF IInv

LEMMA RestartStep ==
    ASSUME IInv, Restart
    PROVE  IInv'
BY DEF Restart, IInv, TypeOK, PendingIffRegistered, StageInv, PressInv, OptionInv, CancelInv,
       ChoiceReachesSession

-----------------------------------------------------------------------------
(* The proxy *)

\* A call has its outcome, or gets one that the registry agrees with.
LEMMA ToldStep ==
    ASSUME IInv, NEW a \in Requests, NEW what,
           what \in {"error", "timeout"} \/ (what \in Options /\ what = promise[a]),
           told' = [told EXCEPT ![a] = IF @ = "none" THEN what ELSE @],
           frame' = frame \/ frame' = [frame EXCEPT ![a] = None],
           UNCHANGED <<daemonVars, message, clickVars>>
    PROVE  IInv'
<1>1. told' \in [Requests -> {"none", "error", "timeout", "disconnected"} \cup Options]
  BY DEF IInv, TypeOK
<1>2. frame' \in [Requests -> {None, "error"} \cup Options]
  BY DEF IInv, TypeOK
<1>3. TypeOK'
  BY <1>1, <1>2 DEF IInv, TypeOK
<1>4. PendingIffRegistered' /\ StageInv' /\ PressInv' /\ CancelInv'
  BY DEF IInv, PendingIffRegistered, StageInv, PressInv, CancelInv
<1>5. what # "none" /\ None \notin Options /\ "error" \notin Options /\ "timeout" \notin Options
  BY WordsNoOptions DEF Words
<1>6. /\ \A b \in Requests : told'[b] = told[b] \/ (b = a /\ told'[b] = what)
      /\ \A b \in Requests : frame'[b] = frame[b] \/ (b = a /\ frame'[b] = None)
      /\ told'[a] # "none" /\ \A b \in Requests \ {a} : told'[b] = told[b]
  BY <1>5 DEF IInv, TypeOK
<1>7. OptionInv'
  BY <1>5, <1>6 DEF IInv, OptionInv
<1>8. ChoiceReachesSession'
  BY <1>6 DEF IInv, ChoiceReachesSession
<1> QED
  BY <1>3, <1>4, <1>7, <1>8 DEF IInv

LEMMA ProxyReceivesStep ==
    ASSUME IInv, NEW a \in Requests, ProxyReceives(a)
    PROVE  IInv'
<1>1. frame[a] \in {"error"} \cup Options
  BY DEF ProxyReceives, IInv, TypeOK
<1>2. frame[a] \in {"error", "timeout"} \/ (frame[a] \in Options /\ frame[a] = promise[a])
  BY <1>1 DEF IInv, OptionInv
<1> QED
  BY <1>2, ToldStep DEF ProxyReceives

LEMMA ProxyTimeoutStep ==
    ASSUME IInv, NEW a \in Requests, ProxyTimeout(a)
    PROVE  IInv'
<1>1. told' = [told EXCEPT ![a] = IF @ = "none" THEN "timeout" ELSE @]
  BY DEF ProxyTimeout, IInv, TypeOK
<1> QED
  BY <1>1, ToldStep DEF ProxyTimeout

-----------------------------------------------------------------------------
(* The theorems *)

LEMMA NextIInv == IInv /\ [Next]_vars => IInv'
<1> SUFFICES ASSUME IInv, [Next]_vars
             PROVE  IInv'
  OBVIOUS
<1>1. CASE Progress
  <2>1. CASE \E a \in Requests : \/ TypeChecked(a) \/ Posted(a) \/ CapacityEdited(a)
                                 \/ ProxyReceives(a)
    BY <2>1, TypeCheckedStep, PostedStep, CapacityEditedStep, ProxyReceivesStep
  <2>2. CASE \E c \in Clicks : HandleCallback(c) \/ ResolveApproval(c)
    BY <2>2, HandleStep, ResolveStep
  <2>3. CASE \E s \in Sessions : ButtonEdited(s)
    BY <2>3, ButtonEditedStep
  <2> QED
    BY <1>1, <2>1, <2>2, <2>3 DEF Progress
<1>2. CASE \E a \in Requests : Request(a) \/ ProxyTimeout(a)
  BY <1>2, RequestStep, ProxyTimeoutStep
<1>3. CASE \E c \in Clicks, a \in Requests, o \in Options : Press(c, a, o)
  BY <1>3, PressStep
<1>4. CASE \E s \in Sessions : Connect(s) \/ Disconnect(s)
  BY <1>4, ConnectStep, DisconnectStep
<1>5. CASE Crash
  BY <1>5, CrashStep
<1>6. CASE Restart
  BY <1>6, RestartStep
<1>7. CASE UNCHANGED vars
  BY <1>7 DEF vars, IInv, TypeOK, PendingIffRegistered, StageInv, PressInv, OptionInv, CancelInv,
              ChoiceReachesSession
<1> QED
  BY <1>1, <1>2, <1>3, <1>4, <1>5, <1>6, <1>7 DEF Next

LEMMA Inductive == Spec => []IInv
<1> QED
  BY InitIInv, NextIInv, PTL DEF Spec

\* Every variable keeps its type, and the registry its capacity, although an
\* entry is added an await after the tool was called (pending-registry.ts).
THEOREM TypeCorrect == Spec => []TypeOK
<1>1. IInv => TypeOK
  BY DEF IInv
<1> QED
  BY <1>1, Inductive, PTL

\* An entry is in the registry exactly while its promise is pending, whatever
\* presses, cleanups and crashes interleave (pending-registry.ts).
THEOREM NoneLeaks == Spec => []PendingIffRegistered
<1>1. IInv => PendingIffRegistered
  BY DEF IInv
<1> QED
  BY <1>1, Inductive, PTL

\* A session is told only what the admin pressed for its request, and a
\* request shown as cancelled has given no option (inbound-dispatcher.ts).
THEOREM AdminsChoice == Spec => []ChoiceIsTheAdmins
<1>1. IInv => ChoiceIsTheAdmins
  <2> SUFFICES ASSUME IInv, NEW a \in Requests
               PROVE  /\ told[a] \in Options =>
                            \E c \in Clicks : click[c] = "resolved" /\ clickOn[c] = <<a, told[a]>>
                      /\ message[a] = "cancelled" =>
                            promise[a] \notin Options /\ told[a] \notin Options
    BY DEF ChoiceIsTheAdmins
  <2>1. "rejected" \notin Options
    BY WordsNoOptions DEF Words
  <2> QED
    BY <2>1 DEF IInv, OptionInv, CancelInv
<1> QED
  BY <1>1, Inductive, PTL

\* No choice is dropped while the session that asked is connected
\* (daemon-acceptor.ts, dispatchToolCall).
THEOREM ChoiceDelivered == Spec => []ChoiceReachesSession
<1>1. IInv => ChoiceReachesSession
  BY DEF IInv
<1> QED
  BY <1>1, Inductive, PTL

-----------------------------------------------------------------------------
(* The round trip as the desk sees it *)

\* Where a request with a promise is, and that a press is new.
DeskInv ==
    /\ \A a \in Requests : /\ promise[a] = "pending" => stage[a] = "waiting"
                           /\ promise[a] = "rejected" => stage[a] = "done"
    /\ \A c \in Clicks : click[c] = "unused" => clickOn[c] = None

\* What the desk can tell of a step that decides nothing.
Undecided ==
    /\ \A a \in Requests :
          /\ promise[a] \in Options \/ promise'[a] \in Options => promise'[a] = promise[a]
          /\ stage[a] = "done" => stage'[a] = "done"
          /\ message[a] = "cancelled" => message'[a] = "cancelled"
          /\ message'[a] = "cancelled" => message[a] = "cancelled" \/ promise[a] = "rejected"
          /\ \/ told'[a] = told[a]
             \/ told[a] = "none" /\ told'[a] \in {"error", "timeout", "disconnected"}
    /\ \A c \in Clicks : \/ clickOn'[c] = clickOn[c]
                         \/ clickOn'[c] = None /\ click[c] # "resolved"

LEMMA UndecidedGivesUp ==
    ASSUME IInv, IInv', DeskInv, Undecided
    PROVE  Desk!GiveUp
<1>1. Presses' \subseteq Presses
  BY DEF Presses, Undecided
<1>2. \A w \in Words : w \notin Options
  BY WordsNoOptions
<1>3. ASSUME NEW p \in Presses \ Presses' PROVE Decision[p[1]] # p[2]
  <2>1. PICK c \in Clicks : p = clickOn[c] /\ p # None
    BY <1>3 DEF Presses
  <2>2. p \in Requests \X Options
    BY <2>1 DEF IInv, TypeOK
  <2>3. PICK a \in Requests, o \in Options : p = <<a, o>> /\ p[1] = a /\ p[2] = o
    BY <2>2
  <2>4. Decision[a] = o => promise[a] = o
    BY <1>2 DEF Decision, Words
  <2> SUFFICES ASSUME promise[a] = o PROVE FALSE
    BY <2>3, <2>4
  <2>5. PICK d \in Clicks : click[d] = "resolved" /\ clickOn[d] = <<a, o>>
    BY DEF IInv, OptionInv
  <2>6. clickOn'[d] = p /\ p # None
    BY <2>1, <2>3, <2>5 DEF Undecided
  <2>7. p \in Presses'
    BY <2>6 DEF Presses
  <2> QED
    BY <1>3, <2>7
<1>4. Decision' \in [Requests -> Options \cup {"open", "withdrawn"}]
  BY DEF Decision
<1>5. \A r \in Requests : \/ Decision'[r] = Decision[r]
                          \/ Decision[r] = "open" /\ Decision'[r] = "withdrawn"
  BY DEF Undecided, Decision
<1>6. /\ Cancelled \subseteq Cancelled'
      /\ \A r \in Cancelled' \ Cancelled : r \in Requests /\ Decision[r] = "withdrawn"
  BY <1>2 DEF Undecided, Cancelled, Decision, DeskInv, Words
<1>7. /\ told' \in [Requests -> Options \cup {"error", "timeout", "disconnected"} \cup {"none"}]
      /\ \A r \in Requests : \/ told'[r] = told[r]
                             \/ told[r] = "none" /\ told'[r] \in {"error", "timeout", "disconnected"}
  BY DEF Undecided, IInv, TypeOK
<1> QED
  BY <1>1, <1>3, <1>4, <1>5, <1>6, <1>7 DEF Desk!GiveUp, Desk!Failures

LEMMA InitDesk == Init => DeskInv /\ Desk!Init
<1> SUFFICES ASSUME Init PROVE DeskInv /\ Desk!Init
  OBVIOUS
<1>1. "none" \notin Options
  BY WordsNoOptions DEF Words
<1>2. Presses = {} /\ Cancelled = {} /\ told = [r \in Requests |-> "none"]
  BY DEF Init, Presses, Cancelled
<1>3. Decision = [r \in Requests |-> "open"]
  BY <1>1 DEF Init, Decision
<1> QED
  BY <1>2, <1>3 DEF Init, DeskInv, Desk!Init

\* A step of a call before the registry has it, or of its refusal.
LEMMA CallDesk ==
    ASSUME IInv, DeskInv, NEW a \in Requests,
           Request(a) \/ TypeChecked(a) \/ Posted(a) \/ CapacityEdited(a)
    PROVE  DeskInv' /\ Undecided
<1>1. /\ stage[a] \in Early /\ promise[a] = "none" /\ message[a] # "cancelled"
      /\ UNCHANGED <<clickVars, told>>
  BY DEF Request, TypeChecked, Posted, CapacityEdited, Early, IInv, StageInv, CancelInv
<1>2. /\ stage \in [Requests -> Stages] /\ message \in [Requests -> Messages]
      /\ promise \in [Requests -> {"none", "pending", "rejected"} \cup Options]
  BY DEF IInv, TypeOK
<1>3. \/ promise' = promise
      \/ promise' = [promise EXCEPT ![a] = "pending"] /\ stage' = [stage EXCEPT ![a] = "waiting"]
  BY DEF Request, TypeChecked, Posted, CapacityEdited, Add
<1>4. PICK l \in Stages : stage' = [stage EXCEPT ![a] = l]
  BY DEF Request, TypeChecked, Posted, CapacityEdited, Add, Stages
<1>5. PICK m \in Messages : message' = [message EXCEPT ![a] = m] /\ m # "cancelled"
  <2>1. message' \in {message, [message EXCEPT ![a] = "buttons"],
                      [message EXCEPT ![a] = "over_capacity"]}
    BY DEF Request, TypeChecked, Posted, CapacityEdited
  <2>2. message = [message EXCEPT ![a] = message[a]] /\ message[a] \in Messages
    BY <1>2
  <2> QED
    BY <1>1, <2>1, <2>2 DEF Messages
<1>6. "pending" \notin Options /\ "none" \notin Options /\ stage[a] # "done"
  BY <1>1, WordsNoOptions DEF Words, Early
<1>7. DeskInv'
  <2>1. \A b \in Requests \ {a} : promise'[b] = promise[b] /\ stage'[b] = stage[b]
    BY <1>2, <1>3, <1>4
  <2>2. promise'[a] = "none" \/ (promise'[a] = "pending" /\ stage'[a] = "waiting")
    BY <1>1, <1>2, <1>3
  <2> QED
    BY <1>1, <2>1, <2>2 DEF DeskInv
<1>8. Undecided
  <2> SUFFICES ASSUME NEW b \in Requests
               PROVE  /\ promise[b] \in Options \/ promise'[b] \in Options
                            => promise'[b] = promise[b]
                      /\ stage[b] = "done" => stage'[b] = "done"
                      /\ message[b] = "cancelled" <=> message'[b] = "cancelled"
    BY <1>1 DEF Undecided
  <2>1. CASE b = a
    BY <1>1, <1>2, <1>3, <1>5, <1>6, <2>1
  <2>2. CASE b # a
    BY <1>2, <1>3, <1>4, <1>5, <2>2
  <2> QED
    BY <2>1, <2>2
<1> QED
  BY <1>7, <1>8

\* The head of a cleanup's loop, with whatever else its step does.
LEMMA CleanupDesk ==
    ASSUME IInv, DeskInv, NEW s \in Sessions, NEW todo \in SUBSET Requests,
           CleanupNext(s, todo), UNCHANGED clickVars,
           \A a \in Requests :
              /\ message[a] = "cancelled" => message'[a] = "cancelled"
              /\ message'[a] = "cancelled" => message[a] = "cancelled" \/ promise[a] = "rejected"
              /\ told'[a] = told[a] \/ (told[a] = "none" /\ told'[a] = "disconnected")
    PROVE  DeskInv' /\ Undecided
<1>1. PICK S \in SUBSET entries :
        /\ promise' = [a \in Requests |-> IF a \in S THEN "rejected" ELSE promise[a]]
        /\ stage' = [a \in Requests |-> IF a \in S THEN "done" ELSE stage[a]]
  BY CleanupFacts
<1>2. \A a \in S : promise[a] = "pending"
  BY DEF IInv, PendingIffRegistered, TypeOK
<1>3. "pending" \notin Options /\ "rejected" \notin Options
  BY WordsNoOptions DEF Words
<1>4. DeskInv'
  BY <1>1 DEF DeskInv
<1>5. Undecided
  BY <1>1, <1>2, <1>3 DEF Undecided
<1> QED
  BY <1>4, <1>5

LEMMA DisconnectDesk ==
    ASSUME IInv, DeskInv, NEW s \in Sessions, Disconnect(s)
    PROVE  DeskInv' /\ Undecided
<1> DEFINE todo == {a \in entries : Owner[a] = s}
<1>1. todo \in SUBSET Requests /\ CleanupNext(s, todo) /\ UNCHANGED <<message, clickVars>>
  BY DEF Disconnect, IInv, TypeOK
<1>2. \A a \in Requests : told'[a] = told[a] \/ (told[a] = "none" /\ told'[a] = "disconnected")
  BY DEF Disconnect
<1> HIDE DEF todo
<1> QED
  BY <1>1, <1>2, CleanupDesk

LEMMA EditedDesk ==
    ASSUME IInv, DeskInv, NEW s \in Sessions, ButtonEdited(s)
    PROVE  DeskInv' /\ Undecided
<1>1. /\ editing[s] \in Requests /\ promise[editing[s]] = "rejected"
      /\ removing[s] \in SUBSET Requests /\ CleanupNext(s, removing[s])
      /\ UNCHANGED <<clickVars, told>>
      /\ message' \in {message, [message EXCEPT ![editing[s]] = "cancelled"]}
  BY DEF ButtonEdited, IInv, TypeOK, CancelInv
<1>2. \A a \in Requests :
         /\ message[a] = "cancelled" => message'[a] = "cancelled"
         /\ message'[a] = "cancelled" => message[a] = "cancelled" \/ promise[a] = "rejected"
  BY <1>1 DEF IInv, TypeOK
<1> QED
  BY <1>1, <1>2, CleanupDesk

LEMMA CrashDesk ==
    ASSUME IInv, DeskInv, Crash
    PROVE  DeskInv' /\ Undecided
<1>1. /\ stage' = [a \in Requests |-> IF stage[a] = "idle" THEN "idle" ELSE "done"]
      /\ promise' = [a \in Requests |-> IF promise[a] = "pending" THEN "none" ELSE promise[a]]
      /\ told' = [a \in Requests |-> IF stage[a] # "idle" /\ told[a] = "none"
                                     THEN "disconnected" ELSE told[a]]
      /\ message' = message
  BY DEF Crash
<1>2. PICK lost \in SUBSET {c \in Clicks : click[c] \in {"pressed", "answering"}} :
        /\ click' = [c \in Clicks |-> IF c \in lost THEN "lost" ELSE click[c]]
        /\ clickOn' = [c \in Clicks |-> IF c \in lost THEN None ELSE clickOn[c]]
  BY DEF Crash
<1>3. "pending" \notin Options /\ "none" \notin Options
  BY WordsNoOptions DEF Words
<1>4. DeskInv'
  <2>1. \A a \in Requests : /\ promise'[a] # "pending"
                            /\ promise'[a] = "rejected" => stage'[a] = "done"
    BY <1>1 DEF DeskInv
  <2>2. \A c \in Clicks : click'[c] = "unused" => clickOn'[c] = None
    BY <1>2 DEF DeskInv
  <2> QED
    BY <2>1, <2>2 DEF DeskInv
<1>5. Undecided
  <2>1. \A a \in Requests :
          /\ promise[a] \in Options \/ promise'[a] \in Options => promise'[a] = promise[a]
          /\ stage[a] = "done" => stage'[a] = "done"
          /\ told'[a] = told[a] \/ (told[a] = "none" /\ told'[a] = "disconnected")
    BY <1>1, <1>3
  <2>2. \A c \in Clicks : \/ clickOn'[c] = clickOn[c]
                          \/ clickOn'[c] = None /\ click[c] # "resolved"
    BY <1>2
  <2> QED
    BY <1>1, <2>1, <2>2 DEF Undecided
<1> QED
  BY <1>4, <1>5

LEMMA HandleDesk ==
    ASSUME IInv, DeskInv, NEW c \in Clicks, HandleCallback(c)
    PROVE  DeskInv' /\ Undecided
<1>1. /\ click[c] = "pressed" /\ UNCHANGED <<daemonVars, message, proxyVars>>
      /\ \/ click' = [click EXCEPT ![c] = "answering"] /\ clickOn' = clickOn
         \/ /\ click' = [click EXCEPT ![c] = "expired"]
            /\ clickOn' = [clickOn EXCEPT ![c] = None]
  BY DEF HandleCallback
<1>2. /\ click \in [Clicks -> ClickStates]
      /\ clickOn \in [Clicks -> (Requests \X Options) \cup {None}]
  BY DEF IInv, TypeOK
<1>3. \A d \in Clicks : \/ clickOn'[d] = clickOn[d]
                        \/ clickOn'[d] = None /\ click[d] # "resolved"
  BY <1>1, <1>2
<1>4. \A d \in Clicks : click'[d] = "unused" => clickOn'[d] = None
  BY <1>1, <1>2 DEF DeskInv
<1> QED
  BY <1>1, <1>3, <1>4 DEF DeskInv, Undecided

\* A press counts the moment its callback has been answered.
LEMMA ResolveDesk ==
    ASSUME IInv, DeskInv, NEW c \in Clicks, ResolveApproval(c)
    PROVE  DeskInv' /\ (Undecided \/ Desk!Decide)
<1>1. PICK a \in Requests, o \in Options :
        /\ clickOn[c] = <<a, o>> /\ clickOn[c][1] = a /\ clickOn[c][2] = o
  BY DEF ResolveApproval, IInv, PressInv
<1>2. /\ click[c] = "answering" /\ click' = [click EXCEPT ![c] = "resolved"]
      /\ \/ /\ promise[a] = "pending" /\ promise' = [promise EXCEPT ![a] = o]
            /\ stage' = [stage EXCEPT ![a] = "done"]
         \/ promise[a] # "pending" /\ UNCHANGED <<promise, stage>>
      /\ UNCHANGED <<message, clickOn, told>>
  BY <1>1 DEF ResolveApproval
<1>3. /\ stage \in [Requests -> Stages] /\ click \in [Clicks -> ClickStates]
      /\ promise \in [Requests -> {"none", "pending", "rejected"} \cup Options]
  BY DEF IInv, TypeOK
<1>4. \A w \in Words \cup {None} : w \notin Options
  BY WordsNoOptions
<1>5. DeskInv'
  <2>1. \A d \in Clicks : click'[d] = "unused" => clickOn'[d] = None
    BY <1>2, <1>3 DEF DeskInv
  <2>2. \A b \in Requests : /\ promise'[b] = "pending" => stage'[b] = "waiting"
                            /\ promise'[b] = "rejected" => stage'[b] = "done"
    BY <1>2, <1>3, <1>4 DEF DeskInv, Words
  <2> QED
    BY <2>1, <2>2 DEF DeskInv
<1>6. CASE promise[a] # "pending"
  <2>1. UNCHANGED <<promise, stage, message, clickOn, told>>
    BY <1>2, <1>6
  <2> QED
    BY <1>5, <2>1 DEF Undecided
<1>7. CASE promise[a] = "pending"
  <2>1. <<a, o>> \in Presses
    BY <1>1, ApprovalAssumption DEF Presses
  <2>2. Decision[a] = "open"
    BY <1>4, <1>7 DEF Decision, DeskInv, Words
  <2>3. Decision' = [Decision EXCEPT ![a] = o]
    <3>1. /\ Decision'[a] = o
          /\ \A b \in Requests \ {a} : Decision'[b] = Decision[b]
      BY <1>2, <1>3, <1>7 DEF Decision
    <3> QED
      BY <3>1 DEF Decision
  <2>4. UNCHANGED <<Presses, Cancelled, told>>
    BY <1>2 DEF Presses, Cancelled
  <2> DEFINE p == <<a, o>>
  <2>5. p \in Presses /\ p[1] = a /\ p[2] = o
    BY <2>1
  <2> QED
    BY <1>5, <2>2, <2>3, <2>4, <2>5 DEF Desk!Decide
<1> QED
  BY <1>5, <1>6, <1>7

LEMMA PressDesk ==
    ASSUME IInv, DeskInv, NEW c \in Clicks, NEW a \in Requests, NEW o \in Options, Press(c, a, o)
    PROVE  DeskInv' /\ Desk!Press
<1>1. /\ click[c] = "unused" /\ click' = [click EXCEPT ![c] = "pressed"]
      /\ clickOn' = [clickOn EXCEPT ![c] = <<a, o>>]
      /\ UNCHANGED <<daemonVars, message, proxyVars>>
  BY DEF Press
<1>2. /\ click \in [Clicks -> ClickStates] /\ clickOn[c] = None
      /\ clickOn \in [Clicks -> (Requests \X Options) \cup {None}]
  BY <1>1 DEF IInv, TypeOK, DeskInv
<1>3. Presses' = Presses \cup {<<a, o>>}
  BY <1>1, <1>2, ApprovalAssumption DEF Presses
<1>4. UNCHANGED <<Decision, Cancelled, told>>
  BY <1>1 DEF Decision, Cancelled
<1>5. DeskInv'
  BY <1>1, <1>2 DEF DeskInv
<1> QED
  BY <1>3, <1>4, <1>5 DEF Desk!Press

LEMMA ProxyDesk ==
    ASSUME IInv, DeskInv, NEW a \in Requests, ProxyReceives(a) \/ ProxyTimeout(a)
    PROVE  DeskInv' /\ (Undecided \/ Desk!Hear)
<1>1. UNCHANGED <<daemonVars, message, clickVars>>
  BY DEF ProxyReceives, ProxyTimeout
<1>2. DeskInv'
  BY <1>1 DEF DeskInv
<1>3. PICK what \in {"error", "timeout"} \cup Options :
        /\ told' = [told EXCEPT ![a] = IF @ = "none" THEN what ELSE @]
        /\ what \in Options => what = promise[a]
  <2>1. CASE ProxyReceives(a)
    <3>1. /\ frame[a] \in {"error", "timeout"} \cup Options
          /\ told' = [told EXCEPT ![a] = IF @ = "none" THEN frame[a] ELSE @]
          /\ frame[a] \in Options => frame[a] = promise[a]
      BY <2>1 DEF ProxyReceives, IInv, TypeOK, OptionInv
    <3> QED
      BY <3>1
  <2>2. CASE ProxyTimeout(a)
    <3>1. told' = [told EXCEPT ![a] = IF @ = "none" THEN "timeout" ELSE @]
      BY <2>2 DEF ProxyTimeout, IInv, TypeOK
    <3>2. "timeout" \notin Options
      BY WordsNoOptions DEF Words
    <3> QED
      BY <3>1, <3>2
  <2> QED
    BY <2>1, <2>2
<1>4. told \in [Requests -> {"none", "error", "timeout", "disconnected"} \cup Options]
  BY DEF IInv, TypeOK
<1>5. CASE told[a] # "none" \/ what \in {"error", "timeout"}
  <2>1. \A b \in Requests :
           \/ told'[b] = told[b]
           \/ told[b] = "none" /\ told'[b] \in {"error", "timeout", "disconnected"}
    BY <1>3, <1>4, <1>5
  <2> QED
    BY <1>1, <1>2, <2>1 DEF Undecided
<1>6. CASE told[a] = "none" /\ what \in Options
  <2>1. Decision[a] = what /\ UNCHANGED <<Presses, Decision, Cancelled>>
    BY <1>1, <1>3, <1>6 DEF Decision, Presses, Cancelled
  <2>2. told' = [told EXCEPT ![a] = what]
    BY <1>3, <1>4, <1>6
  <2> QED
    BY <1>2, <1>6, <2>1, <2>2 DEF Desk!Hear
<1> QED
  BY <1>3, <1>5, <1>6

LEMMA DeskStep ==
    ASSUME IInv, DeskInv, [Next]_vars
    PROVE  DeskInv' /\ [Desk!Next]_(Desk!vars)
<1>1. IInv'
  BY NextIInv
<1>2. DeskInv' /\ (Undecided \/ Desk!Press \/ Desk!Decide \/ Desk!Hear)
  <2>1. CASE UNCHANGED <<daemonVars, message, clickVars, told>>
    BY <2>1 DEF DeskInv, Undecided
  <2>2. CASE \E s \in Sessions : Connect(s)
    BY <2>2 DEF Connect, DeskInv, Undecided
  <2>3. CASE Restart
    BY <2>3 DEF Restart, DeskInv, Undecided
  <2>4. CASE \E a \in Requests : Request(a) \/ TypeChecked(a) \/ Posted(a) \/ CapacityEdited(a)
    BY <2>4, CallDesk
  <2>5. CASE \E a \in Requests : ProxyReceives(a) \/ ProxyTimeout(a)
    BY <2>5, ProxyDesk
  <2>6. CASE \E c \in Clicks : HandleCallback(c) \/ ResolveApproval(c)
    BY <2>6, HandleDesk, ResolveDesk
  <2>7. CASE \E c \in Clicks, a \in Requests, o \in Options : Press(c, a, o)
    BY <2>7, PressDesk
  <2>8. CASE \E s \in Sessions : Disconnect(s) \/ ButtonEdited(s)
    BY <2>8, DisconnectDesk, EditedDesk
  <2>9. CASE UNCHANGED vars
    BY <2>1, <2>9 DEF vars
  <2> QED
    BY <2>2, <2>3, <2>4, <2>5, <2>6, <2>7, <2>8, <2>9, CrashDesk DEF Next, Progress
<1> QED
  BY <1>1, <1>2, UndecidedGivesUp DEF Desk!Next

\* One decision per request, made by a press and never revised, none once the
\* request is over, and nothing else told or shown: for any number of requests,
\* sessions, presses and crashes.
THEOREM DeskImplemented == Spec => ImplementsDesk
<1>1. Init => DeskInv /\ Desk!Init
  BY InitDesk
<1>2. IInv /\ DeskInv /\ [Next]_vars => DeskInv' /\ [Desk!Next]_(Desk!vars)
  BY DeskStep
<1> QED
  BY <1>1, <1>2, Inductive, PTL DEF Spec, ImplementsDesk, Desk!Spec

-----------------------------------------------------------------------------
(* What a cleanup has listed *)

LEMMA CleanupTakes ==
    ASSUME IInv, IInv', NEW s \in Sessions, NEW todo \in SUBSET Requests, CleanupNext(s, todo),
           NEW a \in Requests, a \in removing[Owner[a]], a \notin removing'[Owner[a]],
           Owner[a] = s /\ a \in entries => a \in todo
    PROVE  promise'[a] # "pending"
<1>1. removing \in [Sessions -> SUBSET Requests] /\ Owner[a] \in Sessions
  BY ApprovalAssumption DEF IInv, TypeOK
<1> SUFFICES ASSUME a \in entries' PROVE FALSE
  BY DEF IInv, PendingIffRegistered
<1>2. a \in entries /\ Owner[a] = s
  BY <1>1 DEF CleanupNext
<1>3. a \in todo \cap entries
  BY <1>2
<1>4. PICK b \in todo \cap entries : /\ removing' = [removing EXCEPT ![s] = (todo \cap entries) \ {b}]
                                     /\ entries' = entries \ {b}
  BY <1>3 DEF CleanupNext
<1>5. a # b
  BY <1>4
<1> QED
  BY <1>1, <1>2, <1>3, <1>4, <1>5

\* A cleanup that is interrupted by its edits, by presses and by the end of the
\* daemon leaves nothing pending that it had listed (pending-registry.ts).
THEOREM CleanupComplete == Spec => CleanupSettles
<1>1. ASSUME IInv, IInv', [Next]_vars, NEW a \in Requests,
             a \in removing[Owner[a]], a \notin removing'[Owner[a]]
      PROVE  promise'[a] # "pending"
  <2>1. removing' # removing
    BY <1>1
  <2>2. CASE \E s \in Sessions : Disconnect(s)
    <3>1. PICK s \in Sessions : Disconnect(s)
      BY <2>2
    <3> DEFINE todo == {b \in entries : Owner[b] = s}
    <3>2. /\ todo \in SUBSET Requests /\ CleanupNext(s, todo)
          /\ Owner[a] = s /\ a \in entries => a \in todo
      BY <1>1, <3>1 DEF Disconnect, IInv, TypeOK
    <3> HIDE DEF todo
    <3> QED
      BY <1>1, <3>2, CleanupTakes
  <2>3. CASE \E s \in Sessions : ButtonEdited(s)
    <3>1. PICK s \in Sessions : ButtonEdited(s)
      BY <2>3
    <3>2. /\ removing[s] \in SUBSET Requests /\ CleanupNext(s, removing[s])
          /\ Owner[a] = s => a \in removing[s]
      BY <1>1, <3>1 DEF ButtonEdited, IInv, TypeOK
    <3> QED
      BY <1>1, <3>2, CleanupTakes
  <2>4. CASE Crash
    <3>1. promise' = [b \in Requests |-> IF promise[b] = "pending" THEN "none" ELSE promise[b]]
      BY <2>4 DEF Crash
    <3> QED
      BY <3>1
  <2>5. CASE \E b \in Requests : \/ Request(b) \/ ProxyTimeout(b) \/ TypeChecked(b)
                                 \/ Posted(b) \/ CapacityEdited(b) \/ ProxyReceives(b)
    BY <2>1, <2>5 DEF Request, ProxyTimeout, TypeChecked, Posted, CapacityEdited, ProxyReceives
  <2>6. CASE \E c \in Clicks : HandleCallback(c) \/ ResolveApproval(c)
    BY <2>1, <2>6 DEF HandleCallback, ResolveApproval
  <2>7. CASE \E c \in Clicks, b \in Requests, o \in Options : Press(c, b, o)
    BY <2>1, <2>7 DEF Press
  <2>8. CASE (\E s \in Sessions : Connect(s)) \/ Restart \/ UNCHANGED vars
    BY <2>1, <2>8 DEF Connect, Restart, vars
  <2> QED
    BY <1>1, <2>2, <2>3, <2>4, <2>5, <2>6, <2>7, <2>8 DEF Next, Progress
<1>2. IInv /\ IInv' /\ [Next]_vars =>
        [\A a \in Requests : a \in removing[Owner[a]] /\ a \notin removing'[Owner[a]]
                             => promise'[a] # "pending"]_vars
  BY <1>1
<1> QED
  BY <1>2, Inductive, PTL DEF Spec, CleanupSettles

-----------------------------------------------------------------------------
(* What a press settles *)

\* A request whose press is being answered has left the stages before its entry,
\* so that it can never again become pending.
SettledInv ==
    \A c \in Clicks :
        /\ click[c] \in {"answering", "resolved"} => stage[clickOn[c][1]] \notin Early
        /\ click[c] = "resolved" => promise[clickOn[c][1]] # "pending"

\* No request goes back to the stages before its entry, or becomes pending after
\* them.
Onward ==
    \A a \in Requests : stage[a] \notin Early =>
        stage'[a] \notin Early /\ (promise'[a] = "pending" => promise[a] = "pending")

LEMMA SettledKept ==
    ASSUME IInv, SettledInv, Onward,
           \A c \in Clicks : click'[c] \in {"answering", "resolved"} =>
               click'[c] = click[c] /\ clickOn'[c] = clickOn[c]
    PROVE  SettledInv'
<1> SUFFICES ASSUME NEW c \in Clicks, click'[c] \in {"answering", "resolved"}
             PROVE  /\ stage'[clickOn'[c][1]] \notin Early
                    /\ click'[c] = "resolved" => promise'[clickOn'[c][1]] # "pending"
  BY DEF SettledInv
<1>1. clickOn'[c] = clickOn[c] /\ click'[c] = click[c] /\ clickOn[c][1] \in Requests
  BY DEF IInv, PressInv
<1> QED
  BY <1>1 DEF SettledInv, Onward

LEMMA OnwardSteps ==
    ASSUME IInv,
           \/ \E a \in Requests : \/ Request(a) \/ ProxyTimeout(a) \/ TypeChecked(a)
                                  \/ Posted(a) \/ CapacityEdited(a) \/ ProxyReceives(a)
           \/ \E s \in Sessions : Connect(s) \/ Disconnect(s) \/ ButtonEdited(s)
           \/ Restart \/ UNCHANGED vars
    PROVE  Onward /\ UNCHANGED clickVars
<1> USE DEF Onward
<1>1. CASE \E a \in Requests : Request(a) \/ TypeChecked(a) \/ CapacityEdited(a)
  BY <1>1 DEF Request, TypeChecked, CapacityEdited, Early, IInv, TypeOK
<1>2. CASE \E a \in Requests : Posted(a)
  BY <1>2 DEF Posted, Add, Early, IInv, TypeOK
<1>3. CASE \/ \E a \in Requests : ProxyTimeout(a) \/ ProxyReceives(a)
           \/ \E s \in Sessions : Connect(s)
           \/ Restart \/ UNCHANGED vars
  BY <1>3 DEF ProxyTimeout, ProxyReceives, Connect, Restart, vars
<1>4. CASE \E s \in Sessions : Disconnect(s) \/ ButtonEdited(s)
  <2>1. PICK s \in Sessions, todo \in SUBSET Requests :
          CleanupNext(s, todo) /\ UNCHANGED clickVars
    BY <1>4 DEF Disconnect, ButtonEdited, IInv, TypeOK
  <2>2. PICK S \in SUBSET entries :
          /\ promise' = [a \in Requests |-> IF a \in S THEN "rejected" ELSE promise[a]]
          /\ stage' = [a \in Requests |-> IF a \in S THEN "done" ELSE stage[a]]
    BY <2>1, CleanupFacts
  <2> QED
    BY <2>1, <2>2 DEF Early
<1> QED
  BY <1>1, <1>2, <1>3, <1>4

LEMMA SettledCrash == ASSUME IInv, SettledInv, Crash PROVE SettledInv'
<1>1. Onward
  BY DEF Crash, Onward, Early
<1>2. PICK lost \in SUBSET Clicks :
        /\ \A c \in Clicks : click[c] = "answering" => c \in lost
        /\ click' = [c \in Clicks |-> IF c \in lost THEN "lost" ELSE click[c]]
        /\ clickOn' = [c \in Clicks |-> IF c \in lost THEN None ELSE clickOn[c]]
  <2>1. PICK late \in SUBSET {c \in Clicks : click[c] = "pressed"} :
          LET lost == {c \in Clicks \ late : click[c] \in {"pressed", "answering"}} IN
          /\ click' = [c \in Clicks |-> IF c \in lost THEN "lost" ELSE click[c]]
          /\ clickOn' = [c \in Clicks |-> IF c \in lost THEN None ELSE clickOn[c]]
    BY DEF Crash
  <2> DEFINE lost == {c \in Clicks \ late : click[c] \in {"pressed", "answering"}}
  <2>2. lost \in SUBSET Clicks /\ \A c \in Clicks : click[c] = "answering" => c \in lost
    OBVIOUS
  <2> QED
    BY <2>1, <2>2
<1>3. \A c \in Clicks : click'[c] \in {"answering", "resolved"} =>
          click'[c] = click[c] /\ clickOn'[c] = clickOn[c]
  BY <1>2
<1> QED
  BY <1>1, <1>3, SettledKept

LEMMA SettledPress ==
    ASSUME IInv, SettledInv, NEW c \in Clicks, NEW a \in Requests, NEW o \in Options,
           Press(c, a, o)
    PROVE  SettledInv'
<1>1. Onward
  BY DEF Press, Onward
<1>2. \A d \in Clicks : click'[d] \in {"answering", "resolved"} =>
          click'[d] = click[d] /\ clickOn'[d] = clickOn[d]
  BY DEF Press, IInv, TypeOK
<1> QED
  BY <1>1, <1>2, SettledKept

\* A press that is answered has found an entry.
LEMMA SettledHandle ==
    ASSUME IInv, SettledInv, NEW c \in Clicks, HandleCallback(c)
    PROVE  SettledInv'
<1> DEFINE a == clickOn[c][1]
<1>1. /\ UNCHANGED <<stage, promise>> /\ click[c] = "pressed" /\ a \in Requests
      /\ \/ /\ a \in entries /\ click' = [click EXCEPT ![c] = "answering"]
            /\ clickOn' = clickOn
         \/ /\ click' = [click EXCEPT ![c] = "expired"]
            /\ clickOn' = [clickOn EXCEPT ![c] = None]
  BY DEF HandleCallback, IInv, PressInv
<1>2. a \in entries => stage[a] \notin Early
  BY <1>1 DEF IInv, PendingIffRegistered, StageInv
<1> SUFFICES ASSUME NEW d \in Clicks, click'[d] \in {"answering", "resolved"}
             PROVE  /\ stage[clickOn'[d][1]] \notin Early
                    /\ click'[d] = "resolved" => promise[clickOn'[d][1]] # "pending"
  BY <1>1 DEF SettledInv
<1>3. click \in [Clicks -> ClickStates] /\ clickOn \in [Clicks -> (Requests \X Options) \cup {None}]
  BY DEF IInv, TypeOK
<1>4. CASE d = c
  BY <1>1, <1>2, <1>3, <1>4
<1>5. CASE d # c
  <2>1. click'[d] = click[d] /\ clickOn'[d] = clickOn[d]
    BY <1>1, <1>3, <1>5
  <2> QED
    BY <2>1 DEF SettledInv
<1> QED
  BY <1>4, <1>5

\* The press that is answered leaves its request settled.
LEMMA SettledResolve ==
    ASSUME IInv, SettledInv, NEW c \in Clicks, ResolveApproval(c)
    PROVE  SettledInv'
<1> DEFINE a == clickOn[c][1]
           o == clickOn[c][2]
<1>1. /\ click[c] = "answering" /\ a \in Requests /\ o \in Options
      /\ click' = [click EXCEPT ![c] = "resolved"] /\ clickOn' = clickOn
      /\ \/ promise' = [promise EXCEPT ![a] = o] /\ stage' = [stage EXCEPT ![a] = "done"]
         \/ promise[a] # "pending" /\ UNCHANGED <<promise, stage>>
  BY DEF ResolveApproval, IInv, PressInv
<1>2. o # "pending"
  BY <1>1, WordsNoOptions DEF Words
<1>3. stage[a] \notin Early
  BY <1>1 DEF SettledInv
<1> HIDE DEF a, o
<1>4. /\ promise'[a] # "pending" /\ stage'[a] \notin Early
      /\ \A b \in Requests \ {a} : promise'[b] = promise[b] /\ stage'[b] = stage[b]
  BY <1>1, <1>2, <1>3 DEF Early, IInv, TypeOK
<1> SUFFICES ASSUME NEW d \in Clicks, click'[d] \in {"answering", "resolved"}
             PROVE  /\ stage'[clickOn[d][1]] \notin Early
                    /\ click'[d] = "resolved" => promise'[clickOn[d][1]] # "pending"
  BY <1>1 DEF SettledInv
<1>5. CASE clickOn[d][1] = a
  BY <1>4, <1>5
<1>6. CASE clickOn[d][1] # a
  <2>1. d # c /\ click'[d] = click[d] /\ clickOn[d][1] \in Requests
    BY <1>1, <1>6 DEF a, IInv, TypeOK, PressInv
  <2> QED
    BY <1>4, <1>6, <2>1 DEF SettledInv
<1> QED
  BY <1>5, <1>6

\* Whatever crosses it on the way, and whether or not Telegram took the answer,
\* a press that has been through resolveApproval has settled its request.
THEOREM PressesSettle == Spec => []PressSettles
<1>1. Init => SettledInv
  BY DEF Init, SettledInv
<1>2. IInv /\ SettledInv /\ [Next]_vars => SettledInv'
  <2> SUFFICES ASSUME IInv, SettledInv, [Next]_vars PROVE SettledInv'
    OBVIOUS
  <2>1. ASSUME Onward, UNCHANGED clickVars PROVE SettledInv'
    BY <2>1, SettledKept
  <2>2. CASE \E c \in Clicks : HandleCallback(c) \/ ResolveApproval(c)
    BY <2>2, SettledHandle, SettledResolve
  <2>3. CASE \E c \in Clicks, a \in Requests, o \in Options : Press(c, a, o)
    BY <2>3, SettledPress
  <2>4. CASE Crash
    BY <2>4, SettledCrash
  <2> QED
    BY <2>1, <2>2, <2>3, <2>4, OnwardSteps DEF Next, Progress
<1>3. SettledInv => PressSettles
  BY DEF SettledInv, PressSettles
<1> QED
  BY <1>1, <1>2, <1>3, Inductive, PTL DEF Spec
=============================================================================
