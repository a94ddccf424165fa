--------------------------- MODULE OutboundProofs ---------------------------
(***************************************************************************)
(* Theorems about Outbound: for any calls, chats, files and bounds, what   *)
(* is asked of Telegram, what is sent and what a session is told.          *)
(***************************************************************************)
EXTENDS Outbound, AlertsProofs, SequenceTheorems, TLAPS

Steps == {"none", "gate", "posting", "done"}

CallTypes ==
    /\ inFlight \subseteq Chats
    /\ asked \in [Chats -> Nat]
    /\ pc \in [Calls -> Steps]
    /\ tool \in [Calls -> Tools] /\ chat \in [Calls -> Chats]
    /\ file \in [Calls -> Nat]
    /\ sent \in [Calls -> Nat] /\ told \in [Calls -> Answers]
    /\ first \in [Calls -> BOOLEAN]
    /\ queued \subseteq Calls /\ replayed \subseteq Calls

Held == queued \cup replayed

\* Only a call that passed the gate posts.
PrivateInv ==
    \A c \in Calls : pc[c] = "posting" \/ sent[c] > 0 \/ c \in Held => chat[c] \in Private

\* A call that has not ended has told nothing and is not held; while the answer
\* to its first file is good, all files so far are in the chat.
ProgressInv(c) ==
    /\ pc[c] # "done" => told[c] = "none" /\ c \notin Held
    /\ pc[c] \in {"none", "gate"} => sent[c] = 0
    /\ c \in Held => tool[c] = "text"
    /\ pc[c] = "posting" =>
          /\ file[c] \in 1..Files
          /\ file[c] = 1 \/ tool[c] # "files" => sent[c] = 0
          /\ file[c] > 1 => sent[c] <= file[c] - 1
          /\ file[c] > 1 /\ first[c] => sent[c] = file[c] - 1

ToldInv(c) ==
    /\ told[c] = "delivered" => sent[c] = Messages(c)
    /\ told[c] \in {"InvalidChatTypeError", "capacity_exceeded", "queued"} => sent[c] = 0
    /\ tool[c] = "text" => (told[c] = "queued" <=> c \in Held)

IInv ==
    /\ CallTypes
    /\ FetchedOnce
    /\ PrivateInv
    /\ \A c \in Calls : ProgressInv(c) /\ ToldInv(c)

-----------------------------------------------------------------------------
(* What may come after the gate *)

\* Send and Refuse change the calls W alone, and take all of them on.
LEMMA GateMoves ==
    ASSUME CallTypes, NEW ch \in Chats, NEW W \in SUBSET Calls,
           Gate(ch, W) \/ Refuse(W)
    PROVE  /\ pc' \in [Calls -> Steps] /\ told' \in [Calls -> Answers]
           /\ file' \in [Calls -> Nat] /\ queued' \subseteq Calls
           /\ \A c \in Calls \ W : pc'[c] = pc[c] /\ told'[c] = told[c] /\ file'[c] = file[c]
           /\ \A c \in Calls \ W : c \in queued' <=> c \in queued
           /\ \A c \in W : pc'[c] \in {"posting", "done"}
<1> USE DEF CallTypes, Steps, Answers
<1>1. CASE Refuse(W)
  BY <1>1 DEF Refuse
<1>2. CASE Send(W)
  <2>1. CASE polling = "quarantine"
    <3>1. MeetQuarantine(W)
      BY <1>2, <2>1 DEF Send
    <3>2. PICK S \in SUBSET Of({"text"}, W) :
            /\ queued' = queued \cup S
            /\ pc' = [c \in Calls |-> IF c \in W THEN "done" ELSE pc[c]]
            /\ told' = [c \in Calls |->
                   IF c \notin W THEN told[c]
                   ELSE IF c \in S \cup Of({"edit_message"}, W) THEN "queued"
                   ELSE IF tool[c] = "text" THEN "capacity_exceeded" ELSE "failed"]
            /\ UNCHANGED file
      BY <3>1 DEF MeetQuarantine
    <3>3. S \subseteq W
      BY DEF Of
    <3> QED
      BY <3>2, <3>3
  <2>2. CASE polling # "quarantine"
    BY <1>2, <2>2 DEF Send
  <2> QED
    BY <2>1, <2>2
<1> QED
  BY <1>1, <1>2 DEF Gate

\* Where the calls W stand after the gate, by what happened there.
LEMMA GateTells ==
    ASSUME CallTypes, NEW ch \in Chats, NEW W \in SUBSET Calls, NEW c \in W,
           Gate(ch, W) \/ Refuse(W)
    PROVE  \/ /\ pc'[c] = "done" /\ told'[c] = "InvalidChatTypeError"
              /\ c \in queued' <=> c \in queued
           \/ /\ ch \in Private /\ pc'[c] = "posting" /\ file'[c] = 1
              /\ told'[c] = told[c]
              /\ c \in queued' <=> c \in queued
           \/ /\ ch \in Private /\ pc'[c] = "done"
              /\ told'[c] = "queued" /\ tool[c] = "text" /\ c \in queued'
           \/ /\ ch \in Private /\ pc'[c] = "done"
              /\ told'[c] \in {"queued", "failed"} /\ tool[c] # "text"
              /\ c \in queued' <=> c \in queued
           \/ /\ ch \in Private /\ pc'[c] = "done"
              /\ told'[c] = "capacity_exceeded" /\ tool[c] = "text"
              /\ c \in queued' <=> c \in queued
<1> USE DEF CallTypes
<1>1. CASE Refuse(W)
  BY <1>1 DEF Refuse
<1>2. CASE Send(W) /\ ch \in Private
  <2>1. CASE polling = "quarantine"
    <3>1. MeetQuarantine(W)
      BY <1>2, <2>1 DEF Send
    <3>2. PICK S \in SUBSET Of({"text"}, W) :
            /\ queued' = queued \cup S
            /\ pc' = [d \in Calls |-> IF d \in W THEN "done" ELSE pc[d]]
            /\ told' = [d \in Calls |->
                   IF d \notin W THEN told[d]
                   ELSE IF d \in S \cup Of({"edit_message"}, W) THEN "queued"
                   ELSE IF tool[d] = "text" THEN "capacity_exceeded" ELSE "failed"]
      BY <3>1 DEF MeetQuarantine
    <3>3. c \in S => tool[c] = "text"
      BY DEF Of
    <3>4. c \in Of({"edit_message"}, W) => tool[c] # "text"
      BY DEF Of
    <3> QED
      BY <1>2, <3>2, <3>3, <3>4
  <2>2. CASE polling # "quarantine"
    BY <1>2, <2>2 DEF Send
  <2> QED
    BY <2>1, <2>2
<1> QED
  BY <1>1, <1>2 DEF Gate

\* Calls at the gate, or about to come to it, keep the invariant through it.
LEMMA GateKeeps ==
    ASSUME IInv, NEW ch \in Chats, NEW W \in SUBSET Calls,
           Gate(ch, W) \/ Refuse(W),
           \A c \in W : chat[c] = ch /\ pc[c] \in {"none", "gate"},
           UNCHANGED <<replayed, tool, chat, first, sent>>
    PROVE  /\ PrivateInv'
           /\ \A c \in Calls : ProgressInv(c)' /\ ToldInv(c)'
<1>1. ASSUME NEW c \in Calls \ W
      PROVE  /\ pc[c] = "posting" \/ sent[c] > 0 \/ c \in Held => chat[c] \in Private
             /\ ProgressInv(c) /\ ToldInv(c)
             /\ pc'[c] = pc[c] /\ told'[c] = told[c] /\ file'[c] = file[c]
             /\ c \in Held' <=> c \in Held
  BY <1>1, GateMoves DEF IInv, PrivateInv, Held
<1>2. ASSUME NEW c \in W
      PROVE  /\ chat[c] = ch /\ sent[c] = 0 /\ told[c] = "none" /\ c \notin Held
             /\ \/ /\ pc'[c] = "done" /\ told'[c] = "InvalidChatTypeError"
                   /\ c \notin Held'
                \/ /\ ch \in Private /\ pc'[c] = "posting" /\ file'[c] = 1
                   /\ told'[c] = "none" /\ c \notin Held'
                \/ /\ ch \in Private /\ pc'[c] = "done"
                   /\ told'[c] = "queued" /\ tool[c] = "text" /\ c \in Held'
                \/ /\ ch \in Private /\ pc'[c] = "done"
                   /\ told'[c] \in {"queued", "failed"} /\ tool[c] # "text"
                   /\ c \notin Held'
                \/ /\ ch \in Private /\ pc'[c] = "done"
                   /\ told'[c] = "capacity_exceeded" /\ tool[c] = "text"
                   /\ c \notin Held'
  <2>1. c \in Calls /\ chat[c] = ch /\ pc[c] \in {"none", "gate"}
    BY <1>2
  <2>2. sent[c] = 0 /\ told[c] = "none" /\ c \notin Held
    BY <2>1 DEF IInv, ProgressInv
  <2> QED
    BY <2>1, <2>2, GateTells DEF IInv, Held
<1>3. \A c \in Calls : /\ sent'[c] = sent[c] /\ tool'[c] = tool[c] /\ chat'[c] = chat[c]
                       /\ first'[c] = first[c] /\ Messages(c)' = Messages(c)
  BY DEF Messages
<1>4. PrivateInv'
  <2> SUFFICES ASSUME NEW c \in Calls,
                      pc'[c] = "posting" \/ sent'[c] > 0 \/ c \in Held'
               PROVE  chat'[c] \in Private
    BY DEF PrivateInv
  <2>1. CASE c \in W
    BY <2>1, <1>2, <1>3
  <2>2. CASE c \notin W
    BY <2>2, <1>1, <1>3
  <2> QED
    BY <2>1, <2>2
<1>5. ASSUME NEW c \in Calls PROVE ProgressInv(c)' /\ ToldInv(c)'
  <2>1. CASE c \in W
    BY <2>1, <1>2, <1>3, OutboundAssumption DEF ProgressInv, ToldInv
  <2>2. CASE c \notin W
    BY <2>2, <1>1, <1>3 DEF ProgressInv, ToldInv
  <2> QED
    BY <2>1, <2>2
<1> QED
  BY <1>4, <1>5

-----------------------------------------------------------------------------
(* The steps *)

LEMMA InitIInv == Init => IInv
<1> SUFFICES ASSUME Init PROVE IInv
  OBVIOUS
<1>1. PICK e \in Errands : /\ tool = [c \in Calls |-> e[c][1]]
                           /\ chat = [c \in Calls |-> e[c][2]]
  BY DEF Init
<1>2. e \in [Calls -> Tools \X Chats]
  BY OutboundAssumption
<1>3. tool \in [Calls -> Tools] /\ chat \in [Calls -> Chats]
  BY <1>1, <1>2
<1>4. CallTypes
  BY <1>3 DEF Init, CallTypes, Steps, Answers
<1>5. FetchedOnce
  BY DEF Init, FetchedOnce, Waiting
<1>6. PrivateInv
  BY DEF Init, PrivateInv, Held
<1>7. \A c \in Calls : ProgressInv(c) /\ ToldInv(c)
  BY DEF Init, ProgressInv, ToldInv, Held
<1> QED
  BY <1>4, <1>5, <1>6, <1>7 DEF IInv

\* A step in which no call has a part.
LEMMA Elsewhere ==
    ASSUME IInv, UNCHANGED <<inFlight, asked, queueVars, callVars>>
    PROVE  IInv'
<1> USE DEF queueVars, callVars
<1>1. CallTypes' /\ FetchedOnce'
  BY DEF IInv, CallTypes, FetchedOnce, Waiting
<1>2. PrivateInv'
  BY DEF IInv, PrivateInv, Held
<1>3. \A c \in Calls : ProgressInv(c)' /\ ToldInv(c)'
  BY DEF IInv, ProgressInv, ToldInv, Held, Messages
<1> QED
  BY <1>1, <1>2, <1>3 DEF IInv

LEMMA AskStep ==
    ASSUME IInv, NEW c \in Calls, Ask(c)
    PROVE  IInv'
<1>1. /\ pc[c] = "none" /\ chat[c] \in Chats
      /\ UNCHANGED <<replayed, tool, chat, first, sent>>
  BY DEF Ask, IInv, CallTypes
<1>2. CASE Hit(chat[c])
  <2>1. Gate(chat[c], {c}) /\ UNCHANGED <<inFlight, asked>>
    BY <1>2 DEF Ask
  <2>2. /\ PrivateInv'
        /\ \A d \in Calls : ProgressInv(d)' /\ ToldInv(d)'
    BY <1>1, <2>1, GateKeeps
  <2>3. /\ CallTypes'
        /\ \A d \in Calls : pc'[d] = "gate" => pc[d] = "gate"
    BY <1>1, <2>1, GateMoves DEF IInv, CallTypes
  <2>4. FetchedOnce'
    BY <1>1, <2>1, <2>3 DEF IInv, FetchedOnce, Waiting
  <2> QED
    BY <2>2, <2>3, <2>4 DEF IInv
<1>3. CASE ~Hit(chat[c])
  <2>1. /\ Fetch(chat[c]) /\ pc' = [pc EXCEPT ![c] = "gate"]
        /\ UNCHANGED <<told, file, queued>>
    BY <1>3 DEF Ask
  <2>2. CallTypes'
    BY <1>1, <2>1 DEF IInv, CallTypes, Fetch, Steps
  <2>3. \A ch \in Chats : asked'[ch] = IF ch \in inFlight' THEN 1 ELSE 0
    BY <1>1, <2>1 DEF IInv, CallTypes, FetchedOnce, Fetch
  <2>4. \A ch \in Chats : Waiting(ch)' # {} => ch \in inFlight'
    BY <1>1, <2>1 DEF IInv, CallTypes, FetchedOnce, Waiting, Fetch
  <2>5. PrivateInv'
    BY <1>1, <2>1 DEF IInv, CallTypes, PrivateInv, Held
  <2>6. \A d \in Calls : ProgressInv(d)' /\ ToldInv(d)'
    BY <1>1, <2>1 DEF IInv, CallTypes, ProgressInv, ToldInv, Held, Messages
  <2> QED
    BY <2>2, <2>3, <2>4, <2>5, <2>6 DEF IInv, FetchedOnce
<1> QED
  BY <1>2, <1>3

LEMMA FetchStep ==
    ASSUME IInv, NEW ch \in Chats, FetchEnds(ch)
    PROVE  IInv'
<1> DEFINE W == Waiting(ch)
<1>1. /\ asked[ch] > 0
      /\ asked' = [asked EXCEPT ![ch] = @ - 1]
      /\ inFlight' = inFlight \ {ch}
      /\ Gate(ch, W) \/ Refuse(W)
      /\ UNCHANGED <<replayed, tool, chat, first, sent>>
  BY DEF FetchEnds, FetchFailed
<1>2. W \in SUBSET Calls /\ \A c \in W : chat[c] = ch /\ pc[c] \in {"none", "gate"}
  BY DEF Waiting
<1>3. W = {c \in Calls : pc[c] = "gate" /\ chat[c] = ch}
  BY DEF Waiting
<1> HIDE DEF W
<1>4. /\ PrivateInv'
      /\ \A c \in Calls : ProgressInv(c)' /\ ToldInv(c)'
  BY <1>1, <1>2, GateKeeps
<1>5. asked[ch] = 1
  BY <1>1 DEF IInv, CallTypes, FetchedOnce
<1>6. /\ pc' \in [Calls -> Steps] /\ told' \in [Calls -> Answers]
      /\ file' \in [Calls -> Nat] /\ queued' \subseteq Calls
      /\ \A c \in Calls \ W : pc'[c] = pc[c]
      /\ \A c \in W : pc'[c] # "gate"
  BY <1>1, <1>2, GateMoves DEF IInv
<1>7. CallTypes'
  BY <1>1, <1>5, <1>6 DEF IInv, CallTypes
<1>8. \A x \in Chats : asked'[x] = IF x \in inFlight' THEN 1 ELSE 0
  BY <1>1, <1>5 DEF IInv, CallTypes, FetchedOnce
<1>9. \A x \in Chats : Waiting(x)' # {} => x \in inFlight'
  <2> SUFFICES ASSUME NEW x \in Chats, NEW c \in Calls, pc'[c] = "gate", chat'[c] = x
               PROVE  x \in inFlight'
    BY DEF Waiting
  <2>1. c \notin W /\ pc[c] = "gate" /\ chat[c] = x
    BY <1>1, <1>6
  <2>2. x # ch /\ x \in inFlight
    BY <1>3, <2>1 DEF IInv, FetchedOnce, Waiting
  <2> QED
    BY <1>1, <2>2
<1> QED
  BY <1>4, <1>7, <1>8, <1>9 DEF IInv, FetchedOnce

\* One post of one call: only that call changes.
LEMMA PostedStep ==
    ASSUME IInv, NEW c \in Calls, CallPosted(c)
    PROVE  IInv'
<1> USE OutboundAssumption
<1>1. PICK ok \in BOOLEAN, taken \in BOOLEAN :
        /\ ok => taken
        /\ sent' = [sent EXCEPT ![c] = @ + (IF taken THEN 1 ELSE 0)]
        /\ IF tool[c] = "files" THEN FileEnds(c, ok)
           ELSE LastFile(c, ok) /\ UNCHANGED first
  BY DEF CallPosted
<1>2. pc[c] = "posting" /\ UNCHANGED <<inFlight, asked, queueVars, tool, chat>>
  BY DEF CallPosted, cacheVars
<1>3. /\ pc[c] = "posting" /\ chat[c] \in Private /\ told[c] = "none" /\ c \notin Held
      /\ file[c] \in 1..Files /\ sent[c] \in Nat
      /\ file[c] = 1 \/ tool[c] # "files" => sent[c] = 0
      /\ file[c] > 1 => sent[c] <= file[c] - 1
      /\ file[c] > 1 /\ first[c] => sent[c] = file[c] - 1
  BY <1>2 DEF IInv, CallTypes, PrivateInv, ProgressInv
<1>4. \/ Tell(c, "failed") /\ first' \in [Calls -> BOOLEAN]
      \/ /\ Tell(c, "delivered") /\ sent'[c] = Messages(c)
         /\ first' \in [Calls -> BOOLEAN]
      \/ /\ NextFile(c) /\ file[c] < Files /\ tool[c] = "files"
         /\ first' \in [Calls -> BOOLEAN]
         /\ sent'[c] <= file[c] /\ (first'[c] => sent'[c] = file[c])
  <2> USE DEF IInv, CallTypes
  <2>1. CASE tool[c] # "files"
    BY <2>1, <1>1, <1>3 DEF LastFile, Messages
  <2>2. CASE tool[c] = "files"
    <3> DEFINE kept == IF file[c] = 1 THEN ok ELSE first[c]
    <3>1. kept \in BOOLEAN
      BY Zenon
    <3>2. first' = [first EXCEPT ![c] = kept] /\ first' \in [Calls -> BOOLEAN] /\ first'[c] = kept
      BY <2>2, <1>1, <3>1 DEF FileEnds
    <3>3. CASE Tell(c, "failed")
      BY <3>2, <3>3
    <3>4. CASE ~Tell(c, "failed")
      <4>1. ~(file[c] > 1 /\ ~ok) /\ (NextFile(c) \/ LastFile(c, kept))
        BY <2>2, <1>1, <3>4 DEF FileEnds
      <4>2. /\ sent'[c] = sent[c] + (IF taken THEN 1 ELSE 0)
            /\ kept => sent'[c] = file[c]
            /\ sent'[c] <= file[c]
        BY <1>1, <1>3, <2>2, <4>1
      <4>3. CASE file[c] < Files
        <5>1. NextFile(c)
          BY <1>1, <2>2, <3>4, <4>3 DEF FileEnds
        <5> QED
          BY <2>2, <3>2, <4>2, <4>3, <5>1
      <4>4. CASE ~(file[c] < Files)
        <5>1. LastFile(c, kept)
          BY <1>1, <2>2, <3>4, <4>4, Zenon DEF FileEnds
        <5>2. file[c] = Files
          <6>1. file[c] \in 1..Files
            BY <1>3
          <6>2. Files \in Nat
            OBVIOUS
          <6> HIDE DEF kept, IInv, CallTypes
          <6> QED
            BY <4>4, <6>1, <6>2
        <5>3. CASE ~kept
          BY <5>1, <5>3, <3>4, Zenon DEF LastFile
        <5>4. kept => Tell(c, "delivered")
          BY <5>1, Zenon DEF LastFile
        <5> QED
          BY <2>2, <3>2, <4>2, <5>2, <5>3, <5>4 DEF Messages
      <4> QED
        BY <4>3, <4>4
    <3> QED
      BY <3>3, <3>4
  <2> QED
    BY <2>1, <2>2
<1>5. /\ sent' \in [Calls -> Nat]
      /\ \A d \in Calls \ {c} : sent'[d] = sent[d]
  BY <1>1 DEF IInv, CallTypes
<1>6. /\ \A d \in Calls \ {c} : first'[d] = first[d]
      /\ pc'[c] \in {"posting", "done"}
      /\ \A d \in Calls \ {c} : pc'[d] = pc[d] /\ told'[d] = told[d] /\ file'[d] = file[d]
  <2>1. \/ first' = first
        \/ \E kept : first' = [first EXCEPT ![c] = kept]
    BY <1>1, Zenon DEF FileEnds
  <2>2. \A d \in Calls \ {c} : first'[d] = first[d]
    BY <2>1 DEF IInv, CallTypes
  <2> QED
    BY <1>2, <1>4, <2>2 DEF Tell, NextFile, IInv, CallTypes
<1>7. CallTypes'
  <2>1. first' \in [Calls -> BOOLEAN]
    BY <1>4
  <2>2. /\ pc' \in [Calls -> Steps] /\ told' \in [Calls -> Answers]
        /\ file' \in [Calls -> Nat]
    BY <1>4 DEF Tell, NextFile, IInv, CallTypes, Steps, Answers
  <2> QED
    BY <1>2, <1>5, <2>1, <2>2 DEF IInv, CallTypes, queueVars
<1>8. FetchedOnce'
  BY <1>2, <1>6 DEF IInv, FetchedOnce, Waiting
<1>9. PrivateInv'
  BY <1>2, <1>3, <1>5, <1>6 DEF IInv, PrivateInv, Held, queueVars
<1>10. ASSUME NEW d \in Calls \ {c} PROVE ProgressInv(d)' /\ ToldInv(d)'
  BY <1>2, <1>5, <1>6, <1>10 DEF IInv, ProgressInv, ToldInv, Held, Messages, queueVars
<1>11. ProgressInv(c)' /\ ToldInv(c)'
  <2>1. c \notin Held' /\ tool'[c] = tool[c] /\ Messages(c)' = Messages(c)
    BY <1>2, <1>3 DEF Held, queueVars, Messages
  <2>2. CASE Tell(c, "failed")
    BY <2>1, <2>2 DEF Tell, ProgressInv, ToldInv, IInv, CallTypes
  <2>3. CASE Tell(c, "delivered") /\ sent'[c] = Messages(c)
    BY <2>1, <2>3 DEF Tell, ProgressInv, ToldInv, IInv, CallTypes
  <2>4. CASE /\ NextFile(c) /\ file[c] < Files /\ tool[c] = "files"
             /\ sent'[c] <= file[c] /\ (first'[c] => sent'[c] = file[c])
    <3>1. /\ file'[c] = file[c] + 1 /\ pc'[c] = "posting" /\ told'[c] = "none"
          /\ file'[c] \in 1..Files /\ file'[c] > 1
      BY <1>3, <2>4 DEF NextFile, IInv, CallTypes
    <3> QED
      BY <1>3, <2>1, <2>4, <3>1 DEF ProgressInv, ToldInv
  <2> QED
    BY <1>4, <2>2, <2>3, <2>4
<1> QED
  BY <1>7, <1>8, <1>9, <1>10, <1>11 DEF IInv

LEMMA RecoverStep ==
    ASSUME IInv, Recover
    PROVE  IInv'
<1>1. /\ Held' = Held /\ queued' \subseteq Calls /\ replayed' \subseteq Calls
      /\ UNCHANGED <<inFlight, asked, callVars>>
  BY DEF Recover, Held, cacheVars, IInv, CallTypes
<1>2. CallTypes' /\ FetchedOnce'
  BY <1>1 DEF IInv, CallTypes, FetchedOnce, Waiting, callVars
<1>3. PrivateInv'
  BY <1>1 DEF IInv, PrivateInv, callVars
<1>4. \A c \in Calls : ProgressInv(c)' /\ ToldInv(c)'
  BY <1>1 DEF IInv, ProgressInv, ToldInv, callVars, Messages
<1> QED
  BY <1>2, <1>3, <1>4 DEF IInv

LEMMA NextIInv == IInv /\ [Next]_vars => IInv'
<1> SUFFICES ASSUME IInv, [Next]_vars PROVE IInv'
  OBVIOUS
<1>1. CASE UNCHANGED vars
  BY <1>1, Elsewhere DEF vars, cacheVars
<1>2. CASE ObsStep /\ UNCHANGED <<cacheVars, queueVars, callVars>>
  BY <1>2, Elsewhere DEF cacheVars
<1>3. CASE Recover
  BY <1>3, RecoverStep
<1>4. ASSUME NEW ch \in Chats, PrimeCache(ch) \/ Ages(ch) \/ FetchEnds(ch) PROVE IInv'
  <2>1. CASE PrimeCache(ch) \/ Ages(ch)
    BY <2>1, Elsewhere DEF PrimeCache, Ages
  <2> QED
    BY <1>4, <2>1, FetchStep
<1>5. ASSUME NEW c \in Calls, Ask(c) \/ CallPosted(c) PROVE IInv'
  BY <1>5, AskStep, PostedStep
<1> QED
  BY <1>1, <1>2, <1>3, <1>4, <1>5 DEF Next

LEMMA Inductive == Spec => []IInv
<1> QED
  BY InitIInv, NextIInv, PTL DEF Spec

-----------------------------------------------------------------------------
(* The cache *)

LEMMA RemoveAtFacts ==
    ASSUME NEW S, NEW s \in Seq(S), NEW k \in DOMAIN s
    PROVE  /\ RemoveAt(s, k) \in Seq(S)
           /\ Len(RemoveAt(s, k)) = Len(s) - 1
           /\ \A i \in 1..(Len(s) - 1) :
                 RemoveAt(s, k)[i] = IF i < k THEN s[i] ELSE s[i + 1]
<1> DEFINE a == SubSeq(s, 1, k - 1)
           b == SubSeq(s, k + 1, Len(s))
<1>1. k \in 1..Len(s) /\ Len(s) \in Nat
  OBVIOUS
<1>2. a \in Seq(S) /\ Len(a) = k - 1 /\ \A i \in 1..(k - 1) : a[i] = s[i]
  BY <1>1
<1>3. /\ b \in Seq(S) /\ Len(b) = Len(s) - k
      /\ \A i \in 1..(Len(s) - k) : b[i] = s[k + i]
  BY <1>1
<1>4. RemoveAt(s, k) = a \o b
  BY DEF RemoveAt
<1> HIDE DEF a, b
<1> QED
  BY <1>1, <1>2, <1>3, <1>4

LEMMA RemoveAtOnce ==
    ASSUME NEW S, NEW s \in Seq(S), NEW k \in DOMAIN s, IsInjective(s)
    PROVE  /\ RemoveAt(s, k) \in Seq(S) /\ Len(RemoveAt(s, k)) = Len(s) - 1
           /\ IsInjective(RemoveAt(s, k)) /\ s[k] \notin ToSet(RemoveAt(s, k))
<1> DEFINE r == RemoveAt(s, k)
           was(i) == IF i < k THEN i ELSE i + 1
<1>1. k \in 1..Len(s) /\ Len(s) \in Nat /\ DOMAIN s = 1..Len(s)
  OBVIOUS
<1>2. r \in Seq(S) /\ Len(r) = Len(s) - 1 /\ DOMAIN r = 1..(Len(s) - 1)
  <2>1. r \in Seq(S) /\ Len(r) = Len(s) - 1
    BY RemoveAtFacts, Zenon
  <2> QED
    BY <2>1, LenProperties, Zenon
<1>5. \A i \in DOMAIN r : r[i] = s[was(i)]
  BY <1>2, RemoveAtFacts
<1> HIDE DEF r
<1>6. \A i \in DOMAIN r : was(i) \in DOMAIN s /\ was(i) # k
  BY <1>1, <1>2
<1>7. IsInjective(r)
  <2> SUFFICES ASSUME NEW i \in DOMAIN r, NEW j \in DOMAIN r, r[i] = r[j] PROVE i = j
    BY DEF IsInjective
  <2>1. was(i) = was(j)
    BY <1>5, <1>6 DEF IsInjective
  <2> QED
    BY <2>1, <1>1, <1>2
<1>8. s[k] \notin ToSet(r)
  BY <1>1, <1>5, <1>6 DEF ToSet, IsInjective
<1> QED
  BY <1>2, <1>7, <1>8 DEF r

\* Map.delete takes the one entry of the key, if there is one.
LEMMA RemoveFirstOnce ==
    ASSUME NEW S, NEW s \in Seq(S), NEW e, IsInjective(s)
    PROVE  /\ RemoveFirst(s, e) \in Seq(S) /\ Len(RemoveFirst(s, e)) <= Len(s)
           /\ IsInjective(RemoveFirst(s, e)) /\ e \notin ToSet(RemoveFirst(s, e))
<1>1. Len(s) \in Nat /\ DOMAIN s = 1..Len(s)
  OBVIOUS
<1>2. CASE ~\E i \in 1..Len(s) : s[i] = e
  BY <1>1, <1>2 DEF RemoveFirst, ToSet
<1>3. CASE \E i \in 1..Len(s) : s[i] = e
  <2>1. PICK k \in 1..Len(s) : s[k] = e
    BY <1>3
  <2> DEFINE I == {i \in 1..Len(s) : s[i] = e}
  <2>2. I = {k}
    BY <1>1, <2>1 DEF IsInjective
  <2>3. SelectInSeq(s, LAMBDA v : v = e) = IF I # {} THEN Min(I) ELSE 0
    BY DEF SelectInSeq
  <2> HIDE DEF I
  <2>4. Min(I) = k
    BY <2>2 DEF Min
  <2>5. RemoveFirst(s, e) = RemoveAt(s, k)
    BY <1>3, <2>2, <2>3, <2>4 DEF RemoveFirst
  <2> QED
    BY <1>1, <2>1, <2>5, RemoveAtOnce
<1> QED
  BY <1>2, <1>3

\* The cache is within its bound, has one entry per chat, and has aged only
\* entries it has.
CacheInv ==
    /\ cache \in Seq(Chats) /\ Len(cache) <= MaxEntries
    /\ IsInjective(cache)
    /\ aged \subseteq ToSet(cache)

LEMMA StoreKeepsCache ==
    ASSUME CacheInv, NEW ch \in Chats, StoreEntry(ch)
    PROVE  CacheInv'
<1> DEFINE r == RemoveFirst(cache, ch)
           s == Append(r, ch)
<1>1. /\ r \in Seq(Chats) /\ Len(r) <= Len(cache)
      /\ IsInjective(r) /\ ch \notin ToSet(r)
  BY RemoveFirstOnce DEF CacheInv
<1>2. cache' = (IF Len(s) > MaxEntries THEN Tail(s) ELSE s) /\ aged' \subseteq ToSet(cache')
  BY DEF StoreEntry
<1>3. Len(cache) \in Nat /\ Len(cache) <= MaxEntries /\ MaxEntries \in Nat
  BY OutboundAssumption DEF CacheInv
<1> HIDE DEF r
<1>4. /\ s \in Seq(Chats) /\ Len(s) = Len(r) + 1 /\ s # <<>>
      /\ \A i \in 1..Len(r) : s[i] = r[i]
      /\ s[Len(r) + 1] = ch /\ DOMAIN s = 1..(Len(r) + 1) /\ Len(r) \in Nat
      /\ DOMAIN r = 1..Len(r)
  BY <1>1, AppendProperties
<1> HIDE DEF s
<1>5. IsInjective(s)
  <2> SUFFICES ASSUME NEW i \in DOMAIN s, NEW j \in DOMAIN s, s[i] = s[j] PROVE i = j
    BY DEF IsInjective
  <2>1. \A x \in 1..Len(r) : r[x] # ch
    BY <1>1, <1>4 DEF ToSet
  <2> QED
    BY <1>1, <1>4, <2>1 DEF IsInjective
<1>6. CASE Len(s) > MaxEntries
  <2> DEFINE t == Tail(s)
  <2>1. /\ t \in Seq(Chats) /\ Len(t) = Len(s) - 1
        /\ \A i \in 1..Len(t) : t[i] = s[i + 1]
    BY <1>4, HeadTailProperties
  <2>2. DOMAIN t = 1..Len(t) /\ Len(t) <= MaxEntries
    BY <1>1, <1>3, <1>4, <2>1
  <2> HIDE DEF t
  <2>3. \A i \in DOMAIN t : i + 1 \in DOMAIN s /\ t[i] = s[i + 1] /\ i \in Nat
    BY <1>4, <2>1, <2>2
  <2>4. IsInjective(t)
    BY <1>5, <2>3 DEF IsInjective
  <2>5. cache' = t
    BY <1>2, <1>6 DEF t
  <2> QED
    BY <1>2, <2>1, <2>2, <2>4, <2>5 DEF CacheInv
<1>7. CASE ~(Len(s) > MaxEntries)
  <2>1. cache' = s /\ Len(s) <= MaxEntries
    BY <1>2, <1>3, <1>4, <1>7
  <2> QED
    BY <1>2, <1>4, <1>5, <2>1 DEF CacheInv
<1> QED
  BY <1>6, <1>7

LEMMA CacheNext == IInv /\ CacheInv /\ [Next]_vars => CacheInv'
<1> SUFFICES ASSUME IInv, CacheInv, [Next]_vars PROVE CacheInv'
  OBVIOUS
<1>1. CASE UNCHANGED <<cache, aged>>
  BY <1>1 DEF CacheInv
<1>2. CASE \E ch \in Chats : StoreEntry(ch)
  BY <1>2, StoreKeepsCache
<1>3. CASE \E ch \in Chats : Ages(ch)
  BY <1>3 DEF Ages, Hit, CacheInv
<1>4. ASSUME NEW c \in Calls, Ask(c) \/ CallPosted(c)
      PROVE  UNCHANGED <<cache, aged>> \/ \E ch \in Chats : StoreEntry(ch)
  BY <1>4 DEF Ask, CallPosted, cacheVars, IInv, CallTypes
<1>5. ASSUME NEW ch \in Chats, PrimeCache(ch) \/ FetchEnds(ch)
      PROVE  UNCHANGED <<cache, aged>> \/ StoreEntry(ch)
  BY <1>5 DEF PrimeCache, FetchEnds
<1>6. CASE UNCHANGED vars \/ Recover \/ (ObsStep /\ UNCHANGED <<cacheVars, queueVars, callVars>>)
  BY <1>1, <1>6 DEF vars, cacheVars, Recover
<1> QED
  BY <1>1, <1>2, <1>3, <1>4, <1>5, <1>6 DEF Next

-----------------------------------------------------------------------------
(* The bounds *)

\* A call that posts has at most a message for each file so far.
BoundsInv ==
    /\ \A c \in Calls : file[c] <= Files /\ sent[c] <= Files
    /\ Cardinality(queued) <= Capacity

LEMMA GateBounded ==
    ASSUME CallTypes, BoundsInv, NEW ch \in Chats, NEW W \in SUBSET Calls,
           Gate(ch, W) \/ Refuse(W), UNCHANGED sent
    PROVE  BoundsInv'
<1>1. CASE Refuse(W)
  BY <1>1 DEF Refuse, BoundsInv
<1>2. CASE Send(W)
  <2>1. CASE polling = "quarantine"
    <3>1. MeetQuarantine(W)
      BY <1>2, <2>1 DEF Send
    <3>2. PICK S \in SUBSET Of({"text"}, W) :
            /\ \/ Cardinality(queued \cup S) <= Capacity
               \/ Cardinality(queued \cup S) = Capacity
            /\ queued' = queued \cup S
            /\ UNCHANGED file
      BY <3>1, Zenon DEF MeetQuarantine
    <3> QED
      BY <3>2, OutboundAssumption DEF BoundsInv
  <2>2. CASE polling # "quarantine"
    <3>1. /\ queued' = queued
          /\ file' = [c \in Calls |-> IF c \in W THEN 1 ELSE file[c]]
      BY <1>2, <2>2 DEF Send
    <3> QED
      BY <3>1, OutboundAssumption DEF BoundsInv
  <2> QED
    BY <2>1, <2>2
<1> QED
  BY <1>1, <1>2 DEF Gate

LEMMA PostedBounded ==
    ASSUME IInv, BoundsInv, NEW c \in Calls, CallPosted(c)
    PROVE  BoundsInv'
<1> USE OutboundAssumption
<1>1. /\ pc[c] = "posting" /\ UNCHANGED queued
      /\ \E n \in {0, 1} : sent' = [sent EXCEPT ![c] = @ + n]
  BY DEF CallPosted, queueVars
<1>2. file' = file \/ (file' = [file EXCEPT ![c] = @ + 1] /\ file[c] < Files)
  BY DEF CallPosted, FileEnds, LastFile, Tell, NextFile
<1>3. /\ file[c] \in 1..Files /\ sent[c] \in Nat
      /\ sent[c] <= file[c] - 1
  BY <1>1 DEF IInv, ProgressInv, CallTypes
<1>4. /\ file \in [Calls -> Nat] /\ sent \in [Calls -> Nat] /\ Files \in Nat
  BY DEF IInv, CallTypes
<1>5. \A d \in Calls : file'[d] <= Files /\ sent'[d] <= Files
  BY <1>1, <1>2, <1>3, <1>4 DEF BoundsInv
<1> QED
  BY <1>1, <1>5 DEF BoundsInv

LEMMA BoundsNext == IInv /\ BoundsInv /\ [Next]_vars => BoundsInv'
<1> SUFFICES ASSUME IInv, BoundsInv, [Next]_vars PROVE BoundsInv'
  OBVIOUS
<1>1. CASE UNCHANGED <<file, sent, queued>>
  BY <1>1 DEF BoundsInv
<1>2. ASSUME NEW c \in Calls, Ask(c) PROVE BoundsInv'
  <2>1. \/ UNCHANGED <<file, sent, queued>>
        \/ Gate(chat[c], {c}) /\ UNCHANGED sent
    BY <1>2 DEF Ask
  <2>2. chat[c] \in Chats /\ CallTypes /\ {c} \in SUBSET Calls
    BY DEF IInv, CallTypes
  <2> QED
    BY <1>1, <2>1, <2>2, GateBounded
<1>3. ASSUME NEW ch \in Chats, FetchEnds(ch) PROVE BoundsInv'
  <2>1. (Gate(ch, Waiting(ch)) \/ Refuse(Waiting(ch))) /\ UNCHANGED sent
    BY <1>3 DEF FetchEnds, FetchFailed
  <2>2. Waiting(ch) \in SUBSET Calls /\ CallTypes
    BY DEF Waiting, IInv
  <2> QED
    BY <2>1, <2>2, GateBounded
<1>4. CASE Recover
  <2>1. queued' = {} /\ UNCHANGED <<file, sent>>
    BY <1>4 DEF Recover, callVars
  <2> QED
    BY <2>1, FS_EmptySet, OutboundAssumption DEF BoundsInv
<1>5. ASSUME NEW ch \in Chats, PrimeCache(ch) \/ Ages(ch)
      PROVE  UNCHANGED <<file, sent, queued>>
  BY <1>5 DEF PrimeCache, Ages, queueVars, callVars
<1>6. CASE UNCHANGED vars \/ (ObsStep /\ UNCHANGED <<cacheVars, queueVars, callVars>>)
  BY <1>6, <1>1 DEF vars, queueVars, callVars
<1> QED
  BY <1>1, <1>2, <1>3, <1>4, <1>5, <1>6, PostedBounded DEF Next

-----------------------------------------------------------------------------
(* The alerts, in the steps of the tools *)

LEMMA AlertNext == AlertInv /\ [Next]_vars => AlertInv'
<1> SUFFICES ASSUME AlertInv, [Next]_vars PROVE AlertInv'
  OBVIOUS
<1>1. CASE ObsStep
  BY <1>1, ObsKeeps
<1>2. CASE Recover
  BY <1>2, ObsKeeps DEF Recover
<1>3. ASSUME NEW ch \in Chats, PrimeCache(ch) \/ Ages(ch) \/ FetchEnds(ch)
      PROVE  UNCHANGED obsVars
  BY <1>3 DEF PrimeCache, Ages, FetchEnds
<1>4. ASSUME NEW c \in Calls, Ask(c) \/ CallPosted(c)
      PROVE  UNCHANGED obsVars
  BY <1>4 DEF Ask, CallPosted
<1>5. CASE UNCHANGED vars
  BY <1>5, ObsStutters DEF vars
<1> QED
  BY <1>1, <1>2, <1>3, <1>4, <1>5, ObsStutters DEF Next

AllInv == IInv /\ CacheInv /\ BoundsInv /\ AlertInv

LEMMA InitAllInv == Init => AllInv
<1> SUFFICES ASSUME Init PROVE AllInv
  OBVIOUS
<1>1. CacheInv
  BY OutboundAssumption DEF Init, CacheInv, IsInjective, ToSet
<1>2. BoundsInv
  BY OutboundAssumption, FS_EmptySet DEF Init, BoundsInv
<1>3. AlertInv
  BY ObsInitInv DEF Init
<1> QED
  BY <1>1, <1>2, <1>3, InitIInv DEF AllInv

LEMMA AllInductive == Spec => []AllInv
<1>1. AllInv /\ [Next]_vars => AllInv'
  BY NextIInv, CacheNext, BoundsNext, AlertNext DEF AllInv
<1> QED
  BY <1>1, InitAllInv, PTL DEF Spec

-----------------------------------------------------------------------------
(* Theorems *)

\* AC-24 for any number of calls and chats: one getChat per chat at a time, and
\* nobody waits for one that is not under way.
THEOREM OneGetChat == Spec => []FetchedOnce
<1>1. IInv => FetchedOnce
  BY DEF IInv
<1> QED
  BY <1>1, Inductive, PTL

\* Nothing goes to a chat that is not private, by whatever path.
THEOREM PrivateOnly == Spec => []OnlyPrivateChats
<1>1. IInv => OnlyPrivateChats
  BY DEF IInv, PrivateInv, OnlyPrivateChats, Held
<1> QED
  BY <1>1, Inductive, PTL

\* For any number of files and quarantines, a session is told what happened.
THEOREM ToldTrue == Spec => []ToldWhatHappened
<1>1. IInv => ToldWhatHappened
  BY DEF IInv, ToldInv, ToldWhatHappened, Held
<1> QED
  BY <1>1, Inductive, PTL

\* The cache never outgrows its bound and never holds a chat twice, the replay
\* queue never outgrows its capacity, and no reply has more messages than files.
THEOREM TypeCorrect == Spec => []TypeOK
<1>1. AllInv => TypeOK
  <2> SUFFICES ASSUME AllInv PROVE TypeOK
    OBVIOUS
  <2>1. cache \in BoundedSeq(Chats, MaxEntries) /\ IsInjective(cache) /\ aged \subseteq ToSet(cache)
    <3>1. cache \in [1..Len(cache) -> Chats] /\ Len(cache) \in 0..MaxEntries
      BY OutboundAssumption DEF AllInv, CacheInv
    <3> QED
      BY <3>1 DEF BoundedSeq, SeqOf, AllInv, CacheInv
  <2>2. CallTypes /\ ObsTypeOK /\ Files \in Nat
    BY OutboundAssumption DEF AllInv, IInv, AlertInv
  <2>3. file \in [Calls -> 0..Files] /\ sent \in [Calls -> 0..Files]
    BY <2>2 DEF AllInv, BoundsInv, CallTypes
  <2> QED
    BY <2>1, <2>2, <2>3 DEF TypeOK, CallTypes, Steps, AllInv, BoundsInv
<1> QED
  BY <1>1, AllInductive, PTL

\* However many probes fail and messages are denied, the alerts are bounded by
\* the quarantines, and those of one kind of denial by its senders and refills.
THEOREM NoStorm == Spec => []NoAlertStorm
<1>1. AllInv => NoAlertStorm
  BY StormBounded DEF AllInv
<1> QED
  BY <1>1, AllInductive, PTL

\* An alert is under way, delivered or in the log, once, except the one whose own
\* line could not be written.
THEOREM EveryAlertAccounted == Spec => []AlertsAccounted
<1>1. AllInv => AlertsAccounted
  BY DEF AllInv, AlertInv
<1> QED
  BY <1>1, AllInductive, PTL
=============================================================================
