------------------------- MODULE PollingLoopProofs -------------------------
(***************************************************************************)
(* Theorems about PollingLoop, for every value of its constants.           *)
(***************************************************************************)
EXTENDS PollingLoop, SequenceTheorems, TLAPS

\* TypeOK is inductive together with the entry that drain() always holds.
TypeInv ==
    /\ TypeOK
    /\ at = "drain" => replaying # <<>>

-----------------------------------------------------------------------------
(* Lemmas about the helpers of the model *)

\* The head of the loop leads to one of its awaits.
LEMMA LoopTopType ==
    ASSUME NEW st \in States
    PROVE  LoopTop(st) \in {"poll", "cooldown", "pausedSleep", "stopped"}
  BY DEF LoopTop, States

\* The oldest update Telegram may serve is a positive number, and not below
\* the offset or what Telegram has forgotten.
LEMMA OldestBounds ==
    ASSUME offset \in Nat, confirmed \in Nat
    PROVE  /\ Oldest \in Nat
           /\ Oldest >= 1 /\ Oldest >= offset /\ Oldest >= confirmed
           /\ Oldest = Larger(Larger(offset, confirmed), 1)
           /\ Larger(offset, confirmed) \in Nat
  BY DEF Oldest, Larger

\* A recorded fatal answer stays within the window's threshold.
LEMMA RecordedBounds ==
    ASSUME fatalWindow \in 0..Threshold
    PROVE  Recorded(fatalWindow) \subseteq 1..Threshold
  BY PollingAssumption DEF Recorded

\* Shifting the head of the queue keeps the shapes of the queue, the entry in
\* hand, the batch and the await.
LEMMA DrainNextType ==
    ASSUME TypeOK, NEW st \in States, NEW lo \in Nat, NEW hi \in Nat,
           DrainNext(st, lo, hi)
    PROVE  /\ at' \in Awaits
           /\ entries' \in Seq(Replies) /\ Len(entries') <= Capacity
           /\ replaying' \in {<<>>} \cup {<<r>> : r \in Replies}
           /\ next' \in Nat /\ last' \in Nat
           /\ at' = "drain" => replaying' # <<>>
  <1>1. CASE entries = <<>> \/ stopRequested
    <2>1. at' = IF lo > hi THEN LoopTop(st) ELSE "persist"
      BY <1>1 DEF DrainNext, ProcessUpdates
    <2>2. at' \in Awaits /\ at' # "drain"
      BY <2>1, LoopTopType DEF Awaits
    <2>3. next' = lo /\ last' = hi /\ replaying' = <<>> /\ entries' = entries
      BY <1>1 DEF DrainNext, ProcessUpdates
    <2> QED
      BY <2>2, <2>3 DEF TypeOK
  <1>2. CASE ~(entries = <<>> \/ stopRequested)
    <2>1. /\ at' = "drain" /\ replaying' = <<Head(entries)>>
          /\ entries' = Tail(entries) /\ next' = lo /\ last' = hi
      BY <1>2 DEF DrainNext
    <2>2. entries \in Seq(Replies) /\ entries # <<>> /\ Len(entries) <= Capacity
      BY <1>2 DEF TypeOK
    <2>3. /\ Head(entries) \in Replies /\ Tail(entries) \in Seq(Replies)
          /\ Len(Tail(entries)) = Len(entries) - 1
      BY <2>2, HeadTailProperties
    <2>4. Len(entries) \in Nat
      BY <2>2, LenProperties
    <2> QED
      BY <2>1, <2>2, <2>3, <2>4, PollingAssumption DEF Awaits
  <1> QED
    BY <1>1, <1>2

-----------------------------------------------------------------------------
(* Type correctness *)

LEMMA InitType == Init => TypeInv
<1> SUFFICES ASSUME Init PROVE TypeInv
  OBVIOUS
<1>1. <<>> \in Seq(Replies) /\ <<>> \in Seq(Nat) /\ Len(<<>>) = 0
  BY EmptySeq
<1>2. 0 <= Capacity /\ 0 \in 0..Threshold
  BY PollingAssumption
<1> QED
  BY <1>1, <1>2 DEF Init, TypeInv, TypeOK, Awaits, States, Told

\* A poll's answer leaves numbers in the batch and in what Telegram forgot.
LEMMA PollOkType == ASSUME TypeInv, PollOk PROVE TypeInv'
<1>1. PICK hi \in (Oldest - 1)..arrived :
         ServeUpdates(hi) /\ ProcessUpdates(state, Oldest, hi)
  BY DEF PollOk
<1>2. Oldest \in Nat /\ Oldest >= 1 /\ Larger(offset, confirmed) \in Nat
  BY OldestBounds DEF TypeInv, TypeOK
<1>3. hi \in Nat
  BY <1>2 DEF TypeInv, TypeOK
<1>4. at' \in Awaits /\ at' # "drain"
  <2>1. LoopTop(state) \in {"poll", "cooldown", "pausedSleep", "stopped"}
    BY LoopTopType DEF TypeInv, TypeOK
  <2> QED
    BY <1>1, <2>1 DEF ProcessUpdates, Awaits
<1>5. next' = Oldest /\ last' = hi /\ confirmed' = Larger(offset, confirmed)
  BY <1>1 DEF ProcessUpdates, ServeUpdates
<1>6. 0 \in 0..Threshold
  BY PollingAssumption
<1> QED
  BY <1>2, <1>3, <1>4, <1>5, <1>6 DEF PollOk, TypeInv, TypeOK, replyVars, historyVars

LEMMA ProbeOkType == ASSUME TypeInv, ProbeOk PROVE TypeInv'
<1>1. PICK hi \in (Oldest - 1)..arrived :
         ServeUpdates(hi) /\ DrainNext("running", Oldest, hi)
  BY DEF ProbeOk
<1>2. Oldest \in Nat /\ Oldest >= 1 /\ Larger(offset, confirmed) \in Nat
  BY OldestBounds DEF TypeInv, TypeOK
<1>3. hi \in Nat
  BY <1>2 DEF TypeInv, TypeOK
<1>4. "running" \in States
  BY DEF States
<1>5. /\ at' \in Awaits
      /\ entries' \in Seq(Replies) /\ Len(entries') <= Capacity
      /\ replaying' \in {<<>>} \cup {<<r>> : r \in Replies}
      /\ next' \in Nat /\ last' \in Nat
      /\ at' = "drain" => replaying' # <<>>
  BY <1>1, <1>2, <1>3, <1>4, DrainNextType DEF TypeInv
<1>6. confirmed' \in Nat
  BY <1>1, <1>2 DEF ServeUpdates
<1>7. 0 \in 0..Threshold
  BY PollingAssumption
<1> QED
  BY <1>4, <1>5, <1>6, <1>7 DEF ProbeOk, TypeInv, TypeOK, historyVars

LEMMA ReplayedType ==
  ASSUME TypeInv, NEW shown \in 0..1, NEW answered \in BOOLEAN,
         Replayed(shown, answered)
  PROVE  TypeInv'
<1>1. /\ at' \in Awaits
      /\ entries' \in Seq(Replies) /\ Len(entries') <= Capacity
      /\ replaying' \in {<<>>} \cup {<<r>> : r \in Replies}
      /\ next' \in Nat /\ last' \in Nat
      /\ at' = "drain" => replaying' # <<>>
  <2>1. state \in States /\ next \in Nat /\ last \in Nat /\ DrainNext(state, next, last)
    BY DEF Replayed, TypeInv, TypeOK
  <2> QED
    BY <2>1, DrainNextType DEF TypeInv
<1>2. PICK r \in Replies : replaying = <<r>>
  BY DEF Replayed, TypeInv, TypeOK
<1>3. Head(replaying) = r
  BY <1>2
<1>4. resolved' \in Seq(Replies)
  <2>1. replaying \in Seq(Replies)
    BY <1>2
  <2>2. resolved' = resolved \o replaying /\ resolved \in Seq(Replies)
    BY DEF Replayed, TypeInv, TypeOK
  <2> QED
    BY <2>1, <2>2, ConcatProperties
<1>5. copies' \in [Replies -> Nat]
  <2>1. copies' = [copies EXCEPT ![r] = copies[r] + shown] /\ copies \in [Replies -> Nat]
    BY <1>3 DEF Replayed, TypeInv, TypeOK
  <2> QED
    BY <2>1
<1>6. reply' \in [Replies -> Told]
  <2>1. /\ reply' = [reply EXCEPT ![r] = IF answered THEN "delivered" ELSE "disconnected"]
        /\ reply \in [Replies -> Told]
    BY <1>3 DEF Replayed, TypeInv, TypeOK
  <2> QED
    BY <2>1 DEF Told
<1> QED
  BY <1>1, <1>4, <1>5, <1>6 DEF Replayed, TypeInv, TypeOK

LEMMA SendMessageType ==
  ASSUME TypeInv, NEW r \in Replies, NEW hasRequester \in BOOLEAN,
         SendMessage(r, hasRequester)
  PROVE  TypeInv'
<1>1. /\ reply' \in [Replies -> Told]
      /\ entries' \in Seq(Replies) /\ Len(entries') <= Capacity
      /\ accepted' \in Seq(Replies)
  <2>1. CASE state = "quarantine" /\ hasRequester /\ Len(entries) < Capacity
    <3>1. /\ reply' = [reply EXCEPT ![r] = "queued"]
          /\ entries' = Append(entries, r) /\ accepted' = Append(accepted, r)
      <4>1. ~(Len(entries) >= Capacity)
        BY <2>1, LenProperties, PollingAssumption DEF TypeInv, TypeOK
      <4> QED
        BY <2>1, <4>1 DEF SendMessage, Enqueue
    <3>2. entries' \in Seq(Replies) /\ Len(entries') = Len(entries) + 1
      BY <3>1, AppendProperties DEF TypeInv, TypeOK
    <3>3. Len(entries) \in Nat
      BY LenProperties DEF TypeInv, TypeOK
    <3>4. Len(entries') <= Capacity
      BY <2>1, <3>2, <3>3, PollingAssumption
    <3>5. accepted' \in Seq(Replies)
      BY <3>1, AppendProperties DEF TypeInv, TypeOK
    <3>6. reply' \in [Replies -> Told]
      BY <3>1 DEF TypeInv, TypeOK, Told
    <3> QED
      BY <3>2, <3>4, <3>5, <3>6
  <2>2. CASE ~(state = "quarantine" /\ hasRequester /\ Len(entries) < Capacity)
    <3>1. entries' = entries /\ accepted' = accepted
      <4>1. Len(entries) < Capacity \/ Len(entries) >= Capacity
        BY LenProperties, PollingAssumption DEF TypeInv, TypeOK
      <4> QED
        BY <2>2, <4>1 DEF SendMessage, Enqueue
    <3>2. \E told \in Told : reply' = [reply EXCEPT ![r] = told]
      <4>1. Len(entries) < Capacity \/ Len(entries) >= Capacity
        BY LenProperties, PollingAssumption DEF TypeInv, TypeOK
      <4> QED
        BY <2>2, <4>1 DEF SendMessage, Enqueue, Told
    <3> QED
      BY <3>1, <3>2 DEF TypeInv, TypeOK
  <2> QED
    BY <2>1, <2>2
<1> QED
  BY <1>1 DEF SendMessage, TypeInv, TypeOK, loopVars, updateVars, worldVars

LEMMA DieType ==
  ASSUME TypeInv, NEW shown \in SUBSET CutOff, Die(shown)
  PROVE  TypeInv'
<1>1. <<>> \in Seq(Replies) /\ Len(<<>>) = 0 /\ 0 <= Capacity
  BY EmptySeq, PollingAssumption
<1>2. copies' \in [Replies -> Nat]
  BY DEF Die, TypeInv, TypeOK
<1>3. reply' \in [Replies -> Told]
  BY DEF Die, TypeInv, TypeOK, Told
<1>4. lost' \subseteq Nat
  BY DEF Die, LostByDeath, InHand, TypeInv, TypeOK
<1> QED
  BY <1>1, <1>2, <1>3, <1>4 DEF Die, TypeInv, TypeOK, Awaits

\* Every step preserves TypeInv, action by action.
LEMMA NextType == TypeInv /\ [Next]_vars => TypeInv'
<1> SUFFICES ASSUME TypeInv, [Next]_vars PROVE TypeInv'
  OBVIOUS
<1> USE DEF TypeInv
<1>1. CASE PollOk
  BY <1>1, PollOkType
<1>2. CASE PollRetryLater
  BY <1>2 DEF PollRetryLater, TypeOK, Awaits, updateVars, replyVars, worldVars, historyVars
<1>3. CASE PollFatal
  <2>1. /\ fatalWindow' \in 0..Threshold
        /\ state' \in States
        /\ at' \in Awaits /\ at' # "drain"
    <3>1. PICK count \in Recorded(fatalWindow) :
            IF count >= Threshold
            THEN state' = "quarantine" /\ fatalWindow' = 0 /\ at' = LoopTop("quarantine")
            ELSE fatalWindow' = count /\ at' = "backoff" /\ UNCHANGED state
      BY <1>3 DEF PollFatal
    <3>2. count \in 1..Threshold
      BY RecordedBounds DEF TypeOK
    <3>3. LoopTop("quarantine") \in {"poll", "cooldown", "pausedSleep", "stopped"}
      BY LoopTopType DEF States
    <3> QED
      BY <3>1, <3>2, <3>3, PollingAssumption DEF TypeOK, States, Awaits
  <2> QED
    BY <1>3, <2>1 DEF PollFatal, TypeOK, updateVars, replyVars, worldVars, historyVars
<1>4. CASE Wake
  <2>1. LoopTop(state) \in {"poll", "cooldown", "pausedSleep", "stopped"}
    BY LoopTopType DEF TypeOK
  <2> QED
    BY <1>4, <2>1 DEF Wake, TypeOK, Awaits, updateVars, replyVars, worldVars, historyVars
<1>5. CASE CooldownOver
  BY <1>5 DEF CooldownOver, TypeOK, Awaits, updateVars, replyVars, worldVars, historyVars
<1>6. CASE ProbeOk
  BY <1>6, ProbeOkType
<1>7. CASE ProbeFails
  <2>1. LoopTop(state) \in {"poll", "cooldown", "pausedSleep", "stopped"}
    BY LoopTopType DEF TypeOK
  <2>2. fatalWindow' \in 0..Threshold
    BY <1>7, RecordedBounds, PollingAssumption DEF ProbeFails, TypeOK
  <2> QED
    BY <1>7, <2>1, <2>2 DEF ProbeFails, TypeOK, Awaits, updateVars, replyVars, worldVars, historyVars
<1>8. CASE \E shown \in 0..1, answered \in BOOLEAN : Replayed(shown, answered)
  BY <1>8, ReplayedType
<1>9. CASE Persist
  BY <1>9 DEF Persist, TypeOK, Awaits, replyVars, worldVars, historyVars
<1>10. CASE Publish
  <2>1. LoopTop(state) \in {"poll", "cooldown", "pausedSleep", "stopped"}
    BY LoopTopType DEF TypeOK
  <2>2. published' \in Seq(Nat)
    BY <1>10, AppendProperties DEF Publish, TypeOK
  <2> QED
    BY <1>10, <2>1, <2>2 DEF Publish, TypeOK, Awaits, replyVars, worldVars
<1>11. CASE RegistrationTimeout
  BY <1>11 DEF RegistrationTimeout, TypeOK, States, updateVars, replyVars, worldVars, historyVars
<1>12. CASE DaemonStop
  BY <1>12 DEF DaemonStop, TypeOK, replyVars, worldVars, historyVars
<1>13. CASE \E r \in Replies, hasRequester \in BOOLEAN : SendMessage(r, hasRequester)
  BY <1>13, SendMessageType
<1>14. CASE \E r \in Replies, shown \in 0..1, answered \in BOOLEAN :
               PostEnds(r, shown, answered)
  BY <1>14 DEF PostEnds, TypeOK, Told, loopVars, updateVars, historyVars
<1>15. CASE \E shown \in SUBSET CutOff : Die(shown)
  BY <1>15, DieType
<1>16. CASE Restart
  <2>1. offset' \in Nat
    BY <1>16 DEF Restart, Loaded, TypeOK
  <2>2. /\ at' = "poll" /\ state' = "running" /\ stopRequested' = FALSE
        /\ fatalWindow' = 0
        /\ UNCHANGED <<offsetFile, next, last, replyVars, worldVars, historyVars>>
    BY <1>16 DEF Restart
  <2>3. fatalWindow' \in 0..Threshold
    BY <2>2, PollingAssumption
  <2> QED
    BY <2>1, <2>2, <2>3 DEF TypeOK, Awaits, States, replyVars, worldVars, historyVars
<1>17. CASE Arrive
  BY <1>17 DEF Arrive, TypeOK, loopVars, updateVars, replyVars, historyVars
<1>18. CASE UNCHANGED vars
  BY <1>18 DEF vars, TypeOK, loopVars, updateVars, replyVars, worldVars, historyVars
<1> QED
  BY <1>1, <1>2, <1>3, <1>4, <1>5, <1>6, <1>7, <1>8, <1>9, <1>10, <1>11, <1>12,
     <1>13, <1>14, <1>15, <1>16, <1>17, <1>18 DEF Next, LoopStep

LEMMA TypeInvariant == Spec => []TypeInv
  BY InitType, NextType, PTL DEF Spec

\* The loop, its await, the batch, the queue and the ledgers keep the shapes
\* the code gives them, for any capacity, threshold and number of crashes.
THEOREM TypeCorrect == Spec => []TypeOK
<1>1. TypeInv => TypeOK
  BY DEF TypeInv
<1> QED
  BY <1>1, TypeInvariant, PTL

-----------------------------------------------------------------------------
(* No update is skipped *)

\* NoUpdateSkipped is inductive with the order in which the offset reaches
\* memory and disk, and with where a batch that is not persisted yet starts.
SkipInv ==
    /\ NoUpdateSkipped
    /\ offset <= offsetFile
    /\ at \in {"drain", "persist"} => next <= Larger(confirmed, 1)

\* A step that touches neither offsets nor updates, and neither starts a batch
\* nor leaves the middle of one.
LEMMA SkipStutter ==
  ASSUME SkipInv,
         UNCHANGED <<offset, offsetFile, next, last, confirmed, published, lost>>,
         \/ at' = at
         \/ at = "drain" /\ at' = "persist"
         \/ at # "publish" /\ at' \notin {"drain", "persist", "publish"}
  PROVE  SkipInv'
<1>1. Accounted' = Accounted
  BY DEF Accounted, InHand
<1> QED
  BY <1>1 DEF SkipInv, NoUpdateSkipped, Larger

\* An answer to getUpdates confirms the updates below the offset, all of which
\* are accounted for, and the batch starts where Telegram's memory starts.
LEMMA SkipFetch ==
  ASSUME TypeInv, SkipInv, at # "publish", at' # "publish",
         confirmed' = Larger(offset, confirmed), next' = Oldest,
         UNCHANGED <<offset, offsetFile, published, lost>>
  PROVE  SkipInv'
<1>1. offset \in Nat /\ offsetFile \in Nat /\ confirmed \in Nat
  BY DEF TypeInv, TypeOK
<1>2. next' <= Larger(confirmed', 1)
  BY <1>1 DEF Oldest, Larger
<1>3. Larger(offsetFile', confirmed') = Larger(offsetFile, confirmed)
  BY <1>1 DEF SkipInv, Larger
<1>4. Accounted' = Accounted
  BY DEF Accounted
<1> QED
  BY <1>2, <1>3, <1>4 DEF SkipInv, NoUpdateSkipped

\* persist() passes next..last, which it has in hand from here on.
LEMMA SkipPersist == ASSUME TypeInv, SkipInv, Persist PROVE SkipInv'
<1>1. /\ at = "persist" /\ at' = "publish"
      /\ offset' = last + 1 /\ offsetFile' = last + 1
      /\ UNCHANGED <<next, last, confirmed, published, lost>>
  BY DEF Persist, worldVars, historyVars
<1>2. /\ offsetFile \in Nat /\ confirmed \in Nat /\ next \in Nat /\ last \in Nat
      /\ next <= Larger(confirmed, 1)
  BY <1>1 DEF TypeInv, TypeOK, SkipInv
<1>3. Accounted' = Accounted \cup InHand
  BY <1>1 DEF Accounted, InHand
<1>4. ASSUME NEW u \in 1 .. Larger(offsetFile', confirmed') - 1
      PROVE  u \in Accounted'
  <2>1. CASE u < next
    <3>1. u \in 1 .. Larger(offsetFile, confirmed) - 1
      BY <1>1, <1>2, <2>1 DEF Larger
    <3> QED
      BY <3>1, <1>3 DEF SkipInv, NoUpdateSkipped
  <2>2. CASE u >= next /\ u <= last
    BY <1>2, <1>3, <2>2 DEF InHand
  <2>3. CASE u > last
    <3>1. u \in 1 .. Larger(offsetFile, confirmed) - 1
      BY <1>1, <1>2, <2>3 DEF Larger
    <3> QED
      BY <3>1, <1>3 DEF SkipInv, NoUpdateSkipped
  <2> QED
    BY <1>2, <2>1, <2>2, <2>3
<1> QED
  BY <1>1, <1>2, <1>4 DEF SkipInv, NoUpdateSkipped

\* Publishing moves one update from the hand to the feed.
LEMMA SkipPublish == ASSUME TypeInv, SkipInv, Publish PROVE SkipInv'
<1>1. /\ at = "publish" /\ published' = Append(published, next) /\ next' = next + 1
      /\ at' = IF next = last THEN LoopTop(state) ELSE "publish"
      /\ UNCHANGED <<offset, offsetFile, last, confirmed, lost>>
  BY DEF Publish, worldVars
<1>2. published \in Seq(Nat) /\ next \in Nat /\ last \in Nat
  BY DEF TypeInv, TypeOK
<1>3. /\ \A i \in DOMAIN published : i \in DOMAIN published' /\ published'[i] = published[i]
      /\ Len(published) + 1 \in DOMAIN published'
      /\ published'[Len(published) + 1] = next
  BY <1>1, <1>2, AppendProperties
<1>4. InHand \subseteq InHand' \cup {next}
  BY <1>1, <1>2 DEF InHand
<1>5. CASE next = last
  <2>1. InHand = {next}
    BY <1>2, <1>5 DEF InHand
  <2>2. Accounted \subseteq Accounted'
    BY <1>1, <1>3, <2>1 DEF Accounted
  <2>3. at' \notin {"drain", "persist"}
    BY <1>1, <1>5, LoopTopType DEF TypeInv, TypeOK
  <2> QED
    BY <1>1, <2>2, <2>3 DEF SkipInv, NoUpdateSkipped
<1>6. CASE next # last
  <2>1. Accounted \subseteq Accounted'
    BY <1>1, <1>3, <1>4, <1>6 DEF Accounted
  <2> QED
    BY <1>1, <1>6, <2>1 DEF SkipInv, NoUpdateSkipped
<1> QED
  BY <1>5, <1>6

\* A death turns what is in hand into lost updates.
LEMMA SkipDie ==
  ASSUME TypeInv, SkipInv, NEW shown \in SUBSET CutOff, Die(shown)
  PROVE  SkipInv'
<1>1. /\ at' = "dead" /\ lost' = lost \cup LostByDeath
      /\ UNCHANGED <<offset, offsetFile, confirmed, published>>
  BY DEF Die
<1>2. Accounted \subseteq Accounted'
  BY <1>1 DEF Accounted, LostByDeath
<1> QED
  BY <1>1, <1>2 DEF SkipInv, NoUpdateSkipped

LEMMA SkipNext == TypeInv /\ SkipInv /\ [Next]_vars => SkipInv'
<1> SUFFICES ASSUME TypeInv, SkipInv, [Next]_vars PROVE SkipInv'
  OBVIOUS
<1>0. /\ LoopTop(state) \in {"poll", "cooldown", "pausedSleep", "stopped"}
      /\ LoopTop("quarantine") \in {"poll", "cooldown", "pausedSleep", "stopped"}
      /\ LoopTop("running") \in {"poll", "cooldown", "pausedSleep", "stopped"}
  BY LoopTopType DEF TypeInv, TypeOK, States
<1>1. CASE PollOk
  <2>1. /\ at = "poll" /\ confirmed' = Larger(offset, confirmed) /\ next' = Oldest
        /\ UNCHANGED <<offset, offsetFile, published, lost>>
    BY <1>1 DEF PollOk, ServeUpdates, ProcessUpdates, historyVars
  <2>2. at' # "publish"
    BY <1>0, <1>1 DEF PollOk, ProcessUpdates
  <2> QED
    BY <2>1, <2>2, SkipFetch
<1>2. CASE PollRetryLater
  BY <1>2, SkipStutter DEF PollRetryLater, updateVars, worldVars, historyVars
<1>3. CASE PollFatal
  <2>1. at = "poll" /\ at' \in {"poll", "cooldown", "pausedSleep", "stopped", "backoff"}
    BY <1>0, <1>3 DEF PollFatal
  <2> QED
    BY <1>3, <2>1, SkipStutter DEF PollFatal, updateVars, worldVars, historyVars
<1>4. CASE Wake
  BY <1>0, <1>4, SkipStutter DEF Wake, updateVars, worldVars, historyVars
<1>5. CASE CooldownOver
  BY <1>5, SkipStutter DEF CooldownOver, updateVars, worldVars, historyVars
<1>6. CASE ProbeOk
  <2>1. /\ at = "probe" /\ confirmed' = Larger(offset, confirmed) /\ next' = Oldest
        /\ UNCHANGED <<offset, offsetFile, published, lost>>
    BY <1>6 DEF ProbeOk, ServeUpdates, DrainNext, ProcessUpdates, historyVars
  <2>2. at' # "publish"
    BY <1>0, <1>6 DEF ProbeOk, DrainNext, ProcessUpdates
  <2> QED
    BY <2>1, <2>2, SkipFetch
<1>7. CASE ProbeFails
  BY <1>0, <1>7, SkipStutter DEF ProbeFails, updateVars, worldVars, historyVars
<1>8. CASE \E shown \in 0..1, answered \in BOOLEAN : Replayed(shown, answered)
  <2>1. /\ at = "drain" /\ DrainNext(state, next, last)
        /\ UNCHANGED <<offset, offsetFile, confirmed, published, lost>>
    BY <1>8 DEF Replayed
  <2>2. /\ next' = next /\ last' = last
        /\ at' \in {"drain", "persist", "poll", "cooldown", "pausedSleep", "stopped"}
    BY <1>0, <2>1 DEF DrainNext, ProcessUpdates
  <2> QED
    BY <2>1, <2>2, SkipStutter
<1>9. CASE Persist
  BY <1>9, SkipPersist
<1>10. CASE Publish
  BY <1>10, SkipPublish
<1>11. CASE RegistrationTimeout
  BY <1>11, SkipStutter DEF RegistrationTimeout, updateVars, worldVars, historyVars
<1>12. CASE DaemonStop
  <2>1. /\ offsetFile' = offset /\ offset' = offset
        /\ UNCHANGED <<at, next, last, confirmed, published, lost>>
    BY <1>12 DEF DaemonStop, worldVars, historyVars
  <2>2. Accounted' = Accounted
    BY <2>1 DEF Accounted, InHand
  <2>3. Larger(offsetFile', confirmed') <= Larger(offsetFile, confirmed)
    BY <2>1 DEF SkipInv, Larger, TypeInv, TypeOK
  <2>4. /\ Larger(offsetFile', confirmed') \in Nat
        /\ Larger(offsetFile, confirmed) \in Nat
    BY <2>1 DEF Larger, TypeInv, TypeOK
  <2>5. NoUpdateSkipped'
    BY <2>2, <2>3, <2>4 DEF SkipInv, NoUpdateSkipped
  <2> QED
    BY <2>1, <2>5 DEF SkipInv, Larger, TypeInv, TypeOK
<1>13. CASE \E r \in Replies, hasRequester \in BOOLEAN : SendMessage(r, hasRequester)
  BY <1>13, SkipStutter DEF SendMessage, loopVars, updateVars, worldVars
<1>14. CASE \E r \in Replies, shown \in 0..1, answered \in BOOLEAN :
               PostEnds(r, shown, answered)
  BY <1>14, SkipStutter DEF PostEnds, loopVars, updateVars, historyVars
<1>15. CASE \E shown \in SUBSET CutOff : Die(shown)
  BY <1>15, SkipDie
<1>16. CASE Restart
  <2>1. /\ at = "dead" /\ at' = "poll" /\ offset' \in {offsetFile, 0}
        /\ UNCHANGED <<offsetFile, next, last, confirmed, published, lost>>
    BY <1>16 DEF Restart, Loaded, worldVars, historyVars
  <2>2. Accounted' = Accounted
    BY <2>1 DEF Accounted
  <2> QED
    BY <2>1, <2>2 DEF SkipInv, NoUpdateSkipped, TypeInv, TypeOK
<1>17. CASE Arrive
  BY <1>17, SkipStutter DEF Arrive, loopVars, updateVars, historyVars
<1>18. CASE UNCHANGED vars
  BY <1>18, SkipStutter DEF vars, loopVars, updateVars, worldVars, historyVars
<1> QED
  BY <1>1, <1>2, <1>3, <1>4, <1>5, <1>6, <1>7, <1>8, <1>9, <1>10, <1>11, <1>12,
     <1>13, <1>14, <1>15, <1>16, <1>17, <1>18 DEF Next, LoopStep

\* No update is passed over: whatever the next incarnation will not ask for,
\* and whatever Telegram has dropped, was published, is being published, or
\* was in hand at a death. This holds even if offset.json is refused.
THEOREM NothingSkipped == Spec => []NoUpdateSkipped
<1>1. Init => SkipInv
  BY DEF Init, SkipInv, NoUpdateSkipped, Larger
<1>2. SkipInv => NoUpdateSkipped
  BY DEF SkipInv
<1> QED
  BY <1>1, <1>2, SkipNext, TypeInvariant, PTL DEF Spec

-----------------------------------------------------------------------------
(* The feed: once, in order, and never behind a lost update.  All of this     *)
(* section assumes that load() takes the file.                                *)

\* The updates below the frontier are behind the feed.
Frontier == IF at = "publish" THEN next ELSE offset

\* What keeps published and lost updates behind the frontier: memory and disk
\* agree on the offset, Telegram is not ahead of it, and a batch starts at it.
FeedInv ==
    /\ PublishedOnceInOrder
    /\ confirmed <= offset /\ offset = offsetFile
    /\ arrived <= MaxUpdate
    /\ \A i \in DOMAIN published : published[i] < Frontier
    /\ \A u \in lost : u < Frontier
    /\ at \in {"drain", "persist", "publish"} => 1 <= next /\ last <= arrived
    /\ at \in {"drain", "persist"} => offset <= next
    /\ at = "persist" => next <= last
    /\ at = "publish" => next <= last /\ last + 1 = offset

\* A step outside of a batch, or a drain that goes on or ends.
LEMMA FeedStutter ==
  ASSUME TypeInv, FeedInv, arrived' \in {arrived, arrived + 1}, arrived' <= MaxUpdate,
         UNCHANGED <<offset, offsetFile, next, last, confirmed, published, lost>>,
         \/ at' = at
         \/ at = "drain" /\ at' = "persist" /\ next <= last
         \/ at # "publish" /\ at' \notin {"drain", "persist", "publish"}
  PROVE  FeedInv'
<1>1. Frontier' = Frontier
  BY DEF Frontier
<1>2. arrived \in Nat /\ last \in Nat
  BY DEF TypeInv, TypeOK
<1> QED
  BY <1>1, <1>2 DEF FeedInv, PublishedOnceInOrder

\* An answer to getUpdates starts a batch at the frontier.
LEMMA FeedFetch ==
  ASSUME TypeInv, FeedInv, at # "publish", at' # "publish",
         NEW hi \in (Oldest - 1)..arrived,
         confirmed' = Larger(offset, confirmed), next' = Oldest, last' = hi,
         at' = "persist" => next' <= last',
         UNCHANGED <<offset, offsetFile, arrived, published, lost>>
  PROVE  FeedInv'
<1>1. offset \in Nat /\ confirmed \in Nat /\ arrived \in Nat
  BY DEF TypeInv, TypeOK
<1>2. Oldest \in Nat /\ Oldest >= 1 /\ Oldest >= offset
  BY <1>1, OldestBounds
<1>3. confirmed' <= offset
  BY <1>1 DEF FeedInv, Larger
<1>4. Frontier' = Frontier
  BY DEF Frontier
<1>5. last' <= arrived /\ 1 <= next' /\ offset <= next'
  BY <1>1, <1>2
<1> QED
  BY <1>3, <1>4, <1>5 DEF FeedInv, PublishedOnceInOrder

\* The frontier moves to the batch, and past each update as it is published.
LEMMA FeedPersist == ASSUME TypeInv, FeedInv, Persist PROVE FeedInv'
<1>1. /\ at = "persist" /\ at' = "publish" /\ offset' = last + 1 /\ offsetFile' = last + 1
      /\ UNCHANGED <<next, last, confirmed, arrived, published, lost>>
  BY DEF Persist, worldVars, historyVars
<1>2. /\ offset <= next /\ next <= last /\ 1 <= next /\ last <= arrived
      /\ confirmed <= offset
  BY <1>1 DEF FeedInv
<1>3. /\ offset \in Nat /\ next \in Nat /\ last \in Nat /\ confirmed \in Nat
      /\ published \in Seq(Nat) /\ lost \subseteq Nat
  BY DEF TypeInv, TypeOK
<1>4. \A i \in DOMAIN published : published[i] \in Nat
  BY <1>3, ElementOfSeq
<1>5. Frontier = offset /\ Frontier' = next
  BY <1>1 DEF Frontier
<1>6. /\ \A i \in DOMAIN published' : published'[i] < Frontier'
      /\ \A u \in lost' : u < Frontier'
  BY <1>1, <1>2, <1>3, <1>4, <1>5 DEF FeedInv
<1>7. confirmed' <= offset'
  BY <1>1, <1>2, <1>3
<1> QED
  BY <1>1, <1>2, <1>6, <1>7 DEF FeedInv, PublishedOnceInOrder

LEMMA FeedPublish == ASSUME TypeInv, FeedInv, Publish PROVE FeedInv'
<1>1. /\ at = "publish" /\ published' = Append(published, next) /\ next' = next + 1
      /\ at' = IF next = last THEN LoopTop(state) ELSE "publish"
      /\ UNCHANGED <<offset, offsetFile, last, confirmed, arrived, lost>>
  BY DEF Publish, worldVars
<1>2. /\ published \in Seq(Nat) /\ next \in Nat /\ last \in Nat /\ offset \in Nat
      /\ lost \subseteq Nat
  BY DEF TypeInv, TypeOK
<1>3. 1 <= next /\ next <= last /\ last <= arrived /\ last + 1 = offset
  BY <1>1 DEF FeedInv
<1>4. Len(published) \in Nat /\ DOMAIN published = 1..Len(published)
  BY <1>2, LenProperties
<1>5. /\ DOMAIN published' = 1..(Len(published) + 1)
      /\ \A i \in DOMAIN published : published'[i] = published[i]
      /\ published'[Len(published) + 1] = next
  BY <1>1, <1>2, <1>4, AppendProperties, LenProperties
<1>6. \A i \in DOMAIN published : published[i] \in Nat /\ published[i] < next
  BY <1>1, <1>2, ElementOfSeq DEF FeedInv, Frontier
<1>7. PublishedOnceInOrder'
  <2> SUFFICES ASSUME NEW i \in 1..(Len(published) + 1), NEW j \in 1..(Len(published) + 1),
                      i < j
               PROVE  published'[i] < published'[j]
    BY <1>5 DEF PublishedOnceInOrder
  <2>1. i \in DOMAIN published
    BY <1>4
  <2>2. CASE j \in DOMAIN published
    BY <1>5, <2>1, <2>2 DEF FeedInv, PublishedOnceInOrder
  <2>3. CASE j = Len(published) + 1
    BY <1>5, <1>6, <2>1, <2>3
  <2> QED
    BY <1>4, <2>2, <2>3
<1>8. Frontier' = next + 1
  <2>1. LoopTop(state) # "publish"
    BY LoopTopType DEF TypeInv, TypeOK
  <2> QED
    BY <1>1, <1>2, <1>3, <2>1 DEF Frontier
<1>9. /\ \A i \in DOMAIN published' : published'[i] < Frontier'
      /\ \A u \in lost' : u < Frontier'
  <2>1. \A u \in lost : u \in Nat /\ u < next
    BY <1>1, <1>2 DEF FeedInv, Frontier
  <2>2. \A u \in lost' : u < next + 1
    BY <1>1, <1>2, <2>1
  <2>3. ASSUME NEW i \in 1..(Len(published) + 1) PROVE published'[i] < next + 1
    <3>1. CASE i \in DOMAIN published
      BY <1>2, <1>5, <1>6, <3>1
    <3>2. CASE i = Len(published) + 1
      BY <1>2, <1>5, <3>2
    <3> QED
      BY <1>4, <3>1, <3>2
  <2> QED
    BY <1>5, <1>8, <2>2, <2>3
<1>10. at' \notin {"drain", "persist"}
  BY <1>1, LoopTopType DEF TypeInv, TypeOK
<1>11. at' = "publish" => next' <= last' /\ last' + 1 = offset' /\ 1 <= next'
  <2>1. LoopTop(state) # "publish"
    BY LoopTopType DEF TypeInv, TypeOK
  <2> QED
    BY <1>1, <1>2, <1>3, <2>1
<1> QED
  BY <1>1, <1>3, <1>7, <1>9, <1>10, <1>11 DEF FeedInv

LEMMA FeedDie ==
  ASSUME TypeInv, FeedInv, NEW shown \in SUBSET CutOff, Die(shown)
  PROVE  FeedInv'
<1>1. /\ at' = "dead" /\ lost' = lost \cup LostByDeath
      /\ UNCHANGED <<offset, offsetFile, arrived, confirmed, published>>
  BY DEF Die
<1>2. /\ offset \in Nat /\ next \in Nat /\ last \in Nat /\ lost \subseteq Nat
      /\ published \in Seq(Nat)
  BY DEF TypeInv, TypeOK
<1>3. Frontier' = offset
  BY <1>1 DEF Frontier
<1>4. \A i \in DOMAIN published : published[i] \in Nat
  BY <1>2, ElementOfSeq
<1>5. CASE at = "publish"
  <2>1. Frontier = next /\ next <= last /\ last + 1 = offset
    BY <1>5 DEF FeedInv, Frontier
  <2>2. \A i \in DOMAIN published' : published'[i] < Frontier'
    BY <1>1, <1>2, <1>3, <1>4, <2>1 DEF FeedInv
  <2>3. \A u \in lost' : u < Frontier'
    BY <1>1, <1>2, <1>3, <1>5, <2>1 DEF FeedInv, LostByDeath, InHand
  <2> QED
    BY <1>1, <2>2, <2>3 DEF FeedInv, PublishedOnceInOrder
<1>6. CASE at # "publish"
  <2>1. lost' = lost /\ Frontier' = Frontier
    BY <1>1, <1>3, <1>6 DEF LostByDeath, Frontier
  <2> QED
    BY <1>1, <2>1 DEF FeedInv, PublishedOnceInOrder
<1> QED
  BY <1>5, <1>6

LEMMA FeedNext ==
  ASSUME ~MayRefuse
  PROVE  TypeInv /\ FeedInv /\ [Next]_vars => FeedInv'
<1> SUFFICES ASSUME TypeInv, FeedInv, [Next]_vars PROVE FeedInv'
  OBVIOUS
<1>0. /\ LoopTop(state) \in {"poll", "cooldown", "pausedSleep", "stopped"}
      /\ LoopTop("quarantine") \in {"poll", "cooldown", "pausedSleep", "stopped"}
      /\ LoopTop("running") \in {"poll", "cooldown", "pausedSleep", "stopped"}
  BY LoopTopType DEF TypeInv, TypeOK, States
<1>a. arrived <= MaxUpdate /\ arrived \in Nat
  BY DEF FeedInv, TypeInv, TypeOK
<1>1. CASE PollOk
  <2>1. PICK hi \in (Oldest - 1)..arrived :
           ServeUpdates(hi) /\ ProcessUpdates(state, Oldest, hi)
    BY <1>1 DEF PollOk
  <2>2. /\ at = "poll" /\ confirmed' = Larger(offset, confirmed)
        /\ next' = Oldest /\ last' = hi
        /\ UNCHANGED <<offset, offsetFile, arrived, published, lost>>
    BY <1>1, <2>1 DEF PollOk, ServeUpdates, ProcessUpdates, historyVars
  <2>3. Oldest \in Nat /\ hi \in Int
    BY <1>a, OldestBounds DEF TypeInv, TypeOK
  <2>4. at' # "publish" /\ (at' = "persist" => next' <= last')
    BY <1>0, <2>1, <2>2, <2>3 DEF ProcessUpdates
  <2> QED
    BY <2>2, <2>4, FeedFetch
<1>2. CASE PollRetryLater
  BY <1>2, <1>a, FeedStutter DEF PollRetryLater, updateVars, worldVars, historyVars
<1>3. CASE PollFatal
  <2>1. at = "poll" /\ at' \in {"poll", "cooldown", "pausedSleep", "stopped", "backoff"}
    BY <1>0, <1>3 DEF PollFatal
  <2> QED
    BY <1>3, <1>a, <2>1, FeedStutter DEF PollFatal, updateVars, worldVars, historyVars
<1>4. CASE Wake
  BY <1>0, <1>4, <1>a, FeedStutter DEF Wake, updateVars, worldVars, historyVars
<1>5. CASE CooldownOver
  BY <1>5, <1>a, FeedStutter DEF CooldownOver, updateVars, worldVars, historyVars
<1>6. CASE ProbeOk
  <2>1. PICK hi \in (Oldest - 1)..arrived :
           ServeUpdates(hi) /\ DrainNext("running", Oldest, hi)
    BY <1>6 DEF ProbeOk
  <2>2. /\ at = "probe" /\ confirmed' = Larger(offset, confirmed)
        /\ next' = Oldest /\ last' = hi
        /\ UNCHANGED <<offset, offsetFile, arrived, published, lost>>
    BY <1>6, <2>1 DEF ProbeOk, ServeUpdates, DrainNext, ProcessUpdates, historyVars
  <2>3. Oldest \in Nat /\ hi \in Int
    BY <1>a, OldestBounds DEF TypeInv, TypeOK
  <2>4. at' # "publish" /\ (at' = "persist" => next' <= last')
    BY <1>0, <2>1, <2>2, <2>3 DEF DrainNext, ProcessUpdates
  <2> QED
    BY <2>2, <2>4, FeedFetch
<1>7. CASE ProbeFails
  BY <1>0, <1>7, <1>a, FeedStutter DEF ProbeFails, updateVars, worldVars, historyVars
<1>8. CASE \E shown \in 0..1, answered \in BOOLEAN : Replayed(shown, answered)
  <2>1. /\ at = "drain" /\ DrainNext(state, next, last)
        /\ UNCHANGED <<offset, offsetFile, arrived, confirmed, published, lost>>
    BY <1>8 DEF Replayed
  <2>2. /\ next' = next /\ last' = last
        /\ at' \in {"drain", "persist", "poll", "cooldown", "pausedSleep", "stopped"}
        /\ at' = "persist" => ~(next > last)
    BY <1>0, <2>1 DEF DrainNext, ProcessUpdates
  <2>3. next \in Nat /\ last \in Nat
    BY DEF TypeInv, TypeOK
  <2> QED
    BY <1>a, <2>1, <2>2, <2>3, FeedStutter
<1>9. CASE Persist
  BY <1>9, FeedPersist
<1>10. CASE Publish
  BY <1>10, FeedPublish
<1>11. CASE RegistrationTimeout
  BY <1>11, <1>a, FeedStutter DEF RegistrationTimeout, updateVars, worldVars, historyVars
<1>12. CASE DaemonStop
  <2>1. offsetFile' = offset /\ offset = offsetFile
    BY <1>12 DEF DaemonStop, FeedInv
  <2> QED
    BY <1>12, <1>a, <2>1, FeedStutter DEF DaemonStop, worldVars, historyVars
<1>13. CASE \E r \in Replies, hasRequester \in BOOLEAN : SendMessage(r, hasRequester)
  BY <1>13, <1>a, FeedStutter DEF SendMessage, loopVars, updateVars, worldVars
<1>14. CASE \E r \in Replies, shown \in 0..1, answered \in BOOLEAN :
               PostEnds(r, shown, answered)
  BY <1>14, <1>a, FeedStutter DEF PostEnds, loopVars, updateVars, historyVars
<1>15. CASE \E shown \in SUBSET CutOff : Die(shown)
  BY <1>15, FeedDie
<1>16. CASE Restart
  <2>1. /\ at = "dead" /\ at' = "poll" /\ offset' = offsetFile /\ offset = offsetFile
        /\ UNCHANGED <<offsetFile, next, last, arrived, confirmed, published, lost>>
    BY <1>16 DEF Restart, Loaded, FeedInv, worldVars, historyVars
  <2> QED
    BY <1>a, <2>1, FeedStutter
<1>17. CASE Arrive
  <2>1. arrived' = arrived + 1 /\ arrived < MaxUpdate
    BY <1>17 DEF Arrive
  <2>2. arrived' <= MaxUpdate
    BY <1>a, <2>1, PollingAssumption
  <2> QED
    BY <1>17, <2>1, <2>2, FeedStutter DEF Arrive, loopVars, updateVars, historyVars
<1>18. CASE UNCHANGED vars
  BY <1>18, <1>a, FeedStutter DEF vars, loopVars, updateVars, worldVars, historyVars
<1> QED
  BY <1>1, <1>2, <1>3, <1>4, <1>5, <1>6, <1>7, <1>8, <1>9, <1>10, <1>11, <1>12,
     <1>13, <1>14, <1>15, <1>16, <1>17, <1>18 DEF Next, LoopStep

LEMMA FeedInvariant == ASSUME ~MayRefuse PROVE Spec => [](TypeInv /\ FeedInv)
<1>1. Init => FeedInv
  BY PollingAssumption DEF Init, FeedInv, PublishedOnceInOrder, Frontier
<1> QED
  BY <1>1, FeedNext, TypeInvariant, PTL DEF Spec

\* Every update is published at most once and in the order of its id, across
\* any number of crashes and restarts.
THEOREM OnceInOrder == ASSUME ~MayRefuse PROVE Spec => []PublishedOnceInOrder
<1>1. FeedInv => PublishedOnceInOrder
  BY DEF FeedInv
<1> QED
  BY <1>1, FeedInvariant, PTL

\* A death with a batch in hand gives the rest of that batch up; every other
\* step of the loop delivers the next update or leaves the feed alone.
LEMMA FeedStep ==
  ASSUME TypeInv, FeedInv, [Next]_vars
  PROVE  [Feed!Next]_(Feed!vars)
<1>0. /\ next \in Nat /\ last \in Nat /\ MaxUpdate \in Nat /\ arrived \in Nat
      /\ published \in Seq(Nat) /\ lost \subseteq Nat /\ arrived <= MaxUpdate
  BY PollingAssumption DEF TypeInv, TypeOK, FeedInv
<1>1. CASE Publish
  <2>1. /\ at = "publish" /\ published' = Append(published, next) /\ lost' = lost
        /\ 1 <= next /\ next <= last /\ last <= arrived
    BY <1>1 DEF Publish, FeedInv
  <2>2. next \in 1..MaxUpdate
    BY <1>0, <2>1
  <2>3. Feed!Ahead(next)
    BY <2>1 DEF Feed!Ahead, FeedInv, Frontier
  <2> QED
    BY <2>1, <2>2, <2>3 DEF Feed!Next, Feed!Deliver
<1>2. CASE \E shown \in SUBSET CutOff : Die(shown)
  <2>1. lost' = lost \cup LostByDeath /\ published' = published
    BY <1>2 DEF Die
  <2>2. LostByDeath \in SUBSET (1..MaxUpdate)
    BY <1>0 DEF LostByDeath, InHand, FeedInv
  <2>3. ASSUME NEW u \in LostByDeath PROVE Feed!Ahead(u)
    <3>1. at = "publish" /\ u \in next..last
      BY DEF LostByDeath, InHand
    <3>2. \A i \in DOMAIN published : published[i] \in Nat
      BY <1>0, ElementOfSeq
    <3> QED
      BY <1>0, <3>1, <3>2 DEF Feed!Ahead, FeedInv, Frontier
  <2> QED
    BY <2>1, <2>2, <2>3 DEF Feed!Next, Feed!GiveUp
<1>3. CASE ~Publish /\ ~(\E shown \in SUBSET CutOff : Die(shown))
  <2>1. published' = published /\ lost' = lost
    BY <1>3 DEF Next, LoopStep, vars, loopVars, updateVars, replyVars, worldVars,
       historyVars, PollOk, PollRetryLater, PollFatal, Wake, CooldownOver, ProbeOk,
       ProbeFails, Replayed, Persist, RegistrationTimeout, DaemonStop, SendMessage,
       PostEnds, Restart, Arrive
  <2> QED
    BY <2>1 DEF Feed!vars
<1> QED
  BY <1>1, <1>2, <1>3

\* The loop, with its offset on disk, its replay queue, its crashes and its
\* restarts, is an implementation of the abstract feed.
THEOREM LoopImplementsFeed == ASSUME ~MayRefuse PROVE Spec => ImplementsFeed
<1>1. Init => Feed!Init
  BY DEF Init, Feed!Init
<1> QED
  BY <1>1, FeedStep, FeedInvariant, PTL DEF Spec, ImplementsFeed, Feed!Spec

-----------------------------------------------------------------------------
(* The replay queue is first in, first out, and loses nothing *)

FifoInv ==
    /\ ReplayFifo
    /\ at # "drain" => replaying = <<>>

\* A step that does not touch the queue or its ledger.
LEMMA FifoStutter ==
  ASSUME FifoInv, UNCHANGED <<entries, replaying, accepted, resolved>>,
         at' = at \/ at # "drain"
  PROVE  FifoInv'
  BY DEF FifoInv, ReplayFifo

LEMMA RepliesAssociative ==
  \A s, t, u \in Seq(Replies) : (s \o t) \o u = s \o (t \o u)
  BY ConcatAssociative

\* Shifting moves the head of the queue to the hand: what is in hand and in the
\* queue is, in sequence, what was in the queue.
LEMMA DrainNextShifts ==
  ASSUME TypeOK, NEW st \in States, NEW lo \in Nat, NEW hi \in Nat,
         DrainNext(st, lo, hi)
  PROVE  /\ replaying' \in Seq(Replies) /\ entries' \in Seq(Replies)
         /\ replaying' \o entries' = entries
         /\ at' # "drain" => replaying' = <<>>
<1>1. entries \in Seq(Replies)
  BY DEF TypeOK
<1>2. CASE entries = <<>> \/ stopRequested
  <2>1. replaying' = <<>> /\ entries' = entries
    BY <1>2 DEF DrainNext
  <2> QED
    BY <1>1, <2>1, ConcatEmptySeq, EmptySeq
<1>3. CASE ~(entries = <<>> \/ stopRequested)
  <2>1. at' = "drain" /\ replaying' = <<Head(entries)>> /\ entries' = Tail(entries)
    BY <1>3 DEF DrainNext
  <2>2. Head(entries) \in Replies /\ Tail(entries) \in Seq(Replies)
    BY <1>1, <1>3, HeadTailProperties
  <2>3. <<Head(entries)>> \o Tail(entries) = entries
    BY <1>1, <1>3
  <2>4. <<Head(entries)>> \in Seq(Replies)
    BY <2>2
  <2> QED
    BY <2>1, <2>2, <2>3, <2>4
<1> QED
  BY <1>2, <1>3

LEMMA FifoNext == TypeInv /\ FifoInv /\ [Next]_vars => FifoInv'
<1> SUFFICES ASSUME TypeInv, FifoInv, [Next]_vars PROVE FifoInv'
  OBVIOUS
<1>0. /\ entries \in Seq(Replies) /\ accepted \in Seq(Replies)
      /\ resolved \in Seq(Replies) /\ replaying \in Seq(Replies)
      /\ accepted = resolved \o replaying \o entries
  BY EmptySeq DEF TypeInv, TypeOK, FifoInv, ReplayFifo
<1>1. CASE PollOk \/ PollRetryLater \/ PollFatal \/ Wake \/ CooldownOver \/ ProbeFails
           \/ Persist \/ Publish \/ RegistrationTimeout \/ DaemonStop \/ Arrive
  <2>1. UNCHANGED <<entries, replaying, accepted, resolved>> /\ (at' = at \/ at # "drain")
    BY <1>1 DEF PollOk, PollRetryLater, PollFatal, Wake, CooldownOver, ProbeFails,
       Persist, Publish, RegistrationTimeout, DaemonStop, Arrive, loopVars,
       replyVars, historyVars
  <2> QED
    BY <2>1, FifoStutter
<1>2. CASE ProbeOk
  <2>1. PICK hi \in (Oldest - 1)..arrived :
           ServeUpdates(hi) /\ DrainNext("running", Oldest, hi)
    BY <1>2 DEF ProbeOk
  <2>2. Oldest \in Nat /\ Oldest >= 1 /\ arrived \in Nat /\ "running" \in States
    BY OldestBounds DEF TypeInv, TypeOK, States
  <2>3. /\ replaying' \in Seq(Replies) /\ entries' \in Seq(Replies)
        /\ replaying' \o entries' = entries
        /\ at' # "drain" => replaying' = <<>>
    BY <2>1, <2>2, DrainNextShifts DEF TypeInv
  <2>4. replaying = <<>> /\ accepted' = accepted /\ resolved' = resolved
    BY <1>2 DEF ProbeOk, FifoInv, historyVars
  <2>5. accepted = resolved \o entries
    BY <1>0, <2>4, ConcatEmptySeq
  <2>6. (resolved \o replaying') \o entries' = resolved \o (replaying' \o entries')
    <3>1. resolved \in Seq(Replies) /\ replaying' \in Seq(Replies) /\ entries' \in Seq(Replies)
      BY <1>0, <2>3
    <3> QED
      BY <3>1, RepliesAssociative
  <2> QED
    BY <2>3, <2>4, <2>5, <2>6 DEF FifoInv, ReplayFifo
<1>3. CASE \E shown \in 0..1, answered \in BOOLEAN : Replayed(shown, answered)
  <2>1. /\ DrainNext(state, next, last) /\ resolved' = resolved \o replaying
        /\ accepted' = accepted
    BY <1>3 DEF Replayed
  <2>2. state \in States /\ next \in Nat /\ last \in Nat
    BY DEF TypeInv, TypeOK
  <2>3. /\ replaying' \in Seq(Replies) /\ entries' \in Seq(Replies)
        /\ replaying' \o entries' = entries
        /\ at' # "drain" => replaying' = <<>>
    BY <2>1, <2>2, DrainNextShifts DEF TypeInv
  <2>4. resolved' \in Seq(Replies)
    BY <1>0, <2>1, ConcatProperties
  <2>5. (resolved' \o replaying') \o entries' = resolved' \o (replaying' \o entries')
    BY <2>3, <2>4, RepliesAssociative
  <2> QED
    BY <1>0, <2>1, <2>3, <2>5 DEF FifoInv, ReplayFifo
<1>4. ASSUME NEW r \in Replies, NEW hasRequester \in BOOLEAN,
             SendMessage(r, hasRequester)
      PROVE  FifoInv'
  <2>1. UNCHANGED <<at, replaying, resolved>>
    BY <1>4 DEF SendMessage, loopVars
  <2>2. \/ UNCHANGED <<entries, accepted>>
        \/ entries' = Append(entries, r) /\ accepted' = Append(accepted, r)
    BY <1>4 DEF SendMessage, Enqueue
  <2>3. CASE UNCHANGED <<entries, accepted>>
    BY <2>1, <2>3, FifoStutter
  <2>4. CASE entries' = Append(entries, r) /\ accepted' = Append(accepted, r)
    <3>1. resolved \o replaying \in Seq(Replies) /\ <<r>> \in Seq(Replies)
      BY <1>0, ConcatProperties
    <3>2. ((resolved \o replaying) \o entries) \o <<r>>
             = (resolved \o replaying) \o (entries \o <<r>>)
      BY <1>0, <3>1, RepliesAssociative
    <3>3. accepted' = accepted \o <<r>> /\ entries' = entries \o <<r>>
      BY <1>0, <2>4, AppendIsConcat
    <3> QED
      BY <1>0, <2>1, <3>2, <3>3 DEF FifoInv, ReplayFifo
  <2> QED
    BY <2>2, <2>3, <2>4
<1>5. CASE \E r \in Replies, shown \in 0..1, answered \in BOOLEAN :
              PostEnds(r, shown, answered)
  BY <1>5, FifoStutter DEF PostEnds, loopVars, historyVars
<1>6. CASE \E shown \in SUBSET CutOff : Die(shown)
  <2>1. entries' = <<>> /\ replaying' = <<>> /\ accepted' = <<>> /\ resolved' = <<>>
    BY <1>6 DEF Die
  <2> QED
    BY <2>1 DEF FifoInv, ReplayFifo
<1>7. CASE Restart
  BY <1>7, FifoStutter DEF Restart, replyVars, historyVars
<1>8. CASE UNCHANGED vars
  BY <1>8, FifoStutter DEF vars, loopVars, replyVars, historyVars
<1> QED
  BY <1>1, <1>2, <1>3, <1>4, <1>5, <1>6, <1>7, <1>8 DEF Next, LoopStep

\* For any capacity and any interleaving of replies with drains, the replies
\* accepted since the start are those resolved, the one being posted and those
\* still queued, in the order of acceptance.
THEOREM RepliesFifo == Spec => []ReplayFifo
<1>1. Init => FifoInv
  <2>1. <<>> \o <<>> \o <<>> = <<>>
    OBVIOUS
  <2> QED
    BY <2>1 DEF Init, FifoInv, ReplayFifo
<1>2. FifoInv => ReplayFifo
  BY DEF FifoInv
<1> QED
  BY <1>1, <1>2, FifoNext, TypeInvariant, PTL DEF Spec
-----------------------------------------------------------------------------
(* What a session is told is true *)

Queued == {entries[i] : i \in 1..Len(entries)}

\* A reply in the queue or in drain's hand is there once, and nothing of it has
\* been posted; nor of one whose direct post is under way.
TruthInv ==
    /\ ToldTheTruth
    /\ \A r \in Replies : reply[r] = "posting" => copies[r] = 0
    /\ \A r \in Queued : reply[r] = "queued" /\ copies[r] = 0 /\ replaying # <<r>>
    /\ \A i, j \in 1..Len(entries) : entries[i] = entries[j] => i = j
    /\ \A r \in Replies : replaying = <<r>> => reply[r] = "queued" /\ copies[r] = 0

\* Shifting takes a reply out of the queue and leaves the others in it, once.
LEMMA DrainNextTakes ==
  ASSUME TypeOK, TruthInv, NEW st \in States, NEW lo, NEW hi,
         DrainNext(st, lo, hi)
  PROVE  /\ Queued' \subseteq Queued
         /\ \A i, j \in 1..Len(entries') : entries'[i] = entries'[j] => i = j
         /\ \A r \in Replies : replaying' = <<r>> => r \in Queued /\ r \notin Queued'
<1>1. entries \in Seq(Replies)
  BY DEF TypeOK
<1>2. CASE entries = <<>> \/ stopRequested
  <2>1. entries' = entries /\ replaying' = <<>>
    BY <1>2 DEF DrainNext
  <2>2. \A r \in Replies : replaying' # <<r>>
    BY <2>1
  <2> QED
    BY <2>1, <2>2 DEF TruthInv, Queued
<1>3. CASE ~(entries = <<>> \/ stopRequested)
  <2>1. replaying' = <<entries[1]>> /\ entries' = Tail(entries)
    BY <1>1, <1>3 DEF DrainNext
  <2>2. /\ Len(entries) \in Nat /\ 1 \in 1..Len(entries)
        /\ Len(entries') = Len(entries) - 1
        /\ \A i \in 1..Len(entries') : i + 1 \in 1..Len(entries) /\ entries'[i] = entries[i + 1]
    BY <1>1, <1>3, <2>1
  <2>3. Queued' \subseteq Queued /\ entries[1] \in Queued
    BY <2>2 DEF Queued
  <2>4. \A i, j \in 1..Len(entries) : entries[i] = entries[j] => i = j
    BY DEF TruthInv
  <2>5. \A i, j \in 1..Len(entries') : entries'[i] = entries'[j] => i = j
    BY <2>2, <2>4
  <2>6. entries[1] \notin Queued'
    <3> SUFFICES ASSUME NEW i \in 1..Len(entries'), entries'[i] = entries[1]
                 PROVE  FALSE
      BY DEF Queued
    <3>1. i + 1 = 1
      BY <2>2, <2>4
    <3> QED
      BY <3>1
  <2> QED
    BY <2>1, <2>3, <2>5, <2>6
<1> QED
  BY <1>2, <1>3

\* What neither posts, tells nor moves a reply.
LEMMA TruthStutter ==
  ASSUME TruthInv, UNCHANGED <<entries, replaying, reply, copies>>
  PROVE  TruthInv'
  BY DEF TruthInv, ToldTheTruth, Queued

LEMMA TruthProbeOk == ASSUME TypeInv, TruthInv, ProbeOk PROVE TruthInv'
<1>1. PICK hi : DrainNext("running", Oldest, hi)
  BY DEF ProbeOk
<1>2. "running" \in States
  BY DEF States
<1>3. /\ Queued' \subseteq Queued
      /\ \A i, j \in 1..Len(entries') : entries'[i] = entries'[j] => i = j
      /\ \A r \in Replies : replaying' = <<r>> => r \in Queued /\ r \notin Queued'
  BY <1>1, <1>2, DrainNextTakes DEF TypeInv
<1>4. reply' = reply /\ copies' = copies
  BY DEF ProbeOk
<1>5. Queued \subseteq Replies
  BY DEF Queued, TypeInv, TypeOK
<1> QED
  BY <1>3, <1>4, <1>5 DEF TruthInv, ToldTheTruth

LEMMA TruthReplayed ==
  ASSUME TypeInv, TruthInv, NEW shown \in 0..1, NEW answered \in BOOLEAN,
         Replayed(shown, answered)
  PROVE  TruthInv'
<1>1. PICK r \in Replies : replaying = <<r>>
  BY DEF Replayed, TypeInv, TypeOK
<1>2. Head(replaying) = r
  BY <1>1
<1>3. /\ copies' = [copies EXCEPT ![r] = copies[r] + shown]
      /\ reply' = [reply EXCEPT ![r] = IF answered THEN "delivered" ELSE "disconnected"]
      /\ answered => shown = 1
      /\ DrainNext(state, next, last)
  BY <1>2 DEF Replayed
<1>4. /\ copies \in [Replies -> Nat] /\ reply \in [Replies -> Told] /\ state \in States
      /\ Queued \subseteq Replies
  BY DEF TypeInv, TypeOK, Queued
<1>5. copies[r] = 0 /\ r \notin Queued
  BY <1>1 DEF TruthInv
<1>6. /\ copies'[r] = shown /\ reply'[r] \in {"delivered", "disconnected"}
      /\ reply'[r] = "delivered" => copies'[r] = 1
      /\ \A x \in Replies \ {r} : copies'[x] = copies[x] /\ reply'[x] = reply[x]
  <2>1. reply'[r] = IF answered THEN "delivered" ELSE "disconnected"
    BY <1>3, <1>4
  <2>2. reply'[r] \in {"delivered", "disconnected"} /\ (reply'[r] = "delivered" => answered)
    BY <2>1, Zenon
  <2> QED
    BY <1>3, <1>4, <1>5, <2>2
<1>7. /\ Queued' \subseteq Queued
      /\ \A i, j \in 1..Len(entries') : entries'[i] = entries'[j] => i = j
      /\ \A x \in Replies : replaying' = <<x>> => x \in Queued /\ x \notin Queued'
  BY <1>3, <1>4, DrainNextTakes DEF TypeInv
<1>8. ToldTheTruth'
  BY <1>6 DEF TruthInv, ToldTheTruth
<1> QED
  BY <1>4, <1>5, <1>6, <1>7, <1>8 DEF TruthInv

LEMMA TruthSendMessage ==
  ASSUME TypeInv, TruthInv, NEW r \in Replies, NEW hasRequester \in BOOLEAN,
         SendMessage(r, hasRequester)
  PROVE  TruthInv'
<1>1. /\ reply[r] = "none" /\ copies' = copies /\ replaying' = replaying
      /\ copies \in [Replies -> Nat] /\ reply \in [Replies -> Told]
      /\ entries \in Seq(Replies)
  BY DEF SendMessage, worldVars, TypeInv, TypeOK
<1>2. copies[r] = 0 /\ r \notin Queued /\ replaying # <<r>>
  BY <1>1 DEF TruthInv, ToldTheTruth
<1>3. \/ /\ \E told \in {"stub", "capacity_exceeded", "posting"} :
                 reply' = [reply EXCEPT ![r] = told]
         /\ entries' = entries
      \/ /\ reply' = [reply EXCEPT ![r] = "queued"] /\ entries' = Append(entries, r)
  BY DEF SendMessage, Enqueue
<1>4. /\ \A x \in Replies \ {r} : reply'[x] = reply[x]
      /\ reply'[r] \in {"stub", "capacity_exceeded", "posting", "queued"}
  BY <1>1, <1>3
<1>5. ToldTheTruth' /\ \A x \in Replies : reply'[x] = "posting" => copies'[x] = 0
  BY <1>1, <1>2, <1>4 DEF TruthInv, ToldTheTruth
<1>6. \A x \in Replies : replaying' = <<x>> => reply'[x] = "queued" /\ copies'[x] = 0
  BY <1>1, <1>2, <1>4 DEF TruthInv
<1>7. CASE entries' = entries
  <2>1. Queued' = Queued /\ Queued \subseteq Replies
    BY <1>1, <1>7 DEF Queued
  <2> QED
    BY <1>1, <1>2, <1>4, <1>5, <1>6, <1>7, <2>1 DEF TruthInv
<1>8. CASE reply' = [reply EXCEPT ![r] = "queued"] /\ entries' = Append(entries, r)
  <2> DEFINE n == Len(entries)
  <2>1. /\ n \in Nat /\ Len(entries') = n + 1 /\ entries'[n + 1] = r
        /\ \A i \in 1..n : entries'[i] = entries[i]
    BY <1>1, <1>8
  <2>2. \A i \in 1..Len(entries') : i \in 1..n \/ i = n + 1
    BY <2>1
  <2>3. Queued' = Queued \cup {r} /\ Queued \subseteq Replies
    BY <1>1, <2>1, <2>2 DEF Queued
  <2>4. reply'[r] = "queued"
    BY <1>1, <1>8
  <2>5. \A i \in 1..n : entries[i] # r
    BY <1>2 DEF Queued
  <2>6. \A i, j \in 1..n : entries[i] = entries[j] => i = j
    BY DEF TruthInv
  <2> HIDE DEF n
  <2>7. \A i, j \in 1..Len(entries') : entries'[i] = entries'[j] => i = j
    BY <2>1, <2>2, <2>5, <2>6
  <2>8. \A x \in Queued' : reply'[x] = "queued" /\ copies'[x] = 0 /\ replaying' # <<x>>
    BY <1>1, <1>2, <1>4, <2>3, <2>4 DEF TruthInv
  <2> QED
    BY <1>5, <1>6, <2>7, <2>8 DEF TruthInv
<1> QED
  BY <1>3, <1>7, <1>8

LEMMA TruthPostEnds ==
  ASSUME TypeInv, TruthInv, NEW r \in Replies, NEW shown \in 0..1,
         NEW answered \in BOOLEAN, PostEnds(r, shown, answered)
  PROVE  TruthInv'
<1>1. /\ reply[r] = "posting" /\ entries' = entries /\ replaying' = replaying
      /\ copies' = [copies EXCEPT ![r] = copies[r] + shown]
      /\ reply' = [reply EXCEPT ![r] = IF answered THEN "delivered" ELSE "disconnected"]
      /\ answered => shown = 1
      /\ copies \in [Replies -> Nat] /\ reply \in [Replies -> Told]
      /\ Queued \subseteq Replies
  BY DEF PostEnds, TypeInv, TypeOK, Queued
<1>2. copies[r] = 0 /\ r \notin Queued /\ replaying # <<r>>
  BY <1>1 DEF TruthInv
<1>3. reply'[r] \in {"delivered", "disconnected"} /\ (reply'[r] = "delivered" => answered)
  <2>1. reply'[r] = IF answered THEN "delivered" ELSE "disconnected"
    BY <1>1
  <2> QED
    BY <2>1, Zenon
<1>4. /\ copies'[r] = shown
      /\ reply'[r] = "delivered" => copies'[r] = 1
      /\ \A x \in Replies \ {r} : copies'[x] = copies[x] /\ reply'[x] = reply[x]
  BY <1>1, <1>2, <1>3
<1>5. ToldTheTruth'
  BY <1>3, <1>4 DEF TruthInv, ToldTheTruth
<1>6. Queued' = Queued
  BY <1>1 DEF Queued
<1> QED
  BY <1>1, <1>2, <1>3, <1>4, <1>5, <1>6 DEF TruthInv

\* A death cuts posts off in the middle; what it cuts off is never posted again.
LEMMA TruthDie ==
  ASSUME TypeInv, TruthInv, NEW shown \in SUBSET CutOff, Die(shown)
  PROVE  TruthInv'
<1>1. /\ entries' = <<>> /\ replaying' = <<>>
      /\ copies' = [r \in Replies |-> copies[r] + IF r \in shown THEN 1 ELSE 0]
      /\ reply' = [r \in Replies |->
                      IF reply[r] = "posting" THEN "disconnected" ELSE reply[r]]
      /\ copies \in [Replies -> Nat]
  BY DEF Die, TypeInv, TypeOK
<1>2. \A r \in shown : copies[r] = 0 /\ reply[r] \in {"posting", "queued"}
  BY DEF CutOff, TruthInv
<1>3. \A r \in Replies : /\ copies'[r] = copies[r] + (IF r \in shown THEN 1 ELSE 0)
                         /\ reply'[r] = IF reply[r] = "posting" THEN "disconnected" ELSE reply[r]
  BY <1>1
<1>4. ToldTheTruth'
  BY <1>1, <1>2, <1>3 DEF TruthInv, ToldTheTruth
<1>5. \A r \in Replies : reply'[r] # "posting"
  BY <1>3
<1>6. Queued' = {} /\ \A r \in Replies : replaying' # <<r>>
  BY <1>1 DEF Queued
<1>7. \A i, j \in 1..Len(entries') : entries'[i] = entries'[j] => i = j
  BY <1>1
<1> QED
  BY <1>4, <1>5, <1>6, <1>7 DEF TruthInv

LEMMA TruthNext == TypeInv /\ TruthInv /\ [Next]_vars => TruthInv'
<1> SUFFICES ASSUME TypeInv, TruthInv, [Next]_vars PROVE TruthInv'
  OBVIOUS
<1>1. CASE PollOk \/ PollRetryLater \/ PollFatal \/ Wake \/ CooldownOver \/ ProbeFails
           \/ Persist \/ Publish \/ RegistrationTimeout \/ DaemonStop \/ Restart
           \/ Arrive \/ UNCHANGED vars
  <2>1. UNCHANGED <<entries, replaying, reply, copies>>
    BY <1>1 DEF PollOk, PollRetryLater, PollFatal, Wake, CooldownOver, ProbeFails,
       Persist, Publish, RegistrationTimeout, DaemonStop, Restart, Arrive, vars,
       replyVars, worldVars
  <2> QED
    BY <2>1, TruthStutter
<1>2. CASE ProbeOk
  BY <1>2, TruthProbeOk
<1>3. CASE \E shown \in 0..1, answered \in BOOLEAN : Replayed(shown, answered)
  BY <1>3, TruthReplayed
<1>4. CASE \E r \in Replies, hasRequester \in BOOLEAN : SendMessage(r, hasRequester)
  BY <1>4, TruthSendMessage
<1>5. CASE \E r \in Replies, shown \in 0..1, answered \in BOOLEAN :
              PostEnds(r, shown, answered)
  BY <1>5, TruthPostEnds
<1>6. CASE \E shown \in SUBSET CutOff : Die(shown)
  BY <1>6, TruthDie
<1> QED
  BY <1>1, <1>2, <1>3, <1>4, <1>5, <1>6 DEF Next, LoopStep

\* However direct posts, drains, failures and deaths interleave, a session is
\* told the truth about its reply, and the chat never shows one twice.
THEOREM SessionsToldTrue == Spec => []ToldTheTruth
<1>1. Init => TruthInv
  BY DEF Init, TruthInv, ToldTheTruth, Queued
<1>2. TruthInv => ToldTheTruth
  BY DEF TruthInv
<1> QED
  BY <1>1, <1>2, TruthNext, TypeInvariant, PTL DEF Spec
=============================================================================
