------------------------------ MODULE Outbound ------------------------------
(***************************************************************************)
(* What a session's tool call sends to Telegram: reply with a text or with *)
(* files, edit_message and react (tools/*.ts), behind the gate that asks   *)
(* the chat-type cache (telegram/chat-type-cache.ts) and the state of the  *)
(* polling loop, which may change while a call waits.  Composed with       *)
(* Alerts, whose quarantine and whose end of the daemon it shares.         *)
(*                                                                         *)
(* A call is an async function: an action runs it from one answer of       *)
(* Telegram to its next request.  The callers that wait for one getChat    *)
(* go on in the same turn.  PollingLoop has the replay queue in detail;    *)
(* here it is the set of the replies it holds.                             *)
(***************************************************************************)
EXTENDS Alerts, Sequences, SequencesExt

CONSTANTS
    Calls,        \* the tool calls
    Chats,        \* chat ids
    Private,      \* the chats that Telegram says are private
    MaxEntries,   \* ChatTypeCacheImpl.maxEntries
    Capacity,     \* QUARANTINE_QUEUE_CAP
    Files,        \* the files of a reply that has files
    Errands       \* bound: which tools the calls call, for which chats

Tools == {"text", "files", "edit_message", "react"}

ASSUME OutboundAssumption ==
    /\ Private \subseteq Chats
    /\ MaxEntries \in Nat \ {0} /\ Capacity \in Nat /\ Files \in Nat \ {0}
    /\ Errands \subseteq [Calls -> Tools \X Chats]

VARIABLES
    cache,      \* the chats of ChatTypeCacheImpl.cache, the least recent first
    aged,       \* those of them whose entry is older than its time to live
    inFlight,   \* the chats of ChatTypeCacheImpl.inFlight
    asked,      \* the getChat requests under way, by chat
    pc,         \* where a call is
    tool, chat, \* what it calls, for which chat
    file,       \* the file it is posting
    first,      \* whether its first file was delivered
    sent,       \* its messages that Telegram took
    told,       \* what its session was told
    queued,     \* the replies OutboundReplayQueue holds
    replayed    \* history: those its drain has taken

cacheVars == <<cache, aged, inFlight, asked>>
queueVars == <<queued, replayed>>
callVars == <<pc, tool, chat, file, first, sent, told>>
vars == <<obsVars, cacheVars, queueVars, callVars>>

Answers == {"none", "delivered", "queued", "failed", "capacity_exceeded",
            "InvalidChatTypeError"}

Messages(c) == IF tool[c] = "files" THEN Files ELSE 1
Waiting(ch) == {c \in Calls : pc[c] = "gate" /\ chat[c] = ch}

Init ==
    /\ ObsInit
    /\ cache = <<>> /\ aged = {} /\ inFlight = {} /\ asked = [ch \in Chats |-> 0]
    /\ pc = [c \in Calls |-> "none"]
    /\ \E e \in Errands : /\ tool = [c \in Calls |-> e[c][1]]
                          /\ chat = [c \in Calls |-> e[c][2]]
    /\ file = [c \in Calls |-> 0] /\ first = [c \in Calls |-> FALSE]
    /\ sent = [c \in Calls |-> 0] /\ told = [c \in Calls |-> "none"]
    /\ queued = {} /\ replayed = {}

-----------------------------------------------------------------------------
(* The chat-type cache *)

\* Variant with a bug: an entry too many.
StoreEntryLate(ch) ==
    LET s == Append(RemoveFirst(cache, ch), ch) IN
    /\ cache' = IF Len(s) > MaxEntries + 1 THEN Tail(s) ELSE s
    /\ aged' = (aged \ {ch}) \cap ToSet(cache')

\* Map.delete and Map.set, then the oldest entry goes.
StoreEntry(ch) ==
    LET s == Append(RemoveFirst(cache, ch), ch) IN
    /\ cache' = IF Len(s) > MaxEntries THEN Tail(s) ELSE s
    /\ aged' = (aged \ {ch}) \cap ToSet(cache')

Hit(ch) == ch \in ToSet(cache) /\ ch \notin aged

\* Variant with a bug: every caller that misses asks for itself.
FetchAlways(ch) ==
    /\ asked' = [asked EXCEPT ![ch] = @ + 1]
    /\ inFlight' = inFlight \cup {ch}

\* A miss joins the getChat that is under way, or starts one.
Fetch(ch) ==
    IF ch \in inFlight
    THEN UNCHANGED <<asked, inFlight>>
    ELSE /\ asked' = [asked EXCEPT ![ch] = @ + 1]
         /\ inFlight' = inFlight \cup {ch}

\* A message from the chat brings its type.
PrimeCache(ch) ==
    /\ Serving
    /\ StoreEntry(ch)
    /\ UNCHANGED <<obsVars, inFlight, asked, queueVars, callVars>>

\* An hour without a use.
Ages(ch) ==
    /\ Serving /\ Hit(ch)
    /\ aged' = aged \cup {ch}
    /\ UNCHANGED <<obsVars, cache, inFlight, asked, queueVars, callVars>>

-----------------------------------------------------------------------------
(* Behind the gate *)

Of(kinds, W) == {c \in W : tool[c] \in kinds}

\* A quarantine that has begun: texts are queued as far as there is room, an
\* edit is told it is queued, the rest fail (each file of a reply in its turn).
MeetQuarantine(W) ==
    \E S \in SUBSET Of({"text"}, W) :
        /\ \/ S = Of({"text"}, W) /\ Cardinality(queued \cup S) <= Capacity
           \/ S # Of({"text"}, W) /\ Cardinality(queued \cup S) = Capacity
        /\ queued' = queued \cup S
        /\ pc' = [c \in Calls |-> IF c \in W THEN "done" ELSE pc[c]]
        /\ told' = [c \in Calls |->
               IF c \notin W THEN told[c]
               ELSE IF c \in S \cup Of({"edit_message"}, W) THEN "queued"
               ELSE IF tool[c] = "text" THEN "capacity_exceeded" ELSE "failed"]
        /\ UNCHANGED file

\* sendMessage, uploadAttachment, editMessageText and setReaction look at the
\* polling state and then post.
Send(W) ==
    IF polling = "quarantine"
    THEN MeetQuarantine(W)
    ELSE /\ pc' = [c \in Calls |-> IF c \in W THEN "posting" ELSE pc[c]]
         /\ file' = [c \in Calls |-> IF c \in W THEN 1 ELSE file[c]]
         /\ UNCHANGED <<told, queued>>

Refuse(W) ==
    /\ pc' = [c \in Calls |-> IF c \in W THEN "done" ELSE pc[c]]
    /\ told' = [c \in Calls |-> IF c \in W THEN "InvalidChatTypeError" ELSE told[c]]
    /\ UNCHANGED <<file, queued>>

Gate(ch, W) == IF ch \in Private THEN Send(W) ELSE Refuse(W)

\* The acceptor dispatches the call to its tool.  A hit makes the entry the
\* most recent one and restarts its time; a miss awaits getChat.
Ask(c) ==
    /\ Serving /\ pc[c] = "none"
    /\ IF Hit(chat[c])
       THEN StoreEntry(chat[c]) /\ Gate(chat[c], {c}) /\ UNCHANGED <<inFlight, asked>>
       ELSE /\ Fetch(chat[c])
            /\ pc' = [pc EXCEPT ![c] = "gate"]
            /\ UNCHANGED <<cache, aged, told, file, queued>>
    /\ UNCHANGED <<obsVars, replayed, tool, chat, first, sent>>

\* Variant with a bug: a type that could not be had is no reason to refuse.
FetchFailedOpen(ch) == Send(Waiting(ch))

\* ChatTypeFetchError in each of the callers: cannot prove private, so denied.
FetchFailed(ch) == Refuse(Waiting(ch))

\* getChat is answered: every caller goes on.
FetchEnds(ch) ==
    /\ Serving /\ asked[ch] > 0
    /\ asked' = [asked EXCEPT ![ch] = @ - 1]
    /\ inFlight' = inFlight \ {ch}
    /\ \/ StoreEntry(ch) /\ Gate(ch, Waiting(ch))
       \/ FetchFailed(ch) /\ UNCHANGED <<cache, aged>>
    /\ UNCHANGED <<obsVars, replayed, tool, chat, first, sent>>

-----------------------------------------------------------------------------
(* The answers of Telegram *)

Tell(c, answer) ==
    /\ pc' = [pc EXCEPT ![c] = "done"]
    /\ told' = [told EXCEPT ![c] = answer]
    /\ UNCHANGED file

\* The loop ends with the answer to its first file.
LastFile(c, kept) == Tell(c, IF kept THEN "delivered" ELSE "failed")

NextFile(c) == file' = [file EXCEPT ![c] = @ + 1] /\ UNCHANGED <<pc, told>>

\* Variant with a bug: no failure ends the loop.
FilePassedOver(c, ok) ==
    LET kept == IF file[c] = 1 THEN ok ELSE first[c] IN
    /\ first' = [first EXCEPT ![c] = kept]
    /\ IF file[c] < Files THEN NextFile(c) ELSE LastFile(c, kept)

\* reply's loop over its files: the answer to the first is kept, the failure of
\* a later one ends the loop, and a quarantine fails the next without a request.
FileEnds(c, ok) ==
    LET kept == IF file[c] = 1 THEN ok ELSE first[c]
        ends == file[c] > 1 /\ ~ok
        next == file[c] < Files
    IN /\ first' = [first EXCEPT ![c] = kept]
       /\ IF ends \/ (next /\ polling = "quarantine") THEN Tell(c, "failed")
          ELSE IF next THEN NextFile(c) ELSE LastFile(c, kept)

\* A post ends; one that failed may have reached the chat all the same.
CallPosted(c) ==
    /\ Serving /\ pc[c] = "posting"
    /\ \E ok, taken \in BOOLEAN :
          /\ ok => taken
          /\ sent' = [sent EXCEPT ![c] = @ + (IF taken THEN 1 ELSE 0)]
          /\ IF tool[c] = "files" THEN FileEnds(c, ok)
             ELSE LastFile(c, ok) /\ UNCHANGED first
    /\ UNCHANGED <<obsVars, cacheVars, queueVars, tool, chat>>

\* The end of a quarantine, and the drain that begins in the same turn.
Recover ==
    /\ QuarantineExit
    /\ replayed' = replayed \cup queued
    /\ queued' = {}
    /\ UNCHANGED <<cacheVars, callVars>>

Next ==
    \/ ObsStep /\ UNCHANGED <<cacheVars, queueVars, callVars>>
    \/ Recover
    \/ \E ch \in Chats : PrimeCache(ch) \/ Ages(ch) \/ FetchEnds(ch)
    \/ \E c \in Calls : Ask(c) \/ CallPosted(c)

Spec == Init /\ [][Next]_vars

-----------------------------------------------------------------------------
(* Properties *)

TypeOK ==
    /\ ObsTypeOK
    /\ cache \in BoundedSeq(Chats, MaxEntries) /\ IsInjective(cache)
    /\ aged \subseteq ToSet(cache) /\ inFlight \subseteq Chats
    /\ asked \in [Chats -> Nat]
    /\ pc \in [Calls -> {"none", "gate", "posting", "done"}]
    /\ tool \in [Calls -> Tools] /\ chat \in [Calls -> Chats]
    /\ file \in [Calls -> 0..Files] /\ first \in [Calls -> BOOLEAN]
    /\ sent \in [Calls -> 0..Files] /\ told \in [Calls -> Answers]
    /\ queued \subseteq Calls /\ Cardinality(queued) <= Capacity
    /\ replayed \subseteq Calls

\* MODULE-002 AC-24: callers that miss together share one getChat.  inFlight
\* names exactly the requests under way, so that nobody waits for an answer
\* that has been and a chat whose request failed is asked again.
FetchedOnce ==
    \A ch \in Chats :
        /\ asked[ch] = IF ch \in inFlight THEN 1 ELSE 0
        /\ Waiting(ch) # {} => ch \in inFlight

\* Whatever becomes of entries and requests, nothing is sent to a chat, or kept
\* to be sent, unless Telegram says it is private.
OnlyPrivateChats ==
    \A c \in Calls : sent[c] > 0 \/ c \in queued \cup replayed => chat[c] \in Private

\* A quarantine may begin between any two steps of a call.  A session that is
\* told "delivered" has all its messages in the chat; one refused has none; a
\* text said to be queued is held for the drain or was drained.
ToldWhatHappened ==
    \A c \in Calls :
        /\ told[c] = "delivered" => sent[c] = Messages(c)
        /\ told[c] \in {"InvalidChatTypeError", "capacity_exceeded", "queued"} => sent[c] = 0
        /\ tool[c] = "text" => (told[c] = "queued" <=> c \in queued \cup replayed)
=============================================================================
