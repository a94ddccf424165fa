---------------------------- MODULE ProxyProofs ----------------------------
(***************************************************************************)
(* Theorems about Proxy and the Reconnects it is composed with, for any    *)
(* numbers of proxies, projects and boots.                                 *)
(***************************************************************************)
EXTENDS Proxy, SequenceTheorems, TLAPS

Entries == [id : Projects, left : 0..Expiry]

\* One entry per id.
OnePerId(s) == \A i, j \in DOMAIN s : s[i].id = s[j].id => i = j

-----------------------------------------------------------------------------
(* Sequences of entries *)

LEMMA RemoveAtFacts ==
    ASSUME NEW S, NEW s \in Seq(S), NEW k \in DOMAIN s
    PROVE  /\ RemoveAt(s, k) \in Seq(S)
           /\ Len(RemoveAt(s, k)) = Len(s) - 1
           /\ \A i \in 1..(Len(s) - 1) :
                 RemoveAt(s, k)[i] = IF i < k THEN s[i] ELSE s[i + 1]
<1> DEFINE a == SubSeq(s, 1, k - 1)
           b == SubSeq(s, k + 1, Len(s))
<1>1. k \in 1..Len(s) /\ Len(s) \in Nat
  OBVIOUS
<1>2. a \in Seq(S) /\ Len(a) = k - 1 /\ \A i \in 1..(k - 1) : a[i] = s[i]
  BY <1>1
<1>3. /\ b \in Seq(S) /\ Len(b) = Len(s) - k
      /\ \A i \in 1..(Len(s) - k) : b[i] = s[k + i]
  BY <1>1
<1>4. RemoveAt(s, k) = a \o b
  BY DEF RemoveAt
<1> HIDE DEF a, b
<1> QED
  BY <1>1, <1>2, <1>3, <1>4

\* Map.delete takes exactly the entry of the id.
LEMMA WithoutFacts ==
    ASSUME NEW s \in Seq(Entries), OnePerId(s), NEW id
    PROVE  /\ Without(s, id) \in Seq(Entries)
           /\ OnePerId(Without(s, id))
           /\ Len(Without(s, id)) <= Len(s)
           /\ Range(Without(s, id)) = {e \in Range(s) : e.id # id}
<1>1. CASE ~ \E i \in DOMAIN s : s[i].id = id
  BY <1>1 DEF Without, Range, OnePerId
<1>2. CASE \E i \in DOMAIN s : s[i].id = id
  <2> DEFINE k == CHOOSE i \in DOMAIN s : s[i].id = id
             w == RemoveAt(s, k)
  <2>1. k \in DOMAIN s /\ s[k].id = id
    BY <1>2
  <2>2. Without(s, id) = w
    BY <1>2 DEF Without
  <2> HIDE DEF k
  <2>3. /\ w \in Seq(Entries)
        /\ Len(w) = Len(s) - 1
        /\ \A i \in 1..(Len(s) - 1) : w[i] = IF i < k THEN s[i] ELSE s[i + 1]
    BY <2>1, RemoveAtFacts
  <2> HIDE DEF w
  <2>4. k \in 1..Len(s) /\ Len(s) \in Nat /\ DOMAIN w = 1..(Len(s) - 1) /\ DOMAIN s = 1..Len(s)
    BY <2>1, <2>3
  <2>5. OnePerId(w)
    <3> SUFFICES ASSUME NEW i \in DOMAIN w, NEW j \in DOMAIN w, w[i].id = w[j].id
                 PROVE  i = j
      BY DEF OnePerId
    <3> DEFINE was(x) == IF x < k THEN x ELSE x + 1
    <3>1. was(i) \in DOMAIN s /\ was(j) \in DOMAIN s
      BY <2>4
    <3>2. w[i] = s[was(i)] /\ w[j] = s[was(j)]
      BY <2>3, <2>4
    <3>3. was(i) = was(j)
      BY <3>1, <3>2 DEF OnePerId
    <3> QED
      BY <3>3, <2>4
  <2>6. \A i \in DOMAIN w : w[i] \in Range(s) /\ w[i].id # id
    BY <2>1, <2>3, <2>4 DEF OnePerId, Range
  <2>7. ASSUME NEW i \in DOMAIN s, s[i].id # id
        PROVE  \E j \in DOMAIN w : w[j] = s[i]
    <3>1. CASE i < k
      BY <3>1, <2>3, <2>4
    <3>2. CASE i > k
      <4>1. i - 1 \in DOMAIN w /\ w[i - 1] = s[i]
        BY <3>2, <2>3, <2>4
      <4> QED
        BY <4>1
    <3> QED
      BY <3>1, <3>2, <2>1, <2>4, <2>7
  <2>8. Range(w) = {e \in Range(s) : e.id # id}
    BY <2>6, <2>7 DEF Range
  <2> QED
    BY <2>2, <2>3, <2>4, <2>5, <2>8
<1> QED
  BY <1>1, <1>2

\* What the cap leaves has room for one more.
LEMMA EvictedFacts ==
    ASSUME scripted \in Seq(Entries), OnePerId(scripted), Len(scripted) <= MaxEntries
    PROVE  /\ Evicted \in Seq(Entries)
           /\ OnePerId(Evicted)
           /\ Len(Evicted) < MaxEntries
           /\ Range(Evicted) \subseteq Range(scripted)
<1> USE ReconnectsAssumption
<1>1. CASE Len(scripted) < MaxEntries
  BY <1>1 DEF Evicted
<1>2. CASE Len(scripted) = MaxEntries
  <2>1. scripted # <<>> /\ Evicted = Tail(scripted)
    BY <1>2 DEF Evicted
  <2>2. /\ Evicted \in Seq(Entries) /\ Len(Evicted) = Len(scripted) - 1
        /\ \A i \in 1..Len(Evicted) : Evicted[i] = scripted[i + 1]
    BY <2>1
  <2> QED
    BY <1>2, <2>1, <2>2 DEF OnePerId, Range
<1> QED
  BY <1>1, <1>2

\* Map.set: the entry of the id is the fresh one.
LEMMA EnteredFacts ==
    ASSUME NEW s \in Seq(Entries), OnePerId(s), NEW id \in Projects
    PROVE  /\ Entered(s, id) \in Seq(Entries)
           /\ OnePerId(Entered(s, id))
           /\ Len(Entered(s, id)) <= Len(s) + 1
           /\ Range(Entered(s, id))
                = {e \in Range(s) : e.id # id} \cup {[id |-> id, left |-> Expiry]}
<1> DEFINE fresh == [id |-> id, left |-> Expiry]
           n == Entered(s, id)
<1>0. fresh \in Entries /\ fresh.id = id
  BY ReconnectsAssumption DEF Entries
<1>1. CASE \E i \in DOMAIN s : s[i].id = id
  <2>1. n = [i \in DOMAIN s |-> IF s[i].id = id THEN fresh ELSE s[i]]
    BY <1>1 DEF Entered
  <2> HIDE DEF n, fresh
  <2>2. n \in Seq(Entries) /\ Len(n) = Len(s) /\ DOMAIN n = DOMAIN s
    BY <2>1, <1>0
  <2>3. OnePerId(n)
    BY <2>1, <1>0 DEF OnePerId
  <2>4. Range(n) = {e \in Range(s) : e.id # id} \cup {fresh}
    BY <2>1, <2>2, <1>1 DEF Range
  <2> QED
    BY <2>2, <2>3, <2>4 DEF n, fresh
<1>2. CASE ~ \E i \in DOMAIN s : s[i].id = id
  <2>1. n = Append(s, fresh)
    BY <1>2 DEF Entered
  <2> HIDE DEF n, fresh
  <2>2. /\ n \in Seq(Entries) /\ Len(n) = Len(s) + 1
        /\ \A i \in 1..Len(s) : n[i] = s[i]
        /\ n[Len(s) + 1] = fresh
    BY <2>1, <1>0
  <2>3. OnePerId(n)
    BY <2>2, <1>0, <1>2 DEF OnePerId
  <2>4. Range(n) = {e \in Range(s) : e.id # id} \cup {fresh}
    BY <2>2, <1>2 DEF Range
  <2> QED
    BY <2>2, <2>3, <2>4 DEF n, fresh
<1> QED
  BY <1>1, <1>2

-----------------------------------------------------------------------------
(* What the acceptor knows of reconnects *)

RecTypes ==
    /\ scripted \in Seq(Entries) /\ Len(scripted) <= MaxEntries
    /\ timers = Range(scripted)
    /\ due \in [Projects -> 0..Expiry]

\* An entry and the history of its announcement have the same time left.
RecInv ==
    /\ RecTypes
    /\ OnePerId(scripted)
    /\ \A e \in Range(scripted) : due[e.id] = e.left
    /\ \A id \in Projects : due[id] > 0 => \E e \in Range(scripted) : e.id = id

\* The marker is asked for once.
ContextInv ==
    /\ resolved \in BOOLEAN /\ marker \in BOOLEAN
    /\ excuses \in 0..1
    /\ excuses = 1 => resolved

LEMMA RangeOnePerId ==
    ASSUME NEW s \in Seq(Entries), OnePerId(s),
           NEW e \in Range(s), NEW f \in Range(s), e.id = f.id
    PROVE  e = f
BY DEF OnePerId, Range

LEMMA RangeTypes ==
    ASSUME NEW s \in Seq(Entries)
    PROVE  Range(s) \subseteq Entries
BY DEF Range

LEMMA RecordStep ==
    ASSUME RecInv, NEW id \in Projects, RecordWillReconnect(id)
    PROVE  RecInv'
<1> DEFINE ev == Evicted
           fresh == [id |-> id, left |-> Expiry]
<1> USE ReconnectsAssumption
<1>1. /\ ev \in Seq(Entries) /\ OnePerId(ev) /\ Len(ev) < MaxEntries
      /\ Range(ev) \subseteq Range(scripted)
  BY EvictedFacts DEF RecInv, RecTypes
<1>2. scripted' = Entered(ev, id)
  BY DEF RecordWillReconnect
<1>3. \A x : Kept(x) <=> \E e \in Range(ev) : e.id = x
  BY DEF Kept, Range
<1>4. /\ timers' = {u \in timers : u.id # id /\ Kept(u.id)} \cup {fresh}
      /\ due' = DueAfter(id)
  BY DEF RecordWillReconnect
<1> HIDE DEF ev
<1>5. /\ scripted' \in Seq(Entries) /\ OnePerId(scripted') /\ Len(scripted') <= Len(ev) + 1
      /\ Range(scripted') = {e \in Range(ev) : e.id # id} \cup {fresh}
  BY <1>1, <1>2, EnteredFacts
<1>6. Len(scripted') <= MaxEntries
  BY <1>1, <1>5
<1>7. \A e \in Range(scripted) : Kept(e.id) => e \in Range(ev)
  BY <1>1, <1>3, RangeOnePerId DEF RecInv, RecTypes
<1>8. timers' = Range(scripted')
  BY <1>1, <1>3, <1>4, <1>5, <1>7 DEF RecInv, RecTypes
<1>9. due' \in [Projects -> 0..Expiry]
  BY <1>4 DEF DueAfter, RecInv, RecTypes
<1>10. \A e \in Range(scripted') : due'[e.id] = e.left
  <2> SUFFICES ASSUME NEW e \in Range(scripted')
               PROVE  due'[e.id] = e.left
    OBVIOUS
  <2>1. CASE e = fresh
    BY <2>1, <1>4 DEF DueAfter
  <2>2. CASE e \in Range(ev) /\ e.id # id
    <3>1. e.id \in Projects
      BY <2>2, <1>1, RangeTypes DEF Entries
    <3> QED
      BY <3>1, <2>2, <1>1, <1>3, <1>4 DEF DueAfter, RecInv
  <2> QED
    BY <2>1, <2>2, <1>5
<1>11. \A x \in Projects : due'[x] > 0 => \E e \in Range(scripted') : e.id = x
  <2> SUFFICES ASSUME NEW x \in Projects, due'[x] > 0
               PROVE  \E e \in Range(scripted') : e.id = x
    OBVIOUS
  <2>1. CASE x = id
    <3>1. fresh \in Range(scripted') /\ fresh.id = x
      BY <2>1, <1>5
    <3> QED
      BY <3>1
  <2>2. CASE x # id
    <3>1. Kept(x)
      BY <2>2, <1>4 DEF DueAfter
    <3> QED
      BY <3>1, <2>2, <1>3, <1>5
  <2> QED
    BY <2>1, <2>2
<1> QED
  BY <1>5, <1>6, <1>8, <1>9, <1>10, <1>11 DEF RecInv, RecTypes

LEMMA ExpiryStep ==
    ASSUME RecInv, NEW u \in timers, ExpiryTimer(u)
    PROVE  RecInv'
<1>1. /\ u \in Range(scripted) /\ u.left = 0 /\ u.id \in Projects
      /\ timers' = timers \ {u} /\ scripted' = Without(scripted, u.id) /\ due' = due
  BY RangeTypes DEF ExpiryTimer, RecInv, RecTypes, Entries
<1>2. /\ scripted' \in Seq(Entries) /\ OnePerId(scripted')
      /\ Len(scripted') <= Len(scripted)
      /\ Range(scripted') = {e \in Range(scripted) : e.id # u.id}
  BY <1>1, WithoutFacts DEF RecInv, RecTypes
<1>3. Len(scripted') <= MaxEntries
  BY <1>2, ReconnectsAssumption DEF RecInv, RecTypes
<1>4. Range(scripted') = Range(scripted) \ {u}
  BY <1>1, <1>2, RangeOnePerId DEF RecInv, RecTypes
<1>5. due[u.id] = 0
  BY <1>1 DEF RecInv
<1> QED
  BY <1>1, <1>2, <1>3, <1>4, <1>5 DEF RecInv, RecTypes

LEMMA ClassifyStep ==
    ASSUME RecInv, NEW id \in Projects, Classify(id)
    PROVE  RecInv'
<1>1. due' = [due EXCEPT ![id] = 0] /\ due' \in [Projects -> 0..Expiry]
  BY ReconnectsAssumption DEF Classify, RecInv, RecTypes
<1>2. CASE Announced(id)
  <2>1. scripted' = Without(scripted, id) /\ timers' = {u \in timers : u.id # id}
    BY <1>2 DEF Classify
  <2>2. /\ scripted' \in Seq(Entries) /\ OnePerId(scripted')
        /\ Len(scripted') <= Len(scripted)
        /\ Range(scripted') = {e \in Range(scripted) : e.id # id}
    BY <2>1, WithoutFacts DEF RecInv, RecTypes
  <2>3. Len(scripted') <= MaxEntries
    BY <2>2, ReconnectsAssumption DEF RecInv, RecTypes
  <2>4. timers' = Range(scripted')
    BY <2>1, <2>2 DEF RecInv, RecTypes
  <2>5. Range(scripted) \subseteq Entries
    BY RangeTypes DEF RecInv, RecTypes
  <2>6. \A e \in Range(scripted') : due'[e.id] = e.left
    BY <1>1, <2>2, <2>5 DEF RecInv, RecTypes, Entries
  <2>7. \A x \in Projects : due'[x] > 0 => \E e \in Range(scripted') : e.id = x
    BY <1>1, <2>2 DEF RecInv, RecTypes
  <2> QED
    BY <1>1, <2>2, <2>3, <2>4, <2>6, <2>7 DEF RecInv, RecTypes
<1>3. CASE ~Announced(id)
  <2>1. scripted' = scripted /\ timers' = timers
    BY <1>3 DEF Classify
  <2>2. \A e \in Range(scripted) : e.id = id => e.left = 0
    BY <1>3, RangeTypes DEF Announced, Range, RecInv, RecTypes, Entries
  <2>3. Range(scripted) \subseteq Entries
    BY RangeTypes DEF RecInv, RecTypes
  <2>4. \A e \in Range(scripted) : due'[e.id] = e.left
    BY <1>1, <2>2, <2>3 DEF RecInv, RecTypes, Entries
  <2>5. \A x \in Projects : due'[x] > 0 => \E e \in Range(scripted) : e.id = x
    BY <1>1 DEF RecInv, RecTypes
  <2> QED
    BY <1>1, <2>1, <2>4, <2>5 DEF RecInv, RecTypes
<1> QED
  BY <1>2, <1>3

LEMMA PassedStep ==
    ASSUME RecInv, Passed
    PROVE  RecInv'
<1> DEFINE older(e) == [id |-> e.id, left |-> e.left - 1]
<1>1. \A e \in Range(scripted) : e \in Entries /\ e.left > 0
  BY RangeTypes DEF Passed, RecInv, RecTypes
<1>2. \A e \in Range(scripted) : older(e) \in Entries
  BY <1>1, ReconnectsAssumption DEF Entries
<1>3. \A i \in DOMAIN scripted : scripted[i] \in Range(scripted)
  BY DEF Range
<1>4. scripted' = [i \in DOMAIN scripted |-> older(scripted[i])]
  BY <1>1, <1>3 DEF Passed, Lower, Entries
<1>5. timers' = {older(e) : e \in Range(scripted)}
  BY <1>1 DEF Passed, RecInv, RecTypes, Entries
<1>6. due' = [id \in Projects |-> Lower(due[id])]
  BY DEF Passed
<1>7. scripted \in Seq(Entries)
  BY DEF RecInv, RecTypes
<1>8. /\ scripted' \in Seq(Entries) /\ Len(scripted') = Len(scripted)
      /\ DOMAIN scripted' = DOMAIN scripted
  BY <1>2, <1>3, <1>4, <1>7
<1>9. \A i \in DOMAIN scripted : scripted'[i].id = scripted[i].id
  BY <1>4
<1>10. OnePerId(scripted')
  BY <1>8, <1>9 DEF OnePerId, RecInv
<1>11. Range(scripted') = {older(e) : e \in Range(scripted)}
  BY <1>4 DEF Range
<1>12. due' \in [Projects -> 0..Expiry]
  BY <1>6, ReconnectsAssumption DEF Lower, RecInv, RecTypes
<1>13. \A e \in Range(scripted') : due'[e.id] = e.left
  BY <1>1, <1>6, <1>11 DEF Lower, RecInv, RecTypes, Entries
<1>14. \A x \in Projects : due'[x] > 0 => \E e \in Range(scripted') : e.id = x
  <2> SUFFICES ASSUME NEW x \in Projects, due'[x] > 0
               PROVE  \E e \in Range(scripted') : e.id = x
    OBVIOUS
  <2>1. due[x] > 0
    BY <1>6, ReconnectsAssumption DEF Lower, RecInv, RecTypes
  <2>2. PICK e \in Range(scripted) : e.id = x
    BY <2>1 DEF RecInv
  <2>3. older(e) \in Range(scripted') /\ older(e).id = x
    BY <1>11, <2>2
  <2> QED
    BY <2>3
<1> QED
  BY <1>5, <1>8, <1>10, <1>11, <1>12, <1>13, <1>14 DEF RecInv, RecTypes

LEMMA ForgottenStep ==
    ASSUME Forgotten
    PROVE  RecInv'
<1>1. scripted' = <<>> /\ timers' = {} /\ due' = [id \in Projects |-> 0]
  BY DEF Forgotten
<1>2. /\ <<>> \in Seq(Entries) /\ Len(<<>>) = 0 /\ Range(<<>>) = {}
      /\ OnePerId(<<>>)
  BY DEF Range, OnePerId
<1> QED
  BY <1>1, <1>2, ReconnectsAssumption DEF RecInv, RecTypes

\* The property, from the invariant.
LEMMA AnnouncedFromInv == RecInv => AnnouncedIsScripted
<1> SUFFICES ASSUME RecInv, NEW id \in Projects
             PROVE  Announced(id) <=> due[id] > 0
  BY DEF AnnouncedIsScripted
<1>1. Announced(id) <=> \E e \in Range(scripted) : e.id = id /\ e.left > 0
  BY DEF Announced, Range
<1> QED
  BY <1>1 DEF RecInv

-----------------------------------------------------------------------------
(* Proxy *)

ProxyTypes ==
    /\ project \in Assignments
    /\ pc \in [Proxies -> PCs]
    /\ sock \in [Proxies -> Sockets]
    /\ toDaemon \in [Proxies -> Seq(Frames)]
    /\ ack \in [Proxies -> BOOLEAN]
    /\ call \in [Proxies -> {"none", "pending", "settled"}]
    /\ helper \in [Proxies -> BOOLEAN]
    /\ deaf \in [Proxies -> BOOLEAN]
    /\ daemon \in {"down", "booting", "up", "closing", "unlinked"}
    /\ launches \in 0..MaxLaunches /\ boots \in 0..MaxBoots

IInv == ProxyTypes /\ RecInv /\ ContextInv

\* A step that leaves the acceptor's knowledge of reconnects alone.
LEMMA RecUnchanged ==
    ASSUME RecInv, ContextInv, UNCHANGED recVars
    PROVE  RecInv' /\ ContextInv'
BY DEF recVars, RecInv, RecTypes, ContextInv

LEMMA ForgottenContext ==
    ASSUME ContextInv, Forgotten, UNCHANGED marker
    PROVE  ContextInv'
<1>1. excuses' = 0
  BY DEF Forgotten
<1>2. resolved' \in BOOLEAN /\ marker' \in BOOLEAN
  BY Zenon DEF Forgotten, ContextInv
<1> QED
  BY <1>1, <1>2 DEF ContextInv

LEMMA ClassifyContext ==
    ASSUME ContextInv, NEW id, Classify(id)
    PROVE  ContextInv'
<1>1. resolved' \in BOOLEAN /\ marker' \in BOOLEAN
  BY Zenon DEF Classify, PostBootContext, ContextInv
<1>2. \/ excuses' = excuses /\ (resolved => resolved')
      \/ excuses' = excuses + 1 /\ ~resolved /\ resolved'
  <2>1. CASE PostBootContext
    BY <2>1, Zenon DEF PostBootContext
  <2>2. CASE UNCHANGED <<resolved, marker, excuses>>
    BY <2>2
  <2> QED
    BY <2>1, <2>2 DEF Classify
<1> QED
  BY <1>1, <1>2 DEF ContextInv

LEMMA InitIInv == Init => IInv
<1> SUFFICES ASSUME Init PROVE IInv
  OBVIOUS
<1>1. /\ <<>> \in Seq(Entries) /\ Len(<<>>) = 0 /\ Range(<<>>) = {}
      /\ OnePerId(<<>>)
  BY DEF Range, OnePerId
<1>2. RecInv
  BY <1>1, ReconnectsAssumption DEF Init, NothingAnnounced, RecInv, RecTypes
<1>3. ContextInv
  <2>1. excuses = 0
    BY DEF Init, NothingAnnounced
  <2>2. resolved \in BOOLEAN /\ marker \in BOOLEAN
    BY Zenon DEF Init, NothingAnnounced
  <2> QED
    BY <2>1, <2>2 DEF ContextInv
<1>4. ProxyTypes
  BY ProxyAssumption DEF Init, ProxyTypes, PCs, Sockets
<1> QED
  BY <1>2, <1>3, <1>4 DEF IInv

LEMMA WireTypes ==
    ASSUME ProxyTypes, NEW p \in Proxies, NEW f \in Frames, Wire(p, f)
    PROVE  toDaemon' \in [Proxies -> Seq(Frames)]
<1>1. toDaemon[p] \in Seq(Frames)
  BY DEF ProxyTypes
<1>2. Append(toDaemon[p], f) \in Seq(Frames)
  BY <1>1
<1> QED
  BY <1>2 DEF Wire, ProxyTypes

LEMMA GoneTypes ==
    ASSUME ProxyTypes, NEW p \in Proxies, Gone(p)
    PROVE  ProxyTypes'
<1>1. toDaemon' \in [Proxies -> Seq(Frames)]
  BY WireTypes DEF Gone, Frames, ProxyTypes
<1>2. sock' \in [Proxies -> Sockets]
  BY DEF Gone, ProxyTypes, Sockets
<1>3. pc' \in [Proxies -> PCs]
  BY DEF Gone, Goto, ProxyTypes, PCs
<1> QED
  BY <1>1, <1>2, <1>3 DEF Gone, ProxyTypes, outside, life

\* The steps of the processes and of the network.
LEMMA ProxyTypesStep ==
    ASSUME ProxyTypes, NEW p \in Proxies,
           \/ ProxySteps(p) \/ Launch(p) \/ Call(p) \/ CallAnswered(p) \/ Reload(p)
           \/ Killed(p) \/ HelperRuns(p) \/ DaemonReads(p) \/ DaemonHangsUp(p)
    PROVE  ProxyTypes'
<1> USE ProxyAssumption
    DEF ProxyTypes, outside, link, told, life, proxyVars, Sockets
<1>0. \A f \in Frames, q \in Seq(Frames) : Append(q, f) \in Seq(Frames)
  OBVIOUS
<1>00. /\ {"none", "connect", "spawned", "awaitAck", "serving", "exiting", "leaving",
           "exited"} = PCs
       /\ {"session_init", "will_reconnect", "end"} = Frames
  BY DEF PCs, Frames
<1>1. ASSUME Connect(p) PROVE ProxyTypes'
  BY <1>1, <1>0, <1>00 DEF Connect, Goto, Wire
<1>2. ASSUME ConnectFails(p) PROVE ProxyTypes'
  BY <1>2, <1>0, <1>00 DEF ConnectFails, Goto
<1>3. ASSUME AckTimeout(p) PROVE ProxyTypes'
  BY <1>3, <1>0, <1>00 DEF AckTimeout, Goto
<1>4. ASSUME AckArrives(p) PROVE ProxyTypes'
  BY <1>4, <1>0, <1>00 DEF AckArrives, Goto
<1>5. ASSUME CallTimeout(p) PROVE ProxyTypes'
  BY <1>5, <1>0, <1>00 DEF CallTimeout
<1>6. ASSUME Close(p) PROVE ProxyTypes'
  BY <1>6, <1>0, <1>00 DEF Close, Goto
<1>7. ASSUME ExitTimer(p) PROVE ProxyTypes'
  BY <1>7, GoneTypes DEF ExitTimer
<1>8. ASSUME Left(p) PROVE ProxyTypes'
  BY <1>8, GoneTypes DEF Left
<1>9. ASSUME Launch(p) PROVE ProxyTypes'
  BY <1>9, <1>0, <1>00 DEF Launch, Goto
<1>10. ASSUME Call(p) PROVE ProxyTypes'
  BY <1>10, <1>0, <1>00 DEF Call
<1>11. ASSUME CallAnswered(p) PROVE ProxyTypes'
  BY <1>11, <1>0, <1>00 DEF CallAnswered
<1>12. ASSUME Reload(p) PROVE ProxyTypes'
  <2>1. toDaemon' \in [Proxies -> Seq(Frames)]
    BY <1>12, <1>00, WireTypes DEF Reload
  <2> QED
    BY <1>12, <1>00, <2>1 DEF Reload, Goto
<1>13. ASSUME Killed(p) PROVE ProxyTypes'
  BY <1>13, GoneTypes DEF Killed
<1>14. ASSUME HelperRuns(p) PROVE ProxyTypes'
  BY <1>14, <1>0, <1>00 DEF HelperRuns
<1>15. ASSUME DaemonReads(p) PROVE ProxyTypes'
  <2>1. /\ toDaemon[p] # <<>> /\ toDaemon[p] \in Seq(Frames)
        /\ toDaemon' = [toDaemon EXCEPT ![p] = Tail(@)]
    BY <1>15 DEF DaemonReads
  <2>2. toDaemon' \in [Proxies -> Seq(Frames)]
    BY <2>1
  <2>3. sock' \in [Proxies -> Sockets] /\ ack' \in [Proxies -> BOOLEAN]
    BY <1>15 DEF DaemonReads
  <2> QED
    BY <1>15, <2>2, <2>3 DEF DaemonReads
<1>16. ASSUME DaemonHangsUp(p) PROVE ProxyTypes'
  BY <1>16, <1>0, <1>00 DEF DaemonHangsUp, HungUp
<1> QED
  BY <1>1, <1>2, <1>3, <1>4, <1>5, <1>6, <1>7, <1>8, <1>9, <1>10, <1>11, <1>12, <1>13, <1>14, <1>15, <1>16 DEF ProxySteps

LEMMA ProxyRecStep ==
    ASSUME IInv, NEW p \in Proxies,
           \/ ProxySteps(p) \/ Launch(p) \/ Call(p) \/ CallAnswered(p) \/ Reload(p)
           \/ Killed(p) \/ HelperRuns(p) \/ DaemonReads(p) \/ DaemonHangsUp(p)
    PROVE  RecInv' /\ ContextInv'
<1> USE DEF IInv
<1>1. project[p] \in Projects
  BY ProxyAssumption DEF ProxyTypes
<1>2. CASE DaemonReads(p)
  <2>1. CASE Classify(project[p])
    BY <1>1, <2>1, ClassifyStep, ClassifyContext
  <2>2. CASE RecordWillReconnect(project[p])
    <3>1. ContextInv'
      BY <2>2 DEF RecordWillReconnect, ContextInv
    <3> QED
      BY <1>1, <2>2, <3>1, RecordStep
  <2>3. CASE UNCHANGED recVars
    BY <2>3, RecUnchanged
  <2> QED
    BY <1>2, <2>1, <2>2, <2>3 DEF DaemonReads
<1>3. CASE ~DaemonReads(p)
  <2>1. UNCHANGED recVars
    BY <1>3 DEF ProxySteps, Launch, Call, CallAnswered, Reload, Killed, HelperRuns,
         DaemonHangsUp, Connect, ConnectFails, AckTimeout, AckArrives, CallTimeout, Close,
         ExitTimer, Left, Gone, outside
  <2> QED
    BY <2>1, RecUnchanged
<1> QED
  BY <1>2, <1>3

\* The daemon's own steps.
LEMMA DaemonStep ==
    ASSUME IInv,
           \/ LaunchdStarts \/ DaemonListens \/ Sigterm \/ StopOtherwise
           \/ UnlinkSocket \/ DaemonEnds \/ ExpiryFires \/ Tick
    PROVE  IInv'
<1> USE DEF IInv
<1>1. ASSUME LaunchdStarts PROVE IInv'
  <2>1. ProxyTypes'
    BY <1>1, ProxyAssumption DEF LaunchdStarts, ProxyTypes, proxyVars, link, told
  <2> QED
    BY <1>1, <2>1, RecUnchanged DEF LaunchdStarts
<1>2. ASSUME DaemonListens PROVE IInv'
  <2>1. ProxyTypes'
    BY <1>2 DEF DaemonListens, ProxyTypes, proxyVars, link, told
  <2> QED
    BY <1>2, <2>1, ForgottenStep, ForgottenContext DEF DaemonListens
<1>3. ASSUME Sigterm PROVE IInv'
  <2>1. ProxyTypes'
    BY <1>3 DEF Sigterm, ProxyTypes, proxyVars, link, told
  <2>2. ContextInv' /\ RecInv'
    BY <1>3 DEF Sigterm, WriteShutdownMarker, ContextInv, RecInv, RecTypes
  <2> QED
    BY <2>1, <2>2
<1>4. ASSUME StopOtherwise PROVE IInv'
  <2>1. ProxyTypes'
    BY <1>4 DEF StopOtherwise, ProxyTypes, proxyVars, link, told
  <2> QED
    BY <1>4, <2>1, RecUnchanged DEF StopOtherwise
<1>5. ASSUME UnlinkSocket PROVE IInv'
  <2>1. ProxyTypes'
    BY <1>5 DEF UnlinkSocket, ProxyTypes, proxyVars, link, told
  <2> QED
    BY <1>5, <2>1, RecUnchanged DEF UnlinkSocket
<1>6. ASSUME DaemonEnds PROVE IInv'
  <2>1. <<>> \in Seq(Frames)
    OBVIOUS
  <2>2. ProxyTypes'
    BY <1>6, <2>1 DEF DaemonEnds, HungUp, ProxyTypes, told, Sockets
  <2> QED
    BY <1>6, <2>2, ForgottenStep, ForgottenContext DEF DaemonEnds
<1>7. ASSUME ExpiryFires PROVE IInv'
  <2>1. ProxyTypes'
    BY <1>7 DEF ExpiryFires, ProxyTypes, proxyVars, link, told, life
  <2>2. ContextInv'
    BY <1>7 DEF ExpiryFires, ExpiryTimer, ContextInv
  <2> QED
    BY <1>7, <2>1, <2>2, ExpiryStep DEF ExpiryFires
<1>8. ASSUME Tick PROVE IInv'
  <2>1. ProxyTypes'
    BY <1>8 DEF Tick, ProxyTypes, proxyVars, link, told, life
  <2>2. ContextInv'
    BY <1>8 DEF Tick, Passed, ContextInv
  <2> QED
    BY <1>8, <2>1, <2>2, PassedStep DEF Tick
<1> QED
  BY <1>1, <1>2, <1>3, <1>4, <1>5, <1>6, <1>7, <1>8

LEMMA NextIInv == IInv /\ [Next]_vars => IInv'
<1> SUFFICES ASSUME IInv, [Next]_vars PROVE IInv'
  OBVIOUS
<1>1. CASE UNCHANGED vars
  <2>1. ProxyTypes'
    BY <1>1 DEF vars, proxyVars, link, told, outside, life, IInv, ProxyTypes
  <2> QED
    BY <1>1, <2>1, RecUnchanged DEF vars, outside, IInv
<1>2. ASSUME NEW p \in Proxies,
             \/ ProxySteps(p) \/ Launch(p) \/ Call(p) \/ CallAnswered(p) \/ Reload(p)
             \/ Killed(p) \/ HelperRuns(p) \/ DaemonReads(p) \/ DaemonHangsUp(p)
      PROVE  IInv'
  BY <1>2, ProxyTypesStep, ProxyRecStep DEF IInv
<1> QED
  BY <1>1, <1>2, DaemonStep DEF Next

LEMMA Inductive == Spec => []IInv
<1> QED
  BY InitIInv, NextIInv, PTL DEF Spec

-----------------------------------------------------------------------------
(* Theorems *)

\* Every process is at a step of the code, the map of announced reconnects never
\* exceeds its cap, and each of its entries has one timer.
THEOREM TypeCorrect == Spec => []TypeOK
<1>1. IInv => TypeOK
  <2> SUFFICES ASSUME IInv PROVE TypeOK
    OBVIOUS
  <2>1. Range(scripted) \subseteq [id : Projects, left : 0..Expiry]
    BY RangeTypes DEF IInv, RecInv, RecTypes, Entries
  <2>2. \A p \in Proxies : Range(toDaemon[p]) \subseteq Frames
    BY DEF IInv, ProxyTypes, Range
  <2> QED
    BY <2>1, <2>2 DEF IInv, TypeOK, ProxyTypes, RecInv, RecTypes, ContextInv
<1> QED
  BY <1>1, Inductive, PTL

\* AC-23 for any number of sessions and projects: an announced reconnect that
\* nobody used is known for as long as it should, and no longer.
THEOREM AnnouncedKnown == Spec => []AnnouncedIsScripted
<1>1. IInv => AnnouncedIsScripted
  BY AnnouncedFromInv DEF IInv
<1> QED
  BY <1>1, Inductive, PTL

\* However many daemons come and go, each excuses one session.
THEOREM OneExcused == Spec => []BootExcusesOne
<1>1. IInv => BootExcusesOne
  BY DEF IInv, ContextInv, BootExcusesOne
<1> QED
  BY <1>1, Inductive, PTL
=============================================================================
