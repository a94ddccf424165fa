--------------------------- MODULE SessionsProofs ---------------------------
(***************************************************************************)
(* Theorems about Sessions, for any number of connections, shortids and    *)
(* texts: the lists that are kept by events agree, and what the admin      *)
(* sends reaches one session, in order.                                    *)
(***************************************************************************)
EXTENDS Sessions, FiniteSetTheorems, FunctionTheorems,
        SequenceTheorems, TLAPS

Inj(s) == \A i, j \in 1..Len(s) : s[i] = s[j] => i = j

-----------------------------------------------------------------------------
(* The registry's list as a sequence *)

LEMMA SpliceFacts ==
    ASSUME NEW s \in Seq(Conns), Inj(s), NEW k \in 1..Len(s)
    PROVE  /\ Splice(s, k) \in Seq(Conns)
           /\ Len(Splice(s, k)) = Len(s) - 1
           /\ Inj(Splice(s, k))
           /\ Elements(Splice(s, k)) = Elements(s) \ {s[k]}
           /\ k > 1 => Splice(s, k)[1] = s[1]
<1> DEFINE z == Splice(s, k)
<1>1. Len(s) \in Nat /\ Len(s) >= 1
  OBVIOUS
<1>2. /\ z \in Seq(Conns) /\ Len(z) = Len(s) - 1
      /\ \A i \in 1..Len(z) : z[i] = IF i < k THEN s[i] ELSE s[i + 1]
  BY <1>1 DEF Splice
<1> HIDE DEF z
<1>3. Inj(z)
  BY <1>1, <1>2 DEF Inj
<1>4. Elements(z) \subseteq Elements(s) \ {s[k]}
  <2> SUFFICES ASSUME NEW i \in 1..Len(z)
               PROVE  z[i] \in Elements(s) \ {s[k]}
    BY DEF Elements
  <2>1. CASE i < k
    <3>1. i \in 1..Len(s) /\ z[i] = s[i] /\ i # k
      BY <1>1, <1>2, <2>1
    <3> QED
      BY <3>1 DEF Inj, Elements
  <2>2. CASE ~(i < k)
    <3>1. i + 1 \in 1..Len(s) /\ z[i] = s[i + 1] /\ i + 1 # k
      BY <1>1, <1>2, <2>2
    <3> QED
      BY <3>1 DEF Inj, Elements
  <2> QED
    BY <2>1, <2>2
<1>5. Elements(s) \ {s[k]} \subseteq Elements(z)
  <2> SUFFICES ASSUME NEW i \in 1..Len(s), s[i] # s[k]
               PROVE  s[i] \in Elements(z)
    BY DEF Elements
  <2>1. CASE i < k
    <3>1. i \in 1..Len(z) /\ z[i] = s[i]
      BY <1>1, <1>2, <2>1
    <3> QED
      BY <3>1 DEF Elements
  <2>2. CASE i > k
    <3>1. i - 1 \in 1..Len(z) /\ z[i - 1] = s[i]
      BY <1>1, <1>2, <2>2
    <3> QED
      BY <3>1 DEF Elements
  <2> QED
    BY <2>1, <2>2
<1>6. k > 1 => z[1] = s[1]
  BY <1>1, <1>2
<1> QED
  BY <1>2, <1>3, <1>4, <1>5, <1>6 DEF z

LEMMA ConsFacts ==
    ASSUME NEW s \in Seq(Conns), Inj(s), NEW c \in Conns, c \notin Elements(s)
    PROVE  /\ <<c>> \o s \in Seq(Conns)
           /\ Len(<<c>> \o s) = Len(s) + 1
           /\ Inj(<<c>> \o s)
           /\ Elements(<<c>> \o s) = Elements(s) \cup {c}
           /\ (<<c>> \o s)[1] = c
<1> DEFINE z == <<c>> \o s
<1>1. /\ z \in Seq(Conns) /\ Len(z) = Len(s) + 1 /\ Len(s) \in Nat
      /\ \A i \in 1..Len(z) : z[i] = IF i = 1 THEN c ELSE s[i - 1]
  OBVIOUS
<1> HIDE DEF z
<1>2. \A i \in 1..Len(s) : s[i] # c
  BY DEF Elements
<1>3. Inj(z)
  BY <1>1, <1>2 DEF Inj
<1>4. Elements(z) \subseteq Elements(s) \cup {c}
  BY <1>1 DEF Elements
<1>5. Elements(s) \cup {c} \subseteq Elements(z)
  <2>1. c \in Elements(z)
    <3>1. 1 \in 1..Len(z) /\ z[1] = c
      BY <1>1
    <3> QED
      BY <3>1 DEF Elements
  <2>2. ASSUME NEW i \in 1..Len(s)
        PROVE  s[i] \in Elements(z)
    <3>1. i + 1 \in 1..Len(z) /\ z[i + 1] = s[i]
      BY <1>1
    <3> QED
      BY <3>1 DEF Elements
  <2> QED
    BY <2>1, <2>2 DEF Elements
<1>6. z[1] = c
  BY <1>1
<1> QED
  BY <1>1, <1>3, <1>4, <1>5, <1>6 DEF z

\* A session is at one place of the list.
LEMMA FoundOne ==
    ASSUME NEW s \in Seq(Conns), Inj(s), NEW x, Found(s, {x})
    PROVE  FindIndex(s, {x}) \in 1..Len(s) /\ s[FindIndex(s, {x})] = x
<1>1. PICK k \in 1..Len(s) : s[k] = x
  BY DEF Found
<1>2. \A j \in 1..(k - 1) : s[j] \notin {x}
  BY <1>1 DEF Inj
<1>3. \E i \in 1..Len(s) : s[i] \in {x} /\ \A j \in 1..(i - 1) : s[j] \notin {x}
  BY <1>1, <1>2
<1> QED
  BY <1>3 DEF FindIndex

\* If the head is in S, it is what findIndex finds.
LEMMA FoundHead ==
    ASSUME NEW s \in Seq(Conns), NEW S, s # <<>>, s[1] \in S
    PROVE  Found(s, S) /\ FindIndex(s, S) = 1
<1>1. 1 \in 1..Len(s) /\ Len(s) \in Nat
  OBVIOUS
<1>2. \A j \in 1..(1 - 1) : s[j] \notin S
  OBVIOUS
<1>3. \A k \in 1..Len(s) : (s[k] \in S /\ \A j \in 1..(k - 1) : s[j] \notin S) => k = 1
  BY <1>1
<1> QED
  BY <1>1, <1>2, <1>3 DEF Found, FindIndex

LEMMA InjCardinality ==
    ASSUME NEW s \in Seq(Conns), Inj(s)
    PROVE  Cardinality(Elements(s)) = Len(s)
<1> DEFINE f == [i \in 1..Len(s) |-> s[i]]
<1>1. f \in Bijection(1..Len(s), Elements(s))
  BY DEF Inj, Elements, Bijection, Injection, Surjection, IsInjective
<1>2. ExistsBijection(1..Len(s), Elements(s))
  BY <1>1 DEF ExistsBijection
<1>3. Len(s) \in Nat
  OBVIOUS
<1> QED
  BY <1>2, <1>3, FS_CountingElements

-----------------------------------------------------------------------------
(* The acceptor, the registry and the watchdog agree *)

RegTypes ==
    /\ sock \in [Conns -> {"new", "init", "open", "ending", "closed"}]
    /\ shortid \in [Conns -> Shortids \union {Nobody}]
    /\ order \in Seq(Conns) /\ Len(order) <= Capacity /\ Inj(order)
    /\ gate \in {"closed", "open", "waiting"}
    /\ throttled \in BOOLEAN
    /\ refused \in [Conns -> {"no", "waiting", "capacity"}]
    /\ lastUsed \in Conns \union {Nobody}

\* The map is the connections that said session_init and are not closed.
MapInv ==
    /\ sessionMap = {c \in Conns : sock[c] \in {"open", "ending"}}
    /\ Registered \subseteq sessionMap
    /\ {c \in Conns : sock[c] = "open"} \subseteq Registered
    /\ clients = Cardinality(sessionMap)
    /\ \A c, d \in sessionMap : shortid[c] = shortid[d] => c = d

\* Whoever is being closed was turned away.
RefusedInv ==
    \A c \in Conns :
        /\ refused[c] # "no" => sock[c] \in {"ending", "closed"}
        /\ refused[c] = "capacity" => c \notin Registered
        /\ sock[c] = "ending" => refused[c] # "no"

ListInv == RegTypes /\ MapInv /\ RefusedInv /\ FocusIsLastUsed

LEMMA MapFinite == ASSUME MapInv PROVE IsFiniteSet(sessionMap) /\ Cardinality(sessionMap) \in Nat
BY SessionsAssumption, FS_Subset, FS_CardinalityType DEF MapInv

LEMMA InitListInv == Init => ListInv
<1> SUFFICES ASSUME Init PROVE ListInv
  OBVIOUS
<1>1. RegTypes
  <2>1. order \in Seq(Conns) /\ Len(order) = 0 /\ Inj(order)
    BY DEF Init, Inj
  <2>2. Len(order) <= Capacity
    BY <2>1, SessionsAssumption
  <2> QED
    BY <2>1, <2>2 DEF Init, RegTypes
<1>2. Registered = {} /\ Cardinality({}) = 0
  BY FS_EmptySet DEF Init, Registered, Elements
<1>3. MapInv /\ RefusedInv
  BY <1>2 DEF Init, MapInv, RefusedInv
<1>4. FocusIsLastUsed
  BY <1>2 DEF FocusIsLastUsed
<1> QED
  BY <1>1, <1>3, <1>4 DEF ListInv

\* What leaves the list, the map and the sockets of the sessions alone.
LEMMA ListKept ==
    ASSUME ListInv,
           UNCHANGED <<shortid, sessionMap, refused, order, lastUsed, clients>>,
           gate' \in {"closed", "open", "waiting"}, throttled' \in BOOLEAN,
           sock' \in [Conns -> {"new", "init", "open", "ending", "closed"}],
           \A c \in Conns : sock'[c] = sock[c]
                               \/ (sock[c] \in {"new", "init"} /\ sock'[c] \in {"init", "closed"})
    PROVE  ListInv'
<1>1. RegTypes'
  BY DEF ListInv, RegTypes
<1>2. Registered' = Registered
  BY DEF Registered, Elements
<1>3. {c \in Conns : sock'[c] \in {"open", "ending"}} = {c \in Conns : sock[c] \in {"open", "ending"}}
  OBVIOUS
<1>4. \A c \in Conns : /\ sock'[c] = "open" => sock[c] = "open"
                       /\ sock'[c] = "ending" => sock[c] = "ending"
                       /\ sock[c] \in {"ending", "closed"} => sock'[c] \in {"ending", "closed"}
  OBVIOUS
<1>5. MapInv'
  BY <1>2, <1>3, <1>4 DEF ListInv, MapInv
<1>6. RefusedInv'
  BY <1>2, <1>4 DEF ListInv, RefusedInv
<1>7. FocusIsLastUsed'
  BY <1>2 DEF ListInv, FocusIsLastUsed
<1> QED
  BY <1>1, <1>5, <1>6, <1>7 DEF ListInv

\* bumpActivity reorders the list, and its head is the one that was active.
LEMMA BumpKeeps ==
    ASSUME ListInv, NEW x, Bump(x),
           UNCHANGED <<sock, shortid, sessionMap, refused, clients, gate, throttled>>
    PROVE  ListInv'
<1>1. CASE ~Found(order, {x})
  <2>1. UNCHANGED <<order, lastUsed>>
    BY <1>1 DEF Bump
  <2> QED
    BY <2>1, ListKept DEF ListInv, RegTypes
<1>2. CASE Found(order, {x})
  <2> DEFINE k == FindIndex(order, {x})
             s == Splice(order, k)
  <2>1. /\ order \in Seq(Conns) /\ Inj(order) /\ Len(order) \in Nat
        /\ k \in 1..Len(order) /\ order[k] = x /\ x \in Conns /\ x \in Registered
    <3>1. order \in Seq(Conns) /\ Inj(order)
      BY DEF ListInv, RegTypes
    <3>2. k \in 1..Len(order) /\ order[k] = x
      BY <1>2, <3>1, FoundOne
    <3> HIDE DEF k
    <3> QED
      BY <3>1, <3>2 DEF Registered, Elements
  <2>2. order' = <<x>> \o s /\ lastUsed' = x
    BY <1>2 DEF Bump
  <2> HIDE DEF k
  <2>3. /\ s \in Seq(Conns) /\ Inj(s) /\ Len(s) = Len(order) - 1
        /\ Elements(s) = Elements(order) \ {x}
    BY <2>1, SpliceFacts
  <2> HIDE DEF s
  <2>4. /\ order' \in Seq(Conns) /\ Inj(order') /\ Len(order') = Len(order)
        /\ Elements(order') = Elements(s) \cup {x} /\ order'[1] = x
    <3>1. x \notin Elements(s)
      BY <2>3
    <3>2. Len(s) + 1 = Len(order)
      BY <2>1, <2>3
    <3> QED
      BY <2>1, <2>2, <2>3, <3>1, <3>2, ConsFacts
  <2>5. Registered' = Registered
    BY <2>1, <2>3, <2>4 DEF Registered
  <2>6. RegTypes'
    BY <2>1, <2>2, <2>4 DEF ListInv, RegTypes, Inj
  <2>7. MapInv' /\ RefusedInv'
    BY <2>5 DEF ListInv, MapInv, RefusedInv
  <2>8. FocusIsLastUsed'
    BY <2>2, <2>4 DEF FocusIsLastUsed
  <2> QED
    BY <2>6, <2>7, <2>8 DEF ListInv
<1> QED
  BY <1>1, <1>2

LEMMA SessionInitList ==
    ASSUME ListInv, NEW c \in Conns, SessionInit(c)
    PROVE  ListInv'
<1>1. PICK id \in Shortids \ InUse : shortid' = [shortid EXCEPT ![c] = id]
  BY DEF SessionInit
<1>2. PICK reason \in {"no", "waiting", "capacity"} :
        /\ reason = IF TurnedAway THEN "waiting" ELSE IF Full THEN "capacity" ELSE "no"
        /\ refused' = [refused EXCEPT ![c] = reason]
        /\ sock' = [sock EXCEPT ![c] = IF reason = "no" THEN "open" ELSE "ending"]
  BY DEF SessionInit
<1>3. /\ sock[c] = "init" /\ sessionMap' = sessionMap \cup {c} /\ clients' = clients + 1
      /\ Register(c) /\ UNCHANGED <<gate, throttled>>
  BY DEF SessionInit
<1>4. c \notin sessionMap /\ c \notin Registered
  BY <1>3 DEF ListInv, MapInv
<1>5. /\ order' \in Seq(Conns) /\ Inj(order') /\ Len(order') <= Capacity
      /\ Elements(order') = IF Full THEN Registered ELSE Registered \cup {c}
      /\ ~Full => order'[1] = c /\ lastUsed' = c
      /\ Full => order' = order /\ lastUsed' = lastUsed
  <2>1. order \in Seq(Conns) /\ Inj(order) /\ Len(order) \in Nat /\ Len(order) <= Capacity
    BY DEF ListInv, RegTypes
  <2>2. CASE Full
    <3>1. order' = order /\ lastUsed' = lastUsed
      BY <1>3, <2>2 DEF Register
    <3> QED
      BY <2>1, <2>2, <3>1 DEF Registered
  <2>3. CASE ~Full
    <3>1. order' = <<c>> \o order /\ lastUsed' = c
      BY <1>3, <2>3 DEF Register
    <3>2. /\ order' \in Seq(Conns) /\ Inj(order') /\ Len(order') = Len(order) + 1
          /\ Elements(order') = Elements(order) \cup {c} /\ order'[1] = c
      BY <1>4, <2>1, <3>1, ConsFacts DEF Registered
    <3>3. Len(order') <= Capacity
      BY <2>1, <2>3, <3>2, SessionsAssumption DEF Full
    <3> QED
      BY <2>3, <3>1, <3>2, <3>3 DEF Registered
  <2> QED
    BY <2>2, <2>3
<1>6. Registered' = IF Full THEN Registered ELSE Registered \cup {c}
  BY <1>5 DEF Registered
<1>7. /\ sock' \in [Conns -> {"new", "init", "open", "ending", "closed"}]
      /\ \A d \in Conns \ {c} : sock'[d] = sock[d] /\ refused'[d] = refused[d]
      /\ sock'[c] \in {"open", "ending"} /\ refused'[c] = reason
      /\ sock'[c] = "open" <=> reason = "no"
      /\ refused' \in [Conns -> {"no", "waiting", "capacity"}]
  BY <1>2 DEF ListInv, RegTypes
<1>8. RegTypes'
  <2>1. shortid' \in [Conns -> Shortids \union {Nobody}]
    BY <1>1 DEF ListInv, RegTypes
  <2>2. lastUsed' \in Conns \union {Nobody}
    BY <1>5 DEF ListInv, RegTypes
  <2> QED
    BY <1>3, <1>5, <1>7, <2>1, <2>2 DEF ListInv, RegTypes, Inj
<1>9. MapInv'
  <2>1. sessionMap' = {d \in Conns : sock'[d] \in {"open", "ending"}}
    BY <1>3, <1>7 DEF ListInv, MapInv
  <2>2. Registered' \subseteq sessionMap'
    BY <1>3, <1>6 DEF ListInv, MapInv
  <2>3. {d \in Conns : sock'[d] = "open"} \subseteq Registered'
    <3>1. sock'[c] = "open" => ~Full
      BY <1>2, <1>7
    <3> QED
      BY <1>6, <1>7, <3>1 DEF ListInv, MapInv
  <2>4. clients' = Cardinality(sessionMap')
    <3>1. clients = Cardinality(sessionMap) /\ IsFiniteSet(sessionMap)
      BY MapFinite DEF ListInv, MapInv
    <3>2. Cardinality(sessionMap \cup {c}) = Cardinality(sessionMap) + 1
      BY <1>4, <3>1, FS_AddElement
    <3> QED
      BY <1>3, <3>1, <3>2
  <2>5. \A d, e \in sessionMap' : shortid'[d] = shortid'[e] => d = e
    <3>1. shortid'[c] = id /\ \A d \in Conns \ {c} : shortid'[d] = shortid[d]
      BY <1>1 DEF ListInv, RegTypes
    <3>2. sessionMap \subseteq Conns \ {c}
      BY <1>4 DEF ListInv, MapInv
    <3>3. \A d \in sessionMap : shortid'[d] = shortid[d] /\ shortid[d] # id
      BY <3>1, <3>2 DEF InUse
    <3> QED
      BY <1>3, <3>1, <3>3 DEF ListInv, MapInv
  <2> QED
    BY <2>1, <2>2, <2>3, <2>4, <2>5 DEF MapInv
<1>10. RefusedInv'
  <2>1. reason = "capacity" => Full
    BY <1>2
  <2> QED
    BY <1>4, <1>6, <1>7, <2>1 DEF ListInv, RefusedInv
<1>11. FocusIsLastUsed'
  BY <1>5, <1>6 DEF ListInv, FocusIsLastUsed
<1> QED
  BY <1>8, <1>9, <1>10, <1>11 DEF ListInv

LEMMA CleanupList ==
    ASSUME ListInv, NEW c \in Conns, sock[c] \in {"init", "open", "ending"}, Cleanup(c)
    PROVE  ListInv'
<1>1. /\ sock' = [sock EXCEPT ![c] = "closed"] /\ sessionMap' = sessionMap \ {c}
      /\ IF c \in sessionMap THEN Unregister(c) ELSE UNCHANGED order
      /\ clients' = IF c \in sessionMap /\ clients > 0 THEN clients - 1 ELSE clients
      /\ UNCHANGED <<shortid, refused, throttled, lastUsed, gate>>
  BY DEF Cleanup, ClientGone
<1>2. order \in Seq(Conns) /\ Inj(order) /\ Len(order) \in Nat /\ Len(order) <= Capacity
  BY DEF ListInv, RegTypes
<1>3. /\ order' \in Seq(Conns) /\ Inj(order') /\ Len(order') <= Capacity
      /\ Elements(order') = Registered \ {c}
      /\ order' # order /\ order[1] # c => order'[1] = order[1]
  <2>1. CASE c \in Registered
    <3> DEFINE k == FindIndex(order, {c})
    <3>1. Found(order, {c})
      BY <2>1 DEF Registered, Elements, Found
    <3>2. c \in sessionMap /\ order' = Splice(order, k)
      BY <1>1, <2>1, <3>1 DEF Unregister, ListInv, MapInv
    <3>3. k \in 1..Len(order) /\ order[k] = c
      BY <1>2, <3>1, FoundOne
    <3> HIDE DEF k
    <3>4. /\ order' \in Seq(Conns) /\ Len(order') = Len(order) - 1 /\ Inj(order')
          /\ Elements(order') = Elements(order) \ {order[k]}
          /\ k > 1 => order'[1] = order[1]
      BY <1>2, <3>2, <3>3, SpliceFacts
    <3>5. Len(order') <= Capacity
      BY <1>2, <3>4, SessionsAssumption
    <3>6. order[1] # c => k > 1
      BY <3>3
    <3> QED
      BY <3>3, <3>4, <3>5, <3>6 DEF Registered
  <2>2. CASE c \notin Registered
    <3>1. ~Found(order, {c})
      BY <2>2 DEF Registered, Elements, Found
    <3>2. order' = order
      BY <1>1, <3>1 DEF Unregister
    <3> QED
      BY <1>2, <2>2, <3>2 DEF Registered
  <2> QED
    BY <2>1, <2>2
<1>4. Registered' = Registered \ {c}
  BY <1>3 DEF Registered
<1>5. /\ sock' \in [Conns -> {"new", "init", "open", "ending", "closed"}]
      /\ sock'[c] = "closed" /\ \A d \in Conns \ {c} : sock'[d] = sock[d]
  BY <1>1 DEF ListInv, RegTypes
<1>6. RegTypes'
  BY <1>1, <1>3, <1>5 DEF ListInv, RegTypes, Inj
<1>7. MapInv'
  <2>1. /\ sessionMap' = {d \in Conns : sock'[d] \in {"open", "ending"}}
        /\ Registered' \subseteq sessionMap'
        /\ {d \in Conns : sock'[d] = "open"} \subseteq Registered'
        /\ \A d, e \in sessionMap' : shortid'[d] = shortid'[e] => d = e
    BY <1>1, <1>4, <1>5 DEF ListInv, MapInv
  <2>2. clients' = Cardinality(sessionMap')
    <3>1. /\ clients = Cardinality(sessionMap) /\ IsFiniteSet(sessionMap)
          /\ Cardinality(sessionMap) \in Nat
      BY MapFinite DEF ListInv, MapInv
    <3>2. CASE c \in sessionMap
      <4>1. Cardinality(sessionMap \ {c}) = Cardinality(sessionMap) - 1
        BY <3>1, <3>2, FS_RemoveElement
      <4>2. Cardinality(sessionMap \ {c}) \in Nat
        BY <3>1, FS_RemoveElement, FS_CardinalityType
      <4> QED
        BY <1>1, <3>1, <3>2, <4>1, <4>2
    <3>3. CASE c \notin sessionMap
      <4>1. sessionMap' = sessionMap
        BY <1>1, <3>3
      <4> QED
        BY <1>1, <3>1, <3>3, <4>1
    <3> QED
      BY <3>2, <3>3
  <2> QED
    BY <2>1, <2>2 DEF MapInv
<1>8. RefusedInv'
  BY <1>1, <1>4, <1>5 DEF ListInv, RefusedInv
<1>9. FocusIsLastUsed'
  <2> SUFFICES ASSUME lastUsed \in Registered \ {c}
               PROVE  order'[1] = lastUsed
    BY <1>1, <1>4 DEF FocusIsLastUsed
  <2>1. order[1] = lastUsed /\ lastUsed # c
    BY DEF ListInv, FocusIsLastUsed
  <2> QED
    BY <1>3, <2>1
<1> QED
  BY <1>6, <1>7, <1>8, <1>9 DEF ListInv

\* A dispatch never meets a session the acceptor does not know.
LEMMA DispatchFacts ==
    ASSUME ListInv, NEW t, DispatchToFocus(t)
    PROVE  /\ order' = order
           /\ \/ /\ order # <<>> /\ order[1] \in Registered /\ order[1] \in Conns
                 /\ outcome' = Append(outcome, order[1])
                 /\ inbox' = IF sock[order[1]] = "open"
                             THEN [inbox EXCEPT ![order[1]] = Append(@, Text(t))]
                             ELSE inbox
                 /\ throttled' = throttled
              \/ /\ order = <<>> /\ outcome' = Append(outcome, Nobody)
                 /\ inbox' = inbox /\ throttled' = TRUE
<1>1. order \in Seq(Conns)
  BY DEF ListInv, RegTypes
<1>2. CASE order = <<>>
  <2>1. ~Found(order, sessionMap)
    BY <1>2 DEF Found
  <2> QED
    BY <1>2, <2>1 DEF DispatchToFocus
<1>3. CASE order # <<>>
  <2>1. 1 \in 1..Len(order) /\ order[1] \in Registered /\ order[1] \in Conns
    BY <1>1, <1>3 DEF Registered, Elements
  <2>2. order[1] \in sessionMap
    BY <2>1 DEF ListInv, MapInv
  <2>3. Found(order, sessionMap) /\ FindIndex(order, sessionMap) = 1
    BY <1>1, <1>3, <2>2, FoundHead
  <2>4. SubSeq(order, 1, Len(order)) = order
    BY <1>1
  <2> QED
    BY <1>3, <2>1, <2>3, <2>4 DEF DispatchToFocus
<1> QED
  BY <1>2, <1>3

LEMMA NextListInv == ListInv /\ [Next]_vars => ListInv'
<1> SUFFICES ASSUME ListInv, [Next]_vars
             PROVE  ListInv'
  OBVIOUS
<1> USE DEF acceptorVars, routingVars
<1>1. /\ sock \in [Conns -> {"new", "init", "open", "ending", "closed"}]
      /\ gate \in {"closed", "open", "waiting"} /\ throttled \in BOOLEAN
  BY DEF ListInv, RegTypes
<1>2. ASSUME NEW c \in Conns, ConnStep(c)
      PROVE  ListInv'
  <2>1. CASE Connect(c)
    BY <1>1, <2>1, ListKept DEF Connect
  <2>2. CASE SessionInit(c)
    BY <2>2, SessionInitList
  <2>3. CASE ShortidsExhausted(c)
    BY <1>1, <2>3, ListKept DEF ShortidsExhausted
  <2>4. CASE PeerCloses(c) \/ InitTimeout(c) \/ DestroyTimer(c)
    BY <2>4, CleanupList DEF PeerCloses, InitTimeout, DestroyTimer
  <2>5. CASE ToolCall(c)
    BY <2>5, BumpKeeps DEF ToolCall
  <2> QED
    BY <1>2, <2>1, <2>2, <2>3, <2>4, <2>5 DEF ConnStep
<1>3. ASSUME NEW prefix \in SUBSET Shortids, SessionCommand(prefix)
      PROVE  ListInv'
  <2>1. PICK x : Bump(x)
    BY <1>3 DEF SessionCommand
  <2> QED
    BY <1>3, <2>1, BumpKeeps DEF SessionCommand
<1>4. CASE AdminText
  <2>1. DispatchToFocus(Len(outcome) + 1)
    BY <1>4 DEF AdminText
  <2>2. order' = order /\ throttled' \in BOOLEAN
    BY <1>1, <2>1, DispatchFacts
  <2> QED
    BY <1>1, <1>4, <2>2, ListKept DEF AdminText
<1>5. CASE ThrottleEnds
  BY <1>1, <1>5, ListKept DEF ThrottleEnds
<1>6. CASE GateMoves
  <2>1. gate' \in {"closed", "open", "waiting"}
    BY <1>6 DEF GateMoves
  <2> QED
    BY <1>1, <1>6, <2>1, ListKept DEF GateMoves
<1>7. CASE UNCHANGED vars
  BY <1>1, <1>7, ListKept DEF vars
<1> QED
  BY <1>2, <1>3, <1>4, <1>5, <1>6, <1>7 DEF Next

-----------------------------------------------------------------------------
(* The frames of a session *)

FrameKinds == {"ack", "farewell", "text"}
Frames == [kind : FrameKinds, text : 0..MaxTexts]

LEMMA ShortSeqs ==
    ASSUME NEW S, NEW a \in S, NEW b \in S
    PROVE  /\ <<a>> \in Seq(S) /\ <<a, b>> \in Seq(S)
           /\ <<a>> \o <<>> = <<a>> /\ <<a>> \o <<b>> = <<a, b>>
<1>1. <<a>> \in Seq(S) /\ <<a, b>> \in Seq(S)
  OBVIOUS
<1>2. <<a>> \o <<>> = <<a>>
  BY <1>1, ConcatEmptySeq
<1>3. <<a>> \o <<b>> = Append(<<a>>, b)
  BY <1>1, AppendIsConcat
<1>4. Append(<<a>>, b) = <<a, b>>
  <2>1. /\ Append(<<a>>, b) \in Seq(S) /\ Len(Append(<<a>>, b)) = Len(<<a, b>>)
        /\ Append(<<a>>, b)[1] = a /\ Append(<<a>>, b)[2] = b
    OBVIOUS
  <2>2. Len(<<a, b>>) = 2 /\ <<a, b>>[1] = a /\ <<a, b>>[2] = b
    OBVIOUS
  <2>3. \A i \in 1..2 : i = 1 \/ i = 2
    OBVIOUS
  <2> QED
    BY <1>1, <2>1, <2>2, <2>3, SeqEqual
<1> QED
  BY <1>1, <1>2, <1>3, <1>4

LEMMA AppendFacts ==
    ASSUME NEW S, NEW s \in Seq(S), NEW a \in S
    PROVE  /\ Append(s, a) \in Seq(S) /\ Len(s) \in Nat
           /\ Len(Append(s, a)) = Len(s) + 1
           /\ Append(s, a)[Len(s) + 1] = a
           /\ \A i \in 1..Len(s) : i \in 1..Len(Append(s, a)) /\ Append(s, a)[i] = s[i]
  OBVIOUS

LEMMA FirstFrames == Ack \in Frames /\ Farewell \in Frames
  BY SessionsAssumption DEF Ack, Farewell, Frames, FrameKinds

FrameTypes ==
    /\ inbox \in [Conns -> Seq(Frames)]
    /\ outcome \in Seq(Conns \union {Nobody}) /\ Len(outcome) <= MaxTexts

\* Nothing is written before the ack, and nothing but what the admin has sent.
InboxInv ==
    \A c \in Conns :
        /\ sock[c] \in {"new", "init"} => inbox[c] = <<>>
        /\ sock[c] = "open" => inbox[c] # <<>>
        /\ \A i \in 1..Len(inbox[c]) :
              /\ inbox[c][i].text <= Len(outcome)
              /\ inbox[c][i].kind = "text" => inbox[c][i].text > 0

FrameInv == FrameTypes /\ InboxInv /\ FramesInOrder

LEMMA InitFrameInv == Init => FrameInv
<1> SUFFICES ASSUME Init PROVE FrameInv
  OBVIOUS
<1>1. FrameTypes
  BY SessionsAssumption DEF Init, FrameTypes
<1>2. InboxInv /\ FramesInOrder
  BY DEF Init, InboxInv, FramesInOrder
<1> QED
  BY <1>1, <1>2 DEF FrameInv

\* What writes nothing.
LEMMA FramesKept ==
    ASSUME FrameInv, UNCHANGED <<inbox, outcome, refused>>,
           \A c \in Conns : \/ sock'[c] = sock[c]
                            \/ sock[c] = "new" /\ sock'[c] = "init"
                            \/ sock'[c] = "closed"
    PROVE  FrameInv'
<1>1. inbox' = inbox /\ outcome' = outcome /\ refused' = refused
  OBVIOUS
<1>3. FrameTypes'
  BY <1>1 DEF FrameInv, FrameTypes
<1>4. FramesInOrder'
  BY <1>1 DEF FrameInv, FramesInOrder, Text
<1>2. InboxInv'
  BY <1>1 DEF FrameInv, InboxInv
<1> QED
  BY <1>2, <1>3, <1>4 DEF FrameInv

LEMMA SessionInitFrames ==
    ASSUME ListInv, FrameInv, NEW c \in Conns, SessionInit(c)
    PROVE  FrameInv'
<1>1. PICK reason \in {"no", "waiting", "capacity"} :
        /\ refused' = [refused EXCEPT ![c] = reason]
        /\ sock' = [sock EXCEPT ![c] = IF reason = "no" THEN "open" ELSE "ending"]
        /\ inbox' = [inbox EXCEPT ![c] = Greeting(IF reason = "no" THEN <<>> ELSE <<Farewell>>)]
  BY DEF SessionInit
<1>2. sock[c] = "init" /\ outcome' = outcome /\ inbox[c] = <<>> /\ refused[c] = "no"
  BY DEF SessionInit, FrameInv, InboxInv, ListInv, RefusedInv, RegTypes
<1>3. /\ \A d \in Conns \ {c} : /\ inbox'[d] = inbox[d] /\ sock'[d] = sock[d]
                                /\ refused'[d] = refused[d]
      /\ sock'[c] \in {"open", "ending"}
      /\ inbox'[c] = <<Ack>> \/ inbox'[c] = <<Ack, Farewell>>
  <2>1. <<Ack>> \o <<>> = <<Ack>> /\ <<Ack>> \o <<Farewell>> = <<Ack, Farewell>>
    BY FirstFrames, ShortSeqs
  <2> QED
    BY <1>1, <2>1 DEF Greeting, FrameInv, FrameTypes, ListInv, RegTypes
<1>4. Len(outcome) \in Nat /\ MaxTexts \in Nat
  BY SessionsAssumption DEF FrameInv, FrameTypes
<1>5. FrameTypes'
  <2>1. inbox'[c] \in Seq(Frames)
    BY <1>3, FirstFrames, ShortSeqs
  <2> QED
    BY <1>1, <1>2, <1>3, <2>1 DEF FrameInv, FrameTypes
<1>6. /\ inbox'[c] # <<>>
      /\ \A i \in 1..Len(inbox'[c]) : /\ inbox'[c][i].text = 0
                                      /\ inbox'[c][i].kind # "text"
                                      /\ inbox'[c][i].kind = "ack" <=> i = 1
  BY <1>3 DEF Ack, Farewell
<1>7. InboxInv'
  BY <1>2, <1>3, <1>4, <1>6 DEF FrameInv, InboxInv
<1>8. FramesInOrder'
  <2>1. ASSUME NEW d \in Conns, NEW i \in 1..Len(inbox'[d])
        PROVE  /\ inbox'[d][i].kind = "ack" <=> i = 1
               /\ inbox'[d][i].kind = "text" =>
                    /\ outcome'[inbox'[d][i].text] = d
                    /\ \A j \in 1..(i - 1) : inbox'[d][j].text < inbox'[d][i].text
    <3>1. CASE d = c
      BY <1>6, <2>1, <3>1
    <3>2. CASE d # c
      BY <1>2, <1>3, <2>1, <3>2 DEF FrameInv, FramesInOrder
    <3> QED
      BY <3>1, <3>2
  <2>2. ASSUME NEW t \in 1..Len(outcome'), outcome'[t] # Nobody
        PROVE  \/ \E i \in 1..Len(inbox'[outcome'[t]]) : inbox'[outcome'[t]][i] = Text(t)
               \/ refused'[outcome'[t]] = "waiting"
    <3> DEFINE d == outcome[t]
    <3>1. d \in Conns /\ outcome'[t] = d
      BY <1>2, <2>2 DEF FrameInv, FrameTypes
    <3>2. \/ \E i \in 1..Len(inbox[d]) : inbox[d][i] = Text(t)
          \/ refused[d] = "waiting"
      BY <1>2, <2>2 DEF FrameInv, FramesInOrder
    <3>3. d # c
      BY <1>2, <3>2
    <3> HIDE DEF d
    <3> QED
      BY <1>3, <3>1, <3>2, <3>3
  <2> QED
    BY <2>1, <2>2 DEF FramesInOrder
<1> QED
  BY <1>5, <1>7, <1>8 DEF FrameInv

LEMMA AdminTextFrames ==
    ASSUME ListInv, FrameInv, AdminText
    PROVE  FrameInv'
<1> DEFINE t == Len(outcome) + 1
<1>1. /\ t \in 1..MaxTexts /\ Len(outcome) \in Nat /\ DispatchToFocus(t)
      /\ UNCHANGED <<sock, refused>> /\ MaxTexts \in Nat
  BY SessionsAssumption DEF AdminText, FrameInv, FrameTypes
<1>2. \/ /\ order[1] \in Registered /\ order[1] \in Conns
         /\ outcome' = Append(outcome, order[1])
         /\ inbox' = IF sock[order[1]] = "open"
                     THEN [inbox EXCEPT ![order[1]] = Append(@, Text(t))]
                     ELSE inbox
      \/ outcome' = Append(outcome, Nobody) /\ inbox' = inbox
  BY <1>1, DispatchFacts
<1>3. PICK c \in Conns \cup {Nobody} :
        /\ outcome' = Append(outcome, c)
        /\ \/ /\ c \in Conns /\ sock[c] = "open"
              /\ inbox' = [inbox EXCEPT ![c] = Append(@, Text(t))]
           \/ /\ inbox' = inbox
              /\ c # Nobody => c \in Registered /\ sock[c] # "open"
  BY <1>2
<1>4. /\ outcome \in Seq(Conns \cup {Nobody}) /\ outcome' \in Seq(Conns \cup {Nobody})
      /\ Len(outcome') = t
      /\ outcome'[t] = c /\ \A u \in 1..Len(outcome) : outcome'[u] = outcome[u]
  BY <1>1, <1>3 DEF FrameInv, FrameTypes
<1>5. Text(t) \in Frames /\ Text(t).kind = "text" /\ Text(t).text = t
  BY <1>1 DEF Text, FrameKinds, Frames
<1>6. \A d \in Conns : \/ inbox'[d] = inbox[d]
                       \/ d = c /\ inbox'[d] = Append(inbox[d], Text(t)) /\ sock[d] = "open"
  BY <1>3 DEF FrameInv, FrameTypes
<1> HIDE DEF t
<1>7. FrameTypes'
  <2>1. inbox' \in [Conns -> Seq(Frames)]
    <3>1. inbox \in [Conns -> Seq(Frames)]
      BY DEF FrameInv, FrameTypes
    <3>2. ASSUME c \in Conns PROVE Append(inbox[c], Text(t)) \in Seq(Frames)
      BY <1>5, <3>1, <3>2, AppendFacts
    <3> QED
      BY <1>3, <3>1, <3>2
  <2>2. Len(outcome') <= MaxTexts
    BY <1>1, <1>4
  <2> QED
    BY <1>4, <2>1, <2>2 DEF FrameTypes
<1>8. ASSUME NEW d \in Conns
      PROVE  /\ sock'[d] \in {"new", "init"} => inbox'[d] = <<>>
             /\ sock'[d] = "open" => inbox'[d] # <<>>
             /\ \A i \in 1..Len(inbox'[d]) :
                   /\ inbox'[d][i].text <= Len(outcome')
                   /\ inbox'[d][i].kind = "text" => inbox'[d][i].text > 0
                   /\ inbox'[d][i].kind = "ack" <=> i = 1
                   /\ inbox'[d][i].kind = "text" =>
                        /\ outcome'[inbox'[d][i].text] = d
                        /\ \A j \in 1..(i - 1) : inbox'[d][j].text < inbox'[d][i].text
  <2>1. inbox[d] \in Seq(Frames)
    BY DEF FrameInv, FrameTypes
  <2>2. /\ sock[d] \in {"new", "init"} => inbox[d] = <<>>
        /\ sock[d] = "open" => inbox[d] # <<>>
        /\ \A i \in 1..Len(inbox[d]) :
              /\ inbox[d][i].text <= Len(outcome)
              /\ inbox[d][i].kind = "text" => inbox[d][i].text > 0
              /\ inbox[d][i].kind = "ack" <=> i = 1
              /\ inbox[d][i].kind = "text" =>
                   /\ outcome[inbox[d][i].text] = d
                   /\ \A j \in 1..(i - 1) : inbox[d][j].text < inbox[d][i].text
    BY DEF FrameInv, InboxInv, FramesInOrder
  <2>3. Len(outcome) < t /\ t = Len(outcome')
    BY <1>1, <1>4 DEF t
  <2>4. \A i \in 1..Len(inbox[d]) : inbox[d][i].text \in Nat /\ inbox[d][i].text < t
    <3> SUFFICES ASSUME NEW i \in 1..Len(inbox[d])
                 PROVE  inbox[d][i].text \in Nat /\ inbox[d][i].text < t
      OBVIOUS
    <3>1. inbox[d][i] \in Frames
      BY <2>1
    <3>2. inbox[d][i].text \in Nat
      BY <1>1, <3>1 DEF Frames
    <3> QED
      BY <1>1, <2>2, <2>3, <3>2
  <2>5. \A i \in 1..Len(inbox[d]) : inbox[d][i].kind = "text" =>
           outcome'[inbox[d][i].text] = outcome[inbox[d][i].text]
    BY <1>1, <1>4, <2>2, <2>4
  <2>6. CASE inbox'[d] = inbox[d]
    BY <1>1, <2>2, <2>3, <2>4, <2>5, <2>6
  <2>7. CASE d = c /\ inbox'[d] = Append(inbox[d], Text(t)) /\ sock[d] = "open"
    <3> DEFINE n == Len(inbox[d])
    <3>1. /\ n \in Nat /\ n > 0 /\ Len(inbox'[d]) = n + 1
          /\ inbox'[d][n + 1] = Text(t)
          /\ \A i \in 1..n : inbox'[d][i] = inbox[d][i]
      BY <1>5, <2>1, <2>2, <2>7
    <3> HIDE DEF n
    <3>2. ASSUME NEW i \in 1..Len(inbox'[d])
          PROVE  /\ inbox'[d][i].text <= Len(outcome')
                 /\ inbox'[d][i].kind = "text" => inbox'[d][i].text > 0
                 /\ inbox'[d][i].kind = "ack" <=> i = 1
                 /\ inbox'[d][i].kind = "text" =>
                      /\ outcome'[inbox'[d][i].text] = d
                      /\ \A j \in 1..(i - 1) : inbox'[d][j].text < inbox'[d][i].text
      <4>1. CASE i \in 1..n
        <5>1. inbox'[d][i] = inbox[d][i] /\ \A j \in 1..(i - 1) : inbox'[d][j] = inbox[d][j]
          BY <3>1, <4>1
        <5>2. i \in 1..Len(inbox[d])
          BY <4>1 DEF n
        <5>3. i \in Nat /\ \A j \in 1..(i - 1) : inbox'[d][j].text = inbox[d][j].text
          BY <5>1, <4>1
        <5>4. /\ inbox[d][i].text <= Len(outcome')
              /\ inbox[d][i].text \in Nat /\ inbox[d][i].text < t
          BY <1>1, <2>2, <2>3, <2>4, <5>2
        <5>5. /\ inbox[d][i].kind = "text" => inbox[d][i].text > 0
              /\ inbox[d][i].kind = "ack" <=> i = 1
              /\ inbox[d][i].kind = "text" =>
                   /\ outcome'[inbox[d][i].text] = d
                   /\ \A j \in 1..(i - 1) : inbox[d][j].text < inbox[d][i].text
          BY <2>2, <2>5, <5>2
        <5> QED
          BY <5>1, <5>3, <5>4, <5>5
      <4>2. CASE i = n + 1
        <5>1. inbox'[d][i].text = t /\ inbox'[d][i].kind = "text" /\ i # 1
          BY <1>5, <3>1, <4>2
        <5>2. \A j \in 1..(i - 1) : inbox'[d][j].text < t
          <6>1. \A j \in 1..n : inbox'[d][j].text < t
            BY <2>4, <3>1 DEF n
          <6> QED
            BY <3>1, <4>2, <6>1
        <5>3. t \in Nat /\ t > 0 /\ t <= Len(outcome')
          BY <1>1, <2>3
        <5>4. outcome'[t] = d
          BY <1>4, <2>7
        <5> QED
          BY <5>1, <5>2, <5>3, <5>4
      <4> QED
        BY <3>1, <4>1, <4>2
    <3>3. inbox'[d] # <<>>
      BY <3>1
    <3> QED
      BY <1>1, <2>7, <3>2, <3>3
  <2> QED
    BY <1>6, <2>6, <2>7
<1>9. ASSUME NEW u \in 1..Len(outcome'), outcome'[u] # Nobody
      PROVE  \/ \E i \in 1..Len(inbox'[outcome'[u]]) : inbox'[outcome'[u]][i] = Text(u)
             \/ refused'[outcome'[u]] = "waiting"
  <2> DEFINE d == outcome'[u]
  <2>1. d \in Conns /\ inbox[d] \in Seq(Frames)
    <3>1. d \in Conns \cup {Nobody}
      BY <1>4
    <3>2. d \in Conns
      BY <1>9, <3>1
    <3> HIDE DEF d
    <3> QED
      BY <3>2 DEF FrameInv, FrameTypes
  <2>2. CASE u # t
    <3>1. u \in 1..Len(outcome) /\ outcome[u] = d
      BY <1>1, <1>4, <2>2 DEF t
    <3>2. \/ \E i \in 1..Len(inbox[d]) : inbox[d][i] = Text(u)
          \/ refused[d] = "waiting"
      BY <1>9, <3>1 DEF FrameInv, FramesInOrder
    <3>3. \A i \in 1..Len(inbox[d]) : i \in 1..Len(inbox'[d]) /\ inbox'[d][i] = inbox[d][i]
      BY <1>5, <1>6, <2>1, AppendFacts
    <3> HIDE DEF d
    <3>4. refused' = refused
      BY <1>1
    <3> QED
      BY <3>2, <3>3, <3>4 DEF d
  <2>3. CASE u = t
    <3>1. d = c
      BY <1>4, <2>3
    <3>2. CASE sock[c] = "open"
      <4>1. inbox'[c] = Append(inbox[c], Text(t))
        BY <1>3, <1>9, <2>1, <3>1, <3>2 DEF FrameInv, FrameTypes
      <4>2. Len(inbox[c]) + 1 \in 1..Len(inbox'[c]) /\ inbox'[c][Len(inbox[c]) + 1] = Text(t)
        BY <1>5, <2>1, <3>1, <4>1
      <4> QED
        BY <2>3, <3>1, <4>2
    <3>3. CASE sock[c] # "open"
      <4>1. c \in Registered
        BY <1>3, <1>9, <3>1, <3>3
      <4>2. sock[c] = "ending"
        BY <2>1, <3>1, <3>3, <4>1 DEF ListInv, MapInv
      <4>3. refused[c] \notin {"no", "capacity"} /\ refused[c] \in {"no", "waiting", "capacity"}
        BY <2>1, <3>1, <4>1, <4>2 DEF ListInv, RefusedInv, RegTypes
      <4> QED
        BY <1>1, <3>1, <4>3
    <3> QED
      BY <3>2, <3>3
  <2> QED
    BY <2>2, <2>3
<1>10. InboxInv'
  BY <1>8 DEF InboxInv
<1>11. FramesInOrder'
  BY <1>8, <1>9 DEF FramesInOrder
<1> QED
  BY <1>7, <1>10, <1>11 DEF FrameInv

LEMMA NextFrameInv == ListInv /\ FrameInv /\ [Next]_vars => FrameInv'
<1> SUFFICES ASSUME ListInv, FrameInv, [Next]_vars
             PROVE  FrameInv'
  OBVIOUS
<1> USE DEF acceptorVars, routingVars
<1>1. sock \in [Conns -> {"new", "init", "open", "ending", "closed"}]
  BY DEF ListInv, RegTypes
<1>2. ASSUME NEW c \in Conns, ConnStep(c)
      PROVE  FrameInv'
  <2>1. CASE Connect(c)
    BY <1>1, <2>1, FramesKept DEF Connect
  <2>2. CASE SessionInit(c)
    BY <2>2, SessionInitFrames
  <2>3. CASE ShortidsExhausted(c)
    BY <1>1, <2>3, FramesKept DEF ShortidsExhausted
  <2>4. CASE PeerCloses(c) \/ InitTimeout(c) \/ DestroyTimer(c)
    BY <1>1, <2>4, FramesKept DEF PeerCloses, InitTimeout, DestroyTimer, Cleanup
  <2>5. CASE ToolCall(c)
    BY <2>5, FramesKept DEF ToolCall
  <2> QED
    BY <1>2, <2>1, <2>2, <2>3, <2>4, <2>5 DEF ConnStep
<1>3. ASSUME NEW prefix \in SUBSET Shortids, SessionCommand(prefix)
      PROVE  FrameInv'
  BY <1>3, FramesKept DEF SessionCommand
<1>4. CASE AdminText
  BY <1>4, AdminTextFrames
<1>5. CASE ThrottleEnds
  BY <1>5, FramesKept DEF ThrottleEnds
<1>6. CASE GateMoves
  BY <1>6, FramesKept DEF GateMoves
<1>7. CASE UNCHANGED vars
  BY <1>7, FramesKept DEF vars
<1> QED
  BY <1>2, <1>3, <1>4, <1>5, <1>6, <1>7 DEF Next

-----------------------------------------------------------------------------
(* The theorems *)

LEMMA Inductive == Spec => [](ListInv /\ FrameInv)
<1> QED
  BY InitListInv, InitFrameInv, NextListInv, NextFrameInv, PTL DEF Spec

\* Every variable keeps its type, and the registry its capacity
\* (session-registry.ts).
THEOREM TypeCorrect == Spec => []TypeOK
<1>1. ListInv /\ FrameInv => TypeOK
  <2> SUFFICES ASSUME ListInv, FrameInv PROVE TypeOK
    OBVIOUS
  <2>1. clients \in Nat /\ sessionMap \subseteq Conns
    BY MapFinite DEF ListInv, MapInv
  <2> QED
    BY <2>1 DEF ListInv, FrameInv, RegTypes, FrameTypes, FrameKinds, Frames, TypeOK
<1> QED
  BY <1>1, Inductive, PTL

\* The acceptor's map, the registry, the watchdog's count and the shortids stay
\* one through any connects, refusals, closings and commands
\* (daemon-acceptor.ts, session-registry.ts, watchdog.ts).
THEOREM ListsAgree == Spec => []RegistryMatches
<1>1. ListInv => RegistryMatches
  <2> SUFFICES ASSUME ListInv PROVE RegistryMatches
    OBVIOUS
  <2>1. Cardinality(Registered) = Len(order)
    BY InjCardinality DEF ListInv, RegTypes, Registered
  <2> QED
    BY <2>1 DEF ListInv, MapInv, RegistryMatches
<1> QED
  BY <1>1, Inductive, PTL

\* The focus stays with the session that was last active, as long as it is
\* registered (session-registry.ts, bumpActivity).
THEOREM FocusKept == Spec => []FocusIsLastUsed
<1>1. ListInv => FocusIsLastUsed
  BY DEF ListInv
<1> QED
  BY <1>1, Inductive, PTL

\* A session that was turned away is never served, and none that connects while
\* the daemon waits for a reset is let in (wait-for-reset-handshake.ts).
THEOREM TurnedAwayEnds == Spec => TurnedAwayIsClosed
<1> DEFINE Shut == \A c \in Conns :
                      /\ refused[c] # "no" => sock[c] \in {"ending", "closed"}
                      /\ refused[c] = "capacity" => c \notin Registered
           NotLetIn == \A c \in Conns : gate = "waiting" /\ c \notin sessionMap
                                        => sock'[c] # "open"
<1>1. ListInv => Shut
  BY DEF ListInv, RefusedInv
<1>2. ListInv /\ [Next]_vars => NotLetIn \/ UNCHANGED vars
  <2> SUFFICES ASSUME ListInv, [Next]_vars, NEW c \in Conns, gate = "waiting", c \notin sessionMap
               PROVE  sock'[c] # "open"
    OBVIOUS
  <2> USE DEF acceptorVars, routingVars
  <2>1. sock \in [Conns -> {"new", "init", "open", "ending", "closed"}] /\ sock[c] # "open"
    BY DEF ListInv, RegTypes, MapInv
  <2>2. ASSUME NEW d \in Conns, ConnStep(d)
        PROVE  sock'[c] # "open"
    <3>1. CASE SessionInit(d)
      <4>1. \E l \in {"ending"} : sock' = [sock EXCEPT ![d] = l]
        BY <3>1 DEF SessionInit, TurnedAway
      <4> QED
        BY <2>1, <4>1
    <3>2. CASE Connect(d) \/ ShortidsExhausted(d)
      BY <2>1, <3>2 DEF Connect, ShortidsExhausted
    <3>3. CASE PeerCloses(d) \/ InitTimeout(d) \/ DestroyTimer(d)
      BY <2>1, <3>3 DEF PeerCloses, InitTimeout, DestroyTimer, Cleanup
    <3>4. CASE ToolCall(d)
      BY <2>1, <3>4 DEF ToolCall
    <3> QED
      BY <2>2, <3>1, <3>2, <3>3, <3>4 DEF ConnStep
  <2>3. ASSUME ~\E d \in Conns : ConnStep(d)
        PROVE  sock' = sock
    BY <2>3 DEF Next, SessionCommand, AdminText, ThrottleEnds, GateMoves, vars
  <2> QED
    BY <2>1, <2>2, <2>3
<1>3. Spec => []Shut
  BY <1>1, Inductive, PTL
<1>4. Spec => [][NotLetIn]_vars
  BY <1>2, Inductive, PTL DEF Spec
<1> QED
  BY <1>3, <1>4 DEF TurnedAwayIsClosed

\* The ack comes first, each text goes to one session, in the order of the
\* admin, and one reported delivered was written, unless its session was being
\* closed (daemon-acceptor.ts, inbound-dispatcher.ts).
THEOREM InOrder == Spec => []FramesInOrder
<1>1. FrameInv => FramesInOrder
  BY DEF FrameInv
<1> QED
  BY <1>1, Inductive, PTL
=============================================================================
