----------------------------- MODULE UpdateFeed -----------------------------
(***************************************************************************)
(* What the polling loop promises to the daemon's subscribers of           *)
(* inbound_update: a feed of updates in increasing order of update_id, each *)
(* delivered at most once.  An update may be skipped (the process died with *)
(* it in hand); a skipped update never comes back, and nothing older than a *)
(* skipped update is delivered any more.                                   *)
(***************************************************************************)
EXTENDS Integers, Sequences

CONSTANT Updates    \* the update ids, integers

VARIABLES
    published,      \* the updates delivered, in order
    skipped         \* the updates given up

vars == <<published, skipped>>

\* The updates that may still be delivered or given up.
Ahead(u) ==
    /\ \A i \in DOMAIN published : published[i] < u
    /\ \A s \in skipped : s < u

Init ==
    /\ published = <<>>
    /\ skipped = {}

Deliver ==
    /\ \E u \in Updates : Ahead(u) /\ published' = Append(published, u)
    /\ UNCHANGED skipped

GiveUp ==
    /\ \E S \in SUBSET Updates :
          /\ \A u \in S : Ahead(u)
          /\ skipped' = skipped \cup S
    /\ UNCHANGED published

Next == Deliver \/ GiveUp

Spec == Init /\ [][Next]_vars
=============================================================================
