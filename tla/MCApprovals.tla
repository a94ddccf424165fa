---------------------------- MODULE MCApprovals ----------------------------
(* Approvals with a few requests, sessions and presses, for TLC. *)
EXTENDS Approvals

CONSTANTS a1, a2, a3, s1, s2, c1, c2, yes, no

ThreeRequests == {a1, a2, a3}
TwoRequests == {a1, a2}
TwoSessions == {s1, s2}
OneSession == {s1}
\* s1 asks twice and s2 once.
ThreeOwners == [a \in ThreeRequests |-> IF a = a3 THEN s2 ELSE s1]
TwoOwners == [a \in TwoRequests |-> s1]
=============================================================================
