------------------------------ MODULE MCProxy ------------------------------
(* Proxy with two sessions, of one project or of two, for TLC. *)
EXTENDS Proxy, TLC

CONSTANTS p1, p2, a, b

OneOrTwoProjects == {p1 :> a @@ p2 :> a, p1 :> a @@ p2 :> b}
=============================================================================
