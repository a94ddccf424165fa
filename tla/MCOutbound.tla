----------------------------- MODULE MCOutbound -----------------------------
(* Outbound on two calls and two chats, for TLC. *)
EXTENDS Outbound

CONSTANTS c1, c2, s1, own, group

\* A sender who is no admin is denied, forgotten and denied again.
OneRefill == [kind \in DenyTopics |-> IF kind = "auth_deny_routing" THEN 1 ELSE 0]
NoRefill == [kind \in DenyTopics |-> 0]

\* Two texts at a queue with room for one, files beside an edit, and a call that
\* is refused beside one that is not.
ThreeErrands ==
    LET pair(x, y) == [c \in {c1, c2} |-> IF c = c1 THEN x ELSE y] IN
    {pair(<<"text", own>>, <<"text", own>>),
     pair(<<"files", own>>, <<"edit_message", own>>),
     pair(<<"text", group>>, <<"react", own>>)}
=============================================================================
