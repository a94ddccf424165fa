---------------------------- MODULE ApprovalDesk ----------------------------
(***************************************************************************)
(* What request_approval promises: of a request there is at most one       *)
(* decision, the first press that counts makes it, and it stays.  A        *)
(* request that is over without one never gets one, and only such a        *)
(* request is shown as cancelled.  A session is told one thing about its   *)
(* request: the decision, or that its call failed.                         *)
(***************************************************************************)
CONSTANTS Requests, Options

VARIABLES
    presses,     \* the presses that may still count, or have: <<request, option>>
    decision,    \* of each request: "open", an option, or "withdrawn"
    cancelled,   \* the requests shown as cancelled
    heard        \* what the session was told of its request

vars == <<presses, decision, cancelled, heard>>

Failures == {"error", "timeout", "disconnected"}

Init ==
    /\ presses = {} /\ cancelled = {}
    /\ decision = [r \in Requests |-> "open"]
    /\ heard = [r \in Requests |-> "none"]

Press ==
    /\ \E r \in Requests, o \in Options : presses' = presses \cup {<<r, o>>}
    /\ UNCHANGED <<decision, cancelled, heard>>

Decide ==
    /\ \E p \in presses : /\ decision[p[1]] = "open"
                          /\ decision' = [decision EXCEPT ![p[1]] = p[2]]
    /\ UNCHANGED <<presses, cancelled, heard>>

Hear ==
    /\ \E r \in Requests : /\ decision[r] \in Options /\ heard[r] = "none"
                           /\ heard' = [heard EXCEPT ![r] = decision[r]]
    /\ UNCHANGED <<presses, decision, cancelled>>

\* A refusal, a disconnect, a crash: presses come to nothing (never the one
\* that decided), open requests are withdrawn, calls fail, and what was
\* withdrawn is shown as cancelled.
GiveUp ==
    /\ presses' \subseteq presses
    /\ \A p \in presses \ presses' : decision[p[1]] # p[2]
    /\ decision' \in [Requests -> Options \cup {"open", "withdrawn"}]
    /\ \A r \in Requests : \/ decision'[r] = decision[r]
                           \/ decision[r] = "open" /\ decision'[r] = "withdrawn"
    /\ cancelled \subseteq cancelled'
    /\ \A r \in cancelled' \ cancelled : r \in Requests /\ decision[r] = "withdrawn"
    /\ heard' \in [Requests -> Options \cup Failures \cup {"none"}]
    /\ \A r \in Requests : \/ heard'[r] = heard[r]
                           \/ heard[r] = "none" /\ heard'[r] \in Failures

Next == GiveUp \/ Press \/ Decide \/ Hear

Spec == Init /\ [][Next]_vars
=============================================================================
