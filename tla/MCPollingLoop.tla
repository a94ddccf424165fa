---------------------------- MODULE MCPollingLoop ----------------------------
(* PollingLoop with three replies, for TLC: a queue of two fills up. *)
EXTENDS PollingLoop

ThreeReplies == 1..3

\* One before a quarantine, one after it.
FirstAndLast == {1, 3}
=============================================================================
