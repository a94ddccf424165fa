---------------------------- MODULE MCLifecycle ----------------------------
(* The life cycle with two users and short times, for TLC. *)
EXTENDS Lifecycle
=============================================================================
