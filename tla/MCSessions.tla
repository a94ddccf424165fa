----------------------------- MODULE MCSessions -----------------------------
(* Sessions with a few connections, shortids and texts, for TLC. *)
EXTENDS Sessions
=============================================================================
