---------------------------- MODULE MCDaemonLock ----------------------------
(* DaemonLock with a few processes, for TLC. *)
EXTENDS DaemonLock, TLC

CONSTANTS p1, p2, p3, p4

ThreeProcs == {p1, p2, p3}
FourProcs == {p1, p2, p3, p4}

\* Pids are compared for equality only.
ProcSymmetry == Permutations(Procs)
=============================================================================
