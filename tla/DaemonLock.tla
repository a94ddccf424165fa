----------------------------- MODULE DaemonLock -----------------------------
(***************************************************************************)
(* Daemon processes that start, hold and release daemon.lock, and bind and *)
(* unlink daemon.sock: daemon/process-lock.ts, the stale-socket cleanup and *)
(* the shutdown of daemon/shutdown.ts, in the order daemon/main.ts calls   *)
(* them.  Every file-system call is an action, because processes           *)
(* interleave between any two of them.                                     *)
(*                                                                         *)
(* A process creates at most one lock file and one socket, so an inode is  *)
(* named by the process that created it.                                   *)
(***************************************************************************)
EXTENDS Integers, FiniteSets

CONSTANTS
    Procs,          \* the daemon processes, each started at most once
    Nothing,        \* no file at the path, no pid seen
    MaxAttempts,    \* MAX_ATTEMPTS
    SerialStart,    \* whether starts are serialised by the environment
    PidReuse        \* whether a dead daemon's pid may belong to another program

ASSUME LockAssumption ==
    /\ Nothing \notin Procs
    /\ MaxAttempts \in Nat \ {0}
    /\ SerialStart \in BOOLEAN
    /\ PidReuse \in BOOLEAN

VARIABLES
    pc,         \* where each process is
    path,       \* the inode at the path of daemon.lock
    written,    \* whether the process has written its pid into its inode
    seen,       \* the pid validateExistingLock read
    attempt,    \* the attempts acquireDaemonLock has spent
    sock,       \* the inode at the path of daemon.sock
    outcome     \* how a process ended

vars == <<pc, path, written, seen, attempt, sock, outcome>>

\* The steps of acquireDaemonLock.
Acquiring == {"open", "read", "check", "unlink", "write"}
\* From its return to the end of the release.
Owning == {"held", "probe", "cleanup", "bind", "serving", "closing",
           "relRead", "relUnlink", "dangRead", "dangUnlink"}
PCs == {"unborn", "gone"} \cup Acquiring \cup Owning
Outcomes == {"none", "contended", "mistaken", "wrong_binary", "retry", "write_failed",
             "bind_failed", "stopped", "no_token", "crashed"}

Alive(p) == pc[p] \notin {"unborn", "gone"}
Holders == {p \in Procs : pc[p] \in Owning /\ written[p]}

\* A socket at the path that somebody listens on.
Listening(p) == pc[p] \in {"serving", "closing"}

Goto(p, l) == pc' = [pc EXCEPT ![p] = l]
End(p, how) == outcome' = [outcome EXCEPT ![p] = how]

Init ==
    /\ pc = [p \in Procs |-> "unborn"]
    /\ path = Nothing
    /\ written = [p \in Procs |-> FALSE]
    /\ seen = [p \in Procs |-> Nothing]
    /\ attempt = [p \in Procs |-> 0]
    /\ sock = Nothing
    /\ outcome = [p \in Procs |-> "none"]

-----------------------------------------------------------------------------
(* acquireDaemonLock *)

Start(p) ==
    /\ pc[p] = "unborn"
    /\ SerialStart => \A q \in Procs : pc[q] \notin Acquiring
    /\ Goto(p, "open")
    /\ UNCHANGED <<path, written, seen, attempt, sock, outcome>>

\* openSync(lockPath, "wx")
Open(p) ==
    /\ pc[p] = "open"
    /\ IF path = Nothing
       THEN path' = p /\ Goto(p, "write")
       ELSE UNCHANGED path /\ Goto(p, "read")
    /\ UNCHANGED <<written, seen, attempt, sock, outcome>>

\* Variant with a bug: whatever is in the file goes to the check as a pid.
ReadUnparsed(p) ==
    /\ pc[p] = "read"
    /\ seen' = [seen EXCEPT ![p] = IF path # Nothing /\ written[path] THEN path ELSE Nothing]
    /\ Goto(p, "check")
    /\ UNCHANGED <<path, written, attempt, sock, outcome>>

\* readFileSync: a missing or still empty file counts as a dead holder.
Read(p) ==
    /\ pc[p] = "read"
    /\ IF path # Nothing /\ written[path]
       THEN seen' = [seen EXCEPT ![p] = path] /\ Goto(p, "check")
       ELSE seen' = [seen EXCEPT ![p] = Nothing] /\ Goto(p, "unlink")
    /\ UNCHANGED <<path, written, attempt, sock, outcome>>

\* Variants with a bug: a check that takes over the lock of a daemon in its
\* shutdown, and one that takes every recorded pid for a live daemon.
CheckIgnoresClosing(p) ==
    /\ pc[p] = "check"
    /\ IF Alive(seen[p]) /\ pc[seen[p]] \notin {"closing", "relRead", "relUnlink"}
       THEN Goto(p, "gone") /\ End(p, "contended")
       ELSE Goto(p, "unlink") /\ UNCHANGED outcome
    /\ UNCHANGED <<path, written, seen, attempt, sock>>

CheckTrustsPid(p) ==
    /\ pc[p] = "check"
    /\ Goto(p, "gone")
    /\ End(p, "contended")
    /\ UNCHANGED <<path, written, seen, attempt, sock>>

\* isProcessAlive and getProcessCommand: a live daemon is contention; a dead
\* pid is taken over, unless the pid now belongs to another program, or to one
\* whose command line names the plugin (mistaken for a daemon).
Check(p) ==
    /\ pc[p] = "check"
    /\ \/ /\ Alive(seen[p])
          /\ Goto(p, "gone")
          /\ End(p, "contended")
       \/ /\ ~Alive(seen[p])
          /\ Goto(p, "unlink")
          /\ UNCHANGED outcome
       \/ /\ ~Alive(seen[p])
          /\ PidReuse
          /\ \/ Goto(p, "dangRead") /\ End(p, "wrong_binary")
             \/ Goto(p, "gone") /\ End(p, "mistaken")
    /\ UNCHANGED <<path, written, seen, attempt, sock>>

\* unlinkSync removes the file that is there now; then the next attempt.
Unlink(p) ==
    /\ pc[p] = "unlink"
    /\ path' = Nothing
    /\ attempt' = [attempt EXCEPT ![p] = @ + 1]
    /\ IF attempt[p] + 1 < MaxAttempts
       THEN Goto(p, "open") /\ UNCHANGED outcome
       ELSE Goto(p, "dangRead") /\ End(p, "retry")
    /\ UNCHANGED <<written, seen, sock>>

\* writeSync of the pid through the descriptor, wherever its file is now.
Write(p) ==
    /\ pc[p] = "write"
    /\ \/ /\ written' = [written EXCEPT ![p] = TRUE]
          /\ Goto(p, "held")
          /\ UNCHANGED outcome
       \/ /\ UNCHANGED written
          /\ Goto(p, "dangRead")
          /\ End(p, "write_failed")
    /\ UNCHANGED <<path, seen, attempt, sock>>

-----------------------------------------------------------------------------
(* main: token check, stale-socket cleanup, listen *)

\* Variant with a bug: the boot without a token ends without the release.
CheckTokenKeepsLock(p) ==
    /\ pc[p] = "held"
    /\ \/ Goto(p, "probe") /\ UNCHANGED outcome
       \/ Goto(p, "gone") /\ End(p, "no_token")
    /\ UNCHANGED <<path, written, seen, attempt, sock>>

\* L7: without a token the lock is released again.
CheckToken(p) ==
    /\ pc[p] = "held"
    /\ \/ Goto(p, "probe") /\ UNCHANGED outcome
       \/ Goto(p, "relRead") /\ End(p, "no_token")
    /\ UNCHANGED <<path, written, seen, attempt, sock>>

\* cleanupStaleSocket connects: no file or an accepted connection leave the
\* path alone; a refused connection, or one that a busy listener leaves
\* unanswered for 500 ms, lets it unlink.
ProbeSocket(p) ==
    /\ pc[p] = "probe"
    /\ \/ sock = Nothing /\ Goto(p, "bind")
       \/ sock # Nothing /\ Listening(sock) /\ Goto(p, "bind")
       \/ sock # Nothing /\ Goto(p, "cleanup")
    /\ UNCHANGED <<path, written, seen, attempt, sock, outcome>>

UnlinkSocket(p) ==
    /\ pc[p] = "cleanup"
    /\ sock' = Nothing
    /\ Goto(p, "bind")
    /\ UNCHANGED <<path, written, seen, attempt, outcome>>

\* server.listen fails with EADDRINUSE on an existing path: boot is fatal.
Bind(p) ==
    /\ pc[p] = "bind"
    /\ IF sock = Nothing
       THEN sock' = p /\ Goto(p, "serving") /\ UNCHANGED outcome
       ELSE UNCHANGED sock /\ Goto(p, "dangRead") /\ End(p, "bind_failed")
    /\ UNCHANGED <<path, written, seen, attempt>>

-----------------------------------------------------------------------------
(* doShutdown, releaseDaemonLock, tryReleaseDanglingLock *)

\* A signal or requestShutdown; the flush barrier runs.
RequestShutdown(p) ==
    /\ pc[p] = "serving"
    /\ Goto(p, "closing")
    /\ End(p, "stopped")
    /\ UNCHANGED <<path, written, seen, attempt, sock>>

\* unlinkSync(socketFile), whoever bound it.
CloseSocket(p) ==
    /\ pc[p] = "closing"
    /\ sock' = Nothing
    /\ Goto(p, "relRead")
    /\ UNCHANGED <<path, written, seen, attempt, outcome>>

\* Variant with a bug: the release before it checked the recorded pid.
ReleaseUnchecked(p) ==
    /\ pc[p] \in {"relRead", "dangRead"}
    /\ Goto(p, IF pc[p] = "relRead" THEN "relUnlink" ELSE "dangUnlink")
    /\ UNCHANGED <<path, written, seen, attempt, sock, outcome>>

\* Both releases read the pid first and unlink only their own lock.
ReleaseRead(p) ==
    /\ pc[p] \in {"relRead", "dangRead"}
    /\ IF path = p /\ written[p]
       THEN Goto(p, IF pc[p] = "relRead" THEN "relUnlink" ELSE "dangUnlink")
       ELSE Goto(p, "gone")
    /\ UNCHANGED <<path, written, seen, attempt, sock, outcome>>

\* Variant with a bug: the socket is unlinked once more after the lock is free.
ReleaseThenSocket(p) ==
    /\ pc[p] \in {"relUnlink", "dangUnlink"}
    /\ path' = Nothing
    /\ Goto(p, IF pc[p] = "relUnlink" THEN "closing" ELSE "gone")
    /\ UNCHANGED <<written, seen, attempt, sock, outcome>>

ReleaseUnlink(p) ==
    /\ pc[p] \in {"relUnlink", "dangUnlink"}
    /\ path' = Nothing
    /\ Goto(p, "gone")
    /\ UNCHANGED <<written, seen, attempt, sock, outcome>>

\* kill -9, a crash, or a signal before the handlers are installed.
Crash(p) ==
    /\ Alive(p)
    /\ Goto(p, "gone")
    /\ End(p, "crashed")
    /\ UNCHANGED <<path, written, seen, attempt, sock>>

Step(p) ==
    \/ Open(p) \/ Read(p) \/ Check(p) \/ Unlink(p) \/ Write(p)
    \/ CheckToken(p) \/ ProbeSocket(p) \/ UnlinkSocket(p) \/ Bind(p)
    \/ CloseSocket(p) \/ ReleaseRead(p) \/ ReleaseUnlink(p)

Next == \E p \in Procs : Start(p) \/ Step(p) \/ RequestShutdown(p) \/ Crash(p)

Spec == Init /\ [][Next]_vars

-----------------------------------------------------------------------------
(* Properties *)

\* Every process is at a step of the code and every path names an inode.
TypeOK ==
    /\ pc \in [Procs -> PCs]
    /\ path \in Procs \cup {Nothing}
    /\ written \in [Procs -> BOOLEAN]
    /\ seen \in [Procs -> Procs \cup {Nothing}]
    /\ \A p \in Procs : pc[p] = "check" => seen[p] # Nothing
    /\ attempt \in [Procs -> 0..MaxAttempts]
    /\ sock \in Procs \cup {Nothing}
    /\ outcome \in [Procs -> Outcomes]

\* MODULE-001: the single-instance lock "guarantees <=1 daemon at a time".  It
\* does as long as no two processes are inside acquireDaemonLock at once,
\* whatever crashes, stale files and releases they meet.
AtMostOneDaemon == \A p, q \in Holders : p = q

\* The path of the socket leads to the daemon that serves: neither a late
\* shutdown nor a stale-socket cleanup of another process takes it away.
SocketReachesDaemon == \A p \in Procs : pc[p] = "serving" => sock = p

\* What keeps a start that overlaps no other from booting.  Neither a stale
\* socket nor a race for the stale lock does, and no daemon that came to an
\* orderly end, at whatever step of its boot or service.  What does is a lock
\* whose pid now belongs to another program (:68 refuses it, :64 gives way when
\* its command line names the plugin); as long as it is in the way it is the
\* lock of a daemon that crashed.
OnlyCrashesBlock ==
    \A p \in Procs :
        /\ outcome[p] \notin {"retry", "bind_failed"}
        /\ outcome[p] \in {"wrong_binary", "mistaken"} /\ path = seen[p]
              => outcome[path] = "crashed"

\* releaseDaemonLock: "we must NOT delete the successor's lock file".
ReleaseSparesOthers ==
    [][\A p \in Procs :
          pc[p] \in {"relUnlink", "dangUnlink"} /\ path # p => path' = path]_vars

\* A start that gives way to a live daemon gives way to another process that
\* does own the lock at that moment, not to one that is still starting.
ContendedOnlyByHolder ==
    [][\A p \in Procs :
          outcome'[p] = "contended" /\ outcome[p] # "contended"
             => Holders \ {p} # {}]_vars
=============================================================================
