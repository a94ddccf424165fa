-------------------------- MODULE DaemonLockProofs --------------------------
(***************************************************************************)
(* Theorems about DaemonLock, for any number of processes and attempts.    *)
(***************************************************************************)
EXTENDS DaemonLock, TLAPS

-----------------------------------------------------------------------------
(* Type correctness, with and without serialised starts *)

\* A process that goes on acquiring has an attempt left.
TypeInv ==
    /\ TypeOK
    /\ \A p \in Procs :
          pc[p] \in {"unborn", "open", "read", "check", "unlink"}
             => attempt[p] < MaxAttempts

LEMMA InitType == Init => TypeInv
  BY LockAssumption DEF Init, TypeInv, TypeOK, PCs, Outcomes

LEMMA StepType ==
  ASSUME TypeInv, NEW p \in Procs, Start(p) \/ Step(p) \/ RequestShutdown(p) \/ Crash(p)
  PROVE  TypeInv'
<1> USE LockAssumption DEF TypeInv, TypeOK, PCs, Acquiring, Owning, Outcomes, Goto, End
<1>1. CASE Start(p)
  BY <1>1 DEF Start
<1>2. CASE Open(p)
  BY <1>2 DEF Open
<1>3. CASE Read(p)
  BY <1>3 DEF Read
<1>4. CASE Check(p)
  BY <1>4 DEF Check
<1>5. CASE Unlink(p)
  BY <1>5 DEF Unlink
<1>6. CASE Write(p)
  BY <1>6 DEF Write
<1>7. CASE CheckToken(p)
  BY <1>7 DEF CheckToken
<1>8. CASE ProbeSocket(p)
  BY <1>8 DEF ProbeSocket
<1>9. CASE UnlinkSocket(p)
  BY <1>9 DEF UnlinkSocket
<1>10. CASE Bind(p)
  BY <1>10 DEF Bind
<1>11. CASE CloseSocket(p)
  BY <1>11 DEF CloseSocket
<1>12. CASE ReleaseRead(p)
  BY <1>12 DEF ReleaseRead
<1>13. CASE ReleaseUnlink(p)
  BY <1>13 DEF ReleaseUnlink
<1>14. CASE RequestShutdown(p)
  BY <1>14 DEF RequestShutdown
<1>15. CASE Crash(p)
  BY <1>15 DEF Crash
<1> QED
  BY <1>1, <1>2, <1>3, <1>4, <1>5, <1>6, <1>7, <1>8, <1>9, <1>10, <1>11, <1>12,
     <1>13, <1>14, <1>15 DEF Step

LEMMA TypeInvariant == Spec => []TypeInv
<1>1. TypeInv /\ [Next]_vars => TypeInv'
  <2>1. TypeInv /\ UNCHANGED vars => TypeInv'
    BY DEF vars, TypeInv, TypeOK
  <2> QED
    BY <2>1, StepType DEF Next
<1> QED
  BY <1>1, InitType, PTL DEF Spec

\* Every process is at a step of the code, and every path leads to the inode
\* of a process, however starts overlap.
THEOREM TypeCorrect == Spec => []TypeOK
<1>1. TypeInv => TypeOK
  BY DEF TypeInv
<1> QED
  BY <1>1, TypeInvariant, PTL

-----------------------------------------------------------------------------
(* Mutual exclusion, when the environment serialises starts *)

\* From a successful write to the end, the recorded pid is the process's own.
Recorded == {"held", "probe", "cleanup", "bind", "serving", "closing", "relRead",
             "relUnlink", "dangUnlink"}

\* The file belongs to its holder, and what an acquiring process has seen of
\* it is still true: nobody else can have taken or recreated it meanwhile.
LockInv ==
    /\ \A p, q \in Procs : pc[p] \in Acquiring /\ pc[q] \in Acquiring => p = q
    /\ \A p \in Procs :
          /\ pc[p] \in Recorded => written[p]
          /\ pc[p] \in {"unborn"} \cup Acquiring => ~written[p]
          /\ pc[p] \in Owning /\ written[p] => path = p
          /\ pc[p] = "write" => path = p
          /\ pc[p] = "check" =>
                \A h \in Procs : pc[h] \in Owning /\ written[h] => seen[p] = h
          /\ pc[p] = "unlink" => \A h \in Procs : ~(pc[h] \in Owning /\ written[h])

LEMMA StepLock ==
  ASSUME SerialStart, TypeInv, LockInv, NEW p \in Procs,
         Start(p) \/ Step(p) \/ RequestShutdown(p) \/ Crash(p)
  PROVE  LockInv'
<1> USE LockAssumption DEF TypeInv, TypeOK, PCs, Acquiring, Owning, Recorded, Goto, End, LockInv
<1>1. CASE Start(p)
  BY <1>1 DEF Start
<1>2. CASE Open(p)
  BY <1>2 DEF Open
<1>3. CASE Read(p)
  BY <1>3 DEF Read
<1>4. CASE Check(p)
  BY <1>4 DEF Check, Alive
<1>5. CASE Unlink(p)
  BY <1>5 DEF Unlink
<1>6. CASE Write(p)
  BY <1>6 DEF Write
<1>7. CASE CheckToken(p)
  BY <1>7 DEF CheckToken
<1>8. CASE ProbeSocket(p)
  BY <1>8 DEF ProbeSocket
<1>9. CASE UnlinkSocket(p)
  BY <1>9 DEF UnlinkSocket
<1>10. CASE Bind(p)
  BY <1>10 DEF Bind
<1>11. CASE CloseSocket(p)
  BY <1>11 DEF CloseSocket
<1>12. CASE ReleaseRead(p)
  BY <1>12 DEF ReleaseRead
<1>13. CASE ReleaseUnlink(p)
  BY <1>13 DEF ReleaseUnlink
<1>14. CASE RequestShutdown(p)
  BY <1>14 DEF RequestShutdown
<1>15. CASE Crash(p)
  BY <1>15 DEF Crash
<1> QED
  BY <1>1, <1>2, <1>3, <1>4, <1>5, <1>6, <1>7, <1>8, <1>9, <1>10, <1>11, <1>12,
     <1>13, <1>14, <1>15 DEF Step

LEMMA LockInvariant == ASSUME SerialStart PROVE Spec => [](TypeInv /\ LockInv)
<1>1. Init => LockInv
  BY DEF Init, LockInv, Acquiring, Owning, Recorded
<1>2. TypeInv /\ LockInv /\ [Next]_vars => LockInv'
  <2>1. LockInv /\ UNCHANGED vars => LockInv'
    BY DEF vars, LockInv
  <2> QED
    BY <2>1, StepLock DEF Next
<1> QED
  BY <1>1, <1>2, TypeInvariant, PTL DEF Spec

\* With serialised starts there is never more than one owner of the lock: not
\* after crashes, stale files, reused pids, failed writes or releases.
THEOREM LockMutex == ASSUME SerialStart PROVE Spec => []AtMostOneDaemon
<1>1. LockInv => AtMostOneDaemon
  BY DEF LockInv, AtMostOneDaemon, Holders
<1> QED
  BY <1>1, LockInvariant, PTL

\* With serialised starts a release removes no lock but its own.
THEOREM ReleaseIsOwn == ASSUME SerialStart PROVE Spec => ReleaseSparesOthers
<1>1. LockInv => \A p \in Procs : pc[p] \in {"relUnlink", "dangUnlink"} => path = p
  BY DEF LockInv, Owning, Recorded
<1>2. LockInv => [\A p \in Procs :
          pc[p] \in {"relUnlink", "dangUnlink"} /\ path # p => path' = path]_vars
  BY <1>1
<1> QED
  BY <1>2, LockInvariant, PTL DEF ReleaseSparesOthers

-----------------------------------------------------------------------------
(* Contention, with starts that may overlap *)

\* A pid is read only after it was written, and a process that has written its
\* pid owns the lock until it ends.
ContentionInv ==
    \A p \in Procs :
        /\ written[p] => pc[p] \in Owning \cup {"gone"}
        /\ seen[p] # Nothing => written[seen[p]]

LEMMA StepContention ==
  ASSUME TypeInv, ContentionInv, NEW p \in Procs,
         Start(p) \/ Step(p) \/ RequestShutdown(p) \/ Crash(p)
  PROVE  ContentionInv'
<1> USE LockAssumption DEF TypeInv, TypeOK, ContentionInv, PCs, Owning, Acquiring, Goto, End
<1>1. CASE Start(p) \/ Open(p)
  BY <1>1 DEF Start, Open
<1>2. CASE Read(p)
  BY <1>2 DEF Read
<1>3. CASE Check(p) \/ Unlink(p)
  BY <1>3 DEF Check, Unlink
<1>4. CASE Write(p)
  BY <1>4 DEF Write
<1>5. CASE CheckToken(p) \/ ProbeSocket(p) \/ UnlinkSocket(p) \/ Bind(p)
  BY <1>5 DEF CheckToken, ProbeSocket, UnlinkSocket, Bind
<1>6. CASE CloseSocket(p) \/ ReleaseRead(p) \/ ReleaseUnlink(p)
  BY <1>6 DEF CloseSocket, ReleaseRead, ReleaseUnlink
<1>7. CASE RequestShutdown(p) \/ Crash(p)
  BY <1>7 DEF RequestShutdown, Crash
<1> QED
  BY <1>1, <1>2, <1>3, <1>4, <1>5, <1>6, <1>7 DEF Step

\* Only the check ends a start as contended, and then the live process it has
\* seen is another one and owns the lock.
LEMMA StepGivesWay ==
  ASSUME TypeInv, ContentionInv, NEW p \in Procs, NEW q \in Procs,
         Start(p) \/ Step(p) \/ RequestShutdown(p) \/ Crash(p),
         outcome'[q] = "contended", outcome[q] # "contended"
  PROVE  Holders \ {q} # {}
<1> USE LockAssumption DEF TypeInv, TypeOK, Goto, End
<1>1. Check(p)
  <2>1. ~(Start(p) \/ Open(p) \/ Read(p) \/ Unlink(p) \/ Write(p))
    BY DEF Start, Open, Read, Unlink, Write
  <2>2. ~(CheckToken(p) \/ ProbeSocket(p) \/ UnlinkSocket(p) \/ Bind(p))
    BY DEF CheckToken, ProbeSocket, UnlinkSocket, Bind
  <2>3. ~(CloseSocket(p) \/ ReleaseRead(p) \/ ReleaseUnlink(p))
    BY DEF CloseSocket, ReleaseRead, ReleaseUnlink
  <2>4. ~(RequestShutdown(p) \/ Crash(p))
    BY DEF RequestShutdown, Crash
  <2> QED
    BY <2>1, <2>2, <2>3, <2>4 DEF Step
<1>2. q = p /\ pc[p] = "check" /\ Alive(seen[p])
  BY <1>1 DEF Check
<1>3. seen[p] \in Procs /\ written[seen[p]]
  BY <1>2 DEF ContentionInv
<1>4. seen[p] \in Holders /\ seen[p] # p
  BY <1>2, <1>3 DEF Holders, Alive, ContentionInv, Owning
<1> QED
  BY <1>2, <1>4

LEMMA ContentionInvariant == Spec => []ContentionInv
<1>1. Init => ContentionInv
  BY LockAssumption DEF Init, ContentionInv
<1>2. TypeInv /\ ContentionInv /\ [Next]_vars => ContentionInv'
  <2>1. ContentionInv /\ UNCHANGED vars => ContentionInv'
    BY DEF vars, ContentionInv
  <2> QED
    BY <2>1, StepContention DEF Next
<1> QED
  BY <1>1, <1>2, TypeInvariant, PTL DEF Spec

\* However starts overlap, one that gives way to a live daemon gives way to a
\* process that owns the lock.
THEOREM ContendedByHolder == Spec => ContendedOnlyByHolder
<1>1. TypeInv /\ ContentionInv /\ [Next]_vars =>
        [\A p \in Procs : outcome'[p] = "contended" /\ outcome[p] # "contended"
                             => Holders \ {p} # {}]_vars
  BY StepGivesWay DEF Next
<1> QED
  BY <1>1, TypeInvariant, ContentionInvariant, PTL DEF Spec, ContendedOnlyByHolder

-----------------------------------------------------------------------------
(* The socket *)

\* The serving daemon's socket is at the path; a daemon that is about to bind
\* finds the path free, because nobody else can be listening.
SocketInv ==
    /\ SocketReachesDaemon
    /\ \A p \in Procs : pc[p] = "bind" => sock = Nothing

LEMMA StepSocket ==
  ASSUME SerialStart, TypeInv, LockInv, SocketInv, NEW p \in Procs,
         Start(p) \/ Step(p) \/ RequestShutdown(p) \/ Crash(p)
  PROVE  SocketInv'
<1>1. \A q \in Procs : pc[q] \in {"probe", "cleanup", "bind", "serving", "closing"}
                       => q \in Holders
  BY DEF LockInv, Holders, Recorded, Owning
<1>2. \A q, r \in Holders : q = r
  BY DEF LockInv, Holders
<1> USE LockAssumption DEF SocketInv, SocketReachesDaemon, TypeInv, TypeOK, Goto, End
<1>3. CASE Start(p)
  BY <1>3 DEF Start
<1>4. CASE Open(p) \/ Read(p) \/ Check(p) \/ Unlink(p) \/ Write(p) \/ CheckToken(p)
  BY <1>4 DEF Open, Read, Check, Unlink, Write, CheckToken
<1>5. CASE ProbeSocket(p)
  <2>1. sock # Nothing => ~Listening(sock)
    BY <1>1, <1>2, <1>5 DEF ProbeSocket, Listening
  <2> QED
    BY <1>5, <2>1 DEF ProbeSocket
<1>6. CASE UnlinkSocket(p)
  BY <1>1, <1>2, <1>6 DEF UnlinkSocket
<1>7. CASE Bind(p)
  BY <1>1, <1>2, <1>7 DEF Bind
<1>8. CASE CloseSocket(p)
  BY <1>1, <1>2, <1>8 DEF CloseSocket
<1>9. CASE ReleaseRead(p) \/ ReleaseUnlink(p)
  BY <1>9 DEF ReleaseRead, ReleaseUnlink
<1>10. CASE RequestShutdown(p) \/ Crash(p)
  BY <1>10 DEF RequestShutdown, Crash
<1> QED
  BY <1>3, <1>4, <1>5, <1>6, <1>7, <1>8, <1>9, <1>10 DEF Step

LEMMA SocketInvariant ==
  ASSUME SerialStart PROVE Spec => [](TypeInv /\ LockInv /\ SocketInv)
<1>1. Init => SocketInv
  BY DEF Init, SocketInv, SocketReachesDaemon
<1>2. TypeInv /\ LockInv /\ SocketInv /\ [Next]_vars => SocketInv'
  <2>1. SocketInv /\ UNCHANGED vars => SocketInv'
    BY DEF vars, SocketInv, SocketReachesDaemon
  <2> QED
    BY <2>1, StepSocket DEF Next
<1> QED
  BY <1>1, <1>2, LockInvariant, PTL DEF Spec

\* With serialised starts no shutdown and no stale-socket cleanup takes the
\* socket of a serving daemon away.
THEOREM SocketIsReachable == ASSUME SerialStart PROVE Spec => []SocketReachesDaemon
<1>1. SocketInv => SocketReachesDaemon
  BY DEF SocketInv
<1> QED
  BY <1>1, SocketInvariant, PTL

-----------------------------------------------------------------------------
(* What keeps a boot from succeeding *)

\* A lock file that names a process that is gone was left by a crash: every
\* other end removes it, or finds that it is no longer there.  A start that a
\* foreign pid stopped has read the lock of a process that is gone.
LeftInv ==
    /\ \A p \in Procs : pc[p] = "gone" /\ written[p] /\ path = p => outcome[p] = "crashed"
    /\ \A p \in Procs :
          outcome[p] \in {"wrong_binary", "mistaken"}
             => /\ pc[p] \in {"dangRead", "dangUnlink", "gone"}
                /\ seen[p] \in Procs /\ written[seen[p]] /\ pc[seen[p]] = "gone"

LEMMA StepLeft ==
  ASSUME TypeInv, ContentionInv, LeftInv, NEW p \in Procs,
         Start(p) \/ Step(p) \/ RequestShutdown(p) \/ Crash(p)
  PROVE  LeftInv'
<1> USE LockAssumption DEF TypeInv, TypeOK, ContentionInv, LeftInv, PCs, Owning,
        Acquiring, Outcomes, Goto, End
<1>1. CASE Start(p)
  BY <1>1 DEF Start
<1>2. CASE Open(p)
  BY <1>2 DEF Open
<1>3. CASE Read(p)
  BY <1>3 DEF Read
<1>4. CASE Check(p)
  BY <1>4 DEF Check, Alive
<1>5. CASE Unlink(p)
  BY <1>5 DEF Unlink
<1>6. CASE Write(p)
  BY <1>6 DEF Write
<1>7. CASE CheckToken(p)
  BY <1>7 DEF CheckToken
<1>8. CASE ProbeSocket(p) \/ UnlinkSocket(p)
  BY <1>8 DEF ProbeSocket, UnlinkSocket
<1>9. CASE Bind(p)
  BY <1>9 DEF Bind
<1>10. CASE CloseSocket(p)
  BY <1>10 DEF CloseSocket
<1>11. CASE ReleaseRead(p)
  BY <1>11 DEF ReleaseRead
<1>12. CASE ReleaseUnlink(p)
  BY <1>12 DEF ReleaseUnlink
<1>13. CASE RequestShutdown(p)
  BY <1>13 DEF RequestShutdown
<1>14. CASE Crash(p)
  BY <1>14 DEF Crash, Alive
<1> QED
  BY <1>1, <1>2, <1>3, <1>4, <1>5, <1>6, <1>7, <1>8, <1>9, <1>10, <1>11, <1>12,
     <1>13, <1>14 DEF Step

LEMMA LeftInvariant == Spec => []LeftInv
<1>1. Init => LeftInv
  BY LockAssumption DEF Init, LeftInv
<1>2. TypeInv /\ ContentionInv /\ LeftInv /\ [Next]_vars => LeftInv'
  <2>1. LeftInv /\ UNCHANGED vars => LeftInv'
    BY DEF vars, LeftInv
  <2> QED
    BY <2>1, StepLeft DEF Next
<1> QED
  BY <1>1, <1>2, TypeInvariant, ContentionInvariant, PTL DEF Spec

\* One takeover is enough: after its unlink the path stays free for the next
\* attempt, and an attempt that finds a file is the first.  The socket's path
\* is free when it is bound.
BootInv ==
    \A p \in Procs :
        /\ outcome[p] \notin {"retry", "bind_failed"}
        /\ pc[p] \in {"unborn", "read", "check", "unlink"} => attempt[p] = 0
        /\ pc[p] = "open" => attempt[p] = 0 \/ path = Nothing

LEMMA StepBoot ==
  ASSUME SerialStart, MaxAttempts > 1, TypeInv, LockInv, SocketInv, BootInv,
         NEW p \in Procs, Start(p) \/ Step(p) \/ RequestShutdown(p) \/ Crash(p)
  PROVE  BootInv'
<1>1. \A q \in Procs : pc[q] \in Acquiring /\ pc[p] \in Acquiring => q = p
  BY DEF LockInv
<1> USE LockAssumption DEF BootInv, TypeInv, TypeOK, Goto, End, Acquiring
<1>2. CASE Start(p)
  BY <1>2 DEF Start
<1>3. CASE Open(p)
  BY <1>1, <1>3 DEF Open
<1>4. CASE Read(p)
  BY <1>4 DEF Read
<1>5. CASE Check(p)
  BY <1>5 DEF Check
<1>6. CASE Unlink(p)
  BY <1>1, <1>6 DEF Unlink
<1>7. CASE Write(p)
  BY <1>7 DEF Write
<1>8. CASE CheckToken(p) \/ ProbeSocket(p) \/ UnlinkSocket(p)
  BY <1>8 DEF CheckToken, ProbeSocket, UnlinkSocket
<1>9. CASE Bind(p)
  BY <1>9 DEF Bind, SocketInv
<1>10. CASE CloseSocket(p) \/ ReleaseRead(p) \/ ReleaseUnlink(p)
  BY <1>10 DEF CloseSocket, ReleaseRead, ReleaseUnlink
<1>11. CASE RequestShutdown(p) \/ Crash(p)
  BY <1>11 DEF RequestShutdown, Crash
<1> QED
  BY <1>2, <1>3, <1>4, <1>5, <1>6, <1>7, <1>8, <1>9, <1>10, <1>11 DEF Step

\* With serialised starts and at least two attempts, what an earlier daemon left
\* keeps a boot from succeeding only if that daemon crashed and its pid has
\* become another program's.
THEOREM CrashesBlock ==
  ASSUME SerialStart, MaxAttempts > 1 PROVE Spec => []OnlyCrashesBlock
<1>1. Init => BootInv
  BY DEF Init, BootInv
<1>2. TypeInv /\ LockInv /\ SocketInv /\ BootInv /\ [Next]_vars => BootInv'
  <2>1. BootInv /\ UNCHANGED vars => BootInv'
    BY DEF vars, BootInv
  <2> QED
    BY <2>1, StepBoot DEF Next
<1>3. BootInv /\ LeftInv => OnlyCrashesBlock
  BY DEF BootInv, LeftInv, OnlyCrashesBlock
<1> QED
  BY <1>1, <1>2, <1>3, SocketInvariant, LeftInvariant, PTL DEF Spec
=============================================================================
