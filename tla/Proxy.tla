------------------------------- MODULE Proxy -------------------------------
(***************************************************************************)
(* The MCP proxies of the claude sessions (mcp/proxy-client.ts): processes *)
(* that connect to the daemon, spawn it when it is not there, wait for the *)
(* acknowledgement of their session, pass tool calls on, announce a reload *)
(* and exit when the daemon is gone.  The daemon is reduced to its boot,   *)
(* its socket and its shutdown (DaemonLock and Sessions have the rest);    *)
(* what it knows of reconnects is Reconnects.                              *)
(*                                                                         *)
(* A slot is one claude session's proxy after another.  Frames keep their  *)
(* order on a connection and no order between connections.  The timers of  *)
(* 100 ms to 2 s, and the 60 s of a call, fire at any moment: only the     *)
(* life of an announcement is counted.                                     *)
(***************************************************************************)
EXTENDS Reconnects

CONSTANTS
    Proxies,        \* the slots
    Assignments,    \* which slot may be a session of which project
    MaxLaunches,    \* bound: the proxies started
    MaxBoots,       \* bound: the daemons started
    Callers         \* bound: the slots whose processes make a tool call, one each

ASSUME ProxyAssumption ==
    /\ Assignments \subseteq [Proxies -> Projects]
    /\ MaxLaunches \in Nat /\ MaxBoots \in Nat
    /\ Callers \subseteq Proxies

VARIABLES
    pc,         \* where a proxy is
    project,    \* the PROXY_ID of a slot's processes
    sock,       \* its socket
    toDaemon,   \* the frames it wrote that the daemon has not read
    ack,        \* a session_init_ack is on its way to it
    call,       \* its tool call
    helper,     \* its daemon-spawn.sh is about to start a daemon
    deaf,       \* history: its socket closed before it watched for that
    daemon,     \* the daemon
    launches, boots

link == <<sock, toDaemon, ack>>
told == <<call, deaf>>
proxyVars == <<pc, link, told, helper>>
life == <<daemon, boots, launches>>
outside == <<recVars, life, project>>
vars == <<proxyVars, outside>>

PCs == {"none", "connect", "spawned", "awaitAck", "serving", "exiting",
        "leaving", "exited"}
Starting == {"connect", "spawned", "awaitAck"}
Frames == {"session_init", "will_reconnect", "end"}

\* "hungUp": the daemon's end is closed, the close event has not run.
Sockets == {"none", "open", "hungUp", "closed"}

\* The daemon listens until its shutdown has unlinked the socket.
Listening == daemon \in {"up", "closing"}
Running == daemon \in {"up", "closing", "unlinked"}

Goto(p, l) == pc' = [pc EXCEPT ![p] = l]
Wire(p, frame) == toDaemon' = [toDaemon EXCEPT ![p] = Append(@, frame)]

Init ==
    /\ NothingAnnounced
    /\ project \in Assignments
    /\ pc = [p \in Proxies |-> "none"]
    /\ sock = [p \in Proxies |-> "none"]
    /\ toDaemon = [p \in Proxies |-> <<>>]
    /\ ack = [p \in Proxies |-> FALSE]
    /\ call = [p \in Proxies |-> "none"]
    /\ helper = [p \in Proxies |-> FALSE]
    /\ deaf = [p \in Proxies |-> FALSE]
    /\ daemon = "down" /\ launches = 0 /\ boots = 0

-----------------------------------------------------------------------------
(* connectWithFallback and the wait for the acknowledgement *)

\* claude starts the proxy of a session; its slot's last connection is over.
Launch(p) ==
    /\ pc[p] \in {"none", "exited"} /\ sock[p] \in {"none", "closed"}
    /\ launches < MaxLaunches
    /\ launches' = launches + 1
    /\ Goto(p, "connect")
    /\ sock' = [sock EXCEPT ![p] = "none"]
    /\ UNCHANGED <<recVars, toDaemon, ack, told, helper, daemon, boots, project>>

\* The daemon listens, at the first attempt or 1.5 s after the helper was
\* spawned: session_init goes out with the connection.
Connect(p) ==
    /\ pc[p] \in {"connect", "spawned"} /\ Listening
    /\ Goto(p, "awaitAck")
    /\ sock' = [sock EXCEPT ![p] = "open"]
    /\ Wire(p, "session_init")
    /\ UNCHANGED <<ack, told, helper, outside>>

\* ENOENT or ECONNREFUSED: the first attempt spawns the helper, the second is
\* the last, and the process ends.
ConnectFails(p) ==
    /\ ~Listening
    /\ \/ /\ pc[p] = "connect"
          /\ Goto(p, "spawned")
          /\ helper' = [helper EXCEPT ![p] = TRUE]
       \/ /\ pc[p] = "spawned"
          /\ Goto(p, "exited")
          /\ UNCHANGED helper
    /\ UNCHANGED <<link, told, outside>>

\* The 2 s fallback: the proxy serves without its shortid.
AckTimeout(p) ==
    /\ pc[p] = "awaitAck"
    /\ Goto(p, "serving")
    /\ UNCHANGED <<link, told, helper, outside>>

\* handleFrame: the acknowledgement ends the wait; a late one only brings the
\* shortid.
AckArrives(p) ==
    /\ ack[p] /\ pc[p] # "exited"
    /\ ack' = [ack EXCEPT ![p] = FALSE]
    /\ Goto(p, IF pc[p] = "awaitAck" THEN "serving" ELSE pc[p])
    /\ UNCHANGED <<sock, toDaemon, told, helper, outside>>

-----------------------------------------------------------------------------
(* Tool calls *)

\* The CallTool handler: a request is pending and its frame is written, whatever
\* the socket's state.  (An error of that write has no listener and ends the
\* process: Killed.)
Call(p) ==
    /\ pc[p] \in {"serving", "exiting"}
    /\ p \in Callers /\ call[p] = "none"
    /\ call' = [call EXCEPT ![p] = "pending"]
    /\ UNCHANGED <<pc, link, deaf, helper, outside>>

\* dispatchToolCall's result arrives, late or never: what is written to a socket
\* that the daemon has hung up on is lost.
CallAnswered(p) ==
    /\ call[p] = "pending" /\ pc[p] # "exited" /\ sock[p] = "open" /\ Running
    /\ call' = [call EXCEPT ![p] = "settled"]
    /\ UNCHANGED <<pc, link, deaf, helper, outside>>

\* The 60 s timer of a call.
CallTimeout(p) ==
    /\ call[p] = "pending" /\ pc[p] # "exited"
    /\ call' = [call EXCEPT ![p] = "settled"]
    /\ UNCHANGED <<pc, link, deaf, helper, outside>>

-----------------------------------------------------------------------------
(* The end of a proxy *)

\* What is left of a process that ends: the kernel closes its socket.
Gone(p) ==
    /\ Goto(p, "exited")
    /\ call' = [call EXCEPT ![p] = "none"]
    /\ deaf' = [deaf EXCEPT ![p] = FALSE]
    /\ ack' = [ack EXCEPT ![p] = FALSE]
    /\ IF sock[p] = "open"
       THEN Wire(p, "end") /\ UNCHANGED sock
       ELSE sock' = [sock EXCEPT ![p] = "closed"] /\ UNCHANGED toDaemon
    /\ UNCHANGED <<helper, outside>>

\* Variant with a bug: the disconnect handler is not called.
CloseUnwatched(p) ==
    /\ sock[p] = "hungUp" /\ ~ack[p] /\ pc[p] # "exited"
    /\ sock' = [sock EXCEPT ![p] = "closed"]
    /\ call' = [call EXCEPT ![p] = IF @ = "pending" THEN "settled" ELSE @]
    /\ UNCHANGED <<pc, toDaemon, ack, deaf, helper, outside>>

\* The close event rejects what is pending and calls the handler of main, which
\* main registers once the wait for the acknowledgement is over.
Close(p) ==
    /\ sock[p] = "hungUp" /\ ~ack[p] /\ pc[p] # "exited"
    /\ sock' = [sock EXCEPT ![p] = "closed"]
    /\ call' = [call EXCEPT ![p] = IF @ = "pending" THEN "settled" ELSE @]
    /\ Goto(p, IF pc[p] = "serving" THEN "exiting" ELSE pc[p])
    /\ deaf' = [deaf EXCEPT ![p] = pc[p] = "awaitAck"]
    /\ UNCHANGED <<toDaemon, ack, helper, outside>>

\* 100 ms after the disconnect.
ExitTimer(p) == pc[p] = "exiting" /\ Gone(p)

\* SIGTERM once main has its handler, on /reload-plugins: the announcement.
Reload(p) ==
    /\ pc[p] = "serving"
    /\ Goto(p, "leaving")
    /\ IF sock[p] = "open" THEN Wire(p, "will_reconnect") ELSE UNCHANGED toDaemon
    /\ UNCHANGED <<sock, ack, told, helper, outside>>

\* The socket is flushed, or 500 ms have passed; dispose, and the exit.
Left(p) == pc[p] = "leaving" /\ Gone(p)

\* A signal before that handler, a kill, or a write that fails.
Killed(p) == pc[p] \in Starting \union {"serving"} /\ Gone(p)

-----------------------------------------------------------------------------
(* The daemon *)

\* The helper's daemon takes the lock and boots, or gives way to one that
\* holds it, in its shutdown or not.
HelperRuns(p) ==
    /\ helper[p]
    /\ helper' = [helper EXCEPT ![p] = FALSE]
    /\ IF daemon = "down" /\ boots < MaxBoots
       THEN daemon' = "booting" /\ boots' = boots + 1
       ELSE UNCHANGED <<daemon, boots>>
    /\ UNCHANGED <<recVars, pc, link, told, launches, project>>

\* KeepAlive: launchd starts a daemon that is gone.
LaunchdStarts ==
    /\ Launchd /\ daemon = "down" /\ boots < MaxBoots
    /\ daemon' = "booting" /\ boots' = boots + 1
    /\ UNCHANGED <<recVars, proxyVars, launches, project>>

DaemonListens ==
    /\ daemon = "booting"
    /\ daemon' = "up"
    /\ Forgotten
    /\ UNCHANGED <<marker, proxyVars, boots, launches, project>>

\* A frame of a connection reaches handleConnection.
DaemonReads(p) ==
    /\ Running /\ sock[p] = "open" /\ toDaemon[p] # <<>>
    /\ toDaemon' = [toDaemon EXCEPT ![p] = Tail(@)]
    /\ \/ /\ Head(toDaemon[p]) = "session_init"
          /\ Classify(project[p])
          /\ ack' = [ack EXCEPT ![p] = pc[p] # "exited"]
          /\ UNCHANGED sock
       \/ /\ Head(toDaemon[p]) = "will_reconnect"
          /\ RecordWillReconnect(project[p])
          /\ UNCHANGED <<ack, sock>>
       \/ /\ Head(toDaemon[p]) = "end"
          /\ sock' = [sock EXCEPT ![p] = "closed"]
          /\ UNCHANGED <<recVars, ack>>
    /\ UNCHANGED <<pc, told, helper, life, project>>

\* The sockets that the daemon's end of is closed; what it had sent arrives,
\* what it had not read is lost.
HungUp(ps) ==
    /\ sock' = [p \in Proxies |->
                  IF p \in ps /\ sock[p] = "open"
                  THEN IF pc[p] = "exited" THEN "closed" ELSE "hungUp"
                  ELSE sock[p]]
    /\ toDaemon' = [p \in Proxies |-> IF p \in ps THEN <<>> ELSE toDaemon[p]]

\* closeSession: an admin's /detach, or a session too many.
DaemonHangsUp(p) ==
    /\ Running /\ sock[p] = "open"
    /\ "session_init" \notin Range(toDaemon[p])
    /\ HungUp({p})
    /\ UNCHANGED <<pc, ack, told, helper, outside>>

\* doShutdown: the marker on SIGTERM only, the flush barrier, the socket's
\* path, the lock and the exit.
Sigterm ==
    /\ daemon = "up"
    /\ daemon' = "closing"
    /\ WriteShutdownMarker
    /\ UNCHANGED <<proxyVars, boots, launches, project>>

StopOtherwise ==
    /\ daemon = "up"
    /\ daemon' = "closing"
    /\ UNCHANGED <<recVars, proxyVars, boots, launches, project>>

UnlinkSocket ==
    /\ daemon = "closing"
    /\ daemon' = "unlinked"
    /\ UNCHANGED <<recVars, proxyVars, boots, launches, project>>

\* The exit, a failing boot, or a crash at any point.
DaemonEnds ==
    /\ daemon # "down"
    /\ daemon' = "down"
    /\ HungUp(Proxies)
    /\ Forgotten
    /\ UNCHANGED <<marker, pc, ack, told, helper, boots, launches, project>>

ExpiryFires ==
    /\ \E t \in timers : ExpiryTimer(t)
    /\ UNCHANGED <<proxyVars, life, project>>

Tick ==
    /\ Running
    /\ Passed
    /\ UNCHANGED <<proxyVars, life, project>>

-----------------------------------------------------------------------------
ProxySteps(p) ==
    \/ Connect(p) \/ ConnectFails(p) \/ AckTimeout(p)
    \/ AckArrives(p) \/ CallTimeout(p) \/ Close(p) \/ ExitTimer(p) \/ Left(p)

Next ==
    \/ \E p \in Proxies :
          \/ Launch(p) \/ ProxySteps(p) \/ Call(p) \/ CallAnswered(p)
          \/ Reload(p) \/ Killed(p) \/ HelperRuns(p) \/ DaemonReads(p) \/ DaemonHangsUp(p)
    \/ LaunchdStarts \/ DaemonListens \/ Sigterm \/ StopOtherwise
    \/ UnlinkSocket \/ DaemonEnds \/ ExpiryFires \/ Tick

Spec == Init /\ [][Next]_vars

\* The event loop of a proxy runs its callbacks and its timers.  Nothing is
\* assumed of the daemon, of claude or of the admin.
FairSpec == Spec /\ \A p \in Proxies : WF_vars(ProxySteps(p))

-----------------------------------------------------------------------------
(* Properties *)

\* Every process is at a step of the code, and each entry has one timer.
TypeOK ==
    /\ project \in Assignments
    /\ pc \in [Proxies -> PCs]
    /\ sock \in [Proxies -> Sockets]
    /\ \A p \in Proxies : Range(toDaemon[p]) \subseteq Frames
    /\ ack \in [Proxies -> BOOLEAN]
    /\ call \in [Proxies -> {"none", "pending", "settled"}]
    /\ helper \in [Proxies -> BOOLEAN]
    /\ deaf \in [Proxies -> BOOLEAN]
    /\ daemon \in {"down", "booting", "up", "closing", "unlinked"}
    /\ launches \in 0..MaxLaunches /\ boots \in 0..MaxBoots
    /\ Range(scripted) \subseteq [id : Projects, left : 0..Expiry]
    /\ Len(scripted) <= MaxEntries
    /\ timers = Range(scripted)
    /\ resolved \in BOOLEAN /\ marker \in BOOLEAN
    /\ due \in [Projects -> 0..Expiry] /\ excuses \in Nat

\* AC-23: "next session_init from same proxy_id within window classifies as
\* 'reload_handshake'", and only that one.  An announcement that the daemon has
\* read and nobody used is known for its whole minute, and none outlives its
\* use, however announcements, reconnects, evictions and timers of several
\* sessions mix.  (What the cap evicts is lost; one project's sessions share
\* an announcement.)
AnnouncedIsScripted == \A id \in Projects : Announced(id) <=> due[id] > 0

\* "One-shot consumed": the end of the last daemon excuses one session.
BootExcusesOne == excuses <= 1

\* "daemon went away -> exit so claude can lazy-spawn on next call": whatever
\* becomes of the daemon, a proxy that was started comes to rest serving on an
\* open connection or exits, and its call is answered, rejected or timed out by
\* then, also one made after the daemon has hung up.  (A proxy that was hung up on
\* before main watched for it, in the wait for the acknowledgement, neither has a
\* connection nor exits: it serves on without a daemon until claude ends it.)
ProxySettles ==
    \A p \in Proxies :
       []<>(/\ call[p] # "pending"
            /\ \/ pc[p] \in {"none", "exited"}
               \/ pc[p] = "serving" /\ (sock[p] = "open" \/ deaf[p]))
=============================================================================
