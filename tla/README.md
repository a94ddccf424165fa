# A TLA+ verification of the advance-kit Telegram daemon

advance-kit is a set of Claude Code plugins. One of them,
`plugins/telegram-channels-pro`, is a long-running daemon that bridges Telegram
and any number of `claude` sessions; it holds nearly all of the repository's
concurrency, persistence and failure handling, and it is what these modules
model. Paths below are relative to
`src/plugins/telegram-channels-pro/src/` unless they start with `docs/` or
`plugins/`.

## 1. Inventory

### The system

```
Telegram Bot API
   ^  | getUpdates / sendMessage / editMessageText / answerCallbackQuery
   |  v
 M002 polling loop, client, replay queue ---- inbound_update ----> M005 routing
   |  registration_timeout (from M006)                              |  |
   |  polling_health -> M001 watchdog                               |  v
   v                                                                | M006 admin, registration
 event bus (M001) <---- session_connected / _disconnected ----+     v
                                                       M003 acceptor, session map
                                                              ^  unix socket, frames
                                                              v
                                                        proxies (one per claude session)
 M004 tools: reply, request_approval, react, edit, download  (called through M003)
 M007 launchd / lazy-spawn scripts, control socket           M008 logs, alerts, status
```

The daemon is one Bun process with one event loop. What interleaves are the
continuations of its awaits, the callbacks of its timers and sockets, the other
processes that share its files (a second daemon, launchd, the shell helpers), and
its own death.

| Component | State | Operations | What is hard | What makes it correct |
|---|---|---|---|---|
| Polling loop, offset (`telegram/polling-loop.ts`, `offset-manager.ts`, `fatal-window.ts`, `polling-status.ts`) | state, await, fatal window, offset in memory and on disk | poll, backoff, quarantine, probe, publish, pause, stop | handlers run at any await; crash between persist and publish | updates published once, in order, none skipped but those in hand at a crash; quarantines end |
| Replies and replay queue (`telegram/client.ts`, `outbound-replay-queue.ts`) | queue, what each sender was told | send, enqueue, drain | drain awaits between entries; lost answers | FIFO, shown once, senders told the truth, nothing stranded |
| Lock, socket, shutdown (`daemon/process-lock.ts`, `shutdown.ts`, `main.ts`) | lock file, socket file, holder | acquire, take over, probe, bind, release | processes interleave at every file-system call; crashes leave files | one daemon; its socket reachable; of what an earlier daemon left, only a crash with its pid reused blocks a boot |
| Approvals (`tools/request-approval.ts`, `pending-registry.ts`) | registry, promises, button messages | request, press, cleanup, time out | presses, cleanups and disconnects race | an answer reaches the request it was pressed for, and only it |
| Registration and admin (`auth/*`) | gate, code, counters, allowlist, admin.json | open, DM, time out, trip, reset | timeout against DM against reset; restart | one admin; only the code of the open window registers |
| Watchdog, deployment mode (`daemon/watchdog.ts`) | heartbeat, client count | probe, signal | timers of other components decide whether the daemon survives | kills only a stuck, orphaned or idle daemon |
| Acceptor, session map (`mcp/daemon-acceptor.ts`, `session-map.ts`) | connections, shortids, reconnect entries | accept, init, deliver, disconnect, announce | closing sessions still act; capacity; eviction against timers | map and registry agree; shortids unique; an announced reconnect is recognised |
| Routing (`routing/*`) | focus order, throttle | dispatch, /session, /list, wait-for-reset | events against dispatch | text goes to the focused session |
| Proxy (`mcp/proxy-client.ts`) | socket, pending requests, announced reload | connect with fallback, call, time out, reload, exit | daemon dies at any step; late answers | every proxy and every call comes to its end |
| Event bus (`daemon/event-bus.ts`) | listeners | emit, on | what a subscriber throws | no subscriber's failure reaches the emitter |
| Chat-type cache (`telegram/chat-type-cache.ts`) | entries, fetches in flight | prime, get | several calls miss together; a fetch fails | one getChat per chat; unknown is refused |
| Other tools (`tools/reply.ts`, `react.ts`, `edit-message.ts`) | the call's file, what its session was told | gate, post, report | a quarantine between two files | the session is told what happened |
| Observability (`obs/*`) | log, alert buckets, quarantine state | log, alert, snapshot | alerts in quarantine; a full disk | no alert storm, no alert unaccounted for |
| Control socket, shell helpers, launchd (`deployment/control-socket.ts`, `plugins/*/bin/*.sh`) | control socket file | status, reset_admin, spawn | spawn races | at most one daemon |

Outside the daemon: `plugins/dev` (shell tools around git worktrees and a
documentation workflow), `plugins/code-companion` (a macOS menu-bar app, a
bridge script and an editor extension) and `plugins/claude-best-practice`
(prose).

The hazards, each with its line and the properties that watch it, are listed in
`PROJECT.json` under `hazards`.

## 2. Modules, and how they correspond to the code

| Module | Models | Composed with |
|---|---|---|
| `UpdateFeed` | what the polling loop promises its subscribers: updates in increasing order, each at most once, some given up for good | abstract specification of `PollingLoop` |
| `PollingLoop` | `polling-loop.ts` with offset manager, polling status, fatal window, replay queue and the three ways of `sendMessage` | `ImplementsFeed` is its refinement of `UpdateFeed` |
| `PollingLoopProofs` | theorems about `PollingLoop` | extends it |
| `DaemonLock` | `process-lock.ts`, the socket's cleanup and `shutdown.ts`, in the order of `main.ts` | |
| `DaemonLockProofs` | theorems about `DaemonLock` | extends it |
| `Approvals` | `request_approval`, pending registry, callbacks, the answer's way through acceptor and proxy | |
| `ApprovalsProofs` | theorems about `Approvals` | extends it |
| `ApprovalDesk` | what `request_approval` promises: one decision per request, made by a press and never revised, none once the request is over, and one thing told to the session | abstract specification of `Approvals`, whose `ImplementsDesk` is the refinement |
| `SessionsProofs` | theorems about `Sessions` | extends it |
| `Sessions` | acceptor, session map, registry, wait-for-reset handshake, the watchdog's count, dispatch and `/session` | |
| `Registration` | the gate, the allowlist, `admin.json`, boot, `reset-admin`; a component without a specification of its own | its actions are steps of `Lifecycle` |
| `Lifecycle` | the watchdog composed with the gate, the states of the polling loop and the sessions | extends `Registration` |
| `LifecycleProofs` | theorems about `Lifecycle` and its `Registration` | extends it |
| `Reconnects` | what the acceptor and the state directory know of reconnects: announcements with their timers, eviction, the marker of the last shutdown; a component without a specification of its own | its operators are part of the steps of `Proxy` |
| `Proxy` | `proxy-client.ts`: processes that connect, spawn the daemon, call, reload and exit, with daemons that come and go | extends `Reconnects` |
| `ProxyProofs` | theorems about `Proxy` and its `Reconnects` | extends it |
| `Alerts` | event bus, log subscriber and alert dispatcher; a component | its actions are steps of `Outbound` |
| `AlertsProofs` | lemmas about `Alerts`, whatever composes it | extends it |
| `Outbound` | `reply`, `edit_message`, `react`, their gate and the chat-type cache, in and out of a quarantine | extends `Alerts`, whose quarantine and full disk it shares |
| `OutboundProofs` | theorems about `Outbound` and its `Alerts` | extends it and `AlertsProofs` |
| `MC*` | the constants and symmetries of TLC's runs | |

Conventions. The daemon is one event loop, so an action is what runs between two
awaits of the network, or one callback with everything it sets off: `EventBus.emit`
calls its subscribers synchronously, and a `write` that is followed by no
other await ends in the same turn. Where processes share files (`DaemonLock`),
an action is one system call. An operator named for a variant with a bug
(`...Late`, `...Unchecked`, each preceded by "Variant with a bug") is part of no specification; each shows that the
property it belongs to would notice that bug. The `map` of `PROJECT.json` gives
the lines behind every definition.

**PollingLoop.** `at` is the await the loop is suspended on, `state` the field of
that name. `PollOk`, `PollRetryLater`, `PollFatal` are the three answers of
`getUpdates`; `ProbeOk`, `ProbeFails` those of the probe of a quarantine; `Wake`
and `CooldownOver` the sleeps; `Replayed` one turn of `drain()`; `Persist` and
`Publish` the two halves of `processUpdates`. `RegistrationTimeout`,
`DaemonStop`, `SendMessage`, `PostEnds` and `Die` are what happens meanwhile.
Telegram is external: it serves the updates from the offset on and forgets those
below it. A death keeps the offset file and the chat. `offset.json` may be
refused (`MayRefuse`): `load()` then starts at 0. The fatal window keeps the
number of its timestamps; that they age is a choice in `Recorded`.

**DaemonLock.** Every process has a program counter through `acquireDaemonLock`
(`open`, `read`, `check`, `unlink`, `write`), the token check, the socket's
`probe`, `cleanup` and `bind`, serving, `closing` and the release (`relRead`,
`relUnlink`; `dang*` when the boot fails after the acquisition). `path` and
`sock` are the inodes at the two paths, `written` tells whether an inode has its
pid, `seen` is what a validation read. A dead daemon's pid may be another
program's (`PidReuse`), and a busy listener may miss the 500 ms of the probe.

**Approvals.** `stage` is the await of each `request_approval`; `entries` and
`promise` the registry; `removing` and `editing` the progress of
`cleanupBySession`, which awaits an edit per entry; `click` follows a press from
the chat to the registry; `frame` and `told` the answer's way to the session.
Settling a promise runs its waiter in the same turn, so the frame is written in
that action.

**Sessions.** `sock` goes from `new` over `init` to `open`, or to `ending` (a
farewell written, the socket ended, still in the map) and `closed`. `SessionInit`
is `acceptSession` with the three subscribers of `session_connected` in the order
`main.ts` installs them: handshake, registry, watchdog. What is written to an
ended socket is lost, and `deliverToSession` still answers ok. Notes: because the
registry's sessions are always in the map, the removal of stale sessions in
`dispatchToFocus` never happens; `mcpAcceptor.stop()` has no caller, so it is no
action. Shortids and `/session` prefixes are abstract: a prefix is the set of
shortids that begin with it.

**Registration and Lifecycle.** A window and its code have one number. `timers`
holds the armed timers by window, `timer` the one the gate still knows; a timer
the gate forgets stays armed and would fire. `spoiled` says that a write of
`admin.json` failed or that somebody edited it. `env` is TELEGRAM_AUTHORIZED_USERS: where it is
set, every boot obeys the users it names and does not look at the file
(`auth/boot-resolver.ts:32-47`), so an admin who registered after a reset is obeyed until
the next boot only. Every message is handled to its end at
once, since `writeAdminFile` does its writing synchronously; the gate's state
changes before it. Time is in ticks: a timer that is due and a watchdog that
would signal hold the clock, both act within a second in the code. `heartbeat`,
`idle` and `deserted` are ages; `idle` is what the watchdog computes, `deserted`
what is true. `getUpdates` is fetched without a timeout, so an answer may take for ever.

**Reconnects and Proxy.** A slot in `Proxies` is one claude session's proxy after
another. `pc` follows `main` of `proxy-client.ts`: `connect`, `spawned` (the helper
runs, 1.5 s to the second attempt), `awaitAck`, `serving`, `exiting` (100 ms after
the socket closed) and `leaving` (a reload announced). The daemon is reduced to
what a proxy can see of it: booting, listening, shutting down with its socket still
there, unlinked, gone. `scripted` and `timers` are `scriptedReconnectMap` with its
timers, `marker` is `last_shutdown.json`, `resolved` the flag that makes it one-shot;
`due` and `excuses` are history. Only the life of an announcement is counted in
ticks; every other timer fires at any moment. Notes: sessions of one project share
one `PROXY_ID`, so that one of two that reload together counts as spurious; a refresh
of an entry at the cap evicts an entry though the map does not grow
(`daemon-acceptor.ts:499-503`); the marker survives boots that no session reaches
and excuses a later one; the first session after a launchd boot without a marker
counts as `keepalive`. A proxy whose socket closes while it waits for the
acknowledgement misses the event (`deaf`): it serves on without a daemon, though the
comment at `proxy-client.ts:621` expects an exit.

**Alerts and Outbound.** A call runs in one action from one answer of Telegram to its
next request: `Ask` up to the gate, `FetchEnds` with every call that waits for that
getChat, `CallPosted` for one message or file. `cache` keeps the order of the
JavaScript map, `aged` the entries past their time to live, `first` and `sent` what
became of the files. `PollingLoop` has the replay queue in detail; here it is a set.
In `Alerts` an action is an event with its subscribers: the line in the log, which a
full disk refuses, then the dispatcher's state and the posts. A denial has a bucket
for its kind and its sender (`Denied`, `spent`): who is refused both as no admin and for a wrong code
has two. `raised`, `posting` and `settled` account for the alerts. `phase` distinguishes a boot that
failed (`failed`), a daemon that ended by a log line that could not be written (`crashed`) and one
that ended otherwise (`exited`), also because the full disk refused its offset (`PersistFails`).

## 3. What is checked

| Run | Specification, bounds | What it shows |
|---|---|---|
| `Polling` | fair; 3 replies, queue of 2, fatal threshold 2, 2 updates, 1 death | updates published as `UpdateFeed` allows, none skipped; replies first in first out, once, their senders told the truth; a quarantine ends and the replies it kept are resolved; a stop ends the loop |
| `LockSerial` | 4 processes, starts serialised, 3 attempts, pids reused | one daemon, its socket reachable, no leftover keeps a start from booting but the lock of a crashed daemon whose pid is another program's, releases spare others, contention is with a holder |
| `LockRace` | violation; 3 processes, starts overlap | the empty lock file of a starting daemon is taken over |
| `Approvals` | fair; 3 requests of 2 sessions, room for 2, 2 presses, 1 crash | the registry is the pending promises; the round trip implements `ApprovalDesk`: one decision per request, by a press, and nothing else told or shown; the daemon drops no choice; every press and cleanup comes to its end, and with it the requests it was about are settled |
| `ApprovalsOrphan` | violation; 2 requests of 1 session | a session that leaves during the post leaves a pending approval |
| `ApprovalsTimeout` | violation; 2 requests of 1 session | the proxy's 60 s drop an answer the daemon still resolves |
| `Sessions` | fair; 3 connections, 3 shortids, room for 2, 2 texts | map, registry (with unique shortids) and client count stay one; ack first; texts to one session, in order; the focus is the last used; refused and silent connections end |
| `Lifecycle` | fair; 2 users, limits 1 and 2, windows of 2 ticks, 2 windows, heartbeat 2, cooldown 2, idle time 3, 1 client, 2 boots | an open window has its own timer and no other; codes work once; a restart obeys nobody new, unless the environment names him; under launchd no daemon stays up where nobody is heard and nobody can register; only a deserted daemon is idle |
| `LifecycleReset` | violation; cooldown 4, 1 boot | the pause that waits for a reset starves the watchdog |
| `Proxy` | fair; 2 slots in 1 or 2 projects, expiry of 1 tick, map of 1, 3 launches, 2 boots, 1 caller, launchd | an announcement is known exactly as long as it should; a boot excuses one session; every proxy ends connected or exits, and every call ends |
| `Outbound` | 2 calls in 3 pairs, 2 chats of which 1 is private, cache of 1, queue of 1, 2 files, 1 quarantine, 1 sender with two kinds of denial, a refill of one of them | one getChat per chat; nothing to a chat that is not private; sessions told what happened; alerts bounded by quarantines and by kinds and senders of denials; every alert under way, delivered or in the log |
| `AlertsDiskFull` | violation; no quarantine | a full disk and an alert that fails end the daemon |

Why these bounds. Three replies fill a queue of two, whose order then shows, and
give a refused one; the first and the last may also be sent outside a quarantine, before the queue has
anything and while it is drained (`AnyTime`); replies are numbered in the order in which they are sent. With two updates a batch has
a middle, so that a death can come between the two events; one death with its
restart repeats everything a death does, since nothing but files and the chat
survives it. The lock's bad cases need a holder, a releasing process, a stale
inode and a newcomer: four processes. Three approvals give one session two
entries, so that its cleanup has one in hand and one ahead, and room for two makes
the third exceed it; two presses race on one button. There is one option: that no second press changes a
decision for another option is the theorem `DeskImplemented`, for any options. Three connections for two
places give a refused one, and one arriving after it; two texts are enough to be
out of order. Two windows and two boots give an old timer and an old code
beside new ones. In `Proxy` a map of one makes every second announcement
evict one, three launches give a reload beside a second session, and
two boots a daemon with a predecessor. In `Outbound` the pairs are the ones that share
something: two texts the last place of the queue, files and an edit the chat, a
refused text and a reaction the cache; two files have a first and a last.
`Capacity`, `Threshold`, limits and times are small because the code compares
them only with the counters they bound. In `LifecycleReset` the cooldown is
longer than the heartbeat timeout, as it is in the code when it is counted from
the last success that preceded the failed polls.

The run of `Polling` takes an offset file that load() accepts; for files that are
refused, that no update is skipped is the theorem `NothingSkipped`.

Bounds on the environment are `AnyTime`, `MaxUpdate`, `MaxDeaths`, `MaxCrashes`, `Clicks`,
`Conns`, `MaxTexts`, `MaxWindows`, `MaxBoots`, `MaxClients`, `MaxLaunches`, `Callers`,
`MaxTurns`, `MaxRefills` (per kind of denial), `Errands`; each is named so in its module. Runs turn the deadlock
check off because the daemon may be stopped or dead, with every bound used up.

**Fairness.** `PollingLoop`: weak fairness of the loop's steps (timers fire,
calls return: they have timeouts or fail, but for the `getUpdates` of a hung
connection, which the watchdog's end of the daemon covers in `Lifecycle`) and
strong fairness of `ProbeOk`, the assumption that Telegram answers one of
infinitely many probes; arrivals, replies, deaths and stops are not fair.
`Approvals`: weak fairness of the continuations of the daemon's calls and of its
restart; presses, requests, disconnects and crashes are not fair. `Sessions`: weak
fairness of the two timers only; no peer is assumed to do anything. `Proxy`: weak
fairness of each proxy's own callbacks and timers; nothing of the daemon, the helper,
claude or launchd. `Lifecycle`: weak fairness of
the clock, the watchdog's interval, the sleep of a cooldown and the windows' timers; nothing of Telegram,
of the users, or of who starts the daemon or resets it. `DaemonLock` and `Outbound` are checked for
safety only.

**Where code and documents disagree.** Five runs end in a counterexample, each
quoted in `findings`: overlapping starts can give two daemons; an approval may be
orphaned; an answer may be dropped after 60 s; a daemon that waits for a reset is
shut down by its watchdog after a minute (launchd then starts it again and a new window
opens, so that the lasting effect is a new code every few minutes instead of a
daemon that waits); and a full disk ends the daemon when an alert fails (nor is that its only way: next list). Other
disagreements are modelled as the code has them, without a run:

- a poll or probe in flight when the loop is paused writes `running` or
  `quarantine` over `paused` (`polling-loop.ts:135`, `:211`), against
  `docs/modules/MODULE-002-telegram-client.md:286`;
- alerts raised before the admin's chat is known go to chat 0 and are lost: nothing is
  ever left in `pendingQueue` between two turns, so that its soft cap, the flush in
  `setAdminChat` and the drain to the log take no effect
  (`alert-dispatcher.ts:56-58`, `docs/modules/MODULE-008-observability.md:327`);
- an alert about a quarantine is answered `queued` by `sendMessage`, which keeps
  nothing without a session, so it only reaches the log; and each transition raises
  two alerts, one by its event and one by the change of state, where
  MODULE-008 (`:220`, `:572`) has one;
- `reply.ts:133` says that any failed file ends the call, the code ends it only
  if the first one failed;
- `edit_message` in a quarantine is told `queued: true` but nothing is stored;
- getChat is not stopped by a quarantine: when it fails, a reply to a chat whose entry has aged is
  refused as `InvalidChatTypeError` rather than queued;
- a lazily spawned daemon whose window timed out lives on with a closed gate;
- a reset after a timeout does not resume the paused loop (`main.ts:240`), so nobody can be heard
  in the window it opens until the daemon was restarted, which
  `docs/modules/MODULE-006-admin-auth.md:160` and `:175` expect of the user and `SomebodyIsHeard` leaves to the watchdog;
- with TELEGRAM_AUTHORIZED_USERS set, whoever registers after `reset-admin` is the admin until
  the next boot, which obeys the environment again (`auth/boot-resolver.ts:32-47`);
- a lock whose pid belongs to another program is refused (`daemon/process-lock.ts:68`, as
  `docs/modules/MODULE-001-daemon-core.md:220` has it), where `docs/ARCHITECTURE.md:821` promises a
  "safe takeover" on a binary mismatch;
- a full disk also ends the daemon without any alert: the loop's persist of the offset throws
  (`telegram/polling-loop.ts:108`, `offset-manager.ts:61`), nobody catches the loop's promise, and
  `bin/daemon.ts:17-20` exits (`PersistFails`).

## 4. What is proved

The eight `*Proofs` modules are checked by TLAPS to the last leaf, for all values of
the constants under the named assumptions of the modules.

*The loop.* `TypeCorrect` rests on `TypeInv`. `NothingSkipped` needs `SkipInv`: memory never
runs ahead of the file, and a batch that is not persisted yet starts no later than
what Telegram remembers; the property alone is not inductive because the offset
moves before the events. `OnceInOrder` and
`LoopImplementsFeed` need `FeedInv`: published and lost updates are all below a
frontier (the next update to publish while publishing, the offset otherwise),
memory and file agree on the offset, Telegram is not ahead of it, and a batch starts at
it. They hold under `~MayRefuse`, since an offset file that is refused makes
Telegram serve updates again. `RepliesFifo` is inductive together with `FifoInv`, which ties the entry
being replayed to the await `drain`. `SessionsToldTrue` needs `TruthInv`, over both: a reply that
is being posted, queued or replayed is not in the chat yet, the queue holds it once, and not while it
is being replayed. So that a copy appears only for a reply that has none.

*The lock.* `LockInv` says that at most one process is inside the acquisition, that
the file at the path is the one of the process that owns the lock, and that what an acquiring
process has read of it is still true. `LockMutex` and `ReleaseIsOwn` follow; `SocketIsReachable` adds
`SocketInv` (a daemon about to bind finds the path free), `CrashesBlock` adds
`BootInv` (a second attempt finds no file), `LeftInv` (a lock that names a process that is gone was left by a crash, and a start that a foreign pid
stopped has read such a one) and `MaxAttempts > 1`. `ContendedByHolder` needs no serialised starts: `ContentionInv`
says that a pid is read only after its process has written it, and that a process
that has written its pid owns the lock until it ends. `SerialStart` is what
launchd gives, which runs one instance of its job; `bin/daemon-spawn.sh` has no lock of its
own and two sessions may run it at once, so that lazily spawned daemons may overlap. `LockRace`
shows what that can lead to.

*The life cycle.* `NextIsRegStep` reduces every step of `Lifecycle` to one of the gate and
the admin, so that their theorems treat seven cases instead of fifteen. `GateInv` joins the
types with `WindowHasItsTimer` and with the room an open window has for one more
failure: the count of failures is bounded only because the failure that reaches the limit
closes the window, and the claims hold codes only because an open window has one. `CodesOnce`
needs `ClaimInv` (the codes used so far are older than the open window's, and none is of the
future); `AdminSurvives` is `RestartObeysSame`: it
needs `FileInv` (unless the environment names the admin, an open window means that the file names none) over `GateInv`,
and the assumption that no user is named like a state of the file. `PausedForGood` says why a reset
does not help: a loop that sleeps in its paused branch stays there until the daemon ends. `IdleOnlyDeserted`
needs `IdleInv`: without clients the watchdog's idle time never exceeds the true
one, and a daemon that was signalled is down. They hold in both deployment modes.

*Approvals.* `StageInv` says that a request the registry has not taken has no promise,
and that a session that has asked never connects anew; `PressInv` that a press is about a
request until it is found to be in vain; `OptionInv` that a promise with an option
got it from a press, and that the frame and what was told agree with the
promise; `CancelInv` that only rejected requests have their buttons edited. With them
`PendingIffRegistered` and `ChoiceReachesSession` are inductive. `CleanupFacts` reduces a
step of `cleanupBySession` to the set of entries it rejects, so that a disconnect
and the end of an edit are one case (`CleanupKeeps`).

`DeskImplemented` is the refinement of `ApprovalDesk`. A request maps to the option of its
promise, to "withdrawn" when its call is over without one, and is open otherwise; the
presses that count are those not found to be in vain. `UndecidedGivesUp` says which steps are the
desk's `GiveUp` (all that leave options and finished calls alone, from a refusal to a crash) and that
the press that decided is never among those lost; only the end of `answerCallbackQuery`, a press
and the receipt of an option are steps of their own. It needs `DeskInv` beside `IInv`: a pending promise
is one somebody waits for, and a rejected one is nobody's. `PressesSettle` needs `SettledInv`: the press that
is through with its handler is about a request that has left the stages before its entry, to which none returns.

*Sessions.* `ListInv` is about the lists: the map holds exactly the connections that are
open or being closed, with distinct shortids; the registry's list repeats none and lies between
the open sessions and the map; a session that is being closed was turned away. So the
first entry of the list is always one the acceptor knows, and a dispatch is an append to the
focus (`DispatchFacts`). `FocusIsLastUsed` is part of it. `FrameInv` adds the frames: nothing is written
before the ack, an open session has its ack, and a frame carries only a text the
admin has sent; `FramesInOrder` is inductive with it. `SpliceFacts` and `ConsFacts` say what
removing and prepending do to a list without repetitions.

*The proxies.* `RecInv` ties the time each announcement has left to the history `due`:
one entry per id, one timer per entry, and an entry for everything that is due. It is what
`AnnouncedIsScripted` needs, which says nothing of timers. `ContextInv` says that a boot that
excused a session has had its marker read. Both are independent of what the processes
do, so that most steps of `Proxy` leave them alone.

*Tool calls.* `FetchedOnce` is inductive. `OnlyPrivateChats` needs `PrivateInv`: only calls past the
gate post. `ToldWhatHappened` needs `ProgressInv`, about a call that has not ended: it was told nothing,
and as long as the answer to its first file is good, exactly the files before the present
one are in the chat. `TypeCorrect` adds `CacheInv` and `BoundsInv`; it is where the cache's bound, one
entry per chat and the queue's capacity are proved, from what deleting and appending do to
a sequence without repetitions (`RemoveFirstOnce`, `StoreKeepsCache`).

*Alerts.* `AlertsProofs` has lemmas only: the steps of `Alerts`, and the end of a quarantine, keep
`AlertInv`, whatever they are composed with; `NoStorm` and `EveryAlertAccounted` follow in
`OutboundProofs`. `NoAlertStorm` alone is not inductive: `StormInv` says how many alerts the present
quarantine may still raise (one at its beginning when the dispatcher has not heard of it,
because the disk was full; two at its end), and that each kind of denial has cost no more alerts than
there are senders whose bucket of that kind is empty (`Empty`), and refills of it. `AlertsAccounted` is
inductive over the types; the sums are written out, as there are five topics and two chats. `Senders` is assumed to be finite.

*Only model-checked:* liveness (`QuarantineEnds`, `StopEndsLoop`, `AllSettled`, `ConnectionsSettle`,
`ProxySettles`, `SomebodyIsHeard`), as TLAPS has no ENABLED, and the five violations. The safety parts of
`AllSettled` are the theorems `CleanupComplete` (a cleanup leaves nothing pending that it had listed) and
`PressesSettle`. What a
recursive function computes for every input is out of the prover's reach; no module here needs one.

## 5. What is not modelled

The frame codec is pure and is modelled only as frames that arrive whole and in order. Two
things in it depend on how a stream is cut into chunks: `push` refuses a chunk with which the buffer
would exceed one frame of the largest size, also when all its frames are legal
(`mcp/frame.ts:38-42`), and the acceptor drops the good frames that precede a bad one in the
same chunk, which the proxy does not (`daemon-acceptor.ts:291-299`, `proxy-client.ts:336-342`). Downloads with the janitor's quota, the status snapshots and the
broadcasts of quarantine events are left for a next stage, as are the shell helpers
beyond the spawning of a daemon. `on_queued` and the backpressure of the event bus have no user
outside the tests. Log rotation, redaction, status and measurement produce output and
no state others depend on. `plugins/dev`, `plugins/code-companion` and
`plugins/claude-best-practice` are outside the daemon.

Known gaps in the models: the checks of parameters and paths in the tools, and the chunks
and retries of the client; the order in which `main.ts` installs subscribers after
the loop has started (updates served before `installRouting` would be published to
nobody); `session_connected` and the registry between `mcpAcceptor.start()` and
`installRouting` (no turn of the event loop lies in between).

## 6. Plan

Done: `PollingLoop` with `UpdateFeed`, `DaemonLock`, `Approvals` with `ApprovalDesk`, `Registration` with
`Lifecycle`, `Sessions`, `Reconnects` with `Proxy`, and `Alerts` with `Outbound`; with proofs
of all of them.

Next, in this order:

1. The frame decoder, over all the ways to cut a stream, and the quota of attachments as operators checked against
   reference definitions over bounded inputs.
2. The broadcasts of quarantine events in `Sessions`, and the order of the
   subscribers of the boot.
3. In `Lifecycle`, that a `getUpdates` that hangs ends in the watchdog's signal.
