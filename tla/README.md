# A TLA+ model of the Hamuna desktop agent

Hamuna is a desktop application: a Tauri shell in Rust, a Node process per
session (the *sidecar*) that runs the agent, and a React window. This directory
specifies the protocols everything else stands on:

- in the shell, the life of the sidecars: who owns them, who may create and stop
  them, how they are watched and restarted, and what happens to them when the
  application updates or exits;
- in the sidecars, the way of a message to the agent's subprocess, the
  credentials of MCP servers that several sidecars share, the file lock between
  processes, and the worker threads of mini apps with the windows that use them.

Paths are relative to the repository's root; `sidecar/` is short for
`src-tauri/src/sidecar/`, `server/` for `src/server/` and `renderer/` for
`src/renderer/`; other Rust files are under `src-tauri/src/`.

- [Inventory of the system](#inventory-of-the-system)
- [Modules](#modules)
- [Runs](#runs)
- [Disagreements between code and documentation](#disagreements-between-code-and-documentation)
- [Proofs](#proofs)
- [What is not modelled, and the plan](#what-is-not-modelled-and-the-plan)

## Inventory of the system

### The sidecar manager (`sidecar/manager.rs`, `types.rs`, `commands.rs`)

*State.* One record behind one mutex: `sidecars` (session id to port, child
process, runtime identity, set of owners, lifecycle state), `sidecar_generations`
(session id to the number of the instance, drawn from `instance_counter`),
`session_activations` (session id to tab and port), `instances` (the global
sidecar and the legacy ones per tab), and two broadcast channels, of stops and of
terminal stops.

*Operations.* Install, remove, mark; add and remove owners; release a tab;
activate, deactivate, retag; rename a session; kill on runtime drift; stop
everything. An owner is a tab, an agent channel, a task, a goal or a background
completion.

*Interaction.* Tabs, IM routers, schedulers, goals and the monitor all call it,
from their own threads. Consumers of the IM channels subscribe to stops and
compare `(session, generation)`; the renderer subscribes to terminal stops and
unbinds its tabs.

*Hard.* Generations must keep naming one instance although removals keep them
readable and session ids are renamed and reused; owners must never reach zero
without a stop; a terminal event must not announce an instance that is about
to be restarted.

*Correct when* no sidecar is kept alive for nobody, a generation names one
instance, no stop event of the past matches an instance that runs, no tab id
leads to two sessions, every removal is announced, and a terminal stop is
announced only if nobody owned the instance.

### ensure and release (`sidecar/session_lifecycle.rs`)

*State.* Local to each call: the port and generation it saw, whether it added
the owner itself, the outcome of its poll, the number of its attempt.

*Operations.* `ensure_session_sidecar` finds a live instance and checks it over
HTTP, or joins one that is booting, or spawns one and waits for it. It holds the
mutex in between but not during the polls, which take up to minutes.
`release_session_sidecar` and `release_tab_session` take owners away.

*Hard.* Between the poll and the verdict the instance may be released, killed,
restarted, renamed, or made healthy by somebody else.

*Correct when* every call returns, a caller whose instance was replaced neither
marks nor kills the replacement, calls that fail do not take away a boot
somebody else waits for, and a holder of an instance remains an owner of it.

### The session monitor (`sidecar/instances.rs`, `monitor_session_sidecars`)

A thread that scans for dead entries with owners every 15 seconds, queues them
with a snapshot of their owners, and restarts each through
`ensure_session_sidecar`, up to `MAX_RESTART_FAILURES` times. *Hard:* the
snapshot is used long after it was taken; a failed restart leaves no entry.
*Correct when* a queued session runs again or its restarts were exhausted.

### The global sidecar (`sidecar/instances.rs`)

`start_tab_sidecar` for the reserved id, called by the renderer's retry chain
and by `monitor_global_sidecar`, which probes it every 15 seconds and replaces
it when it died or missed several probes. *Hard:* several starts at once, a hung
process that still accepts connections, verdicts on an instance that has been
replaced. *Correct when* a broken instance is replaced, one that misses a single
probe is spared, and starts end.

### Spawn gate, update and exit (`sidecar/shutdown.rs`, `lib.rs`, `updater.rs`)

*State.* The atomic `SPAWN_GATE` (open, quiescing, exited), a mutex with
`update_requested` and `active_creations`, a condition variable, and the flag
`cleanup_done` of the exit. *Operations.* A creation takes a permit; an update
closes the gate, waits for the permits and stops everything; an exit closes the
gate for good. *Hard:* the gate is read and written outside the mutex, two exit
events share one flag. *Correct when* nothing is created under an update, the
gate is never left closed for an update that is over, the wait ends, and an exit
is final.

### The turn queue of a session (`server/agent-session.ts`, `builtin-session/`, `session-core/`)

*State.* `messageQueue` (what the generator takes next), `pendingMidTurnQueue`
(behind a message the subprocess already has), `turnBoundaryQueue` (messages that
want a turn of their own), one in-flight slot with its acknowledgement, the
promoted item, `isStreamingMessage`, the flags of the session's life, and outside
of the process the subprocess's own command queue.

*Operations.* `enqueueUserMessage`, the generator that the SDK pulls,
the handlers of replays, assistant events and results, the end of a turn,
cancellation of one item, stop, crash, restart and the start of the next session.

*Hard.* One thread, but each of these awaits in the middle; the same message is
seen by up to three of them, and a restart leaves an old generator next to the
new one. The subprocess reports late, may die with a message in its queue, and
some versions of it do not report that they begin one.

*Correct when* no message is given to the SDK twice, what was confirmed as
cancelled is not run, and neither the busy flag nor the slot outlives what it
stands for.

### MCP OAuth credentials (`server/mcp-oauth/`)

*State.* One file shared by all sidecars: per server a token and `tokenRevision`,
written under a file lock. In each process: the refresh in flight, the cooldown
of the scheduler, the snapshot of the observer, the flow that waits for a browser
and the owner of the start under way.

*Operations.* Refresh ahead of time (global sidecar), before use and by hand;
authorization with a callback server and a timer of five minutes; revocation;
polling of the snapshot.

*Hard.* The issuer rotates: a refresh token that was sent is worthless. Answers get
lost, processes die with the lock, and commits of one process meet the commits,
revocations and timers of others.

*Correct when* no token is sent twice, no answer to an old request overwrites a
newer credential or a revocation, a token that comes due is refreshed, every
sidecar learns of it, and nobody waits for ever for somebody else's flow.

### The file lock between processes (`server/utils/file-lock.ts`)

A directory that `mkdir` makes, with a file that names the owner. A waiter breaks
a lock that is old and whose owner is dead. *Hard:* there are several system
calls between the verdict and the break, and a process may die between any two.
*Correct when* two holders that nobody robbed exclude each other, a live owner keeps
its lock, and every call ends.

### Mini app workers and windows (`server/miniapp-worker/worker-pool.ts`, `renderer/components/miniapp-host/`)

*State.* The pool: workers with their thread, the calls pending, a cap per app. In the
renderer: each runner's worker, and one entry per app that routes `app.call`.
*Operations.* spawn, call, terminate, eviction, the exit of a thread; mount, unmount
and call of a window. *Hard:* a window may close before its worker is there, a
worker may be evicted while it boots, exits and timeouts race with answers, and
several windows show one app. *Correct when* every call is answered once, no
thread outlives its window, and a window loses its worker only to a crash or the
cap.

### The other components

| component | state and operations | what is hard in it |
|---|---|---|
| `sidecar/background.rs` | an owner kept while a turn runs with no tab; a polling thread | poll, cancel and restart race over one owner |
| `keyed_lifecycle.rs` | weak registry of locks by identity | sorted against nested acquisition (`task_scheduler.rs:524`) |
| `im/` consumers, router, replies, handover | consumers keyed by session and generation, reply slots, handover transactions | stop events against registration; a broadcast channel of 64 events and its lagging subscribers |
| `session_goal/` | turn authority, control revision, store on disk | commit on disk before the owner is attached (`manager.rs:617`) |
| `task.rs`, `task_scheduler.rs`, `cron_task/` | claims of executions, sessions reserved for them | cancellation during a reservation (`task_scheduler.rs:549`); crash recovery |
| `inbox/deliver.rs` | a temporary owner around one delivery | as a client of ensure |
| `utils/file_lock.rs` | the same protocol as `file-lock.ts`, over the same directories | see `FileLock` |
| `grok_auth/`, `sse_proxy.rs`, `proxy-state.ts` | logins, reconnections, transitions | single flight, generations |
| renderer outside `miniapp-host/` | the caller that activates a session with the port it was given | cached addresses |
| adapters, bridges, search, panels, assets | wire formats, file I/O, user interface | no protocol of their own |

`PROJECT.json` lists every component with its status, and the hazards with their
lines and the properties that would notice them going wrong.

## Modules

| module | models | is used by |
|---|---|---|
| `SidecarManager` | the record, every method that changes it, one action per locked section | `SidecarEnsure`, `SidecarProofs` |
| `SidecarEnsure` | the threads: ensure, release, activation, rename, the monitor | `SidecarProofs` |
| `SpawnGate` | gate, permits, update, exit | `SpawnGateProofs` |
| `GlobalSidecar` | the global instance, its starts and its monitor | `GlobalSidecarProofs` |
| `FileLock` | `withFileLock`, a system call a step | `FileLockProofs` |
| `OAuthCredential` | what the stored credential of a server promises (abstract) | `TokenRefresh`, `OAuthFlow` |
| `TokenRefresh` | the refresh by several processes; implements `OAuthCredential` | `TokenRefreshProofs` |
| `OAuthFlow` | authorization and revocation in one process, over `OAuthCredential` | `OAuthFlowProofs` |
| `TurnQueue` | the queues, the generator, turns and sessions, and the subprocess | `TurnQueueProofs` |
| `MiniAppWorkers` | the pool, the windows and the requests between them | `MiniAppWorkersProofs` |
| `*Proofs` | theorems about the module of that name; `SidecarProofs` about `SidecarManager` and then `SidecarEnsure`, which builds on it | |
| `MC*` | small constants for TLC | |

### SidecarManager

The mutex makes a locked section atomic, so a section is one step. Because
sections of the callers are built from the methods of the manager, each method
is an operator from a record to a record (`RemoveSidecar`, `AddOwners`,
`UpgradeSessionId`, ...) and an action is a composition of them:
`mgr' = ClearGeneration(RemoveSidecar(mgr, s), s)` is what the code does between
`lock()` and the end of the guard. The module's `Next` allows every locked
section of the crate with any argument; this is the *abstract* specification.

Abstractions: a port is the number of the instance whose process listens on it
(`allocate_port` goes through its range of 500 before it repeats one); a
runtime identity is one value, because only its equality is ever tested; the
owners Task, Goal and BackgroundCompletion are `Work`, since the manager treats
them alike; `stops` and `terminals` are the sets of everything that was ever
broadcast, and `unowned` is history: the instances whose last owner went, or that
`stop_all` ended. Only the sender's side of the broadcasts is modelled.

### SidecarEnsure

`caller[c]` holds the local variables of one call of `ensure_session_sidecar` in
thread `c`, and `pc` the place where it let the mutex go:

| `pc` | in the code |
|---|---|
| `enter` | phase 1 of `ensure_session_sidecar_inner`, under the lock |
| `probe` | polling an instance it found: HTTP check or, of a starting one, readiness |
| `verdict` | phase 3, locked again: compare generations, health, runtime |
| `boot` | `wait_for_health` and `wait_for_readiness` after a spawn |
| `booted` | the end of `create_new_session_sidecar`, locked again |

A poll answers only if the process on the captured port serves, and may time out
at any moment. `held` records what each client was given and has not released;
it exists for the properties and no guard of the code's steps reads it, except
that a client only releases or activates what it has or asks for. `mon` and
`recovery` are the loop of the monitor, whose restarts run the same procedure
as caller `Monitor`.

`SidecarEnsure` *implements* `SidecarManager`: `ImplementsManager == Spec` is
checked, and proved in `SidecarProofs`, with the record itself as the
refinement mapping. Thus a locked section
that is modelled with all of its local state is shown to be one of the sections
that the theorems about the manager cover.

### SpawnGate

Loads and stores of the atomic outside the mutex are steps of their own
(`CheckGate`, `CheckExited`), sections under the mutex are one step (`Admit`,
`Request`, `DropPermit`, `DropGuard`). A wait on the condition variable ends only
for an updater that was notified, so that a lost notification would show. The
two ways to exit, the destroyed window and `ExitRequested`, share `cleanupDone`.

### GlobalSidecar

A step is a locked section; `lock` shows the mutex where a thread keeps it
between two steps, which the error path of `start_tab_sidecar` does. Time is
abstracted to `young`, the startup grace of 45 seconds, which ends only after the
monitor has looked once (its period is 15 seconds) or while it backs off.

Starts and stops come at any time, also during a check of the monitor. A start removes
an instance that does not run before anything else; it may then fail for want of a
process, or when it has waited for one in vain. `gone` is history: why there is no
instance any more.

### FileLock

A caller uses the lock once, so that its name also names the directory it makes:
`dir` is the directory at `lockPath` with its maker, its owner file and whether it
is older than `staleMs`. Each system call is a step, because calls of two
*processes* interleave there; two calls of one process do not, for the calls are
synchronous (`Sync`, `At`). A process may die at any step. `Unverifiable` are
processes whose start time the code cannot compare (another user's, or a platform
without it), for which only age speaks. `mkdir` may fail for a reason of its own, which
ends the call, and `rmSync` may fail, which leaves the directory behind. `PollLimit` is
`timeoutMs / pollMs`. `lost` (calls whose directory was removed by another) and `judged`
(whose directory the verdict was about) are history.

### OAuthCredential, TokenRefresh, OAuthFlow

`OAuthCredential` says what readers of the stored credential may rely on: it is
granted, revoked, or replaced by its own successor, and each change draws a new
revision. The two detailed modules meet there and nowhere else:

- `FileLock` shows what a lock gives; `TokenRefresh` reduces it to who has it
  (`lock`): the lock of a process that died becomes `Stale`, a waiter judges it
  (`JudgeLock`) and then takes away whatever lock is there (`BreakLock`), also a
  fresh one; and a process whose lock was broken may, in its release, take that of
  another for its own.
- `TokenRefresh` models refreshes step by step and has grants and revocations
  of others as single steps; it *implements* `OAuthCredential`
  (`Abstract == INSTANCE OAuthCredential WITH ...`, `ImplementsCredential`).
- `OAuthFlow` extends `OAuthCredential`, models authorizations and revocations
  step by step and has a refresh by anybody as the step `Rotate`.

In `TokenRefresh` a token is the grant it descends from and the number of its
refreshes; `issued` is the number the issuer would accept. `age` has the four
values that the code tells apart: fresh, due for the scheduler, due for a caller,
expired. `refresh[p]` is the single flight of a process: waiting for the lock,
holding it, request sent, answer received, writing, failed. A lock, a request
and a write may each time out or fail (`MaxFaults` bounds how often), and a
process may crash and start again. A cycle of the scheduler begins a refresh or
joins the one in flight, and its cooldown depends on how that ends; `cycle` is the
revision that the waiting cycle read. `wasted` records that a rotation did not
reach the store, and `crowd` which refreshes had their lock broken by another, with
those that took it next to them.

In `OAuthFlow` a step is what runs between two awaits. An attempt names its start
owner, its flow and its callback server; `Registering` attempts bind their server
before they register with the issuer. The timer of five minutes fires in any phase,
also during a commit (which waits for a file lock); a commit whose flow it has
settled is `Overdue`, and three properties name it as their exception.

### TurnQueue

The sidecar is one thread, so a step is what runs between two awaits. Handlers
call one another; each is therefore an operator from the record `host` to a record,
and an action is their composition, as in `SidecarManager`. `cli` and `stream` are
the subprocess: its command queue, its turn, and what it wrote that the loop
has not read. `gen` holds both generators that may be there after a restart, `epoch`
says which one the session uses. Some decisions:

- The SDK asks its generator for the next message as soon as it has written the
  previous one to the subprocess, so `WaitForMessage` is part of `Yield`, `Reject`
  and `SessionSpawns`.
- A cancellation of a promoted message resolves the promise its generator waits on
  next to the MCP servers, so `Reject` is part of the step `CancelQueueItem`.
- A promise that is resolved continues before anything else runs, so waking the
  generator and `beginPromotedItem` are one step.
- `host.replays` is chosen once: whether this version of the subprocess
  acknowledges a queued message when it begins it.
- `enqueueUserMessage` decides and then awaits several times. `Send` is its two checks
  whether the session is busy, with the admission ticket; what is awaited between
  them is the reset, the rewind and the metadata of sessions, which are not modelled.
  A message with images (`WithImages`) has its place reserved (`Reserve`) and filled
  when they are prepared (`PlaceReserved`), unless it was cancelled meanwhile, or is
  decided about a second time (`PlaceHeld`); one without is placed after the wait for
  its session (`PlaceAtOnce`, `PlaceDirect`). `TakeOver` is what a message does to a
  session started ahead of time and to the recovery timer. A desktop message goes
  behind those that wait for a turn of their own, in whatever mode (`GoesBehind`).
- `told` is what the sender learned: cancelled, dropped, failed, or that its turn
  ended, `completed` by the result of a turn and `ended` otherwise. A result is
  reported to the message that is recorded as the source of the turn. `strayed` is a
  message that was reported as cancelled by its ticket alone while a generator still had
  it (see the disagreements below).

A stop is modelled with its three waits (receipt, cancellation of what is left,
result) and the forced end if one does not come.

### MiniAppWorkers

A mount is one run of the runner's effect; it asks for one worker, which has its
name. One app is enough, because the cap and the routing entry are per app. `pool`
is the map in the order of last use. A thread is `dead` when it has ended and
its exit has not been handled. Requests between window and pool take any time and
are not lost; `stopping` holds the calls of `terminate`, by a window that closes or
by an eviction, which nobody waits for.

### Variants

An operator marked `Variant` in a comment is a plausible wrong version of the
definition that follows it: a guard dropped, a reset forgotten. No specification
uses it. `PROJECT.json` pairs each of them with a property that no longer holds
when the variant takes the definition's place, which shows that the property
depends on that line of code.

## Runs

`tlc -config X.cfg M` in this directory; each takes from seconds to about three minutes.
Deadlock is not checked: an idle system is allowed to stay idle, and the bound
on instances, messages, revisions or attempts ends every behaviour.

| run | shows | bounds | states |
|---|---|---|---|
| `Manager` | the invariants of the record, `NoSilentRemoval`, `TerminalExactlyWhenUnowned` | 2 sessions, 1 tab, 1 agent, 2 runtimes, 3 instances | 363 532 |
| `Ensure` | refinement with the monitor, `EnsureInv`, `StartupIsSpared`, `EnsureReturns`, `QueuedIsRestarted` | 1 session, 1 client that speaks for 2 agents, the monitor, 2 instances, 2 attempts, 2 failures | 201 966 |
| `EnsureImplements` | refinement with drift of the runtime, a tab and renames during calls | 2 sessions, 1 tab, 2 runtimes, 1 client, 2 instances | 1 589 558 |
| `SpawnGate` | `QuiesceExcludesCreation`, `GateIsNotStuck`, `UpdateGetsTheGate` | 3 creators, 2 updates | 11 056 |
| `GlobalSidecar` | `BrokenIsReplaced`, `BlipIsSpared` | 2 clients and the monitor, 4 ports, threshold 2 | 1 561 768 |
| `FileLock` | `MutualExclusion`, `LiveOwnerKeepsItsLock`, `EveryCallEnds` | 3 calls in 3 processes, one unverifiable, 1 poll | 544 950 |
| `TokenRefresh` | `ImplementsCredential`, `SentTokenIsCurrent`, `StoredTokenWorks`, `DueIsRefreshed`, `SessionsAreTold` | the global sidecar and a session sidecar, 2 revisions, 1 fault | 1 558 430 |
| `OAuthFlow` | `FlowInv`, `ServersAreClosed`, `RevocationIsFinal`, `LaterAttemptWins`, `EverybodyEnds` | 3 attempts, one of them registering, 1 revocation, 1 refresh | 274 382 |
| `MiniAppWorkers` | `PoolInv`, `OpenHasItsWorker`, `CallsEnd`, `ThreadsEndWithTheirWindow` | 2 mounts, 1 call, a cap of 1 | 141 193 |
| `TurnQueue` | `QueueInv`, `NoMessageTwice`, `CancelledIsNotRun`, `TurnsEnd`, `QueueMovesOn` | 2 real-time messages, one of them from the desktop and with images, and 1 for a turn of its own; 2 senders, queue of 2, 1 trouble | 1 133 950 |
| `VMessageLost` | refutes `CompletedWasGiven` | the same with 1 sender and without trouble | |
| `VCallRoute` | refutes `CallsReachOwnWorker` | 2 mounts, 1 call, a cap of 2 | |

Type invariants are proved for every module; `EnsureInv`, `FlowInv`, `PoolInv` and
`QueueInv` contain those of their modules, so that the runs check them too.

**Why the bounds are enough.** A generation can be confused with another only if
an instance has a predecessor, and a rename needs two ids: two sessions and three
instances give an instance that was replaced, one that was renamed over a
residual generation, and a third. A call of ensure depends on other callers only
through the record; one more client and the monitor already produce every
record a call can meet between its two locked sections, and two instances let the
one it captured be replaced. `MaxAttempts` is 1 or 2 instead of
`MAX_ENSURE_ATTEMPTS` because attempts differ only in number. `MaxFailures` is 2 in
`Ensure`, so that after a failed restart, which leaves no entry but that of the queue,
it is the retry that decides. The sets `Acts` give a client the owners it may speak
for; in `Ensure` one client speaks for two agents, so that a call which joins a boot of
the monitor adds an owner beside the one the boot is for, and takes back its own when
it gives up, while the other's boot goes on. Two updates are
what `OneUpdateAtATime` needs and three creators make a permit outlive another. A
threshold of 2 distinguishes one miss from enough. Two clients beside the monitor let
one start replace what another waits for while the monitor judges a third; four ports
are enough for that. Only where both clients wait for instances that were replaced, the
monitor remembers a third and a fourth is there, can a further start do nothing but fail;
with five ports, which take four minutes and 3 818 028 states, the properties hold too.

A file lock is contended by one process that dies with it and two that both find
it stale; one sleep lets a verdict age. Of refreshes one compares a revision
it read with the revision stored, so two processes and two changes beyond the first
credential give every order of "read, changed by another, written"; a fault
is a crash, a lost answer, a failed write or a timeout, each anywhere. One crash with
the lock is enough for a process that judged it to break the lock of another. Three
attempts let one be replaced that has itself replaced one, the registering one
first or last. Two windows and a cap of one make one window evict the other's worker
at any point of its life. Three messages fill the subprocess, the place behind it and
the turn boundary, and a queue of two makes the limit refuse one; with two senders
one message overtakes another between its decision and its place; one stop,
cancellation, crash or restart may fall anywhere between.

**Symmetry** is used in the run `Manager` only, which has no liveness: sessions and
runtimes may be exchanged, and no property names an element.

**Fairness.** `EnsureFairness`: every poll has a deadline in the code
(`wait_for_health`, `wait_for_readiness`, the HTTP client's timeout) and every
thread is scheduled, so a call always goes on; the monitor's timer ticks. Nothing
is assumed of processes, clients or readers: a process may never boot. The
actions of a call are alternatives of one program counter, so weak fairness of
their disjunction is what a scheduled thread has. `SpawnGate.Fairness`: a
creation ends, a notified waiter runs, an update that has the gate gives it back
(its guard is dropped when the function returns); nobody has to begin one. The
mutex is held only for short sections, so a thread that waits for it gets it;
weak fairness of `Admit` says so. `GlobalSidecar.Fairness`: threads are scheduled and
waits have deadlines, the monitor's timer ticks and the grace period ends; a process
need not serve, and nobody has to start one.

`FileLock.FairSpec`: a call goes on while its process runs; a process need not
start one, and a dead one does nothing. `TokenRefresh.Fairness`: requests have a
timeout (15 s), locks have one, the refresh cycle and the poll of the snapshot are
intervals, a cooldown of 60 s ends, an orphaned lock gets old and a waiter breaks it;
nobody has to call, authorize or revoke. `OAuthFlow.Fairness`: requests end, the
timer fires; a browser need not come back. `TurnQueue.FairSpec` asks only that the sidecar or the
subprocess takes a step while one of them can, `WF_vars(Host \/ Cli)`: messages,
stops and crashes need not come, but the event loop and the subprocess do not both
stop for ever. That is enough because with finitely many messages they cannot
keep each other busy. `MiniAppWorkers.Fairness`: requests arrive, timers fire, the
end of a thread is noticed; a worker need not answer.

## Disagreements between code and documentation

Each of these runs checks one statement of a comment and TLC refutes it by what
the code does. `PROJECT.json` quotes the lines.

| run | statement | what happens |
|---|---|---|
| `VMessageLost` | from the admission on "the item is an accepted active turn", of which a caller must report "that exact active owner" (`server/agent-session.ts:13671`–`13676`) | the turn of a queued message runs before `isStreaming` is raised for it; a new message is admitted as the next turn and becomes the current source item; the running turn's result is then reported as the completion of the new message (`builtin-session/turn-lifecycle.ts:335`, `707`) and lowers the flag, the generator gives up and returns: the message is reported as complete and was never given to the SDK |
| `VCallRoute` | "Register so `app.call(...)` inside the iframe routes to this same worker" (`renderer/components/miniapp-host/MiniAppRunner.tsx:462`) | there is one entry per app, which every window overwrites and every unmount deletes |

Other disagreements that one meets in the models, for which no run is kept. Where a
property is about such a case, it names it as an exception and is checked, and where
listed proved, of the full specification otherwise:

- *An owner that released is restored.* "When all owners release, the Sidecar is
  stopped" (`sidecar/types.rs:7`); the monitor restores owners from its snapshot
  that were released since (`instances.rs:1302`), and nobody will release them again.
- *An exit is reopened.* "`Exited` is terminal: once set, nothing lowers it"
  (`shutdown.rs:9`); an update that passed its check before the exit stores its own
  state over it (`shutdown.rs:142`).
- *The gate is open on exit.* "Close the spawn gate FIRST, before any teardown"
  (`lib.rs:1399`); a destroyed window cleans up without closing it (`lib.rs:1367`),
  and the exit finds `cleanup_done` and skips the closing.
- *The global sidecar locks itself out.* The replacement check prevents "a
  self-perpetuating restart cascade" (`instances.rs:439`); the error path calls it
  with the manager locked, it locks the same mutex (`instances.rs:442`), and the
  thread waits for itself. `BrokenIsReplaced` exempts it, as `LockedOut`; its other two
  exceptions are a stop and the next item.
- *A failed restart is not tried again.* The monitor "auto-restarts it when it dies"
  (`instances.rs:777`) and counts `consecutive_restart_failures` to back off; but a
  start removes the old instance first (`instances.rs:108`), and if it then fails, the
  next check finds none and goes back to sleep (`instances.rs:838`), as if nobody had
  ever started one. `BrokenIsReplaced` exempts it, as `gone = "failed"`.
- *A verdict meets another process.* A process must "rack up" several consecutive
  failures, "process still alive each time", before the monitor replaces it
  (`instances.rs:742`); the verdict is reached without the mutex and marks whatever
  instance is there by then (`instances.rs:911`). If a start replaced the old one after
  the check, the new process is killed although it missed none. `BlipIsSpared` is about
  the process that was checked, and exempts one that came after the check.
- *A fresh lock is broken.* A waiter that judged an old directory renames whatever
  is at the path by then, though the comment says that a fresh lock "stays
  untouched" (`server/utils/file-lock.ts:158`). `LiveOwnerKeepsItsLock` and
  `MutualExclusion` exempt calls that were robbed. Two sidecars that both wait for the
  refresh lock of a dead one can so come to send the same refresh token, which the lock
  is there to prevent: one breaks the stale lock, takes it and posts; the other, which
  judged the same stale lock, breaks the fresh one, takes it and reads the token that the
  first has sent and not yet replaced. `SentTokenIsCurrent` exempts those, as `crowd`.
- *A revocation is not the last word.* "The tombstone must be the final credential
  write" (`server/mcp-oauth/index.ts:210`); the timer of five minutes settles a flow
  that is committing (`authorization.ts:345`), the revocation no longer waits for it, and
  the token is stored after the tombstone. In the same way an attempt that begins after
  the timer does not wait for that commit, which may then store its token over the one of
  the later attempt. `RevocationIsFinal`, `LaterAttemptWins` and, in `FlowInv`,
  `PendingIsLive` exempt such a commit, as `Overdue`; without the exemption none of
  the three holds.
- *A dropped message is run.* A stop "must never invent a cancellation the runtime
  did not report" (`server/utils/inflight-terminal.ts:53`);
  the receipt of a stop cannot list a message that the generator has not yielded
  yet (`server/agent-session.ts:9615`): it is reported as dropped, and then run.
- *A cancelled message is run.* A cancellation means to "Cancel both owners" of a
  message, its admission and its promotion (`server/agent-session.ts:9890`). After a
  restart the generator of the old session may still wait for its MCP servers with the
  message, while the next session's generator has promoted another one, and only
  one promoted item is recorded (`builtin-session/queue.ts:267`). The cancellation then
  finds the ticket alone and answers `cancelled`; the old generator puts the message back
  at the head of the queue (`agent-session.ts:13555`), and it is run.
  `CancelledIsNotRun` exempts such messages, as `strayed`.
- *The cap is exceeded.* "the next spawn() call will see the cap respected shortly"
  (`server/miniapp-worker/worker-pool.ts:380`); spawns that overlap all evict the same
  worker, which is in the map until it is gone, and later spawns evict only one
  each, so with three windows and a cap of one the app stays above it.

Further windows, about which no comment says anything:

- `get_tab_server_url` answers with the port stored in the activation
  (`instances.rs:559`). After a restart of the session that is the port of the
  dead process, until the renderer activates the session again.
- A creator whose entry was removed or replaced during the boot still returns
  `Ok` with its port (`session_lifecycle.rs:1011`), though its owner is attached
  to nothing. A rename during the boot makes it end with an error while its process
  goes on as `Starting` under the new id (`session_lifecycle.rs:925`).
- A joiner that added its owner first and times out detaches it
  (`session_lifecycle.rs:564`) even if a restart of the monitor has meanwhile
  given the instance to another holder with the same owner.
- An ensure of another caller may remove a dead entry with owners before the
  monitor has queued it (`session_lifecycle.rs:288`) and then fail; the session
  has neither a restart nor a terminal event.
- With two starts of the global sidecar at once the result of a wait is stored in
  whatever instance is there (`instances.rs:417`).
- The exit does not wait for permits that are out, so a creation may finish after
  the cleanup (`lib.rs:1415`).
- The release of a file lock takes a directory without an owner file for its own
  (`file-lock.ts:342`).
- The callback server of a dynamic registration stays open when the registration
  throws (`mcp-oauth/index.ts:166`); a revocation erases a grant that was obtained
  while it posted to its server (`index.ts:240`); the migration of the old format is
  saved without waiting (`state-store.ts:133`).
- The cancellation of a message for a turn of its own schedules no drain
  (`server/agent-session.ts:9888`), and the end of its `enqueueUserMessage` drains only
  if the ticket is still its own (`9411`). When it was a ticket, messages that found the
  session busy because of it wait with no session started for them; when a session is
  being started for it, that session starts and idles with the next message ready at the
  turn boundary. Either waits until another message comes.
- A message that comes between an unexpected end of the subprocess and the recovery
  clears the timer of that recovery (`agent-session.ts:8923`); it is queued behind the
  rescued messages, and the safety net is for aborts only (`9301`), so that none of them
  gets a session.
- In the turn queue, besides: `messageQueue` may hold several queued messages, which are
  yielded back to back although one is meant to be in the subprocess at a time
  (`agent-session.ts:13634`); cancelling the message of a turn that counts as running
  leaves `isStreaming` raised (`949`, the exception in `TurnsEnd`); a cancellation
  that is confirmed after an await clears whatever is in the slot (`9866`);
  cancelling an item of `messageQueue` schedules no drain (`9803`); a generator that
  was replaced puts its message back and wakes nobody (`13552`); a subprocess that does
  not replay leaves the slot taken, which `QueueMovesOn` excludes by
  `host.replays`.
- `terminated` of a worker is emitted a second time when its exit comes after the
  50 ms (`worker-pool.ts:367`).

## Proofs

`tlapm M.tla` for each module `*Proofs`. The theorems hold for every value of the
constants, so for any number of sessions, tabs, owners, runtimes, threads, creators,
processes, attempts, windows, calls and messages. They use the named assumptions only, which
TLC evaluates for the constants of each run:

| assumption | says |
|---|---|
| `NoneAssumption`, parts of the others | `None`, and `Orphaned` and `Stale` of a lock, are none of the values they are told apart from |
| `OwnerAssumption` | kinds of owners are disjoint |
| `CallerAssumption` (twice) | the monitor is no client; clients speak for owners |
| `BoundAssumption` | the bounds on attempts and failures are numbers |
| `CreatorAssumption` | the creators are finitely many |
| `ThresholdAssumption` | the threshold is a positive number |
| `FileLockAssumption` | a call has a process, `Unverifiable` are processes |
| `TokenRefreshAssumption` | the global sidecar is no session sidecar |
| `FlowAssumption` | attempts and revocations are different callers; those that register are attempts |
| `MiniAppWorkersAssumption` | the cap is a positive number |
| `TurnQueueAssumption` | a message has one queueResponseMode, and those for a turn of their own come from the desktop; the bounds are numbers |

**SidecarProofs: the record.** The invariants are not inductive one by one. The
inductive invariant is `IInv == Good(mgr)` with three parts:

- `Base`: the type; `Numbered`, that generations on file are below the counter
  and differ between sessions *also where the entry is gone*, because a removal
  keeps the generation and a rename or a new instance may bring it back; and
  `Stopped`, that an event in `stops` carries a drawn generation that no entry
  has, under whatever id. `Stopped` speaks of generations alone: if it spoke of
  pairs, a rename of an instance to the id of an earlier event could break it.
- `Owned`: a present entry has an owner.
- `TabsApart`: two activations never have the same tab.

Since actions are compositions of methods, there is one lemma per method, "if `m`
is `Good` then so is the method's result", and sometimes one about `Base`, for
`DropOwner` of a last owner breaks `Owned` until `RemoveSidecar` follows. The
proof of `Next` then has one step per action, citing the lemmas in the order in
which the code calls the methods. The theorems `TypeCorrect`,
`SidecarsAreOwned`, `GenerationsNameInstances`, `StaleStopsAreHarmless` and
`TabsNameOneSession` state the invariants that the run `Manager` checks.

For what a *step* may do, the methods are described by two relations between
records. `Thins(m, n)`: instances stay where they are, with their generation and
port, or go and are in `stops`; none comes. It is transitive, which the
compositions need. `Follows(m, n)`: instances may also move to another id (a rename),
and one with a number drawn in this step may come. Every step is of one of the two
kinds. `Follows` keeps `PInv`, that the port of an instance is its generation and
that none is marked healthy before its process answered; with it, `NoRemovalIsSilent`
follows, because a process that stops listening either left the record, and then was
announced, or is still under some id. `TerminalsAreTheUnowned` goes through the methods
once more for what they add to `terminals` and to `unowned`: the relation `Announces`
says that a step adds to both the same instances.

**SidecarProofs: the threads.** The refinement and the invariant are proved together,
because neither holds alone: a locked section acts on a port and a generation
captured before, and is a step of the manager only if these are what the call
believes. `EInv` says it: `CallsSound` (the captured port was handed out, its
generation is the port, and at a verdict or the end of a boot that succeeded,
whatever listens on that port *by now* has answered), `HeldSound`, and
`MonitorSound` (the monitor's call is of the session it waits for, which stays
queued). The argument has two halves. From `EInv` a step of one thread is a step
of the manager. And since every step of the manager `Follows`, and a port that was
handed out is never handed out again (`FollowsAnswersAt`), what the *other* threads
have captured stays sound: this replaces a proof per pair of actions. Then
`CallsImplementManager`, `CallsAreConsistent`, and as a corollary
(`ThreadsKeepSidecarsOwned`) everything proved of the manager for any number
of threads.

**SpawnGateProofs.** The invariant ties the counter to the creators:
`active = Cardinality(Creating)`, `update_requested` is up exactly while one
updater waits for the gate or has it, nobody creates while one has it, and
nothing is alive after its shutdown. The proof counts: a permit adds one element
to a finite set or takes one away. `QuiesceIsExclusive`, `GateReopens` and
`OneUpdate` follow.

**GlobalSidecarProofs.** The types are inductive; what needs an argument is that the
misses stay within the threshold and the failed restarts within two.
`BlipsAreSpared` is about every step of `Spec`, with starts and stops at any time, and
needs `Counted`: the counter of the monitor and the process are two things, and the
counter outlives a restart that fails. `Verdict` says that during a check a process
other than the one that is checked has only just come, so that what the check counts
is of the one it checks or of one it will not act on. What saves the next process
is that its first check falls into its grace and clears the counter, except when the monitor backs off after two failures; but then
nothing is counted, since with a threshold of two or more each miss below it
clears the failures (`MissesAreItsOwn`). With a threshold of one the miss that
restarts is of the process itself.

**FileLockProofs.** Types, and `MutualExclusion` for any number of calls and
processes. Its proof looks at who may remove or make a directory: `mkdir` succeeds
only where none is, and whoever removes one that a holder made adds the holder to
`lost` (`RemovalIsCounted`), so a holder that is not in `lost` still finds its own.
`LiveOwnersKeepTheirLocks` is about every step that adds a call to `lost`, and there are
two: a rename, of which it needs that a call at its break has seen an owner that
is dead or cannot be verified, and that the dead stay dead (`Judged`); and the release
of a call that finds a directory other than its own, which `MutualExclusion` says only
a robbed one does.

**TokenRefreshProofs.** Types, and that every step of the refresh protocol is a
step of `OAuthCredential` or leaves the credential alone, for any number of session
sidecars. The strengthening is `Based`: while the revision has not moved since a
request was made, the stored token is still the one that was sent. A commit happens
only at that revision, so what it stores is the successor of what is there.
`SentIsCurrent` and `StoredWorks` need `LInv` besides. `Held`: a refresh past the lock
is its holder and nobody was robbed, unless it is itself of the `crowd`. `Grants`:
a grant is named by the revision that brought it, so that a token of the stored grant means that the
revision has not moved, for those outside of the crowd. `Answers`, which needs no
lock: a request whose credential was replaced within its grant has sent an earlier token
than the stored one, so that the answer which can be stored carries what the issuer
accepts, however many are under way.

**OAuthFlowProofs.** The theorems are about `Spec`, in which the timer fires in any
phase, with the exemption of `Overdue` commits in three of the four properties (see the
disagreements above). `FlowsSound` has five parts besides the types. `PhasesSound` ties
a flow to its callback task; `OwnerSound` says what the owner of the start may find
pending at each of its awaits; `ServersSound`, which starts and flows have a server
open; `OrderSound`, that the owner began last and that no flow was started by a later
call than the pending one, by counting the attempts that have begun; `RevokersSound`,
that an attempt which a revocation found begun is pending only as long as that revocation
waits for it.
`LaterAttemptWins` and `RevocationIsFinal` are action properties, and follow from the
last two at the step in which a commit ends.

**MiniAppWorkersProofs.** That every thread that runs is in the map is not inductive:
terminations of one worker overlap, and each takes it out at its end. `WorkersSound`
adds how far spawns, evictions, closings and kills have got, and that a thread which
ended crashed, was evicted, did not boot or has no window any more. The map is a
sequence in which a worker occurs once (`IsInjective`); `AppendedPool` and
`RemovedPool` are what the proofs use of it.

**TurnQueueProofs.** A handler is a function of the host's record, so the argument goes
through the functions it is made of and needs no state of the program. `Good(h)` says
of a record that the queues and the generators hold every message once (`Apart`), and
where the generators may be (`Held`: the one that waits has no message, the message
recorded as promoted has a generator, an admitted one has given its ticket back).
`Quiet(h, n)` leaves all that alone. `Moves(h, n, S)` leaves a record that is `Good`,
in which nothing waits that did not wait before, was no confirmed reservation and is not
in `S`, and in which nobody was told of a cancellation. The relations compose
(`MovesAgain`, `MovesQuiet`), so each action is the list of its functions in the order
of the code; that the queues stay free of repetitions rests on what `Append`,
`Tail`, `\o` and `RemoveFirst` do to a sequence in which elements occur once.
What handlers leave then keeps the rest of `QInv` (`StepKeeps`): `Given`, that
what the SDK was given does not wait and that a caller which is not done has at most its
reservation; and `Cancelled`, that a message whose cancellation was confirmed is
nowhere, neither is one that `cancel_async_message` has taken out of the subprocess's
queue. Neither holds alone: a cancellation that the subprocess confirms is harmless
because it was given the message, which therefore waits nowhere; a ticket can be
cancelled because its message was never given. `QueuesAreSound`,
`NoMessageIsGivenTwice` and `CancelledStays` follow for any number of messages and
troubles; with the second trouble, which the run leaves out, a message can stray, and
`CancelledStays` says that it is the only kind that runs after its cancellation.

**Only model-checked.** Liveness under fairness, which is out of the prover's reach.
`StartupIsSpared`, because it is a statement about callers that ask for one runtime:
a caller that asks for another one takes the instance away by design.

## What is not modelled, and the plan

Within the modelled components:

- *Shell*: the resolution of runtimes (a choice of the value), ports and their
  reuse, the environment of processes, the legacy instances per tab, the receivers of
  the broadcasts, `recovery.clear()` of the monitor during an update, and the scans
  for processes and locked files that verify a shutdown.
- *Turn queue*: forced messages, reset, rewind and switch of sessions, the registry of
  IM requests, the `beforeDispatch` guards and observers of goal turns, the reminder
  of the watchdog, the retry of a provider error, the fence of MCP mutations, a
  change of provider, a stop while a session starts, a pre-warm that fails, the 5 s
  of `cancel_async_message` and the 10 s after which a session that does not end
  is abandoned (`builtin-session/lifecycle.ts:550`; the model lets the next session wait).
- *MCP OAuth*: discovery, the requests themselves, the migration of the old format.
- *Mini apps*: permissions and refused routes, cancellation of calls (no caller passes a
  signal), the sandbox of the threads and the other primitives of `window.app`.

The wire formats, storage formats, user interface and third party services are
out of scope; they are most of the repository's lines and have no protocol a model
checker could add to.

Still to be written, in this order:

1. `BackgroundCompletion`, over `SidecarManager`: start, poll and cancel of the
   owner that outlives a tab. Promise: while a turn runs with no tab, its
   sidecar is kept; an end is noticed; two polls do not release each other's
   owner.
2. `KeyedLifecycle`: sorted and nested acquisition of identity locks, weak
   entries. Promise: mutual exclusion by identity and no deadlock.
3. `ImConsumers`, over the stop events: registration, cancellation, lag and
   reconciliation. Promise: no consumer survives its instance.
4. `TaskScheduler` and `SessionGoal`: claims, reservations, commits and crash
   recovery. Promise: an execution runs at most once, and a canceled one is not
   dispatched.
5. In `TurnQueue`: forced messages and the guards of goal turns.

Out of the prover's reach are liveness under fairness and induction over data;
`StartupIsSpared` would need an invariant about the runtimes that all callers
ask for.
