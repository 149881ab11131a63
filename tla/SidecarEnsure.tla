--------------------------- MODULE SidecarEnsure ----------------------------
(***************************************************************************)
(* ensure_session_sidecar as threads run it (sidecar/session_lifecycle.rs),*)
(* together with release, activation and rename, and with the monitor that *)
(* restarts dead sidecars (monitor_session_sidecars, sidecar/instances.rs).*)
(*                                                                         *)
(* Every caller runs the same procedure.  It holds the manager's lock in   *)
(* the steps that change `mgr' and lets it go while it polls a port, which *)
(* is where other threads come in:                                         *)
(*                                                                         *)
(*   enter  -> probe -> verdict     an instance was found: check it        *)
(*   enter  -> boot  -> booted      none was found: spawn one and wait     *)
(*                                                                         *)
(* Polls end with an answer or with a timeout; a timeout may also hit a    *)
(* process that serves.  The update gate (module SpawnGate) is open.       *)
(***************************************************************************)
EXTENDS SidecarManager

CONSTANTS
    Client,        \* threads of commands, IM router, schedulers
    Monitor,       \* the thread monitor_session_sidecars blocks on
    Acts,          \* the owners each client speaks for
    MaxAttempts,   \* MAX_ENSURE_ATTEMPTS
    MaxFailures    \* MAX_RESTART_FAILURES

Caller == Client \cup {Monitor}

ASSUME CallerAssumption ==
    /\ Monitor \notin Client
    /\ Acts \in [Client -> SUBSET Owner]
ASSUME BoundAssumption == MaxAttempts \in Nat /\ MaxFailures \in Nat

VARIABLES
    caller,     \* the local state of each call of ensure
    held,       \* history: <<session, owner, port>> a client was given and
                \* has not released
    recovery,   \* the monitor's recovery queue
    mon         \* where the monitor is in its loop

vars == <<mgr, caller, held, recovery, mon>>

Pc == {"idle", "enter", "probe", "verdict", "boot", "booted", "done"}
CallState ==
    [pc: Pc, s: Session \cup {None}, o: Owner \cup {None},
     rt: Runtime \cup {None}, port: Nat, gen: Nat,
     starting: BOOLEAN,   \* wait_for_starting
     joined: BOOLEAN,     \* joined_owner_added
     ok: BOOLEAN,         \* outcome of the poll, or of the call
     attempt: Nat,
     released: BOOLEAN]   \* history: its owner was released meanwhile

RecoveryEntry == [owners: SUBSET Owner, first: Owner, runtime: Runtime,
                  failures: Nat]

Idle == [pc |-> "idle", s |-> None, o |-> None, rt |-> None, port |-> 0,
         gen |-> 0, starting |-> FALSE, joined |-> FALSE, ok |-> FALSE,
         attempt |-> 0, released |-> FALSE]

EnsureInit ==
    /\ Init
    /\ caller = [c \in Caller |-> Idle]
    /\ held = {}
    /\ recovery = [s \in Session |-> None]
    /\ mon = [pc |-> "sleep", todo |-> {}, at |-> None]

EnsureTypeOK ==
    /\ TypeOK
    /\ caller \in [Caller -> CallState]
    /\ held \subseteq (Session \X Owner \X Nat)
    /\ recovery \in [Session -> RecoveryEntry \cup {None}]
    /\ mon \in [pc: {"sleep", "retain", "visit", "await"},
                todo: SUBSET Session, at: Session \cup {None}]

(***************************************************************************)
(* One call of ensure_session_sidecar.                                     *)
(***************************************************************************)
InFlight(c, s, o) ==
    caller[c].pc \notin {"idle", "done"} /\ caller[c].s = s /\ caller[c].o = o

\* The monitor's calls pin the runtime of the instance that died.
ExpectedRuntimes(c) ==
    IF c = Monitor THEN {recovery[caller[c].s].runtime} ELSE Runtime

Mine(c) == Holds(mgr, caller[c].s, caller[c].port)
Drifted(c, rt) == mgr.sidecars[caller[c].s].runtime # rt
Cleared(c) == ClearGeneration(RemoveSidecar(mgr, caller[c].s), caller[c].s)

Called(s, o, attempt) ==
    [Idle EXCEPT !.pc = "enter", !.s = s, !.o = o, !.attempt = attempt]

Start(c, s, o) ==
    /\ caller[c].pc = "idle"
    /\ caller' = [caller EXCEPT ![c] = Called(s, o, 0)]
    /\ UNCHANGED <<mgr, held, recovery, mon>>

\* A client keeps the newest port it was given; a failed call changes
\* nothing for it, nor does one it released meanwhile unless that call
\* attached its owner after all.
Return(c, ok) ==
    /\ caller' = [caller EXCEPT ![c] =
                    IF c = Monitor THEN [Idle EXCEPT !.pc = "done", !.ok = ok]
                    ELSE Idle]
    /\ held' = IF /\ ok /\ c # Monitor
                  /\ caller[c].released =>
                       caller[c].o \in OwnersOf(mgr', caller[c].s)
               THEN {h \in held : ~(h[1] = caller[c].s /\ h[2] = caller[c].o)}
                      \cup {<<caller[c].s, caller[c].o, caller[c].port>>}
               ELSE held

Retry(c) ==
    /\ caller' = [caller EXCEPT ![c] =
                    [Called(@.s, @.o, @.attempt + 1)
                        EXCEPT !.released = caller[c].released]]
    /\ UNCHANGED held

\* create_new_session_sidecar, entered with the lock held and the record m.
Create(c, m, rt) ==
    LET s == caller[c].s
        cleared == RemoveSidecar(m, s)
    IN  IF Alive(m, s) THEN mgr' = m /\ Retry(c)
        ELSE \/ mgr' = cleared /\ Return(c, FALSE)
             \/ /\ m.counter <= MaxInstance
                /\ mgr' = ClearGeneration(NextGeneration(cleared, s), s)
                /\ Return(c, FALSE)
             \/ /\ m.counter <= MaxInstance
                /\ mgr' = Install(cleared, s, caller[c].o, rt)
                /\ caller' = [caller EXCEPT ![c].pc = "boot",
                                           ![c].rt = rt,
                                           ![c].port = m.counter]
                /\ UNCHANGED held

\* Phase 1, under the lock: reuse, join, or replace what is there.
EnterReuse(c, rt) ==
    LET s == caller[c].s
        o == caller[c].o
        starting == ~IsReusable(mgr.sidecars[s])
    IN  /\ mgr' = IF starting THEN AddOwners(mgr, s, {o}) ELSE mgr
        /\ caller' = [caller EXCEPT ![c] =
              [@ EXCEPT !.pc = "probe", !.rt = rt,
                        !.port = mgr.sidecars[s].port,
                        !.gen = mgr.generations[s],
                        !.starting = starting,
                        !.joined = starting /\ o \notin OwnersOf(mgr, s)]]
        /\ UNCHANGED held

Enter(c) ==
    /\ caller[c].pc = "enter"
    /\ IF caller[c].attempt >= MaxAttempts
       THEN Return(c, FALSE) /\ UNCHANGED mgr
       ELSE \E rt \in ExpectedRuntimes(c) :
              \/ ~Alive(mgr, caller[c].s) /\ Create(c, mgr, rt)
              \/ /\ Alive(mgr, caller[c].s) /\ Drifted(c, rt)
                 /\ Create(c, Cleared(c), rt)
              \/ /\ Alive(mgr, caller[c].s) /\ ~Drifted(c, rt)
                 /\ EnterReuse(c, rt)
    /\ UNCHANGED <<recovery, mon>>

\* Without the lock: wait_for_readiness or check_sidecar_http_health on the
\* port, and wait_for_health followed by wait_for_readiness after a spawn.
PollEnds(c, ok) ==
    /\ caller' = [caller EXCEPT
          ![c].pc = IF @ = "probe" THEN "verdict" ELSE "booted",
          ![c].ok = ok]
    /\ UNCHANGED <<mgr, held, recovery, mon>>

PollAnswered(c) ==
    /\ caller[c].pc \in {"probe", "boot"}
    /\ Serving(mgr, caller[c].port)
    /\ PollEnds(c, TRUE)

\* Variant: no deadline while the process is there.
PollTimesOutIfGone(c) ==
    /\ caller[c].pc \in {"probe", "boot"} /\ ~Listening(mgr, caller[c].port)
    /\ PollEnds(c, FALSE)
PollTimesOut(c) == caller[c].pc \in {"probe", "boot"} /\ PollEnds(c, FALSE)

\* Phase 3, under the lock again.
SameGeneration(c) == mgr.generations[caller[c].s] = caller[c].gen

VerdictReplaced(c) ==
    /\ ~SameGeneration(c)
    /\ \/ ~Alive(mgr, caller[c].s) /\ Create(c, mgr, caller[c].rt)
       \/ /\ Alive(mgr, caller[c].s) /\ Drifted(c, caller[c].rt)
          /\ Create(c, Cleared(c), caller[c].rt)
       \/ /\ Alive(mgr, caller[c].s) /\ ~Drifted(c, caller[c].rt)
          /\ UNCHANGED mgr /\ Retry(c)

Usable(c) ==
    Mine(c) /\ (IsReusable(mgr.sidecars[caller[c].s]) \/ caller[c].starting)

VerdictHealthy(c) ==
    /\ SameGeneration(c) /\ caller[c].ok
    /\ \/ ~Usable(c) /\ Create(c, mgr, caller[c].rt)
       \/ /\ Usable(c) /\ Drifted(c, caller[c].rt)
          /\ Create(c, Cleared(c), caller[c].rt)
       \/ /\ Usable(c) /\ ~Drifted(c, caller[c].rt)
          /\ mgr' = AddOwners(MarkHealthy(mgr, caller[c].s), caller[c].s,
                              {caller[c].o})
          /\ Return(c, TRUE)

\* Variant: a joiner removes what it waited for, whoever else has it.
GiveUpAll(c) ==
    mgr' = IF Mine(c) THEN RemoveSidecar(mgr, caller[c].s) ELSE mgr

\* A joiner that timed out takes back only an owner it added itself.
GiveUpJoin(c) ==
    LET s == caller[c].s
        o == caller[c].o
    IN  mgr' = IF ~caller[c].joined \/ o \notin OwnersOf(mgr, s) THEN mgr
               ELSE IF Mine(c) THEN DetachOwner(mgr, s, o)
               ELSE DropOwner(mgr, s, o)

VerdictUnhealthy(c) ==
    /\ SameGeneration(c) /\ ~caller[c].ok
    /\ \/ caller[c].starting /\ GiveUpJoin(c) /\ Return(c, FALSE)
       \/ /\ ~caller[c].starting
          /\ Create(c, RemoveSidecar(mgr, caller[c].s), caller[c].rt)

Verdict(c) ==
    /\ caller[c].pc = "verdict"
    /\ VerdictReplaced(c) \/ VerdictHealthy(c) \/ VerdictUnhealthy(c)
    /\ UNCHANGED <<recovery, mon>>

\* Variant: whatever is there by now is marked.
BootSucceedsUnchecked(c) ==
    /\ caller[c].pc = "booted" /\ caller[c].ok
    /\ mgr' = IF Present(mgr, caller[c].s) THEN MarkHealthy(mgr, caller[c].s)
              ELSE mgr
    /\ Return(c, TRUE)
    /\ UNCHANGED <<recovery, mon>>

\* The creator's boot is over.  It acts on the entry only if the entry is
\* still the instance it spawned.
BootSucceeds(c) ==
    /\ caller[c].pc = "booted" /\ caller[c].ok
    /\ mgr' = IF Mine(c) THEN MarkHealthy(mgr, caller[c].s) ELSE mgr
    /\ Return(c, TRUE)
    /\ UNCHANGED <<recovery, mon>>

BootFails(c) ==
    /\ caller[c].pc = "booted" /\ ~caller[c].ok
    /\ mgr' = IF Mine(c) THEN RemoveSidecar(mgr, caller[c].s) ELSE mgr
    /\ Return(c, FALSE)
    /\ UNCHANGED <<recovery, mon>>

CallerStep(c) ==
    \/ Enter(c) \/ PollAnswered(c) \/ PollTimesOut(c)
    \/ Verdict(c) \/ BootSucceeds(c) \/ BootFails(c)

(***************************************************************************)
(* Commands.  A client releases what it holds or is asking for.            *)
(***************************************************************************)
ReleaseAs(s, o) ==
    IF o \in Tab THEN \E persisted \in BOOLEAN :
                        mgr' = ReleaseTab(mgr, s, o, persisted)
    ELSE mgr' = RemoveSessionOwner(mgr, s, o)

ReleaseOwner(s, o) ==
    /\ \/ \E h \in held : h[1] = s /\ h[2] = o
       \/ \E c \in Client : InFlight(c, s, o)
    /\ ReleaseAs(s, o)
    /\ held' = {h \in held : ~(h[1] = s /\ h[2] = o)}
    /\ caller' = [c \in Caller |->
          IF InFlight(c, s, o) THEN [caller[c] EXCEPT !.released = TRUE]
          ELSE caller[c]]
    /\ UNCHANGED <<recovery, mon>>

\* App.tsx activates a session with the port its ensure returned.
ActivateTab(h) ==
    /\ h[2] \in Tab
    /\ mgr' = Activate(mgr, h[1], h[2], h[3])
    /\ UNCHANGED <<caller, held, recovery, mon>>

\* Variant: the generation stays under the old id.
RenameWithoutGeneration(old, new) ==
    /\ old # new /\ MayRename(mgr, old, new)
    /\ mgr' = [UpgradeSessionId(mgr, old, new)
                  EXCEPT !.generations = mgr.generations]
    /\ UNCHANGED <<caller, held, recovery, mon>>

\* The IM router renames whatever it finds (im/router.rs:928), and
\* cmd_upgrade_session_id what has no persistent owner; calls of ensure in
\* flight and the recovery queue keep the old id.
RenameSession(old, new) ==
    /\ old # new /\ MayRename(mgr, old, new)
    /\ mgr' = UpgradeSessionId(mgr, old, new)
    /\ held' = {IF h[1] = old THEN <<new, h[2], h[3]>> ELSE h : h \in held}
    /\ UNCHANGED <<caller, recovery, mon>>

KeepCalls == UNCHANGED <<caller, held, recovery, mon>>

Environment ==
    \/ \E s \in Session :
          \/ ProcessReady(s) /\ KeepCalls
          \/ ProcessExits(s) /\ KeepCalls
          \/ Observe({s}) /\ KeepCalls
          \/ \E o \in Owner : ReleaseOwner(s, o)
          \/ \E new \in Session : RenameSession(s, new)
    \/ \E h \in held : ActivateTab(h)
    \/ \E c \in Client, s \in Session : \E o \in Acts[c] : Start(c, s, o)

(***************************************************************************)
(* monitor_session_sidecars, every 15 seconds.                             *)
(***************************************************************************)
\* Phase 1: is_dead is evaluated on every entry; the dead ones that have
\* owners and are not queued yet are queued.
NewlyDead ==
    {s \in Session : /\ Present(mgr, s) /\ IsDead(mgr.sidecars[s])
                     /\ OwnersOf(mgr, s) # {} /\ recovery[s] = None}

MonitorScan ==
    /\ mon.pc = "sleep"
    /\ mgr' = Reap(mgr, Session)
    /\ \E first \in [NewlyDead -> Owner] :   \* HashSet order
         /\ \A s \in NewlyDead : first[s] \in OwnersOf(mgr, s)
         /\ recovery' = [s \in Session |->
               IF s \in NewlyDead
               THEN [owners |-> OwnersOf(mgr, s), first |-> first[s],
                     runtime |-> mgr.sidecars[s].runtime, failures |-> 0]
               ELSE recovery[s]]
    /\ mon' = [mon EXCEPT !.pc = "retain"]
    /\ UNCHANGED <<caller, held>>

\* Variant: an absent entry is forgotten.
RetainedIfPresent(s) ==
    recovery[s] # None /\ Present(mgr, s) /\ ~Alive(mgr, s)

\* What recovered on its own leaves the queue; an absent entry stays in it.
Retained(s) == recovery[s] # None /\ ~Alive(mgr, s)

MonitorRetain ==
    /\ mon.pc = "retain"
    /\ mgr' = Reap(mgr, Session)
    /\ recovery' = [s \in Session |->
                      IF Retained(s) THEN recovery[s] ELSE None]
    /\ mon' = [mon EXCEPT
          !.pc = IF \E s \in Session : Retained(s) THEN "visit" ELSE "sleep",
          !.todo = {s \in Session : Retained(s)}]
    /\ UNCHANGED <<caller, held>>

\* Phase 2, for one queued session.
Leave(s) == [pc |-> IF mon.todo = {s} THEN "sleep" ELSE "visit",
             todo |-> mon.todo \ {s}, at |-> None]

MonitorSkips(s) ==
    /\ mon.pc = "visit" /\ s \in mon.todo
    /\ \/ recovery[s].failures >= MaxFailures /\ UNCHANGED recovery
       \/ /\ recovery[s].failures < MaxFailures /\ Alive(mgr, s)
          /\ recovery' = [recovery EXCEPT ![s] = None]
    /\ mon' = Leave(s)
    /\ UNCHANGED <<mgr, caller, held>>

MonitorRestarts(s) ==
    /\ mon.pc = "visit" /\ s \in mon.todo
    /\ recovery[s].failures < MaxFailures /\ ~Alive(mgr, s)
    /\ mgr' = RemoveSidecar(mgr, s)
    /\ caller' = [caller EXCEPT ![Monitor] = Called(s, recovery[s].first, 0)]
    /\ mon' = [mon EXCEPT !.pc = "await", !.at = s]
    /\ UNCHANGED <<held, recovery>>

\* The restart is over: the other owners of the snapshot are attached to
\* whatever instance the session has now.
MonitorSettles ==
    LET s == mon.at
    IN  /\ mon.pc = "await" /\ caller[Monitor].pc = "done"
        /\ \/ /\ caller[Monitor].ok
              /\ mgr' = AddOwners(mgr, s,
                          recovery[s].owners \ {recovery[s].first})
              /\ recovery' = [recovery EXCEPT ![s] = None]
           \/ /\ ~caller[Monitor].ok
              /\ recovery' = [recovery EXCEPT ![s].failures = @ + 1]
              /\ UNCHANGED mgr
        /\ caller' = [caller EXCEPT ![Monitor] = Idle]
        /\ mon' = Leave(s)
        /\ UNCHANGED held

MonitorStep ==
    \/ MonitorScan \/ MonitorRetain \/ MonitorSettles
    \/ \E s \in Session : MonitorSkips(s) \/ MonitorRestarts(s)

CallsNext ==
    \/ \E c \in Caller : CallerStep(c)
    \/ Environment

EnsureNext == CallsNext \/ MonitorStep

EnsureSpec == EnsureInit /\ [][EnsureNext]_vars

\* Every poll ends and every thread is scheduled; the monitor's timer ticks.
\* Nothing is assumed of clients, of processes or of the readers.
EnsureFairness ==
    /\ \A c \in Caller : WF_vars(CallerStep(c))
    /\ WF_vars(MonitorStep)

FairEnsureSpec == EnsureSpec /\ EnsureFairness

(***************************************************************************)
(* Properties.                                                             *)
(***************************************************************************)
\* Whatever the threads interleave, the manager only ever takes the steps of
\* its own specification, so what is shown there holds here.
ImplementsManager == Spec

\* An entry is marked healthy only for a process that answered: a caller
\* whose instance was replaced during its wait never marks the replacement,
\* which is still booting.
HealthyHasAnswered ==
    \A s \in Session :
        (Present(mgr, s) /\ IsReusable(mgr.sidecars[s]))
            => mgr.sidecars[s].proc # "booting"

\* The invariant of the calls: their local state has its type, and the one
\* above.
EnsureInv == EnsureTypeOK /\ HealthyHasAnswered

\* A call that gives up, fails or finishes never kills a starting instance
\* that another call is booting on behalf of an attached owner.  (All calls
\* ask for the same runtime here, and the owner was not released.)
StartupIsSpared ==
    [][\A d \in Caller :
          (/\ caller[d].pc = "boot" /\ ~caller[d].released
           /\ Mine(d) /\ Alive(mgr, caller[d].s)
           /\ ~IsReusable(mgr.sidecars[caller[d].s])
           /\ caller[d].o \in OwnersOf(mgr, caller[d].s)
           /\ \E c \in Caller \ {d} : caller'[c] # caller[c]
           /\ caller'[d] = caller[d])
              => Listening(mgr', caller[d].port)]_vars

\* A queued session is not forgotten, even when a failed restart has left no
\* entry to find it by: it runs again, or a restart of the monitor succeeded
\* (and was released since), or MAX_RESTART_FAILURES of them failed.
QueuedIsRestarted ==
    \A s \in Session :
        recovery[s] # None ~>
            (\/ Alive(mgr, s)
             \/ mon.at = s /\ caller[Monitor].pc = "done" /\ caller[Monitor].ok
             \/ recovery[s] # None /\ recovery[s].failures >= MaxFailures)

\* Every call of ensure returns, whatever other threads do to the session.
EnsureReturns ==
    \A c \in Client : caller[c].pc # "idle" ~> caller[c].pc = "idle"
=============================================================================
