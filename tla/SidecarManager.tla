--------------------------- MODULE SidecarManager ---------------------------
(***************************************************************************)
(* The record that Arc<Mutex<SidecarManager>> protects (sidecar/manager.rs)*)
(* and the operations the rest of the application performs on it.  Every   *)
(* method of `impl SidecarManager' that changes the record is an operator  *)
(* from records to records, so that a critical section which calls several *)
(* of them is one step built by composition; every action below is one     *)
(* critical section.                                                       *)
(*                                                                         *)
(* Next is what the manager may live through whoever calls it: the steps   *)
(* of ensure_session_sidecar appear here one locked section at a time and  *)
(* without the caller's local state.  SidecarEnsure adds that state and    *)
(* its specification implements this one.                                  *)
(*                                                                         *)
(* Abstractions.  A port names the process that listens on it: it is the   *)
(* instance id drawn when the process was spawned (allocate_port repeats a *)
(* port only after 500 others).  A runtime identity (runtime and source,   *)
(* normalised) is one value.  The child process is the field `proc' of its *)
(* entry: dropping the entry kills it.  Workspace paths, task ids and the  *)
(* is_cron_task label, which no decision of the manager reads, are left    *)
(* out.                                                                    *)
(***************************************************************************)
EXTENDS Naturals

CONSTANTS
    Session,      \* session ids
    Tab,          \* SidecarOwner::Tab, also the tab ids of activations
    Agent,        \* SidecarOwner::Agent
    Work,         \* SidecarOwner::Task, Goal and BackgroundCompletion
    Runtime,      \* runtime identities
    None,         \* Rust's None
    MaxInstance   \* bound: instance ids handed out

Owner == Tab \cup Agent \cup Work

SidecarState == {"Starting", "Healthy", "Dead"}
ProcState == {"booting", "serving", "exited"}

Sidecar == [port: Nat, runtime: Runtime, owners: SUBSET Owner,
            state: SidecarState, proc: ProcState]
Activation == [tab: Tab \cup {None}, port: Nat]

ASSUME NoneAssumption ==
    None \notin Sidecar /\ None \notin Activation /\ None \notin Tab
ASSUME OwnerAssumption ==
    Tab \cap Agent = {} /\ Tab \cap Work = {} /\ Agent \cap Work = {}

VARIABLE
    mgr   \* the SidecarManager record, with the broadcast history it produced

Event == Session \X Nat   \* (session_id, generation)

Manager == [sidecars: [Session -> Sidecar \cup {None}],
            generations: [Session -> Nat],            \* 0: no entry
            activations: [Session -> Activation \cup {None}],
            counter: Nat,                             \* instance_counter
            stops: SUBSET Event,                      \* sent on stop_events
            terminals: SUBSET Event,                  \* sent on terminal_events
            unowned: SUBSET Event]   \* history: whose last owner went, or that
                                     \* stop_all ended

Init ==
    mgr = [sidecars    |-> [s \in Session |-> None],
           generations |-> [s \in Session |-> 0],
           activations |-> [s \in Session |-> None],
           counter     |-> 1,
           stops       |-> {},
           terminals   |-> {},
           unowned     |-> {}]

(***************************************************************************)
(* Reads.                                                                  *)
(***************************************************************************)
Present(m, s) == m.sidecars[s] # None
OwnersOf(m, s) == IF Present(m, s) THEN m.sidecars[s].owners ELSE {}

\* is_dead: recorded dead, or the process is found to have exited.
IsDead(sc) == sc.state = "Dead" \/ sc.proc = "exited"
IsReusable(sc) == sc.state = "Healthy"
Alive(m, s) == Present(m, s) /\ ~IsDead(m.sidecars[s])

HasPersistentOwners(m, s) == OwnersOf(m, s) \cap (Work \cup Agent) # {}

\* The session whose process listens on a port, if any entry still has it.
Holds(m, s, port) == Present(m, s) /\ m.sidecars[s].port = port
Listening(m, port) == \E s \in Session : Holds(m, s, port)
Serving(m, port) ==
    \E s \in Session : Holds(m, s, port) /\ m.sidecars[s].proc = "serving"

\* "builtin" and its source are folded into the identity, so drift is
\* inequality; an owner other than Agent keeps a drifted sidecar alive.
DriftDecision(m, s, rt) ==
    CASE ~Present(m, s) \/ m.sidecars[s].runtime = rt -> "NoDrift"
      [] OwnersOf(m, s) \subseteq Agent               -> "KilledAndRemoved"
      [] OTHER                                        -> "DetectedKeptAlive"

(***************************************************************************)
(* The methods that change the record.                                     *)
(***************************************************************************)
\* The side effect of is_dead, called on some of the entries.
Reap(m, ss) ==
    [m EXCEPT !.sidecars =
        [s \in Session |->
            IF s \in ss /\ @[s] # None /\ IsDead(@[s])
            THEN [@[s] EXCEPT !.state = "Dead"] ELSE @[s]]]

NextGeneration(m, s) ==
    [m EXCEPT !.generations[s] = m.counter, !.counter = @ + 1]

ClearGeneration(m, s) == [m EXCEPT !.generations[s] = 0]

InsertSidecar(m, s, sc) == [m EXCEPT !.sidecars[s] = sc]

\* Variants: nobody is told, and every removal is final.
RemoveSidecarUntold(m, s) == [m EXCEPT !.sidecars[s] = None]
RemoveSidecarForGood(m, s) ==
    IF ~Present(m, s) THEN m
    ELSE [m EXCEPT !.sidecars[s] = None,
                   !.stops       = @ \cup {<<s, m.generations[s]>>},
                   !.terminals   = @ \cup {<<s, m.generations[s]>>}]

\* The generation stays readable: callers compare it across lock gaps.
RemoveSidecar(m, s) ==
    IF ~Present(m, s) THEN m
    ELSE [m EXCEPT
            !.sidecars[s] = None,
            !.stops       = @ \cup {<<s, m.generations[s]>>},
            !.terminals   = IF OwnersOf(m, s) = {}
                            THEN @ \cup {<<s, m.generations[s]>>} ELSE @]

AddOwners(m, s, os) ==
    IF Present(m, s) THEN [m EXCEPT !.sidecars[s].owners = @ \cup os] ELSE m
MarkHealthy(m, s) == [m EXCEPT !.sidecars[s].state = "Healthy"]
DropOwner(m, s, o) ==
    [m EXCEPT !.sidecars[s].owners = @ \ {o},
              !.unowned = IF OwnersOf(m, s) = {o}
                          THEN @ \cup {<<s, m.generations[s]>>} ELSE @]

Deactivate(m, s) == [m EXCEPT !.activations[s] = None]

RemoveSessionOwner(m, s, o) ==
    IF o \notin OwnersOf(m, s) THEN m
    ELSE IF OwnersOf(m, s) = {o}
    THEN ClearGeneration(
           Deactivate(RemoveSidecar(DropOwner(m, s, o), s), s), s)
    ELSE DropOwner(m, s, o)

ClearTabElsewhere(m, keeper, tab) ==
    [m EXCEPT !.activations =
        [s \in Session |->
            IF s # keeper /\ @[s] # None /\ @[s].tab = tab
            THEN [@[s] EXCEPT !.tab = None] ELSE @[s]]]
\* Variant: other activations keep the tab.
ClaimTabOnly(m, keeper, tab) == m
ClaimTab(m, keeper, tab) ==
    IF tab = None THEN m ELSE ClearTabElsewhere(m, keeper, tab)

Activate(m, s, tab, port) ==
    [ClaimTab(m, s, tab) EXCEPT
        !.activations[s] = [tab |-> tab, port |-> port]]

UpdateTab(m, s, tab) ==
    LET claimed == ClaimTab(m, s, tab)
    IN  IF m.activations[s] = None THEN claimed
        ELSE [claimed EXCEPT !.activations[s].tab = tab]

\* `persisted': a Task or Goal on disk still claims the session.
ReleaseTab(m, s, t, persisted) ==
    LET released == RemoveSessionOwner(m, s, t)
    IN  IF t \notin OwnersOf(m, s) THEN m
        ELSE IF HasPersistentOwners(released, s) \/ persisted
        THEN UpdateTab(released, s, None)
        ELSE IF Present(released, s) THEN Deactivate(released, s)
        ELSE released

Known(m, s) == Present(m, s) \/ m.activations[s] # None
MayRename(m, old, new) == Known(m, old) /\ ~Known(m, new)

\* Variant: the generation stays under the old id.
RenameInstance(m, old, new) ==
    [m EXCEPT
        !.sidecars    = [@ EXCEPT ![old] = None, ![new] = m.sidecars[old]],
        !.activations = [@ EXCEPT ![old] = None, ![new] = m.activations[old]]]

\* upgrade_session_id moves whatever is filed under the old id; an absent
\* generation leaves the one under the new id alone.
Rename(m, old, new) ==
    [m EXCEPT
        !.sidecars    = [@ EXCEPT ![old] = None, ![new] = m.sidecars[old]],
        !.activations = [@ EXCEPT ![old] = None, ![new] = m.activations[old]],
        !.generations = IF m.generations[old] = 0 THEN @
                        ELSE [@ EXCEPT ![old] = 0,
                                       ![new] = m.generations[old]]]
UpgradeSessionId(m, old, new) ==
    IF old # new /\ MayRename(m, old, new) THEN Rename(m, old, new) ELSE m

KillIfRuntimeDiffers(m, s, rt) ==
    IF DriftDecision(m, s, rt) = "KilledAndRemoved"
    THEN ClearGeneration(RemoveSidecar(m, s), s) ELSE m

\* stop_all announces every entry as terminal, whatever its owners.
StopAll(m) ==
    LET gone == {<<s, m.generations[s]>> : s \in {t \in Session : Present(m, t)}}
    IN  [m EXCEPT
            !.sidecars    = [s \in Session |-> None],
            !.activations = [s \in Session |-> None],
            !.generations = [s \in Session |-> 0],
            !.stops       = @ \cup gone,
            !.terminals   = @ \cup gone,
            !.unowned     = @ \cup gone]

(***************************************************************************)
(* The critical sections of ensure_session_sidecar, its caller left out.   *)
(***************************************************************************)
\* A dead or unresponsive entry keeps its generation, a drifted one loses it.
Evictions(m, s) == {RemoveSidecar(m, s), ClearGeneration(RemoveSidecar(m, s), s)}

\* Variant: a generation that is still readable is used again.
InstallAgain(m, s, o, rt) ==
    LET g == m.generations[s]
        n == NextGeneration(m, s)
    IN  InsertSidecar(IF g = 0 THEN n ELSE [n EXCEPT !.generations[s] = g], s,
            [port |-> m.counter, runtime |-> rt, owners |-> {o},
             state |-> "Starting", proc |-> "booting"])

\* The tail of create_new_session_sidecar that runs under the lock.
Install(m, s, o, rt) ==
    InsertSidecar(NextGeneration(m, s), s,
        [port |-> m.counter, runtime |-> rt, owners |-> {o},
         state |-> "Starting", proc |-> "booting"])

Spawn(s, o, rt) ==
    /\ mgr.counter <= MaxInstance
    /\ \E m \in Evictions(mgr, s) : mgr' = Install(m, s, o, rt)

\* A boot that fails, the health monitor before a restart, and a creation
\* that finds no executable or port remove an entry and put none in its place.
Evict(s) == mgr' \in Evictions(mgr, s)

\* A process that does not start: the generation drawn for it is cleared.
SpawnFails(s) ==
    /\ mgr.counter <= MaxInstance
    /\ \E m \in Evictions(mgr, s) :
         mgr' = ClearGeneration(NextGeneration(m, s), s)

Join(s, os) == Present(mgr, s) /\ mgr' = AddOwners(mgr, s, os)

\* Only a process that has answered /health/ready.
BecomeHealthy(s, os) ==
    /\ Present(mgr, s)
    /\ mgr.sidecars[s].proc # "booting"
    /\ mgr' = AddOwners(MarkHealthy(mgr, s), s, os)

\* Variant: the last owner leaves the process behind.
DetachOnly(m, s, o) == DropOwner(m, s, o)

\* A joiner that gives up takes back the owner it added.
DetachOwner(m, s, o) ==
    IF OwnersOf(m, s) = {o}
    THEN ClearGeneration(RemoveSidecar(DropOwner(m, s, o), s), s)
    ELSE DropOwner(m, s, o)
Detach(s, o) == o \in OwnersOf(mgr, s) /\ mgr' = DetachOwner(mgr, s, o)

EnsureStep ==
    \E s \in Session :
        \/ Evict(s) \/ SpawnFails(s)
        \/ \E os \in SUBSET Owner : Join(s, os) \/ BecomeHealthy(s, os)
        \/ \E o \in Owner :
              Detach(s, o) \/ \E rt \in Runtime : Spawn(s, o, rt)

(***************************************************************************)
(* Commands, and the child processes.                                      *)
(***************************************************************************)
Release(s, o) == mgr' = RemoveSessionOwner(mgr, s, o)

ReleaseTabSession(s, t) ==
    \E persisted \in BOOLEAN : mgr' = ReleaseTab(mgr, s, t, persisted)

\* The renderer passes on a port that ensure returned, by now perhaps stale.
ActivateSession(s, tab) ==
    \E port \in 1..(mgr.counter - 1) : mgr' = Activate(mgr, s, tab, port)

DeactivateSession(s) == mgr' = Deactivate(mgr, s)

UpdateSessionTab(s, tab) == mgr' = UpdateTab(mgr, s, tab)

\* The IM router renames without a further guard (im/router.rs:928), so that
\* cmd_upgrade_session_id, which spares persistent owners, adds no step.
Upgrade(old, new) == mgr' = UpgradeSessionId(mgr, old, new)

DriftKill(s, rt) == mgr' = KillIfRuntimeDiffers(mgr, s, rt)

StopAllSidecars == mgr' = StopAll(mgr)

\* Any of the readers that call is_dead.
Observe(ss) == mgr' = Reap(mgr, ss)

ProcessReady(s) ==
    /\ Present(mgr, s) /\ mgr.sidecars[s].proc = "booting"
    /\ mgr' = [mgr EXCEPT !.sidecars[s].proc = "serving"]

ProcessExits(s) ==
    /\ Present(mgr, s) /\ mgr.sidecars[s].proc # "exited"
    /\ mgr' = [mgr EXCEPT !.sidecars[s].proc = "exited"]

Command ==
    \/ StopAllSidecars
    \/ \E ss \in SUBSET Session : Observe(ss)
    \/ \E s \in Session :
          \/ DeactivateSession(s)
          \/ \E o \in Owner : Release(s, o)
          \/ \E t \in Tab : ReleaseTabSession(s, t)
          \/ \E tab \in Tab \cup {None} :
                ActivateSession(s, tab) \/ UpdateSessionTab(s, tab)
          \/ \E new \in Session : Upgrade(s, new)
          \/ \E rt \in Runtime : DriftKill(s, rt)

Process == \E s \in Session : ProcessReady(s) \/ ProcessExits(s)

Next == EnsureStep \/ Command \/ Process

Spec == Init /\ [][Next]_mgr

(***************************************************************************)
(* Properties.                                                             *)
(***************************************************************************)
\* The record keeps its type; the instance counter starts at 1 and so never
\* hands out the 0 that stands for "no generation".
TypeOK == mgr \in Manager /\ mgr.counter >= 1

\* No entry is left without an owner: every path that removes an owner
\* (release, tab release, a joiner that gives up) also stops the sidecar when
\* that owner was the last, so no process is kept alive for nobody.
NoOwnerlessSidecar ==
    \A s \in Session : Present(mgr, s) => mgr.sidecars[s].owners # {}

\* A generation names one instance: a present entry has one, it has been
\* drawn, and no two entries share it, whatever was renamed in between.
GenerationNamesInstance ==
    \A s \in Session : Present(mgr, s) =>
        /\ mgr.generations[s] \in 1..(mgr.counter - 1)
        /\ \A r \in Session \ {s} :
             Present(mgr, r) => mgr.generations[r] # mgr.generations[s]

\* A stop event of an earlier instance never matches one that is running: a
\* consumer keyed by (session, generation) is cancelled only for the instance
\* it was attached to, although removals keep the generation readable and
\* session ids are renamed and reused.
StaleStopIsHarmless ==
    \A s \in Session : Present(mgr, s) =>
        <<s, mgr.generations[s]>> \notin mgr.stops

\* At most one activation carries a given tab id, so a tab-keyed lookup
\* cannot reach the sidecar of another session.
TabNamesOneSession ==
    \A r, s \in Session :
        (r # s /\ mgr.activations[r] # None /\ mgr.activations[s] # None)
            => \/ mgr.activations[r].tab = None
               \/ mgr.activations[r].tab # mgr.activations[s].tab

\* An instance leaves the manager only with a stop event for the session and
\* generation it had: subscribers that hold resources of that instance are
\* always told.  A rename moves the instance and is not a removal.
NoSilentRemoval ==
    [][\A s \in Session :
          (Present(mgr, s) /\ ~Listening(mgr', mgr.sidecars[s].port))
              => <<s, mgr.generations[s]>> \in mgr'.stops]_mgr

\* A terminal event tells the renderer to unbind every tab of the session, so
\* one is broadcast for exactly the instances whose last owner went or that
\* stop_all ended, under the session and generation they then had: an instance
\* that dies, drifts or hangs while it has owners goes without one, because it
\* is restarted and its tabs must stay bound, however many owners it has; and
\* none that nobody owns any more goes unannounced.
TerminalExactlyWhenUnowned == mgr.terminals = mgr.unowned
=============================================================================
