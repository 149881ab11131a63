----------------------------- MODULE SpawnGate -----------------------------
(***************************************************************************)
(* Who may create a sidecar, a channel, a terminal or a browser, and when: *)
(* the atomic SPAWN_GATE, the mutex UPDATE_QUIESCE with its condition      *)
(* variable (sidecar/shutdown.rs), and their users: the creators, which    *)
(* hold a permit while they create; the update, which drains the permits   *)
(* and stops everything before files are overwritten; and the exit of the  *)
(* application (lib.rs).                                                   *)
(*                                                                         *)
(* A load or store of the gate outside the mutex is a step of its own.     *)
(* Poisoning of the mutex is left out: no code panics while it holds it.   *)
(***************************************************************************)
EXTENDS Naturals, FiniteSets

CONSTANTS
    Creator,   \* ensure_session_sidecar, start_tab_sidecar, agent channels,
               \* plugin bridges, browsers, terminals
    Updater    \* cmd_shutdown_for_update, install_pending_update

ASSUME CreatorAssumption == IsFiniteSet(Creator)

VARIABLES
    gate,        \* SPAWN_GATE
    requested,   \* update_requested
    active,      \* active_creations
    creator,     \* where each creator is
    updater,     \* where each updater is
    woken,       \* updaters notified while they wait on `idle'
    alive,       \* creators whose resource exists
    exit,        \* where the exit of the application is
    cleanupDone  \* cleanup_done, shared by both ways to exit

vars == <<gate, requested, active, creator, updater, woken, alive, exit,
          cleanupDone>>

SpawnGateState == {"Open", "UpdateQuiescing", "Exited"}
Owning == {"held", "stopped"}   \* the updater has its UpdateShutdownGuard

TypeOK ==
    /\ gate \in SpawnGateState
    /\ requested \in BOOLEAN
    /\ active \in Nat
    /\ creator \in [Creator -> {"idle", "checked", "creating"}]
    /\ updater \in [Updater -> {"idle", "checked", "waiting"} \cup Owning]
    /\ woken \subseteq Updater
    /\ alive \subseteq Creator
    /\ exit \in {"running", "exiting", "cleaned"}
    /\ cleanupDone \in BOOLEAN

Init ==
    /\ gate = "Open"
    /\ requested = FALSE
    /\ active = 0
    /\ creator = [c \in Creator |-> "idle"]
    /\ updater = [u \in Updater |-> "idle"]
    /\ woken = {}
    /\ alive = {}
    /\ exit = "running"
    /\ cleanupDone = FALSE

(***************************************************************************)
(* A creator: begin_update_spawn_permit, the creation, the permit's drop.  *)
(***************************************************************************)
CheckGate(c) ==
    /\ creator[c] = "idle" /\ gate = "Open"
    /\ creator' = [creator EXCEPT ![c] = "checked"]
    /\ UNCHANGED <<gate, requested, active, updater, woken, alive, exit,
                   cleanupDone>>

\* Variant: a request is noticed only at the gate.
AdmitAlways(c) ==
    /\ creator[c] = "checked"
    /\ creator' = [creator EXCEPT ![c] = "creating"]
    /\ active' = active + 1
    /\ UNCHANGED <<gate, requested, updater, woken, alive, exit, cleanupDone>>

Admit(c) ==
    /\ creator[c] = "checked"
    /\ IF requested
       THEN creator' = [creator EXCEPT ![c] = "idle"] /\ UNCHANGED active
       ELSE /\ creator' = [creator EXCEPT ![c] = "creating"]
            /\ active' = active + 1
    /\ UNCHANGED <<gate, requested, updater, woken, alive, exit, cleanupDone>>

\* What the permit is for; it may also fail and leave nothing.
CreateResource(c) ==
    /\ creator[c] = "creating" /\ c \notin alive
    /\ alive' = alive \cup {c}
    /\ UNCHANGED <<gate, requested, active, creator, updater, woken, exit,
                   cleanupDone>>

Waiting == {u \in Updater : updater[u] = "waiting"}

\* Variant: the drop wakes nobody.
DropPermitQuietly(c) ==
    /\ creator[c] = "creating"
    /\ creator' = [creator EXCEPT ![c] = "idle"]
    /\ active' = active - 1
    /\ UNCHANGED <<gate, requested, updater, woken, alive, exit, cleanupDone>>

\* saturating_sub, and a notification when it reaches zero.
DropPermit(c) ==
    /\ creator[c] = "creating"
    /\ creator' = [creator EXCEPT ![c] = "idle"]
    /\ active' = IF active = 0 THEN 0 ELSE active - 1
    /\ woken' = IF active' = 0 THEN woken \cup Waiting ELSE woken
    /\ UNCHANGED <<gate, requested, updater, alive, exit, cleanupDone>>

ResourceEnds(c) ==
    /\ c \in alive
    /\ alive' = alive \ {c}
    /\ UNCHANGED <<gate, requested, active, creator, updater, woken, exit,
                   cleanupDone>>

(***************************************************************************)
(* An update: begin_update_shutdown, the shutdown, the guard's drop.       *)
(***************************************************************************)
CheckExited(u) ==
    /\ updater[u] = "idle" /\ gate # "Exited"
    /\ updater' = [updater EXCEPT ![u] = "checked"]
    /\ UNCHANGED <<gate, requested, active, creator, woken, alive, exit,
                   cleanupDone>>

\* Under the mutex, up to the first wait on the condition variable.
Request(u) ==
    /\ updater[u] = "checked"
    /\ IF requested
       THEN /\ updater' = [updater EXCEPT ![u] = "idle"]
            /\ UNCHANGED <<gate, requested>>
       ELSE /\ requested' = TRUE
            /\ gate' = "UpdateQuiescing"
            /\ updater' = [updater EXCEPT
                              ![u] = IF active = 0 THEN "held" ELSE "waiting"]
    /\ UNCHANGED <<active, creator, woken, alive, exit, cleanupDone>>

\* The wait returns and the loop tests again.
Wake(u) ==
    /\ updater[u] = "waiting" /\ u \in woken
    /\ woken' = woken \ {u}
    /\ updater' = [updater EXCEPT
                      ![u] = IF active = 0 THEN "held" ELSE "waiting"]
    /\ UNCHANGED <<gate, requested, active, creator, alive, exit, cleanupDone>>

\* Channels, terminals, browsers and shutdown_for_update_verified, as on
\* Windows; elsewhere only the last, and a creator is one of a sidecar.
ShutDown(u) ==
    /\ updater[u] = "held"
    /\ updater' = [updater EXCEPT ![u] = "stopped"]
    /\ alive' = {}
    /\ UNCHANGED <<gate, requested, active, creator, woken, exit, cleanupDone>>

\* Variant: the gate is left as it is.
DropGuardOnly(u) ==
    /\ updater[u] \in Owning
    /\ updater' = [updater EXCEPT ![u] = "idle"]
    /\ requested' = FALSE
    /\ woken' = woken \cup Waiting
    /\ UNCHANGED <<gate, active, creator, alive, exit, cleanupDone>>

\* The shutdown failed, or the update did; on macOS and Linux always.
DropGuard(u) ==
    /\ updater[u] \in Owning
    /\ updater' = [updater EXCEPT ![u] = "idle"]
    /\ requested' = FALSE
    /\ gate' = IF gate = "UpdateQuiescing" THEN "Open" ELSE gate
    /\ woken' = woken \cup Waiting
    /\ UNCHANGED <<active, creator, alive, exit, cleanupDone>>

(***************************************************************************)
(* The exit: whichever event comes first cleans up.                        *)
(***************************************************************************)
ExitRequested ==
    /\ exit = "running"
    /\ cleanupDone' = TRUE
    /\ gate' = IF cleanupDone THEN gate ELSE "Exited"
    /\ exit' = IF cleanupDone THEN "cleaned" ELSE "exiting"
    /\ UNCHANGED <<requested, active, creator, updater, woken, alive>>

WindowDestroyed ==
    /\ exit = "running" /\ ~cleanupDone
    /\ cleanupDone' = TRUE
    /\ alive' = {}
    /\ UNCHANGED <<gate, requested, active, creator, updater, woken, exit>>

StopForExit ==
    /\ exit = "exiting"
    /\ alive' = {}
    /\ exit' = "cleaned"
    /\ UNCHANGED <<gate, requested, active, creator, updater, woken,
                   cleanupDone>>

CreatorStep(c) ==
    CheckGate(c) \/ Admit(c) \/ CreateResource(c) \/ DropPermit(c)
UpdaterStep(u) ==
    CheckExited(u) \/ Request(u) \/ Wake(u) \/ ShutDown(u) \/ DropGuard(u)

Next ==
    \/ \E c \in Creator : CreatorStep(c) \/ ResourceEnds(c)
    \/ \E u \in Updater : UpdaterStep(u)
    \/ ExitRequested \/ WindowDestroyed \/ StopForExit

Spec == Init /\ [][Next]_vars

\* A creation ends (its waits have deadlines), and so does an update that has
\* begun.  Nobody has to begin one.
Fairness ==
    /\ \A c \in Creator : WF_vars(Admit(c)) /\ WF_vars(DropPermit(c))
    /\ \A u \in Updater : WF_vars(Wake(u)) /\ WF_vars(DropGuard(u))

FairSpec == Spec /\ Fairness

(***************************************************************************)
(* Properties.                                                             *)
(***************************************************************************)
\* While the update's guard is held nothing is being created, so what the
\* shutdown stopped stays stopped and no resource has its files open.
QuiesceExcludesCreation ==
    \A u \in Updater : updater[u] \in Owning =>
        /\ \A c \in Creator : creator[c] # "creating"
        /\ updater[u] = "stopped" => alive = {}

\* The gate is never left closed for an update that is over: unless the
\* application exits, creators are admitted again.
GateIsNotStuck == gate = "UpdateQuiescing" => requested

\* Only one update has its shutdown under way.
OneUpdateAtATime ==
    \A u, v \in Updater :
        (/\ updater[u] \in {"waiting"} \cup Owning
         /\ updater[v] \in {"waiting"} \cup Owning) => u = v

\* An update that waits for creations gets the gate: the notification of the
\* last permit is not lost.
UpdateGetsTheGate ==
    \A u \in Updater : updater[u] = "waiting" ~> updater[u] = "held"
=============================================================================
