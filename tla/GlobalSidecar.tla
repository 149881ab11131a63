---------------------------- MODULE GlobalSidecar ---------------------------
(***************************************************************************)
(* The Global Sidecar (sidecar/instances.rs): the single entry             *)
(* `instances[GLOBAL_SIDECAR_ID]' of the manager, start_tab_sidecar as     *)
(* several threads call it, and monitor_global_sidecar, which checks the   *)
(* process every 15 seconds and replaces it.                               *)
(*                                                                         *)
(* Every use of the entry is under the manager's mutex and is one step;    *)
(* `lock' shows the mutex where a thread keeps it between two steps.  The  *)
(* update gate is open.  Time is abstracted: an instance is young during   *)
(* its startup grace of 45 seconds, within which the monitor checks it at  *)
(* least once, unless it backs off after two failed restarts (60 seconds)  *)
(* or is blocked in a start of its own.                                    *)
(***************************************************************************)
EXTENDS Naturals

CONSTANTS
    Client,      \* calls of cmd_start_global_sidecar and its retry chain
    Monitor,     \* the call that monitor_global_sidecar blocks on
    Port,        \* a port names the process it was allocated to
    None,
    Threshold    \* GLOBAL_HEALTH_FAIL_THRESHOLD

Caller == Client \cup {Monitor}

ASSUME CallerAssumption == Monitor \notin Client /\ None \notin Caller
ASSUME ThresholdAssumption == Threshold \in Nat \ {0}

VARIABLES
    inst,      \* the instance, or None
    lock,      \* who keeps the manager's mutex locked between two steps
    call,      \* the calls of start_tab_sidecar
    mon,       \* the monitor's loop
    gone       \* history: why there is no instance any more

vars == <<inst, lock, call, mon, gone>>

Instance == [port: Port, healthy: BOOLEAN,
             proc: {"booting", "serving", "hung", "exited"},
             young: BOOLEAN,
             seen: BOOLEAN,     \* history: checked while it was young
             missed: Nat]       \* history: consecutive checks it missed

TypeOK ==
    /\ inst \in Instance \cup {None}
    /\ lock \in Caller \cup {None}
    /\ call \in [Caller -> [pc: {"idle", "enter", "wait", "ended", "recheck"},
                            port: Port \cup {None}, ok: BOOLEAN]]
    /\ mon \in [pc: {"sleep", "probe", "mark", "await"},
                port: Port \cup {None},
                misses: 0..Threshold,    \* consecutive_health_failures
                failed: 0..2]            \* consecutive_restart_failures, to 2
    /\ gone \in {"no", "stopped", "failed"}

Quiet == [pc |-> "idle", port |-> None, ok |-> FALSE]

Init ==
    /\ inst = None
    /\ lock = None
    /\ call = [c \in Caller |-> Quiet]
    /\ mon = [pc |-> "sleep", port |-> None, misses |-> 0, failed |-> 0]
    /\ gone = "no"

Exists == inst # None
Alive == Exists /\ inst.proc # "exited"
IsRunning == Alive /\ inst.healthy
IsAt(port) == Exists /\ inst.port = port
Unlocked == lock = None

(***************************************************************************)
(* start_tab_sidecar, for the global id.                                   *)
(***************************************************************************)
Start(c) ==
    /\ call[c].pc = "idle"
    /\ call' = [call EXCEPT ![c].pc = "enter"]
    /\ UNCHANGED <<inst, lock, mon, gone>>

Return(c, ok) == call' = [call EXCEPT ![c] = [Quiet EXCEPT !.ok = ok]]

FreshPorts ==
    {p \in Port : ~IsAt(p) /\ mon.port # p /\ \A c \in Caller : call[c].port # p}

\* An instance that is not running is removed, one that is still starting
\* too; the start may then fail for want of an executable, a port or a
\* process that stays up.
EnterFinds(c) ==
    /\ call[c].pc = "enter" /\ Unlocked /\ IsRunning
    /\ Return(c, TRUE)
    /\ UNCHANGED <<inst, lock, mon, gone>>

EnterFails(c) ==
    /\ call[c].pc = "enter" /\ Unlocked /\ ~IsRunning
    /\ inst' = None /\ gone' = "failed"
    /\ Return(c, FALSE)
    /\ UNCHANGED <<lock, mon>>

EnterSpawns(c) ==
    /\ call[c].pc = "enter" /\ Unlocked /\ ~IsRunning
    /\ \E p \in FreshPorts :
          /\ inst' = [port |-> p, healthy |-> FALSE, proc |-> "booting",
                      young |-> TRUE, seen |-> FALSE, missed |-> 0]
          /\ call' = [call EXCEPT ![c] =
                        [pc |-> "wait", port |-> p, ok |-> FALSE]]
    /\ gone' = "no"
    /\ UNCHANGED <<lock, mon>>

\* wait_for_health: a TCP connection, which a hung process still accepts.
Connects(c) ==
    /\ call[c].pc = "wait"
    /\ IsAt(call[c].port) /\ inst.proc \in {"serving", "hung"}
    /\ call' = [call EXCEPT ![c].pc = "ended", ![c].ok = TRUE]
    /\ UNCHANGED <<inst, lock, mon, gone>>

GivesUp(c) ==
    /\ call[c].pc = "wait"
    /\ call' = [call EXCEPT ![c].pc = "ended", ![c].ok = FALSE]
    /\ UNCHANGED <<inst, lock, mon, gone>>

\* Whatever instance is there by now is marked healthy.
Succeeds(c) ==
    /\ call[c].pc = "ended" /\ call[c].ok /\ Unlocked
    /\ inst' = IF Exists THEN [inst EXCEPT !.healthy = TRUE] ELSE inst
    /\ Return(c, TRUE)
    /\ UNCHANGED <<lock, mon, gone>>

\* The error path locks the manager and then calls check_instance_not_replaced,
\* which locks it again: the thread waits for itself, and there is no step
\* that leads on from here.
Fails(c) ==
    /\ call[c].pc = "ended" /\ ~call[c].ok /\ Unlocked
    /\ lock' = c
    /\ call' = [call EXCEPT ![c].pc = "recheck"]
    /\ UNCHANGED <<inst, mon, gone>>

CallStep(c) ==
    \/ EnterFinds(c) \/ EnterFails(c) \/ EnterSpawns(c)
    \/ Connects(c) \/ GivesUp(c) \/ Succeeds(c) \/ Fails(c)

\* stop_tab_sidecar and stop_all.
Stop ==
    /\ Exists /\ Unlocked
    /\ inst' = None /\ gone' = "stopped"
    /\ UNCHANGED <<lock, call, mon>>

(***************************************************************************)
(* The process and the clock.                                              *)
(***************************************************************************)
Becomes(proc) ==
    /\ inst' = [inst EXCEPT !.proc = proc]
    /\ UNCHANGED <<lock, call, mon, gone>>

Serves == Exists /\ inst.proc = "booting" /\ Becomes("serving")
Hangs == Exists /\ inst.proc = "serving" /\ Becomes("hung")
Exits == Alive /\ Becomes("exited")

GraceEnds ==
    /\ Exists /\ inst.young
    /\ \/ inst.seen
       \/ mon.pc = "sleep" /\ mon.failed >= 2
       \/ mon.pc = "await" /\ call[Monitor].pc # "idle"
    /\ inst' = [inst EXCEPT !.young = FALSE]
    /\ UNCHANGED <<lock, call, mon, gone>>

(***************************************************************************)
(* monitor_global_sidecar.                                                 *)
(***************************************************************************)
\* check_global_sidecar_status and the startup grace period.  A dead process
\* is restarted without being probed.
Check ==
    /\ mon.pc = "sleep" /\ Unlocked
    /\ IF ~Exists \/ (inst.young /\ Alive)
       THEN /\ mon' = [mon EXCEPT !.misses = 0]
            /\ inst' = IF Exists THEN [inst EXCEPT !.seen = TRUE] ELSE inst
       ELSE /\ mon' = [mon EXCEPT !.pc = IF Alive THEN "probe" ELSE "mark",
                                  !.port = inst.port,
                                  !.misses = IF Alive THEN @ ELSE 0]
            /\ UNCHANGED inst
    /\ UNCHANGED <<lock, call, gone>>

\* global_restart_decision on the outcome of the HTTP check.
ProbeAnswered ==
    /\ mon.pc = "probe" /\ IsAt(mon.port) /\ inst.proc = "serving"
    /\ mon' = [mon EXCEPT !.pc = "sleep", !.misses = 0, !.failed = 0]
    /\ inst' = [inst EXCEPT !.missed = 0]
    /\ UNCHANGED <<lock, call, gone>>

\* Variant: a restart one miss too early.
ProbeMissedTooEarly ==
    /\ mon.pc = "probe"
    /\ mon' = [mon EXCEPT !.misses = Threshold, !.pc = "mark"]
    /\ inst' = IF IsAt(mon.port)
               THEN [inst EXCEPT !.missed = IF @ < Threshold THEN @ + 1 ELSE @]
               ELSE inst
    /\ UNCHANGED <<lock, call, gone>>

ProbeMissed ==
    LET restart == mon.misses + 1 >= Threshold
    IN  /\ mon.pc = "probe"
        /\ mon' = [mon EXCEPT
              !.misses = IF restart THEN Threshold ELSE @ + 1,
              !.pc = IF restart THEN "mark" ELSE "sleep",
              !.failed = IF restart THEN @ ELSE 0]
        /\ inst' = IF IsAt(mon.port)
                   THEN [inst EXCEPT !.missed = IF @ < Threshold
                                                THEN @ + 1 ELSE @]
                   ELSE inst
        /\ UNCHANGED <<lock, call, gone>>

\* Variant: the start is left to find out.
MarkNothing ==
    /\ mon.pc = "mark" /\ Unlocked
    /\ call' = [call EXCEPT ![Monitor].pc = "enter"]
    /\ mon' = [mon EXCEPT !.pc = "await"]
    /\ UNCHANGED <<inst, lock, gone>>

\* Whatever instance is there is marked, so that the start replaces it.
MarkUnhealthy ==
    /\ mon.pc = "mark" /\ Unlocked
    /\ inst' = IF Exists THEN [inst EXCEPT !.healthy = FALSE] ELSE inst
    /\ call' = [call EXCEPT ![Monitor].pc = "enter"]
    /\ mon' = [mon EXCEPT !.pc = "await"]
    /\ UNCHANGED <<lock, gone>>

Restarted ==
    /\ mon.pc = "await" /\ call[Monitor].pc = "idle"
    /\ mon' = [mon EXCEPT
          !.pc = "sleep",
          !.misses = IF call[Monitor].ok THEN 0 ELSE @,
          !.failed = IF call[Monitor].ok THEN 0
                     ELSE IF @ < 2 THEN @ + 1 ELSE @]
    /\ UNCHANGED <<inst, lock, call, gone>>

MonitorStep ==
    Check \/ ProbeAnswered \/ ProbeMissed \/ MarkUnhealthy \/ Restarted

Next ==
    \/ \E c \in Caller : CallStep(c)
    \/ \E c \in Client : Start(c)
    \/ MonitorStep
    \/ Stop \/ Serves \/ Hangs \/ Exits \/ GraceEnds

Spec == Init /\ [][Next]_vars

\* Threads are scheduled, waits have deadlines, the timer ticks and the grace
\* is a span of time.
Fairness ==
    /\ \A c \in Caller : WF_vars(CallStep(c))
    /\ WF_vars(MonitorStep)
    /\ WF_vars(GraceEnds)

FairSpec == Spec /\ Fairness

(***************************************************************************)
(* Properties.                                                             *)
(***************************************************************************)
Broken == Exists /\ inst.proc \in {"hung", "exited"}
Working == Exists /\ inst.proc \in {"booting", "serving"}
LockedOut == \E c \in Caller : call[c].pc = "recheck"

\* A global sidecar that died, or that hangs with its process alive, is
\* followed by a process that boots or serves: a hung one only because it is
\* marked before the start, which otherwise finds it running.  Three things
\* come between: stop_tab_sidecar or stop_all takes it away; a start removes
\* it and then has no process to show, after which the monitor finds nothing
\* to watch and leaves it at that; or a start failed on its error path and
\* keeps the mutex for ever.
BrokenIsReplaced ==
    Broken ~> (Working \/ gone = "stopped" \/ gone = "failed" \/ LockedOut)

\* Of the process that it checked, the monitor takes the life only after
\* GLOBAL_HEALTH_FAIL_THRESHOLD consecutive checks that this very process
\* missed, whatever was started and stopped meanwhile.  A process that came
\* after that check is not spared: the verdict on its predecessor marks it,
\* or its boot is taken for an instance that does not run.
BlipIsSpared ==
    [][(Alive /\ call[Monitor].pc = "enter" /\ call'[Monitor].pc # "enter"
        /\ (inst' = None \/ inst'.port # inst.port))
          => inst.missed >= Threshold \/ inst.port # mon.port]_vars
=============================================================================
