--------------------------- MODULE MiniAppWorkers ---------------------------
(***************************************************************************)
(* The worker threads of one MiniApp: the pool of the global sidecar       *)
(* (server/miniapp-worker/worker-pool.ts), the windows that show the app   *)
(* (renderer/components/miniapp-host/MiniAppRunner.tsx) and the requests   *)
(* between them, which take any time.                                      *)
(*                                                                         *)
(* A mount is one run of the runner's effect; it asks for one worker,      *)
(* which has its name.  Nothing of one app depends on another app's        *)
(* workers: the cap is per app.                                            *)
(***************************************************************************)
EXTENDS Naturals, SequencesExt

CONSTANTS
    Mount,      \* runs of the effect
    Call,       \* calls of the app in its iframe
    Cap,        \* PER_APP_WORKER_CAP
    None

ASSUME MiniAppWorkersAssumption == Cap \in Nat \ {0} /\ None \notin Mount

VARIABLES
    mount,      \* the runner of each mount
    routed,     \* the app's entry of workerIdsByApp
    pool,       \* workers, the least recently used first
    thread,     \* the thread of each worker; dead until its exit is handled
    spawn,      \* where each spawn is
    stopping,   \* terminate: for a mount that closes, and for its eviction
    call,       \* each call, who made it and whose worker it is for
    posted,     \* calls a worker has and has not answered
    crashed     \* workers that died by themselves (not in the code)

vars == <<mount, routed, pool, thread, spawn, stopping, call, posted, crashed>>

Reason == {"close", "evict"}
Idle == [pc |-> "no", target |-> None]

TypeOK ==
    /\ mount \in [Mount -> {"new", "spawning", "open", "bare", "cancelled", "gone"}]
    /\ routed \in Mount \cup {None}
    /\ pool \in Seq(Mount) /\ IsInjective(pool)
    /\ thread \in [Mount -> {"none", "boot", "up", "dead", "exited"}]
    /\ spawn \in [Mount -> {"none", "asked", "booting", "failing", "failed", "done"}]
    /\ stopping \in [Reason \X Mount ->
         [pc : {"no", "asked", "grace", "killed", "done"}, target : Mount \cup {None}]]
    /\ call \in [Call -> [pc : {"new", "sent", "pending", "answered"},
                          from : Mount \cup {None}, to : Mount \cup {None},
                          own : BOOLEAN]]
    /\ posted \subseteq Call /\ crashed \subseteq Mount

Init ==
    /\ mount = [m \in Mount |-> "new"]
    /\ routed = None
    /\ pool = <<>>
    /\ thread = [m \in Mount |-> "none"]
    /\ spawn = [m \in Mount |-> "none"]
    /\ stopping = [k \in Reason \X Mount |-> Idle]
    /\ call = [c \in Call |-> [pc |-> "new", from |-> None, to |-> None, own |-> TRUE]]
    /\ posted = {} /\ crashed = {}

GotoMount(m, pc) == mount' = [mount EXCEPT ![m] = pc]
GotoSpawn(m, pc) == spawn' = [spawn EXCEPT ![m] = pc]
GotoStop(k, pc) == stopping' = [stopping EXCEPT ![k].pc = pc]
AskClose(m) ==
    stopping' = [stopping EXCEPT ![<<"close", m>>] = [pc |-> "asked", target |-> m]]
Pooled(m) == Contains(pool, m)
Drop(m) == pool' = RemoveFirst(pool, m)
Runs(m) == thread[m] \in {"boot", "up"}
Dies(m) == thread' = IF Runs(m) THEN [thread EXCEPT ![m] = "dead"] ELSE thread
KeepCalls == UNCHANGED <<call, posted>>

(***************************************************************************)
(* The runner.                                                             *)
(***************************************************************************)
\* The effect runs and asks for a worker.
Begin(m) ==
    /\ mount[m] = "new"
    /\ GotoMount(m, "spawning")
    /\ GotoSpawn(m, "asked")
    /\ UNCHANGED <<routed, pool, thread, stopping, crashed>> /\ KeepCalls

\* Variant: who has been unmounted in the meantime forgets the worker.
SpawnReturnsForgetting(m) ==
    /\ spawn[m] \in {"done", "failed"} /\ mount[m] \in {"spawning", "cancelled"}
    /\ IF mount[m] = "cancelled"
       THEN GotoMount(m, "gone") /\ UNCHANGED routed
       ELSE /\ GotoMount(m, IF spawn[m] = "done" THEN "open" ELSE "bare")
            /\ routed' = IF spawn[m] = "done" THEN m ELSE routed
    /\ UNCHANGED <<pool, thread, spawn, stopping, crashed>> /\ KeepCalls

\* The answer to the request for a worker; the app is shown without one too.
SpawnReturns(m) ==
    /\ spawn[m] \in {"done", "failed"} /\ mount[m] \in {"spawning", "cancelled"}
    /\ IF mount[m] = "cancelled"
       THEN /\ GotoMount(m, "gone") /\ UNCHANGED routed
            /\ IF spawn[m] = "done" THEN AskClose(m) ELSE UNCHANGED stopping
       ELSE /\ GotoMount(m, IF spawn[m] = "done" THEN "open" ELSE "bare")
            /\ routed' = IF spawn[m] = "done" THEN m ELSE routed
            /\ UNCHANGED stopping
    /\ UNCHANGED <<pool, thread, spawn, crashed>> /\ KeepCalls

\* Variant: the worker to close is looked up where calls look it up.
UnmountRouted(m) ==
    /\ mount[m] \in {"spawning", "open", "bare"}
    /\ GotoMount(m, IF mount[m] = "spawning" THEN "cancelled" ELSE "gone")
    /\ routed' = None
    /\ stopping' = IF routed = None THEN stopping
                   ELSE [stopping EXCEPT ![<<"close", m>>] =
                           [pc |-> "asked", target |-> routed]]
    /\ UNCHANGED <<pool, thread, spawn, crashed>> /\ KeepCalls

\* The cleanup of the effect: the app's entry goes, whosever it is.
Unmount(m) ==
    /\ mount[m] \in {"spawning", "open", "bare"}
    /\ GotoMount(m, IF mount[m] = "spawning" THEN "cancelled" ELSE "gone")
    /\ routed' = None
    /\ IF mount[m] = "open" THEN AskClose(m) ELSE UNCHANGED stopping
    /\ UNCHANGED <<pool, thread, spawn, crashed>> /\ KeepCalls

\* callWorkerMethod: app.call takes the worker of the app's entry.
AppCall(c, m) ==
    /\ call[c].pc = "new" /\ mount[m] \in {"spawning", "open", "bare"}
    /\ call' = [call EXCEPT ![c] =
         [pc |-> IF routed = None THEN "answered" ELSE "sent",
          from |-> m, to |-> routed, own |-> mount[m] = "open" => routed = m]]
    /\ UNCHANGED <<mount, routed, pool, thread, spawn, stopping, posted, crashed>>

\* app.worker.call takes the runner's own.
WorkerCall(c, m) ==
    /\ call[c].pc = "new" /\ mount[m] = "open"
    /\ call' = [call EXCEPT ![c] = [pc |-> "sent", from |-> m, to |-> m, own |-> TRUE]]
    /\ UNCHANGED <<mount, routed, pool, thread, spawn, stopping, posted, crashed>>

(***************************************************************************)
(* spawn.                                                                  *)
(***************************************************************************)
Enters(m) ==
    /\ spawn[m] = "asked"
    /\ GotoSpawn(m, "booting")
    /\ thread' = [thread EXCEPT ![m] = "boot"]
    /\ UNCHANGED <<mount, routed, crashed>> /\ KeepCalls
Evict(m, w) ==
    stopping' = [stopping EXCEPT ![<<"evict", m>>] = [pc |-> "grace", target |-> w]]

\* Variant: the worker that is evicted leaves the map at once.
SpawnForgetting(m) ==
    /\ Enters(m)
    /\ IF Len(pool) < Cap THEN pool' = Append(pool, m) /\ UNCHANGED stopping
       ELSE pool' = Append(Tail(pool), m) /\ Evict(m, Head(pool))

\* enforcePerAppCap begins to terminate the worker used least recently, which
\* may be one that is being terminated; nobody waits for it.
Spawn(m) ==
    /\ Enters(m)
    /\ pool' = Append(pool, m)
    /\ IF Len(pool) < Cap THEN UNCHANGED stopping ELSE Evict(m, Head(pool))

\* awaitReady: the entry says that it is ready, or there is an error or no
\* sign of life for 10 s.
BootReady(m) ==
    /\ spawn[m] = "booting" /\ thread[m] = "boot"
    /\ thread' = [thread EXCEPT ![m] = "up"]
    /\ GotoSpawn(m, "done")
    /\ UNCHANGED <<mount, routed, pool, stopping, crashed>> /\ KeepCalls

BootFails(m) ==
    /\ spawn[m] = "booting"
    /\ Drop(m) /\ Dies(m)
    /\ GotoSpawn(m, "failing")
    /\ UNCHANGED <<mount, routed, stopping, crashed>> /\ KeepCalls

(***************************************************************************)
(* call.                                                                   *)
(***************************************************************************)
\* WORKER_NOT_FOUND, or a pending call whose message a dead thread never gets.
CallArrives(c) ==
    /\ call[c].pc = "sent"
    /\ LET w == call[c].to
       IN IF Pooled(w)
          THEN /\ call' = [call EXCEPT ![c].pc = "pending"]
               /\ posted' = IF thread[w] = "up" THEN posted \cup {c} ELSE posted
               /\ pool' = Append(RemoveFirst(pool, w), w)
          ELSE /\ call' = [call EXCEPT ![c].pc = "answered"]
               /\ UNCHANGED <<posted, pool>>
    /\ UNCHANGED <<mount, routed, thread, spawn, stopping, crashed>>

KeepWorkers == UNCHANGED <<mount, routed, pool, thread, spawn, stopping, crashed>>
Settle(C) == call' = [c \in Call |->
    IF c \in C /\ call[c].pc = "pending" THEN [call[c] EXCEPT !.pc = "answered"]
                                         ELSE call[c]]

\* A response, which finds no pending call after the timeout.
Response(c) ==
    /\ c \in posted /\ thread[call[c].to] \in {"up", "dead"}
    /\ posted' = posted \ {c}
    /\ Settle({c})
    /\ KeepWorkers

\* Variant: the exit of the worker is trusted to settle the call.
CallTimesOutAtExit(c) ==
    /\ call[c].pc = "pending" /\ thread[call[c].to] = "exited"
    /\ Settle({c})
    /\ UNCHANGED posted /\ KeepWorkers

CallTimesOut(c) ==
    /\ call[c].pc = "pending"
    /\ Settle({c})
    /\ UNCHANGED posted /\ KeepWorkers

(***************************************************************************)
(* terminate, and the end of a thread.                                     *)
(***************************************************************************)
CloseArrives(m) ==
    /\ stopping[<<"close", m>>].pc = "asked"
    /\ GotoStop(<<"close", m>>,
                IF Pooled(stopping[<<"close", m>>].target) THEN "grace" ELSE "done")
    /\ UNCHANGED <<mount, routed, pool, thread, spawn, crashed>> /\ KeepCalls

\* The grace period is over: a shutdown message alone ends no thread.
Kill(k) ==
    /\ stopping[k].pc = "grace" /\ thread[stopping[k].target] # "exited"
    /\ Dies(stopping[k].target)
    /\ GotoStop(k, "killed")
    /\ UNCHANGED <<mount, routed, pool, spawn, crashed>> /\ KeepCalls

\* The exit was seen, or 50 ms have gone by.
TerminateEnds(k) ==
    /\ \/ stopping[k].pc = "killed"
       \/ stopping[k].pc = "grace" /\ thread[stopping[k].target] = "exited"
    /\ Drop(stopping[k].target)
    /\ GotoStop(k, "done")
    /\ UNCHANGED <<mount, routed, thread, spawn, crashed>> /\ KeepCalls

CallsOf(m) == {c \in Call : call[c].to = m}

\* The handlers of `exit', of the pool and of a spawn that waits.
Exit(m) ==
    /\ thread[m] = "dead"
    /\ thread' = [thread EXCEPT ![m] = "exited"]
    /\ Drop(m)
    /\ Settle(CallsOf(m))
    /\ posted' = posted \ CallsOf(m)
    /\ GotoSpawn(m, IF spawn[m] \in {"booting", "failing"} THEN "failed" ELSE spawn[m])
    /\ UNCHANGED <<mount, routed, stopping, crashed>>

\* A thread runs out of memory or throws.
Crash(m) ==
    /\ Runs(m)
    /\ Dies(m)
    /\ crashed' = crashed \cup {m}
    /\ UNCHANGED <<mount, routed, pool, spawn, stopping>> /\ KeepCalls

Next ==
    \/ \E m \in Mount :
          \/ Begin(m) \/ SpawnReturns(m) \/ Unmount(m)
          \/ Spawn(m) \/ BootReady(m) \/ BootFails(m)
          \/ CloseArrives(m) \/ Exit(m) \/ Crash(m)
          \/ \E c \in Call : AppCall(c, m) \/ WorkerCall(c, m)
    \/ \E c \in Call : CallArrives(c) \/ Response(c) \/ CallTimesOut(c)
    \/ \E k \in Reason \X Mount : Kill(k) \/ TerminateEnds(k)

Spec == Init /\ [][Next]_vars

\* Requests arrive, timers fire and a thread that ended is noticed; a worker
\* need not answer, and nobody has to open or close anything.
Fairness ==
    /\ \A m \in Mount :
          /\ WF_vars(Spawn(m)) /\ WF_vars(BootReady(m) \/ BootFails(m))
          /\ WF_vars(SpawnReturns(m)) /\ WF_vars(CloseArrives(m)) /\ WF_vars(Exit(m))
    /\ \A k \in Reason \X Mount : WF_vars(Kill(k) \/ TerminateEnds(k))
    /\ \A c \in Call : WF_vars(CallArrives(c)) /\ WF_vars(CallTimesOut(c))

FairSpec == Spec /\ Fairness

(***************************************************************************)
(* Properties.                                                             *)
(***************************************************************************)
\* No call waits for a worker whose end has been noticed: the exit answers the
\* calls under way, and no call gets in afterwards.
NoCallOfTheGone ==
    \A c \in Call : call[c].pc = "pending" => thread[call[c].to] # "exited"

\* A thread that runs is in the map, where the cap counts it and a request to
\* close it finds it, also while it is evicted or fails to boot.
RunningIsPooled == \A m \in Mount : Runs(m) => Pooled(m)

\* The invariant of the pool: types, threads and calls agree with the map.
PoolInv == TypeOK /\ NoCallOfTheGone /\ RunningIsPooled

\* A window that is open has its worker, unless the worker died or was evicted
\* for the cap: closing another window of the same app does not take it away.
OpenHasItsWorker ==
    \A m \in Mount : mount[m] = "open" =>
        \/ Pooled(m) \/ m \in crashed
        \/ \E n \in Mount : stopping[<<"evict", n>>].target = m

\* Every call is answered, also by a worker that hangs.
CallsEnd == \A c \in Call : call[c].pc = "sent" ~> call[c].pc = "answered"

\* No thread outlives its window, though the window may close before the
\* answer that says which thread it is.
ThreadsEndWithTheirWindow ==
    \A m \in Mount : mount[m] \in {"cancelled", "gone"} ~> thread[m] = "exited"

(***************************************************************************)
(* What comments in the code say of it, and the code does not do.          *)
(***************************************************************************)
\* MiniAppRunner.tsx: "Register so app.call(...) inside the iframe routes to
\* this same worker".
CallsReachOwnWorker == \A c \in Call : call[c].own
=============================================================================
