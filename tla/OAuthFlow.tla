------------------------------ MODULE OAuthFlow ------------------------------
(***************************************************************************)
(* Authorization and revocation of one MCP server in one sidecar process   *)
(* (server/mcp-oauth/authorization.ts, index.ts): attempts that replace    *)
(* each other, the callback of the browser, the five-minute timer, and     *)
(* revocations that wait for a commit under way.  A step is what runs       *)
(* between two awaits.                                                     *)
(*                                                                         *)
(* An attempt names its start owner, its flow and its callback server.     *)
(* The credential also changes by refreshes, as OAuthCredential says.      *)
(***************************************************************************)
EXTENDS OAuthCredential, FiniteSets

CONSTANTS
    Attempt,      \* calls of authorizeServer
    Registering,  \* those that register dynamically, and bind their server first
    Revoker,      \* calls of revokeAuthorization
    MaxRotations  \* bound on the refreshes

ASSUME FlowAssumption ==
    /\ Registering \subseteq Attempt /\ None \notin Attempt
    /\ Attempt \cap Revoker = {}
    /\ MaxRotations \in Nat

VARIABLES
    owner,      \* flowStartOwners
    pending,    \* pendingFlows
    pc,         \* where each call of authorizeServer is
    phase,      \* the phase of its flow
    task,       \* the callback that exchanges the code and commits
    awaits,     \* the flow whose `settled' a call awaits
    open,       \* callback servers that listen
    revoker,    \* where each revocation is
    earlier,    \* attempts that had begun when a revocation did (not in the code)
    order,      \* when each attempt began (not in the code)
    winner,     \* the attempt whose token was stored last (not in the code)
    rotations   \* refreshes so far

vars == <<token, revision, owner, pending, pc, phase, task, awaits, open,
          revoker, earlier, order, winner, rotations>>
credential == <<token, revision, rotations>>
history == <<earlier, order, winner>>

Begun == {"settling", "binding", "started", "superseded", "failed"}
Phase == {"none", "waiting", "exchanging", "committing", "settled"}

TypeOK ==
    /\ CredentialTypeOK
    /\ owner \in Attempt \cup {None} /\ pending \in Attempt \cup {None}
    /\ pc \in [Attempt -> {"idle", "registering", "ready", "unregistered"}
                             \cup Begun]
    /\ phase \in [Attempt -> Phase]
    /\ task \in [Attempt -> {"none", "exchanging", "committing"}]
    /\ awaits \in [Attempt \cup Revoker -> Attempt \cup {None}]
    /\ open \subseteq Attempt
    /\ revoker \in [Revoker -> {"idle", "settling", "posting", "clearing", "done",
                              "failed"}]
    /\ earlier \in [Revoker -> SUBSET Attempt]
    /\ order \in [Attempt -> Nat] /\ winner \in Attempt \cup {None}
    /\ rotations \in 0..MaxRotations

Init ==
    /\ CredentialInit
    /\ owner = None /\ pending = None
    /\ pc = [a \in Attempt |-> "idle"]
    /\ phase = [a \in Attempt |-> "none"]
    /\ task = [a \in Attempt |-> "none"]
    /\ awaits = [x \in Attempt \cup Revoker |-> None]
    /\ open = {}
    /\ revoker = [r \in Revoker |-> "idle"]
    /\ earlier = [r \in Revoker |-> {}]
    /\ order = [a \in Attempt |-> 0] /\ winner = None
    /\ rotations = 0

Goto(a, p) == pc' = [pc EXCEPT ![a] = p]
EnterPhase(a, p) == phase' = [phase EXCEPT ![a] = p]
GotoRevoker(r, p) == revoker' = [revoker EXCEPT ![r] = p]
HasBegun(a) == pc[a] \in Begun

\* cleanupFlow(a), which does nothing the second time.
CleanupFlow(a) ==
    IF phase[a] = "settled" THEN UNCHANGED <<phase, open, pending, owner>>
    ELSE /\ EnterPhase(a, "settled")
         /\ open' = open \ {a}
         /\ pending' = IF pending = a THEN None ELSE pending
         /\ owner' = IF owner = a THEN None ELSE owner

\* settlePendingFlow, called by x when the start owner is o: a flow that
\* commits is awaited, another is settled at once.
SettlePendingFlow(x, o) ==
    IF pending = None
    THEN /\ awaits' = awaits /\ owner' = o
         /\ UNCHANGED <<phase, open, pending>>
    ELSE IF phase[pending] = "committing"
    THEN /\ awaits' = [awaits EXCEPT ![x] = pending] /\ owner' = o
         /\ UNCHANGED <<phase, open, pending>>
    ELSE /\ awaits' = awaits
         /\ EnterPhase(pending, "settled")
         /\ open' = open \ {pending}
         /\ pending' = None
         /\ owner' = IF o = pending THEN None ELSE o

Settled(x) ==
    awaits[x] \in {None} \cup {a \in Attempt : phase[a] = "settled"}

(***************************************************************************)
(* authorizeServer and startAuthorizationFlow.                             *)
(***************************************************************************)
\* Up to the callback server of a dynamic registration.
Authorize(a) ==
    /\ pc[a] = "idle"
    /\ IF a \in Registering
       THEN Goto(a, "registering") /\ open' = open \cup {a}
       ELSE Goto(a, "ready") /\ open' = open
    /\ UNCHANGED <<credential, owner, pending, phase, task, awaits, revoker,
                   history>>

\* dynamicRegister returns or throws; nobody closes the server then.
Register(a) ==
    /\ pc[a] = "registering"
    /\ \E p \in {"ready", "unregistered"} : Goto(a, p)
    /\ UNCHANGED <<credential, owner, pending, phase, task, awaits, open,
                   revoker, history>>

\* The start owner, and settlePendingFlow up to its await.
BeginStart(a) ==
    /\ pc[a] = "ready"
    /\ SettlePendingFlow(a, a)
    /\ Goto(a, "settling")
    /\ order' = [order EXCEPT ![a] = 1 + Cardinality({b \in Attempt : HasBegun(b)})]
    /\ UNCHANGED <<credential, task, revoker, earlier, winner>>

Superseded(a) ==
    /\ Goto(a, "superseded")
    /\ open' = open \ {a}
    /\ UNCHANGED <<owner, pending, phase>>

\* The flow, its request handler and its timer; nothing is awaited here.
Materialize(a) ==
    /\ Goto(a, "started")
    /\ EnterPhase(a, "waiting")
    /\ pending' = a
    /\ UNCHANGED owner

Resume(a) ==
    /\ pc[a] = "settling" /\ Settled(a)
    /\ IF owner # a THEN Superseded(a)
       ELSE IF a \in Registering
       THEN Materialize(a) /\ open' = open
       ELSE Goto(a, "binding") /\ UNCHANGED <<owner, pending, phase, open>>
    /\ awaits' = [awaits EXCEPT ![a] = None]
    /\ UNCHANGED <<credential, task, revoker, history>>

\* Variant: the start owner is not looked at again.
BoundUnchecked(a) ==
    /\ pc[a] = "binding"
    /\ Materialize(a) /\ open' = open \cup {a}
    /\ UNCHANGED <<credential, task, awaits, revoker, history>>

\* bindCallbackServer has a port, or fails.
Bound(a) ==
    /\ pc[a] = "binding"
    /\ IF owner # a THEN Superseded(a)
                    ELSE Materialize(a) /\ open' = open \cup {a}
    /\ UNCHANGED <<credential, task, awaits, revoker, history>>

BindFails(a) ==
    /\ pc[a] = "binding"
    /\ Goto(a, "failed")
    /\ owner' = IF owner = a THEN None ELSE owner
    /\ UNCHANGED <<credential, pending, phase, task, awaits, open, revoker,
                   history>>

(***************************************************************************)
(* The callback server and the timer.                                      *)
(***************************************************************************)
\* The browser brings an error or a wrong state.
CallbackRefused(a) ==
    /\ phase[a] = "waiting"
    /\ CleanupFlow(a)
    /\ UNCHANGED <<credential, pc, task, awaits, revoker, history>>

CallbackCode(a) ==
    /\ phase[a] = "waiting"
    /\ EnterPhase(a, "exchanging")
    /\ task' = [task EXCEPT ![a] = "exchanging"]
    /\ UNCHANGED <<credential, owner, pending, pc, awaits, open, revoker,
                   history>>

\* Variant: an attempt that was replaced commits all the same.
ExchangeEndsUnchecked(a) ==
    /\ task[a] = "exchanging"
    /\ task' = [task EXCEPT ![a] = "committing"]
    /\ EnterPhase(a, "committing")
    /\ UNCHANGED <<credential, owner, pending, pc, awaits, open, revoker,
                   history>>

\* The code is exchanged: only the pending flow goes on to commit.
ExchangeEnds(a) ==
    /\ task[a] = "exchanging"
    /\ IF pending = a
       THEN /\ task' = [task EXCEPT ![a] = "committing"]
            /\ EnterPhase(a, "committing")
            /\ UNCHANGED <<pending, open, owner>>
       ELSE /\ task' = [task EXCEPT ![a] = "none"]
            /\ CleanupFlow(a)
    /\ UNCHANGED <<credential, pc, awaits, revoker, history>>

\* The exchange, or the write of the token, fails.
TaskFails(a) ==
    /\ task[a] # "none"
    /\ task' = [task EXCEPT ![a] = "none"]
    /\ CleanupFlow(a)
    /\ UNCHANGED <<credential, pc, awaits, revoker, history>>

\* commitToken: setServerToken, and the `finally'.
CommitToken(a) ==
    /\ task[a] = "committing"
    /\ Grant
    /\ task' = [task EXCEPT ![a] = "none"]
    /\ CleanupFlow(a)
    /\ winner' = a
    /\ UNCHANGED <<pc, awaits, revoker, earlier, order, rotations>>

\* Variant: the timer is set when the browser has come back.
TimeoutOfExchange(a) ==
    /\ pending = a /\ phase[a] # "waiting"
    /\ CleanupFlow(a)
    /\ UNCHANGED <<credential, pc, task, awaits, revoker, history>>

\* Five minutes are over, whatever the phase.
Timeout(a) ==
    /\ pending = a
    /\ CleanupFlow(a)
    /\ UNCHANGED <<credential, pc, task, awaits, revoker, history>>

(***************************************************************************)
(* revokeAuthorization.                                                    *)
(***************************************************************************)
\* Variant: the start that is under way is left alone.
BeginRevokeOfFlow(r) ==
    /\ revoker[r] = "idle"
    /\ SettlePendingFlow(r, owner)
    /\ GotoRevoker(r, "settling")
    /\ earlier' = [earlier EXCEPT ![r] = {a \in Attempt : HasBegun(a)}]
    /\ UNCHANGED <<credential, pc, task, order, winner>>

\* cancelFlow.
BeginRevoke(r) ==
    /\ revoker[r] = "idle"
    /\ SettlePendingFlow(r, None)
    /\ GotoRevoker(r, "settling")
    /\ earlier' = [earlier EXCEPT ![r] = {a \in Attempt : HasBegun(a)}]
    /\ UNCHANGED <<credential, pc, task, order, winner>>

\* The state is read; a token is revoked at its server, as well as it goes.
ReadForRevoke(r) ==
    /\ revoker[r] = "settling" /\ Settled(r)
    /\ GotoRevoker(r, IF token # None THEN "posting" ELSE "clearing")
    /\ awaits' = [awaits EXCEPT ![r] = None]
    /\ UNCHANGED <<credential, owner, pending, pc, phase, task, open, history>>

RevocationAnswered(r) ==
    /\ revoker[r] = "posting"
    /\ GotoRevoker(r, "clearing")
    /\ UNCHANGED <<credential, owner, pending, pc, phase, task, awaits, open,
                   history>>

\* clearServerToken, or the error of its lock or of the disk.
ClearToken(r) ==
    /\ revoker[r] = "clearing"
    /\ \/ Revoke /\ GotoRevoker(r, "done")
       \/ UNCHANGED <<token, revision>> /\ GotoRevoker(r, "failed")
    /\ UNCHANGED <<rotations, owner, pending, pc, phase, task, awaits, open,
                   history>>

\* A refresh of any process, as OAuthCredential allows it.
Refreshed ==
    /\ rotations < MaxRotations
    /\ Rotate
    /\ rotations' = rotations + 1
    /\ UNCHANGED <<owner, pending, pc, phase, task, awaits, open, revoker,
                   history>>

AttemptStep(a) ==
    \/ Register(a) \/ BeginStart(a) \/ Resume(a) \/ Bound(a) \/ BindFails(a)
    \/ ExchangeEnds(a) \/ TaskFails(a) \/ CommitToken(a)
RevokerStep(r) == ReadForRevoke(r) \/ RevocationAnswered(r) \/ ClearToken(r)

Next ==
    \/ \E a \in Attempt :
          Authorize(a) \/ AttemptStep(a) \/ CallbackRefused(a) \/ CallbackCode(a)
          \/ Timeout(a)
    \/ \E r \in Revoker : BeginRevoke(r) \/ RevokerStep(r)
    \/ Refreshed

Spec == Init /\ [][Next]_vars

\* Requests, locks and timers come to an end; a browser need not come back.
Fairness ==
    /\ \A a \in Attempt : WF_vars(AttemptStep(a)) /\ WF_vars(Timeout(a))
    /\ \A r \in Revoker : WF_vars(RevokerStep(r))

FairSpec == Spec /\ Fairness

(***************************************************************************)
(* Properties.                                                             *)
(***************************************************************************)
\* The timer has given a's flow up while a was storing its token, which waits
\* for the write lock: nobody waits for that commit any more, and nothing stops
\* it.  Whatever is said below of a commit, is not said of this one.
Overdue(a) == task[a] = "committing" /\ phase[a] = "settled"

\* An attempt that had begun when a revocation did never stores its token
\* after the tombstone of that revocation, unless its commit is overdue.
\* index.ts says it of every attempt: "Linearize revoke after any authorization
\* flow already committing, or cancel it before commit.  The tombstone must be
\* the final credential write."
RevocationIsFinal ==
    [][\A a \in Attempt, r \in Revoker :
          CommitToken(a) /\ ~Overdue(a) /\ revoker[r] = "done"
          => a \notin earlier[r]]_vars

\* When two attempts overlap, the later one has the last word: an earlier one
\* never stores its token over that of a later one, unless its commit is
\* overdue.
LaterAttemptWins ==
    [][winner # None /\ winner' # None
       => \/ order[winner'] >= order[winner]
          \/ Overdue(winner')]_vars

\* The flow that commits is the pending one until the timer gives it up, so
\* that a later call finds it to wait for; the pending flow is not settled.
PendingIsLive ==
    /\ pending # None => phase[pending] \in {"waiting", "exchanging", "committing"}
    /\ \A a \in Attempt : task[a] = "committing" => pending = a \/ Overdue(a)

\* The invariant of the flows: their types, and the one above.
FlowInv == TypeOK /\ PendingIsLive

\* A callback server that listens belongs to the pending flow or to a start
\* under way; a start that is replaced, revoked or fails closes its own, except
\* that a registration that throws leaves it listening.
ServersAreClosed ==
    \A a \in open :
        \/ pc[a] \in {"registering", "unregistered", "ready", "settling"}
        \/ pending = a

\* A start ends, a flow is settled, and a revocation clears the token, though
\* each may wait for another.
AttemptsEnd ==
    \A a \in Attempt : pc[a] = "ready" ~>
        pc[a] \in {"superseded", "failed"} \/ phase[a] = "settled"
RevocationsEnd ==
    \A r \in Revoker : revoker[r] = "settling" ~> revoker[r] \in {"done", "failed"}

\* Nobody who authorizes or revokes waits for ever for somebody else's flow.
EverybodyEnds == AttemptsEnd /\ RevocationsEnd
=============================================================================
