---------------------------- MODULE TokenRefresh ----------------------------
(***************************************************************************)
(* The refresh of one MCP server's token by several sidecar processes      *)
(* (server/mcp-oauth/token-manager.ts): the single flight of a process,    *)
(* the refresh lock between processes, the request to the token endpoint,  *)
(* the commit by compare-and-set, the scheduler of the global sidecar with *)
(* its cooldown, and the observers of the session sidecars.                *)
(*                                                                         *)
(* The issuer rotates: a refresh makes the refresh token that was sent     *)
(* worthless.  The refresh lock is the file lock of FileLock, reduced to   *)
(* who has it: the lock of a process that died gets old, a waiter judges   *)
(* it and then breaks whatever lock is there.  Authorization and           *)
(* revocation are each one commit; OAuthFlow is about what leads to them.  *)
(***************************************************************************)
EXTENDS Naturals

CONSTANTS
    Session,       \* session sidecars
    Global,        \* the global sidecar, which refreshes ahead of time
    None,
    MaxRevision,   \* bound of the exploration
    MaxFaults      \* crashes and failures of the issuer, the network, the disk

Process == Session \cup {Global}
Orphaned == "orphaned"   \* a lock whose process died
Stale == "stale"         \* the same, older than REFRESH_LOCK_STALE_MS

ASSUME TokenRefreshAssumption ==
    /\ Global \notin Session
    /\ None \notin Process /\ Orphaned \notin Process /\ Stale \notin Process
    /\ MaxRevision \in Nat /\ MaxFaults \in Nat

VARIABLES
    token, revision,   \* the persisted credential
    age,        \* 0: fresh; from 1 due for the scheduler, from 2 for a caller,
                \* 3: expired
    issued,     \* the use that the issuer accepts of the token's grant
    lock,       \* the holder of the refresh lock; Orphaned or Stale after its death
    refresh,    \* the refresh in flight of each process
    cooldown,   \* the revision the scheduler waits with
    observed,   \* the credential each session sidecar last compared with
    told,       \* the revision its listeners were last given
    faults,     \* failures so far
    wasted,     \* history: a rotated token did not reach the store
    crowd       \* history: whose lock another broke, and who refreshes next to them

vars == <<token, revision, age, issued, lock, refresh, cooldown, observed,
          told, faults, wasted, crowd>>
credential == <<token, revision, age, issued>>

Abstract == INSTANCE OAuthCredential WITH token <- token, revision <- revision

Intent == {"proactive", "inline", "manual"}
\* refreshInFlight is empty.
NoRefresh == [pc |-> "idle", intent |-> "manual", seen |-> 0, base |-> 0,
              sent |-> None, cycle |-> None]
FreshBelow == [proactive |-> 1, inline |-> 2, manual |-> 3]
FreshFor(i) == age < FreshBelow[i]
Due == token # None /\ age >= 1

TypeOK ==
    /\ Abstract!CredentialTypeOK
    /\ age \in 0..3 /\ issued \in Nat
    /\ lock \in Process \cup {None, Orphaned, Stale}
    /\ refresh \in [Process ->
         [pc : {"idle", "queued", "breaking", "locked", "posted", "answered",
                "unlock", "failed"},
          intent : Intent, seen : Nat, base : Nat,
          sent : Abstract!Token \cup {None},
          cycle : Nat \cup {None}]]   \* what the cycle that waits for it read
    /\ cooldown \in Nat \cup {None}
    /\ observed \in [Session -> Nat \X {"missing", "available", "expired"} \X Nat]
    /\ told \in [Session -> Nat]
    /\ faults \in 0..MaxFaults
    /\ wasted \in BOOLEAN
    /\ crowd \subseteq Process

\* credentialSnapshot; the expiry changes with the token and is named by the
\* revision.
Snapshot ==
    <<revision,
      IF token = None THEN "missing" ELSE IF age = 3 THEN "expired"
                                                     ELSE "available",
      IF token = None THEN 0 ELSE revision>>

Init ==
    /\ Abstract!CredentialInit
    /\ age = 0 /\ issued = 0
    /\ lock = None
    /\ refresh = [p \in Process |-> NoRefresh]
    /\ cooldown = None
    /\ observed = [s \in Session |-> Snapshot]
    /\ told = [s \in Session |-> 0]
    /\ faults = 0
    /\ wasted = FALSE
    /\ crowd = {}

Becomes(p, r) == refresh' = [refresh EXCEPT ![p] = r]
Goto(p, pc) == Becomes(p, [refresh[p] EXCEPT !.pc = pc])
\* The outcome of p's refresh is settled; what it read and sent is forgotten.
Outcome(p, pc) ==
    Becomes(p, [NoRefresh EXCEPT !.pc = pc, !.cycle = refresh[p].cycle])
At(p, pc) == refresh[p].pc = pc
Fault == faults < MaxFaults /\ faults' = faults + 1

(***************************************************************************)
(* refreshToken.                                                           *)
(***************************************************************************)
\* A call that finds a refresh in flight joins it and changes nothing.
BeginRefresh(p, i, cycle) ==
    /\ At(p, "idle")
    /\ Becomes(p, [NoRefresh EXCEPT !.pc = "queued", !.intent = i,
                                    !.seen = revision, !.cycle = cycle])
    /\ UNCHANGED <<credential, lock, cooldown, observed, told, faults, wasted,
                   crowd>>

\* Variant: nobody waits for the lock.
TakeNoLock(p) ==
    /\ At(p, "queued")
    /\ Goto(p, "locked")
    /\ UNCHANGED <<credential, lock, cooldown, observed, told, faults, wasted,
                   crowd>>

TakeLock(p) ==
    /\ At(p, "queued") /\ lock = None
    /\ lock' = p
    /\ Goto(p, "locked")
    /\ crowd' = IF crowd = {} THEN {} ELSE crowd \cup {p}
    /\ UNCHANGED <<credential, cooldown, observed, told, faults, wasted>>

\* FileBusyError after 20 s; a stale lock is broken before that.
LockTimesOut(p) ==
    /\ At(p, "queued") /\ lock \notin {None, Stale}
    /\ Outcome(p, "failed")
    /\ UNCHANGED <<credential, lock, cooldown, observed, told, faults, wasted,
                   crowd>>

\* A waiter finds the lock old and its owner dead ...
JudgeLock(p) ==
    /\ At(p, "queued") /\ lock = Stale
    /\ Goto(p, "breaking")
    /\ UNCHANGED <<credential, lock, cooldown, observed, told, faults, wasted,
                   crowd>>

\* ... and takes away what is there by then, also the lock of a process that
\* has taken it after another waiter broke the stale one.
BreakLock(p) ==
    /\ At(p, "breaking")
    /\ lock' = None
    /\ Goto(p, "queued")
    /\ crowd' = crowd \cup ({lock} \cap Process)
    /\ UNCHANGED <<credential, cooldown, observed, told, faults, wasted>>

\* observed_after_lock.
Observes(p) ==
    FreshFor(refresh[p].intent) /\ (\/ revision # refresh[p].seen
                                    \/ refresh[p].intent # "manual")

\* The store is read again under the lock: missing_token, observed_after_lock
\* or the request.
Decide(p) ==
    /\ At(p, "locked")
    /\ IF token = None THEN Outcome(p, "failed")
       ELSE IF Observes(p) THEN Outcome(p, "unlock")
       ELSE Becomes(p, [refresh[p] EXCEPT !.pc = "posted", !.base = revision,
                                          !.sent = token])
    /\ UNCHANGED <<credential, lock, cooldown, observed, told, faults, wasted,
                   crowd>>

\* The token that was sent belongs to the grant in the store.
SameGrant(p) == token # None /\ token.grant = refresh[p].sent.grant

\* The issuer takes the refresh token and issues the next.
Rotates(p) ==
    /\ SameGrant(p) => refresh[p].sent.use = issued
    /\ issued' = IF SameGrant(p) THEN issued + 1 ELSE issued

PostSucceeds(p) ==
    /\ At(p, "posted")
    /\ Rotates(p)
    /\ Goto(p, "answered")
    /\ UNCHANGED <<token, revision, age, lock, cooldown, observed, told,
                   faults, wasted, crowd>>

\* The answer is lost, late or unreadable.
AnswerIsLost(p) ==
    /\ At(p, "posted")
    /\ Fault /\ Rotates(p)
    /\ Outcome(p, "failed")
    /\ wasted' = (wasted \/ SameGrant(p))
    /\ UNCHANGED <<token, revision, age, lock, cooldown, observed, told, crowd>>

\* The issuer does not know the token, or does not get the request.
PostFails(p) ==
    /\ At(p, "posted")
    /\ \/ Fault
       \/ SameGrant(p) /\ refresh[p].sent.use # issued /\ UNCHANGED faults
    /\ Outcome(p, "failed")
    /\ UNCHANGED <<credential, lock, cooldown, observed, told, wasted, crowd>>

Successor(t) == [t EXCEPT !.use = @ + 1]

\* Variant: the answer is stored whatever the revision is.
CommitAlways(p) ==
    /\ At(p, "answered") /\ revision < MaxRevision
    /\ token' = Successor(refresh[p].sent)
    /\ revision' = revision + 1
    /\ age' = 0
    /\ Outcome(p, "unlock")
    /\ UNCHANGED <<issued, lock, cooldown, observed, told, faults, wasted,
                   crowd>>

\* Variant: the revision is compared with the one seen before the lock.
CommitSinceSeen(p) ==
    /\ At(p, "answered") /\ revision < MaxRevision
    /\ IF revision = refresh[p].seen
       THEN /\ token' = Successor(refresh[p].sent)
            /\ revision' = revision + 1
            /\ age' = 0
       ELSE UNCHANGED <<token, revision, age>>
    /\ Outcome(p, "unlock")
    /\ UNCHANGED <<issued, lock, cooldown, observed, told, faults, wasted,
                   crowd>>

\* setServerTokenIfRevision: stored, or discarded_after_conflict.
Commit(p) ==
    /\ At(p, "answered") /\ revision < MaxRevision
    /\ IF revision = refresh[p].base
       THEN /\ token' = Successor(refresh[p].sent)
            /\ revision' = revision + 1
            /\ age' = 0
       ELSE UNCHANGED <<token, revision, age>>
    /\ Outcome(p, "unlock")
    /\ UNCHANGED <<issued, lock, cooldown, observed, told, faults, wasted,
                   crowd>>

\* The write lock or the disk fails; the answer is gone.
CommitFails(p) ==
    /\ At(p, "answered") /\ Fault
    /\ Outcome(p, "failed")
    /\ wasted' = (wasted \/ SameGrant(p))
    /\ UNCHANGED <<credential, lock, cooldown, observed, told, crowd>>

\* The lock is given back if it is still p's.  A process whose lock was broken
\* takes the next one for its own while that has no owner file yet.
Release(p) ==
    LET theirs == lock \in Process \ {p} /\ p \in crowd /\ At(lock, "locked")
    IN  /\ \/ lock' = IF lock = p THEN None ELSE lock
           \/ theirs /\ lock' = None
        /\ crowd' = crowd \ {p}

\* A refresh that fails starts a cooldown of the scheduler for the revision that
\* the cycle which waits for it read, whoever began it; another outcome ends it.
Cooldown(p) ==
    IF refresh[p].cycle = None THEN cooldown
    ELSE IF At(p, "failed") THEN refresh[p].cycle ELSE None

\* Variant: the failure does not reach the `finally'.
EndRefreshLocked(p) ==
    /\ refresh[p].pc \in {"unlock", "failed"}
    /\ IF At(p, "unlock") THEN Release(p) ELSE UNCHANGED <<lock, crowd>>
    /\ cooldown' = Cooldown(p)
    /\ Becomes(p, NoRefresh)
    /\ UNCHANGED <<credential, observed, told, faults, wasted>>

\* The outcome is returned to everybody who waits for it.
EndRefresh(p) ==
    /\ refresh[p].pc \in {"unlock", "failed"}
    /\ Release(p)
    /\ cooldown' = Cooldown(p)
    /\ Becomes(p, NoRefresh)
    /\ UNCHANGED <<credential, observed, told, faults, wasted>>

(***************************************************************************)
(* The scheduler of the global sidecar, callers, observers.                *)
(***************************************************************************)
\* runRefreshCycle: it begins a refresh or joins the one in flight, and the next
\* cycle comes when that is over.  proactiveRetryAt drops the cooldown of another
\* revision.
RunRefreshCycle ==
    /\ Due /\ cooldown # revision /\ refresh[Global].cycle = None
    /\ \/ BeginRefresh(Global, "proactive", revision)
       \/ /\ ~At(Global, "idle")
          /\ Becomes(Global, [refresh[Global] EXCEPT !.cycle = revision])
          /\ UNCHANGED <<credential, lock, cooldown, observed, told, faults,
                         wasted, crowd>>

\* 60 s are over.
CooldownEnds ==
    /\ cooldown # None
    /\ cooldown' = None
    /\ UNCHANGED <<credential, lock, refresh, observed, told, faults, wasted,
                   crowd>>

\* resolveAuthHeaders, which refreshes only a token about to expire, or
\* manualRefreshToken, which does not look.
CallRefresh(p) ==
    \/ token # None /\ age >= 2 /\ BeginRefresh(p, "inline", None)
    \/ BeginRefresh(p, "manual", None)

\* Variant: two snapshots are told apart by their status.
PollByStatus(s) ==
    /\ observed[s] # Snapshot
    /\ told' = IF observed[s][2] # Snapshot[2]
               THEN [told EXCEPT ![s] = revision] ELSE told
    /\ observed' = [observed EXCEPT ![s] = Snapshot]
    /\ UNCHANGED <<credential, lock, refresh, cooldown, faults, wasted, crowd>>

\* pollOAuthCredentialChanges, when it finds a difference.
PollCredential(s) ==
    /\ observed[s] # Snapshot
    /\ told' = [told EXCEPT ![s] = revision]
    /\ observed' = [observed EXCEPT ![s] = Snapshot]
    /\ UNCHANGED <<credential, lock, refresh, cooldown, faults, wasted, crowd>>

(***************************************************************************)
(* The rest of the system.                                                 *)
(***************************************************************************)
KeepRefresh == UNCHANGED <<lock, refresh, cooldown, observed, told, faults, crowd>>

Authorize ==
    /\ revision < MaxRevision
    /\ Abstract!Grant
    /\ age' = 0 /\ issued' = 0 /\ wasted' = FALSE
    /\ KeepRefresh

RevokeToken ==
    /\ revision < MaxRevision /\ token # None
    /\ Abstract!Revoke
    /\ age' = 0 /\ issued' = 0 /\ wasted' = FALSE
    /\ KeepRefresh

TimePasses ==
    /\ token # None /\ age < 3
    /\ age' = age + 1
    /\ UNCHANGED <<token, revision, issued, wasted>> /\ KeepRefresh

\* A sidecar dies with its refresh and starts again, with the observer's
\* baseline taken before anything else.
Crash(p) ==
    /\ Fault
    /\ lock' = IF lock = p THEN Orphaned ELSE lock
    /\ wasted' = (wasted \/ (At(p, "answered") /\ SameGrant(p)))
    /\ Becomes(p, NoRefresh)
    /\ cooldown' = IF p = Global THEN None ELSE cooldown
    /\ crowd' = crowd \ {p}
    /\ observed' = [s \in Session |-> IF s = p THEN Snapshot ELSE observed[s]]
    /\ told' = [s \in Session |-> IF s = p THEN revision ELSE told[s]]
    /\ UNCHANGED credential

\* 30 s are over.
LockGetsOld ==
    /\ lock = Orphaned
    /\ lock' = Stale
    /\ UNCHANGED <<credential, refresh, cooldown, observed, told, faults, wasted,
                   crowd>>

RefreshStep(p) ==
    \/ TakeLock(p) \/ LockTimesOut(p) \/ JudgeLock(p) \/ BreakLock(p)
    \/ Decide(p)
    \/ PostSucceeds(p) \/ AnswerIsLost(p) \/ PostFails(p)
    \/ Commit(p) \/ CommitFails(p) \/ EndRefresh(p)

Next ==
    \/ \E p \in Process : RefreshStep(p) \/ CallRefresh(p) \/ Crash(p)
    \/ \E s \in Session : PollCredential(s)
    \/ RunRefreshCycle \/ CooldownEnds \/ LockGetsOld
    \/ Authorize \/ RevokeToken \/ TimePasses

Spec == Init /\ [][Next]_vars

\* Requests, locks and timers come to an end, and the pollers poll.
Fairness ==
    /\ \A p \in Process : WF_vars(RefreshStep(p))
    /\ \A s \in Session : WF_vars(PollCredential(s))
    /\ WF_vars(RunRefreshCycle) /\ WF_vars(CooldownEnds) /\ WF_vars(LockGetsOld)

FairSpec == Spec /\ Fairness

(***************************************************************************)
(* Properties.                                                             *)
(***************************************************************************)
\* Whatever the processes interleave, the stored credential only takes the
\* steps of its specification: an answer to an old request neither brings back
\* a revoked credential nor replaces a newer one.
ImplementsCredential == Abstract!CredentialSpec

\* A refresh never sends a refresh token that an earlier refresh has already
\* used up and replaced in the store; a strict issuer would revoke the grant.
\* Exempt is only a refresh whose own lock was broken by a waiter that had
\* judged an older one, and one that begins next to such a refresh.
SentTokenIsCurrent ==
    \A p \in Process \ crowd :
        At(p, "posted") /\ SameGrant(p) => refresh[p].sent = token

\* The stored refresh token is the one that the issuer accepts, but for the
\* time between the answer and its commit, unless an answer was lost, could
\* not be stored, or its process died with it.
StoredTokenWorks ==
    token # None /\ ~wasted =>
        \/ token.use = issued
        \/ \E p \in Process : /\ At(p, "answered")
                              /\ refresh[p].base = revision
                              /\ issued = token.use + 1

\* A token that comes due is refreshed, replaced or revoked, or its grant is
\* lost to a fault; whatever fails, or crashes with the lock, in between.
DueIsRefreshed ==
    Due ~> \/ ~Due \/ wasted \/ revision = MaxRevision

\* The listeners of every session sidecar are told of the latest credential.
SessionsAreTold ==
    \A s \in Session : []<>(told[s] = revision)
=============================================================================
