------------------------- MODULE TokenRefreshProofs -------------------------
(***************************************************************************)
(* The refresh of a token by any number of session sidecars: its types,    *)
(* and that it implements OAuthCredential.  What carries the refinement is *)
(* Based: as long as the revision has not moved, the credential is still   *)
(* the one the request was made with.  That no used token is sent needs    *)
(* Held: unless a lock was broken, the refresh past the lock has it.  That *)
(* the stored token works needs no lock: of several requests with one      *)
(* token the issuer answers the first, and only that answer is stored.     *)
(***************************************************************************)
EXTENDS TokenRefresh, TLAPS

Sent == {"posted", "answered"}

Based ==
    \A p \in Process : refresh[p].pc \in Sent =>
        /\ refresh[p].sent \in Abstract!Token \ {None}
        /\ refresh[p].base <= revision
        /\ refresh[p].base = revision => token = refresh[p].sent

IInv == TypeOK /\ Based

Refresh == [pc : {"idle", "queued", "breaking", "locked", "posted", "answered",
                  "unlock", "failed"},
            intent : Intent, seen : Nat, base : Nat,
            sent : Abstract!Token \cup {None},
            cycle : Nat \cup {None}]

\* Init gives every variable a value of its type.
LEMMA InitIInv == Init => IInv
<1> SUFFICES ASSUME Init PROVE IInv
  OBVIOUS
<1> USE TokenRefreshAssumption
<1>1. Abstract!CredentialTypeOK
  BY DEF Init, Abstract!CredentialInit, Abstract!CredentialTypeOK, Abstract!Token
<1>2. refresh \in [Process -> Refresh]
  BY DEF Init, NoRefresh, Refresh, Intent
<1>3. Snapshot \in Nat \X {"missing", "available", "expired"} \X Nat
  BY <1>1 DEF Init, Snapshot, Abstract!CredentialTypeOK
<1>4. observed \in [Session -> Nat \X {"missing", "available", "expired"} \X Nat]
  BY <1>3 DEF Init
<1>5. TypeOK
  <2>1. age \in 0..3 /\ issued \in Nat /\ faults \in 0..MaxFaults
    BY DEF Init
  <2>2. /\ lock \in Process \cup {None, Orphaned, Stale}
        /\ cooldown \in Nat \cup {None} /\ wasted \in BOOLEAN
        /\ crowd \subseteq Process
    BY DEF Init
  <2>3. told \in [Session -> Nat] BY DEF Init
  <2>4. QED BY <1>1, <1>2, <1>4, <2>1, <2>2, <2>3 DEF TypeOK, Refresh
<1>6. Based
  BY DEF Init, Based, NoRefresh, Sent
<1>7. QED BY <1>5, <1>6 DEF IInv

\* A step that replaces one refresh by a well-formed one keeps the types of
\* all of them.
LEMMA BecomesType ==
    ASSUME TypeOK, NEW p \in Process, NEW r \in Refresh, Becomes(p, r)
    PROVE  refresh' \in [Process -> Refresh]
BY DEF TypeOK, Becomes, Refresh

LEMMA GotoType ==
    ASSUME TypeOK, NEW p \in Process,
           NEW pc \in {"locked", "breaking", "queued", "answered"}, Goto(p, pc)
    PROVE  /\ refresh' \in [Process -> Refresh]
           /\ refresh' = [refresh EXCEPT ![p] = [refresh[p] EXCEPT !.pc = pc]]
<1>1. refresh' = [refresh EXCEPT ![p] = [refresh[p] EXCEPT !.pc = pc]]
  BY DEF Goto, Becomes
<1>2. refresh \in [Process -> Refresh]
  BY DEF TypeOK, Refresh
<1>3. [refresh[p] EXCEPT !.pc = pc] \in Refresh
  BY <1>2 DEF Refresh
<1> QED
  BY <1>1, <1>2, <1>3

LEMMA OutcomeType ==
    ASSUME TypeOK, NEW p \in Process, NEW pc \in {"unlock", "failed"},
           Outcome(p, pc)
    PROVE  /\ refresh' \in [Process -> Refresh]
           /\ refresh'[p].pc = pc
           /\ \A q \in Process \ {p} : refresh'[q] = refresh[q]
<1> DEFINE r == [NoRefresh EXCEPT !.pc = pc, !.cycle = refresh[p].cycle]
<1>1. refresh \in [Process -> Refresh]
  BY DEF TypeOK, Refresh
<1>2. NoRefresh \in Refresh
  BY DEF NoRefresh, Refresh, Intent
<1>3. r \in Refresh /\ r.pc = pc
  BY <1>1, <1>2 DEF Refresh
<1>4. refresh' = [refresh EXCEPT ![p] = r]
  BY DEF Outcome, Becomes
<1> QED
  BY <1>1, <1>3, <1>4

\* What a step of p does to the credential and to its own refresh keeps Based,
\* if p's refresh is based afterwards.
LEMMA KeepsBased ==
    ASSUME IInv, NEW p \in Process,
           refresh' \in [Process -> Refresh],
           \A q \in Process \ {p} : refresh'[q] = refresh[q],
           revision' \in Nat,
           \/ token' = token /\ revision' = revision
           \/ revision' = revision + 1,
           refresh'[p].pc \in Sent =>
               /\ refresh'[p].sent \in Abstract!Token \ {None}
               /\ refresh'[p].base <= revision'
               /\ refresh'[p].base = revision' => token' = refresh'[p].sent
    PROVE  Based'
<1>1. SUFFICES ASSUME NEW q \in Process, refresh'[q].pc \in Sent
               PROVE  /\ refresh'[q].sent \in Abstract!Token \ {None}
                      /\ refresh'[q].base <= revision'
                      /\ refresh'[q].base = revision' => token' = refresh'[q].sent
  BY DEF Based
<1>2. CASE q = p BY <1>1, <1>2
<1>3. CASE q # p
  <2>1. refresh'[q] = refresh[q] BY <1>3
  <2>2. /\ refresh[q].base \in Nat /\ revision \in Nat
        /\ refresh[q].sent \in Abstract!Token \ {None}
        /\ refresh[q].base <= revision
        /\ refresh[q].base = revision => token = refresh[q].sent
    BY <1>1, <2>1 DEF IInv, TypeOK, Based, Abstract!CredentialTypeOK
  <2>3. QED BY <2>1, <2>2
<1>4. QED BY <1>2, <1>3

\* A settled outcome has sent nothing: it keeps Based and the types of what it
\* leaves alone.
LEMMA OutcomeBased ==
    ASSUME IInv, NEW p \in Process, NEW pc \in {"unlock", "failed"},
           Outcome(p, pc), revision' \in Nat,
           \/ token' = token /\ revision' = revision
           \/ revision' = revision + 1
    PROVE  Based'
BY OutcomeType, KeepsBased DEF IInv, Sent

\* A request keeps what it was sent with until it is answered.
LEMMA StepIInv ==
    ASSUME IInv, NEW p \in Process, RefreshStep(p)
    PROVE  IInv'
<1> USE TokenRefreshAssumption
<1> USE DEF Sent, credential
<1>0. /\ TypeOK /\ refresh[p] \in Refresh
      /\ Abstract!CredentialTypeOK
      /\ refresh[p].pc \in Sent =>
            /\ refresh[p].sent \in Abstract!Token \ {None}
            /\ refresh[p].base <= revision
            /\ refresh[p].base = revision => token = refresh[p].sent
  BY DEF IInv, TypeOK, Refresh, Based
<1>1. CASE TakeLock(p)
  <2>1. /\ refresh' \in [Process -> Refresh]
        /\ refresh' = [refresh EXCEPT ![p] = [refresh[p] EXCEPT !.pc = "locked"]]
    BY <1>0, <1>1, GotoType DEF TakeLock
  <2>2. TypeOK'
    BY <1>0, <1>1, <2>1 DEF TakeLock, TypeOK, Refresh, Abstract!CredentialTypeOK
  <2>3. Based'
    BY <1>0, <1>1, <2>1, KeepsBased
       DEF TakeLock, TypeOK, Refresh, Abstract!CredentialTypeOK
  <2>4. QED BY <2>2, <2>3 DEF IInv
<1>2. CASE LockTimesOut(p)
  <2>1. Outcome(p, "failed") /\ UNCHANGED <<token, revision>> /\ revision' \in Nat
    BY <1>0, <1>2 DEF LockTimesOut, Abstract!CredentialTypeOK
  <2>2. refresh' \in [Process -> Refresh] /\ Based'
    BY <1>0, <2>1, OutcomeType, OutcomeBased
  <2>3. TypeOK'
    BY <1>0, <1>2, <2>2
       DEF LockTimesOut, TypeOK, Refresh, Abstract!CredentialTypeOK
  <2>4. QED BY <2>2, <2>3 DEF IInv
<1>3. CASE JudgeLock(p)
  <2>1. /\ refresh' \in [Process -> Refresh]
        /\ refresh' = [refresh EXCEPT ![p] = [refresh[p] EXCEPT !.pc = "breaking"]]
    BY <1>0, <1>3, GotoType DEF JudgeLock
  <2>2. TypeOK'
    BY <1>0, <1>3, <2>1
       DEF JudgeLock, TypeOK, Refresh, Abstract!CredentialTypeOK
  <2>3. Based'
    BY <1>0, <1>3, <2>1, KeepsBased
       DEF JudgeLock, TypeOK, Refresh, Abstract!CredentialTypeOK
  <2>4. QED BY <2>2, <2>3 DEF IInv
<1>4. CASE BreakLock(p)
  <2>1. /\ refresh' \in [Process -> Refresh]
        /\ refresh' = [refresh EXCEPT ![p] = [refresh[p] EXCEPT !.pc = "queued"]]
    BY <1>0, <1>4, GotoType DEF BreakLock
  <2>2. crowd' \subseteq Process
    BY <1>0, <1>4 DEF BreakLock, TypeOK
  <2>3. TypeOK'
    BY <1>0, <1>4, <2>1, <2>2
       DEF BreakLock, TypeOK, Refresh, Abstract!CredentialTypeOK
  <2>4. Based'
    BY <1>0, <1>4, <2>1, KeepsBased
       DEF BreakLock, TypeOK, Refresh, Abstract!CredentialTypeOK
  <2>5. QED BY <2>3, <2>4 DEF IInv
<1>5. CASE Decide(p)
  <2> DEFINE r == [refresh[p] EXCEPT !.pc = "posted", !.base = revision,
                                     !.sent = token]
  <2>1. CASE token # None /\ ~Observes(p)
    <3>1. r \in Refresh /\ token \in Abstract!Token \ {None}
      BY <1>0, <2>1 DEF Refresh, Abstract!CredentialTypeOK
    <3>2. Becomes(p, r) BY <1>5, <2>1 DEF Decide
    <3>3. refresh' \in [Process -> Refresh] BY <1>0, <3>1, <3>2, BecomesType
    <3>4. refresh' = [refresh EXCEPT ![p] = r] BY <3>2 DEF Becomes
    <3>5. TypeOK'
      BY <1>0, <1>5, <3>3 DEF Decide, TypeOK, Refresh, Abstract!CredentialTypeOK
    <3>6. refresh'[p] = r /\ r.base = revision /\ r.sent = token
      BY <1>0, <3>4 DEF TypeOK, Refresh
    <3>7. \A q \in Process \ {p} : refresh'[q] = refresh[q]
      BY <1>0, <3>4 DEF TypeOK
    <3>8. token' = token /\ revision' = revision BY <1>5 DEF Decide
    <3>9. revision' \in Nat BY <1>0, <3>8 DEF Abstract!CredentialTypeOK
    <3>10. /\ refresh'[p].sent \in Abstract!Token \ {None}
           /\ refresh'[p].base <= revision'
           /\ refresh'[p].base = revision' => token' = refresh'[p].sent
      BY <3>1, <3>6, <3>8, <3>9
    <3>11. Based' BY <3>3, <3>7, <3>8, <3>9, <3>10, KeepsBased
    <3>12. QED BY <3>5, <3>11 DEF IInv
  <2>2. CASE ~(token # None /\ ~Observes(p))
    <3>1. \E pc \in {"failed", "unlock"} : Outcome(p, pc)
      BY <1>5, <2>2 DEF Decide
    <3>2. UNCHANGED <<token, revision>> /\ revision' \in Nat
      BY <1>0, <1>5 DEF Decide, Abstract!CredentialTypeOK
    <3>3. refresh' \in [Process -> Refresh] /\ Based'
      BY <1>0, <3>1, <3>2, OutcomeType, OutcomeBased
    <3>4. TypeOK'
      BY <1>0, <1>5, <3>3 DEF Decide, TypeOK, Refresh, Abstract!CredentialTypeOK
    <3>5. QED BY <3>3, <3>4 DEF IInv
  <2>3. QED BY <2>1, <2>2
<1>6. CASE PostSucceeds(p)
  <2>1. /\ refresh' \in [Process -> Refresh]
        /\ refresh' = [refresh EXCEPT ![p] = [refresh[p] EXCEPT !.pc = "answered"]]
    BY <1>0, <1>6, GotoType DEF PostSucceeds
  <2>2. TypeOK'
    BY <1>0, <1>6, <2>1
       DEF PostSucceeds, Rotates, TypeOK, Refresh, Abstract!CredentialTypeOK
  <2>3. Based'
    BY <1>0, <1>6, <2>1, KeepsBased
       DEF PostSucceeds, At, TypeOK, Refresh, Abstract!CredentialTypeOK
  <2>4. QED BY <2>2, <2>3 DEF IInv
<1>7. CASE AnswerIsLost(p)
  <2>1. Outcome(p, "failed") /\ UNCHANGED <<token, revision>> /\ revision' \in Nat
    BY <1>0, <1>7 DEF AnswerIsLost, Abstract!CredentialTypeOK
  <2>2. refresh' \in [Process -> Refresh] /\ Based'
    BY <1>0, <2>1, OutcomeType, OutcomeBased
  <2>3. wasted' \in BOOLEAN BY <1>7 DEF AnswerIsLost
  <2>4. TypeOK'
    BY <1>0, <1>7, <2>2, <2>3
       DEF AnswerIsLost, Rotates, Fault, TypeOK, Refresh,
           Abstract!CredentialTypeOK
  <2>5. QED BY <2>2, <2>4 DEF IInv
<1>8. CASE PostFails(p)
  <2>1. Outcome(p, "failed") /\ UNCHANGED <<token, revision>> /\ revision' \in Nat
    BY <1>0, <1>8 DEF PostFails, Abstract!CredentialTypeOK
  <2>2. refresh' \in [Process -> Refresh] /\ Based'
    BY <1>0, <2>1, OutcomeType, OutcomeBased
  <2>3. TypeOK'
    BY <1>0, <1>8, <2>2
       DEF PostFails, Fault, TypeOK, Refresh, Abstract!CredentialTypeOK
  <2>4. QED BY <2>2, <2>3 DEF IInv
<1>9. CASE Commit(p)
  <2>1. Outcome(p, "unlock") /\ refresh' \in [Process -> Refresh]
    BY <1>0, <1>9, OutcomeType DEF Commit
  <2>2. /\ Abstract!CredentialTypeOK' /\ age' \in 0..3
        /\ \/ token' = token /\ revision' = revision
           \/ revision' = revision + 1
    <3>1. CASE revision = refresh[p].base
      <4>1. token \in Abstract!Token
        BY <1>0, <1>9, <3>1 DEF Commit, At
      <4>2. token' = [token EXCEPT !.use = @ + 1]
        BY <1>0, <1>9, <3>1 DEF Commit, At, Successor
      <4>3. token' \in Abstract!Token BY <4>1, <4>2 DEF Abstract!Token
      <4>4. QED
        BY <1>0, <1>9, <3>1, <4>3 DEF Commit, Abstract!CredentialTypeOK
    <3>2. CASE revision # refresh[p].base
      BY <1>0, <1>9, <3>2 DEF Commit, Abstract!CredentialTypeOK, TypeOK
    <3>3. QED BY <3>1, <3>2
  <2>3. TypeOK'
    BY <1>0, <1>9, <2>1, <2>2 DEF Commit, TypeOK, Refresh
  <2>4. Based'
    BY <2>1, <2>2, OutcomeBased DEF Abstract!CredentialTypeOK
  <2>5. QED BY <2>3, <2>4 DEF IInv
<1>10. CASE CommitFails(p)
  <2>1. Outcome(p, "failed") /\ UNCHANGED <<token, revision>> /\ revision' \in Nat
    BY <1>0, <1>10 DEF CommitFails, Abstract!CredentialTypeOK
  <2>2. refresh' \in [Process -> Refresh] /\ Based'
    BY <1>0, <2>1, OutcomeType, OutcomeBased
  <2>3. wasted' \in BOOLEAN BY <1>10 DEF CommitFails
  <2>4. TypeOK'
    BY <1>0, <1>10, <2>2, <2>3
       DEF CommitFails, Fault, TypeOK, Refresh, Abstract!CredentialTypeOK
  <2>5. QED BY <2>2, <2>4 DEF IInv
<1>11. CASE EndRefresh(p)
  <2>1. NoRefresh \in Refresh /\ Becomes(p, NoRefresh)
    BY <1>11 DEF EndRefresh, NoRefresh, Refresh, Intent
  <2>2. /\ refresh' \in [Process -> Refresh]
        /\ refresh' = [refresh EXCEPT ![p] = NoRefresh]
    BY <1>0, <2>1, BecomesType DEF Becomes
  <2>3. /\ lock' \in Process \cup {None, Orphaned, Stale}
        /\ cooldown' \in Nat \cup {None} /\ crowd' \subseteq Process
    BY <1>0, <1>11 DEF EndRefresh, Release, Cooldown, TypeOK, Refresh
  <2>4. TypeOK'
    BY <1>0, <1>11, <2>2, <2>3
       DEF EndRefresh, TypeOK, Refresh, Abstract!CredentialTypeOK
  <2>5. refresh'[p].pc = "idle" BY <1>0, <2>2 DEF TypeOK, NoRefresh
  <2>6. \A q \in Process \ {p} : refresh'[q] = refresh[q]
    BY <1>0, <2>2 DEF TypeOK
  <2>7. Based'
    BY <1>0, <1>11, <2>2, <2>5, <2>6, KeepsBased
       DEF EndRefresh, Abstract!CredentialTypeOK
  <2>8. QED BY <2>4, <2>7 DEF IInv
<1>12. QED
  BY <1>1, <1>2, <1>3, <1>4, <1>5, <1>6, <1>7, <1>8, <1>9, <1>10, <1>11
     DEF RefreshStep

\* A new refresh has sent nothing yet.
LEMMA BeginIInv ==
    ASSUME IInv, NEW p \in Process, NEW i \in Intent,
           NEW cycle \in Nat \cup {None}, BeginRefresh(p, i, cycle)
    PROVE  IInv'
<1> USE TokenRefreshAssumption DEF credential, Sent
<1> DEFINE r == [NoRefresh EXCEPT !.pc = "queued", !.intent = i,
                                  !.seen = revision, !.cycle = cycle]
<1>0. TypeOK /\ Abstract!CredentialTypeOK BY DEF IInv, TypeOK
<1>1. NoRefresh \in Refresh BY DEF NoRefresh, Refresh, Intent
<1>2. r \in Refresh /\ r.pc = "queued"
  BY <1>0, <1>1 DEF Refresh, Abstract!CredentialTypeOK
<1>3. Becomes(p, r) BY DEF BeginRefresh
<1>4. refresh' \in [Process -> Refresh] BY <1>0, <1>2, <1>3, BecomesType
<1>5. refresh'[p] = r BY <1>0, <1>3 DEF Becomes, TypeOK
<1>6. \A q \in Process \ {p} : refresh'[q] = refresh[q]
  BY <1>0, <1>3 DEF Becomes, TypeOK
<1>7. TypeOK'
  BY <1>0, <1>4 DEF BeginRefresh, TypeOK, Refresh, Abstract!CredentialTypeOK
<1>8. refresh'[p].pc \notin Sent BY <1>2, <1>5
<1>9. token' = token /\ revision' = revision /\ revision' \in Nat
  BY <1>0 DEF BeginRefresh, Abstract!CredentialTypeOK
<1>10. Based' BY <1>4, <1>6, <1>8, <1>9, KeepsBased
<1>11. QED BY <1>7, <1>10 DEF IInv

\* A crash forgets the request with the answer to it.
LEMMA CrashIInv ==
    ASSUME IInv, NEW p \in Process, Crash(p)
    PROVE  IInv'
<1> USE TokenRefreshAssumption DEF credential, Sent
<1>0. TypeOK /\ Abstract!CredentialTypeOK BY DEF IInv, TypeOK
<1>1. NoRefresh \in Refresh /\ Becomes(p, NoRefresh)
  BY DEF Crash, NoRefresh, Refresh, Intent
<1>2. refresh' \in [Process -> Refresh] BY <1>0, <1>1, BecomesType
<1>3. refresh'[p].pc = "idle" /\ \A q \in Process \ {p} : refresh'[q] = refresh[q]
  BY <1>0, <1>1 DEF Becomes, TypeOK, NoRefresh
<1>4. token' = token /\ revision' = revision /\ age' = age /\ issued' = issued
  BY DEF Crash
<1>5. revision \in Nat /\ revision' \in Nat
  BY <1>0, <1>4 DEF Abstract!CredentialTypeOK
<1>6. Snapshot \in Nat \X {"missing", "available", "expired"} \X Nat
  BY <1>5 DEF Snapshot
<1>7. observed' \in [Session -> Nat \X {"missing", "available", "expired"} \X Nat]
  BY <1>0, <1>6 DEF Crash, TypeOK
<1>8. told' \in [Session -> Nat] BY <1>0, <1>5 DEF Crash, TypeOK
<1>9. /\ lock' \in Process \cup {None, Orphaned, Stale}
      /\ cooldown' \in Nat \cup {None} /\ faults' \in 0..MaxFaults
      /\ crowd' \subseteq Process
  BY <1>0 DEF Crash, Fault, TypeOK
<1>10. wasted' \in BOOLEAN BY DEF Crash
<1>11. Abstract!CredentialTypeOK' BY <1>0, <1>4 DEF Abstract!CredentialTypeOK
<1>12. TypeOK'
  BY <1>0, <1>2, <1>4, <1>7, <1>8, <1>9, <1>10, <1>11 DEF TypeOK, Refresh
<1>13. Based' BY <1>2, <1>3, <1>4, <1>5, KeepsBased
<1>14. QED BY <1>12, <1>13 DEF IInv

\* A cycle that joins the refresh in flight changes nothing of the request.
LEMMA JoinIInv ==
    ASSUME IInv, RunRefreshCycle, ~At(Global, "idle")
    PROVE  IInv'
<1> USE TokenRefreshAssumption DEF credential, Sent
<1> DEFINE r == [refresh[Global] EXCEPT !.cycle = revision]
<1>0. TypeOK /\ Abstract!CredentialTypeOK /\ Global \in Process
  BY DEF IInv, TypeOK, Process
<1>1. refresh \in [Process -> Refresh]
  BY <1>0 DEF TypeOK, Refresh
<1>2. r \in Refresh /\ r.pc = refresh[Global].pc /\ r.sent = refresh[Global].sent
        /\ r.base = refresh[Global].base
  BY <1>0, <1>1 DEF Refresh, Abstract!CredentialTypeOK
<1>3. Becomes(Global, r)
  BY DEF RunRefreshCycle, BeginRefresh
<1>4. refresh' = [refresh EXCEPT ![Global] = r]
  BY <1>3 DEF Becomes
<1>5. refresh' \in [Process -> Refresh] /\ refresh'[Global] = r
      /\ \A q \in Process \ {Global} : refresh'[q] = refresh[q]
  BY <1>0, <1>1, <1>2, <1>4
<1>6. UNCHANGED <<credential, lock, cooldown, observed, told, faults, wasted,
                  crowd>>
  BY DEF RunRefreshCycle, BeginRefresh
<1>7. TypeOK'
  BY <1>0, <1>5, <1>6 DEF TypeOK, Refresh, Abstract!CredentialTypeOK
<1>8. refresh'[Global].pc \in Sent =>
          /\ refresh'[Global].sent \in Abstract!Token \ {None}
          /\ refresh'[Global].base <= revision'
          /\ refresh'[Global].base = revision' => token' = refresh'[Global].sent
  BY <1>0, <1>2, <1>5, <1>6 DEF IInv, Based
<1>9. Based'
  BY <1>0, <1>5, <1>6, <1>8, KeepsBased DEF Abstract!CredentialTypeOK
<1> QED
  BY <1>7, <1>9 DEF IInv

\* Steps that touch no refresh: time, the observers, a lock that gets old, and
\* the commits of authorization and revocation.
LEMMA RestIInv ==
    ASSUME IInv,
           \/ \E s \in Session : PollCredential(s)
           \/ CooldownEnds \/ LockGetsOld \/ TimePasses \/ Authorize \/ RevokeToken
    PROVE  IInv'
<1> USE TokenRefreshAssumption DEF credential, Sent
<1>0. /\ TypeOK /\ Abstract!CredentialTypeOK /\ Based
      /\ revision \in Nat
  BY DEF IInv, TypeOK, Abstract!CredentialTypeOK
<1>1. CASE \E s \in Session : PollCredential(s)
  <2>1. PICK s \in Session : PollCredential(s) BY <1>1
  <2>2. Snapshot \in Nat \X {"missing", "available", "expired"} \X Nat
    BY <1>0 DEF Snapshot
  <2>3. /\ observed' \in
             [Session -> Nat \X {"missing", "available", "expired"} \X Nat]
        /\ told' \in [Session -> Nat]
    BY <1>0, <2>1, <2>2 DEF PollCredential, TypeOK
  <2>4. UNCHANGED <<credential, lock, refresh, cooldown, faults, wasted, crowd>>
    BY <2>1 DEF PollCredential
  <2>5. TypeOK' BY <1>0, <2>3, <2>4 DEF TypeOK, Abstract!CredentialTypeOK
  <2>6. Based' BY <1>0, <2>4 DEF Based
  <2>7. QED BY <2>5, <2>6 DEF IInv
<1>2. CASE CooldownEnds \/ LockGetsOld
  <2>1. TypeOK'
    BY <1>0, <1>2
       DEF CooldownEnds, LockGetsOld, TypeOK, Abstract!CredentialTypeOK
  <2>2. Based' BY <1>0, <1>2 DEF CooldownEnds, LockGetsOld, Based
  <2>3. QED BY <2>1, <2>2 DEF IInv
<1>3. CASE TimePasses
  <2>1. TypeOK'
    BY <1>0, <1>3 DEF TimePasses, KeepRefresh, TypeOK, Abstract!CredentialTypeOK
  <2>2. Based' BY <1>0, <1>3 DEF TimePasses, KeepRefresh, Based
  <2>3. QED BY <2>1, <2>2 DEF IInv
<1>4. CASE Authorize \/ RevokeToken
  <2>1. /\ revision' = revision + 1 /\ KeepRefresh
        /\ age' = 0 /\ issued' = 0 /\ wasted' = FALSE
    BY <1>4 DEF Authorize, RevokeToken, Abstract!Grant, Abstract!Revoke
  <2>2. revision' \in Nat BY <1>0, <2>1
  <2>3. token' \in Abstract!Token \cup {None}
    BY <1>4, <2>2
       DEF Authorize, RevokeToken, Abstract!Grant, Abstract!Revoke, Abstract!Token
  <2>4. Abstract!CredentialTypeOK' BY <2>2, <2>3 DEF Abstract!CredentialTypeOK
  <2>5. TypeOK'
    <3>1. age' \in 0..3 /\ issued' \in Nat BY <2>1
    <3>2. wasted' \in BOOLEAN BY <2>1
    <3>3. UNCHANGED <<lock, refresh, cooldown, observed, told, faults, crowd>>
      BY <2>1 DEF KeepRefresh
    <3>4. QED BY <1>0, <2>4, <3>1, <3>2, <3>3 DEF TypeOK
  <2>6. ASSUME NEW p \in Process, refresh[p].pc \in Sent
        PROVE  /\ refresh[p].sent \in Abstract!Token \ {None}
               /\ refresh[p].base < revision'
    <3>1. refresh[p].base \in Nat BY <1>0 DEF TypeOK
    <3>2. refresh[p].base <= revision /\ refresh[p].sent \in Abstract!Token \ {None}
      BY <1>0, <2>6 DEF Based
    <3>3. QED BY <1>0, <2>1, <3>1, <3>2
  <2>7. ASSUME NEW p \in Process, refresh[p].pc \in Sent
        PROVE  /\ refresh[p].base <= revision'
               /\ refresh[p].base # revision'
    <3>1. refresh[p].base \in Nat BY <1>0 DEF TypeOK
    <3>2. QED BY <2>2, <2>6, <2>7, <3>1
  <2>8. refresh' = refresh BY <2>1 DEF KeepRefresh
  <2>9. Based' BY <2>6, <2>7, <2>8 DEF Based
  <2>10. QED BY <2>5, <2>9 DEF IInv
<1>5. QED BY <1>1, <1>2, <1>3, <1>4

LEMMA NextIInv == IInv /\ [Next]_vars => IInv'
<1> SUFFICES ASSUME IInv, [Next]_vars PROVE IInv'
  OBVIOUS
<1>1. ASSUME NEW p \in Process, RefreshStep(p) PROVE IInv'
  BY <1>1, StepIInv
<1>2. ASSUME NEW p \in Process, CallRefresh(p) PROVE IInv'
  <2>1. PICK i \in Intent : BeginRefresh(p, i, None)
    BY <1>2 DEF CallRefresh, Intent
  <2>2. QED BY <2>1, BeginIInv
<1>3. ASSUME NEW p \in Process, Crash(p) PROVE IInv'
  BY <1>3, CrashIInv
<1>4. CASE RunRefreshCycle
  <2>1. Global \in Process /\ "proactive" \in Intent BY DEF Process, Intent
  <2>2. revision \in Nat BY DEF IInv, TypeOK, Abstract!CredentialTypeOK
  <2>3. CASE At(Global, "idle")
    BY <1>4, <2>1, <2>2, <2>3, BeginIInv DEF RunRefreshCycle
  <2>4. CASE ~At(Global, "idle") BY <1>4, <2>4, JoinIInv
  <2>5. QED BY <2>3, <2>4
<1>5. CASE \/ \E s \in Session : PollCredential(s)
           \/ CooldownEnds \/ LockGetsOld \/ TimePasses \/ Authorize \/ RevokeToken
  BY <1>5, RestIInv
<1>6. CASE UNCHANGED vars
  BY <1>6 DEF vars, IInv, TypeOK, Based, Abstract!CredentialTypeOK
<1>7. QED BY <1>1, <1>2, <1>3, <1>4, <1>5, <1>6 DEF Next

\* The model is well typed in every state, for any number of sidecars.
THEOREM TypeCorrect == Spec => []TypeOK
<1>1. IInv => TypeOK BY DEF IInv
<1>2. QED BY <1>1, InitIInv, NextIInv, PTL DEF Spec

\* A step of a refresh moves the credential only at its commit, and then to the
\* successor of the token the request was made with.
LEMMA StepRefines ==
    ASSUME IInv, [Next]_vars
    PROVE  [Abstract!Grant \/ Abstract!Rotate \/ Abstract!Revoke]_<<token, revision>>
<1> USE DEF credential
<1>1. ASSUME NEW p \in Process, Commit(p)
      PROVE  Abstract!Rotate \/ UNCHANGED <<token, revision>>
  <2>1. CASE revision = refresh[p].base
    <3>1. refresh[p].pc \in Sent BY <1>1 DEF Commit, At, Sent
    <3>2. token = refresh[p].sent /\ token # None
      BY <2>1, <3>1 DEF IInv, Based
    <3>3. QED BY <1>1, <2>1, <3>2 DEF Commit, Successor, Abstract!Rotate
  <2>2. CASE revision # refresh[p].base BY <1>1, <2>2 DEF Commit
  <2>3. QED BY <2>1, <2>2
<1>2. ASSUME NEW p \in Process, RefreshStep(p), ~Commit(p)
      PROVE  UNCHANGED <<token, revision>>
  BY <1>2 DEF RefreshStep, TakeLock, LockTimesOut, JudgeLock, BreakLock,
              Decide, PostSucceeds,
              AnswerIsLost, PostFails, CommitFails, EndRefresh
<1>3. ASSUME NEW p \in Process, CallRefresh(p) \/ Crash(p)
      PROVE  UNCHANGED <<token, revision>>
  BY <1>3 DEF CallRefresh, BeginRefresh, Crash
<1>4. CASE Authorize BY <1>4 DEF Authorize
<1>5. CASE RevokeToken BY <1>5 DEF RevokeToken
<1>6. CASE \/ \E s \in Session : PollCredential(s)
           \/ RunRefreshCycle \/ CooldownEnds \/ LockGetsOld \/ TimePasses
  BY <1>6 DEF PollCredential, RunRefreshCycle, BeginRefresh, CooldownEnds,
              LockGetsOld, TimePasses
<1>7. CASE UNCHANGED vars BY <1>7 DEF vars
<1>8. QED BY <1>1, <1>2, <1>3, <1>4, <1>5, <1>6, <1>7 DEF Next

\* Whatever the sidecars interleave, and whatever is lost or crashes, the stored
\* credential is only granted, revoked, or replaced by its own successor.
THEOREM Implements == Spec => ImplementsCredential
<1>1. Init => Abstract!CredentialInit BY DEF Init
<1>2. QED
  BY <1>1, InitIInv, NextIInv, StepRefines, PTL
     DEF Spec, ImplementsCredential, Abstract!CredentialSpec

(***************************************************************************)
(* No used-up token is sent, and the stored one works.                     *)
(***************************************************************************)
Holding == {"locked", "posted", "answered", "unlock"}

\* Unless a lock was broken, the refresh that is past the lock has it.
Held ==
    \A p \in Process \ crowd :
        refresh[p].pc \in Holding => lock = p /\ crowd = {}

\* Grants are named by revisions, so a token that was sent belongs to the
\* grant in the store only as long as no other refresh stores its answer.
Grants ==
    /\ token # None => token.grant <= revision
    /\ \A p \in Process : refresh[p].pc \in Sent =>
          refresh[p].sent.grant <= refresh[p].base
    /\ \A p \in Process \ crowd : refresh[p].pc \in Sent =>
          (SameGrant(p) => refresh[p].base = revision)

\* A request whose credential was replaced within the grant has sent an earlier
\* token than the stored one, and an answer has used up the token that was sent.
Answers ==
    \A p \in Process : SameGrant(p) =>
        /\ refresh[p].pc \in Sent =>
              refresh[p].base = revision \/ refresh[p].sent.use < token.use
        /\ At(p, "answered") => refresh[p].sent.use < issued

LInv == Held /\ Grants /\ Answers /\ StoredTokenWorks

LEMMA InitLInv == Init => LInv
<1> SUFFICES ASSUME Init PROVE LInv
  OBVIOUS
<1>1. \A p \in Process : refresh[p].pc = "idle"
  BY DEF Init, NoRefresh
<1>2. token # None => token.grant = 0 /\ token.use = 0 /\ revision = 0
  BY DEF Init, Abstract!CredentialInit
<1>3. issued = 0
  BY DEF Init
<1> QED
  BY <1>1, <1>2, <1>3
     DEF LInv, Held, Holding, Grants, Sent, Answers, At, StoredTokenWorks,
         SameGrant

\* What a process does with its refresh.
ProcessStep(p) ==
    \/ RefreshStep(p) \/ Crash(p)
    \/ \E i \in Intent, cycle \in Nat \cup {None} : BeginRefresh(p, i, cycle)

LEMMA OneRefresh ==
    ASSUME IInv, NEW p \in Process, ProcessStep(p)
    PROVE  \E r : refresh' = [refresh EXCEPT ![p] = r]
BY DEF ProcessStep, RefreshStep, TakeLock, LockTimesOut, JudgeLock, BreakLock,
       Decide, PostSucceeds, AnswerIsLost, PostFails, Commit, CommitFails,
       EndRefresh, BeginRefresh, Crash, Goto, Outcome, Becomes

LEMMA OthersKeep ==
    ASSUME IInv, NEW p \in Process, ProcessStep(p)
    PROVE  \A q \in Process \ {p} : refresh'[q] = refresh[q]
BY OneRefresh DEF IInv, TypeOK

\* Where each action takes the refresh of the process that takes it.
LEMMA Moves ==
    ASSUME IInv, NEW p \in Process
    PROVE  /\ TakeLock(p) => refresh'[p].pc = "locked"
           /\ JudgeLock(p) => refresh'[p].pc = "breaking"
           /\ BreakLock(p) => refresh'[p].pc = "queued"
           /\ (\/ LockTimesOut(p) \/ AnswerIsLost(p) \/ PostFails(p)
               \/ CommitFails(p)) => refresh'[p].pc = "failed"
           /\ Decide(p) => \/ refresh'[p].pc \in {"failed", "unlock"}
                           \/ /\ token # None
                              /\ refresh'[p].pc = "posted"
                              /\ refresh'[p].sent = token
                              /\ refresh'[p].base = revision
           /\ PostSucceeds(p) =>
                 /\ refresh'[p].pc = "answered"
                 /\ refresh'[p].sent = refresh[p].sent
                 /\ refresh'[p].base = refresh[p].base
           /\ Commit(p) => refresh'[p].pc = "unlock"
           /\ EndRefresh(p) \/ Crash(p) => refresh'[p].pc = "idle"
           /\ \A i \in Intent, cycle \in Nat \cup {None} :
                 BeginRefresh(p, i, cycle) => refresh'[p].pc = "queued"
<1> USE DEF Goto, Outcome, Becomes
<1>1. refresh \in [Process -> Refresh]
  BY DEF IInv, TypeOK, Refresh
<1>2. \A pc : Goto(p, pc) => /\ refresh'[p].pc = pc
                             /\ refresh'[p].sent = refresh[p].sent
                             /\ refresh'[p].base = refresh[p].base
  BY <1>1 DEF Refresh
<1>3. NoRefresh \in Refresh /\ NoRefresh.pc = "idle"
  BY DEF NoRefresh, Refresh, Intent
<1>4. EndRefresh(p) \/ Crash(p) => refresh'[p].pc = "idle"
  BY <1>1, <1>3 DEF EndRefresh, Crash
<1>5. \A pc : Outcome(p, pc) => refresh'[p].pc = pc
  BY <1>1, <1>3 DEF Refresh
<1>6. ASSUME NEW i \in Intent, NEW cycle \in Nat \cup {None},
             BeginRefresh(p, i, cycle)
      PROVE  refresh'[p].pc = "queued"
  BY <1>1, <1>3, <1>6 DEF BeginRefresh, Refresh
<1>7. Decide(p) => \/ refresh'[p].pc \in {"failed", "unlock"}
                   \/ /\ token # None
                      /\ refresh'[p].pc = "posted"
                      /\ refresh'[p].sent = token
                      /\ refresh'[p].base = revision
  <2> DEFINE r == [refresh[p] EXCEPT !.pc = "posted", !.base = revision,
                                     !.sent = token]
  <2>1. r.pc = "posted" /\ r.sent = token /\ r.base = revision
    BY <1>1 DEF Refresh
  <2>2. Becomes(p, r) => refresh'[p] = r
    BY <1>1
  <2> HIDE DEF r, Goto, Outcome, Becomes
  <2>3. Decide(p) => \/ Outcome(p, "failed") \/ Outcome(p, "unlock")
                     \/ token # None /\ Becomes(p, r)
    BY DEF Decide, r
  <2> QED
    BY <1>5, <2>1, <2>2, <2>3
<1> HIDE DEF Goto, Outcome, Becomes
<1> QED
  BY <1>2, <1>4, <1>5, <1>6, <1>7
     DEF TakeLock, JudgeLock, BreakLock, LockTimesOut, AnswerIsLost, PostFails,
         CommitFails, PostSucceeds, Commit

\* The credential moves only at a commit.
LEMMA KeepsCredential ==
    ASSUME NEW p \in Process, ProcessStep(p), ~Commit(p)
    PROVE  UNCHANGED <<token, revision>>
BY DEF ProcessStep, RefreshStep, TakeLock, LockTimesOut, JudgeLock, BreakLock,
       Decide, PostSucceeds, AnswerIsLost, PostFails, CommitFails, EndRefresh,
       BeginRefresh, Crash, credential

\* What a step does to the lock and to the crowd: it takes a free lock, breaks
\* whatever lock is there, gives one back, dies with it, or touches neither.
LEMMA LockMoves ==
    ASSUME NEW p \in Process, ProcessStep(p)
    PROVE  \/ /\ TakeLock(p) /\ lock = None
              /\ crowd' = IF crowd = {} THEN {} ELSE crowd \cup {p}
           \/ BreakLock(p) /\ crowd' = crowd \cup ({lock} \cap Process)
           \/ EndRefresh(p) /\ Release(p)
           \/ /\ Crash(p) /\ crowd' = crowd \ {p}
              /\ lock' = IF lock = p THEN Orphaned ELSE lock
           \/ ~TakeLock(p) /\ UNCHANGED <<lock, crowd>>
<1>1. CASE TakeLock(p)
  BY <1>1 DEF TakeLock
<1>2. CASE BreakLock(p)
  BY <1>2 DEF BreakLock
<1>3. CASE EndRefresh(p)
  BY <1>3 DEF EndRefresh
<1>4. CASE Crash(p)
  BY <1>4 DEF Crash
<1>5. CASE ~(TakeLock(p) \/ BreakLock(p) \/ EndRefresh(p) \/ Crash(p))
  BY <1>5 DEF ProcessStep, RefreshStep, LockTimesOut, JudgeLock, Decide,
              PostSucceeds, AnswerIsLost, PostFails, Commit, CommitFails,
              BeginRefresh
<1> QED
  BY <1>1, <1>2, <1>3, <1>4, <1>5

\* A lock is taken when it is free; who loses it to another joins the crowd.
LEMMA StepHeld ==
    ASSUME IInv, Held, NEW p \in Process, ProcessStep(p)
    PROVE  Held'
<1> USE TokenRefreshAssumption
<1>1. \A q \in Process \ {p} : refresh'[q] = refresh[q]
  BY OthersKeep
<1>2. CASE TakeLock(p) /\ lock = None
           /\ crowd' = IF crowd = {} THEN {} ELSE crowd \cup {p}
  <2>1. \A q \in Process \ crowd : refresh[q].pc \notin Holding
    BY <1>2 DEF Held
  <2>2. lock' = p
    BY <1>2 DEF TakeLock
  <2> QED
    BY <1>1, <1>2, <2>1, <2>2 DEF Held
<1>3. CASE BreakLock(p) /\ crowd' = crowd \cup ({lock} \cap Process)
  <2>1. refresh'[p].pc \notin Holding
    BY <1>3, Moves DEF Holding
  <2> QED
    BY <1>1, <1>3, <2>1 DEF Held
<1>4. CASE EndRefresh(p) /\ Release(p)
  <2>1. refresh'[p].pc \notin Holding
    BY <1>4, Moves DEF Holding
  <2> QED
    BY <1>1, <1>4, <2>1 DEF Held, Release
<1>5. CASE Crash(p) /\ crowd' = crowd \ {p}
           /\ lock' = IF lock = p THEN Orphaned ELSE lock
  <2>1. refresh'[p].pc \notin Holding
    BY <1>5, Moves DEF Holding
  <2> QED
    BY <1>1, <1>5, <2>1 DEF Held
<1>6. CASE ~TakeLock(p) /\ UNCHANGED <<lock, crowd>>
  <2>1. refresh'[p].pc \in Holding => refresh[p].pc \in Holding
    <3>1. CASE \/ LockTimesOut(p) \/ JudgeLock(p) \/ BreakLock(p)
               \/ AnswerIsLost(p) \/ PostFails(p)
               \/ CommitFails(p) \/ EndRefresh(p) \/ Crash(p)
               \/ \E i \in Intent, cycle \in Nat \cup {None} :
                      BeginRefresh(p, i, cycle)
      BY <3>1, Moves DEF Holding
    <3>2. CASE Decide(p) \/ PostSucceeds(p) \/ Commit(p)
      BY <3>2 DEF Decide, PostSucceeds, Commit, At, Holding
    <3> QED
      BY <1>6, <3>1, <3>2 DEF ProcessStep, RefreshStep
  <2> QED
    BY <1>1, <1>6, <2>1 DEF Held
<1> QED
  BY <1>2, <1>3, <1>4, <1>5, <1>6, LockMoves

\* Next to a refresh outside the crowd nobody is past the lock.
LEMMA Alone ==
    ASSUME Held, NEW p \in Process \ crowd, refresh[p].pc \in Holding,
           NEW q \in Process \ {p}
    PROVE  refresh[q].pc \notin Holding
BY DEF Held

\* Who leaves the crowd has ended its refresh.
LEMMA CrowdMoves ==
    ASSUME IInv, NEW p \in Process, ProcessStep(p),
           NEW q \in Process \ crowd', refresh'[q].pc \in Sent
    PROVE  q \notin crowd
<1>1. p \in crowd /\ p \notin crowd' => refresh'[p].pc = "idle"
  BY LockMoves, Moves DEF TakeLock, Release
<1>2. q # p => q \notin crowd
  BY LockMoves DEF Release
<1> QED
  BY <1>1, <1>2 DEF Sent

\* The types of what is compared.
LEMMA CredentialTypes ==
    ASSUME IInv
    PROVE  /\ revision \in Nat /\ issued \in Nat /\ wasted \in BOOLEAN
           /\ token # None => token.grant \in Nat /\ token.use \in Nat
           /\ \A p \in Process :
                 /\ refresh[p].base \in Nat
                 /\ refresh[p].pc \in Sent =>
                       /\ refresh[p].sent # None
                       /\ refresh[p].sent.grant \in Nat
                       /\ refresh[p].sent.use \in Nat
                       /\ refresh[p].base <= revision
                       /\ refresh[p].base = revision => token = refresh[p].sent
BY DEF IInv, TypeOK, Based, Abstract!CredentialTypeOK, Abstract!Token

\* A commit stores the successor of what is stored.
LEMMA CommitFields ==
    ASSUME IInv, NEW p \in Process, Commit(p)
    PROVE  \/ UNCHANGED <<token, revision>> /\ refresh[p].base # revision
           \/ /\ revision' = revision + 1 /\ refresh[p].base = revision
              /\ token # None /\ token = refresh[p].sent
              /\ token'.grant = token.grant /\ token'.use = token.use + 1
<1>1. CASE refresh[p].base # revision
  BY <1>1 DEF Commit
<1>2. CASE refresh[p].base = revision
  <2>1. token = refresh[p].sent /\ token \in Abstract!Token /\ token # None
    BY <1>2 DEF Commit, At, IInv, Based, Sent
  <2>2. token' = [token EXCEPT !.use = @ + 1] /\ revision' = revision + 1
    BY <1>2, <2>1 DEF Commit, Successor
  <2>3. token'.grant = token.grant /\ token'.use = token.use + 1
    BY <2>1, <2>2 DEF Abstract!Token
  <2> QED
    BY <1>2, <2>1, <2>2, <2>3
<1> QED
  BY <1>1, <1>2

\* What a refresh has sent is what it sent before the step, or what is stored.
LEMMA SentMoves ==
    ASSUME IInv, NEW p \in Process, ProcessStep(p),
           NEW q \in Process, refresh'[q].pc \in Sent
    PROVE  \/ /\ refresh[q].pc \in Sent
              /\ refresh'[q].sent = refresh[q].sent
              /\ refresh'[q].base = refresh[q].base
              /\ At(q, "answered")' => At(q, "answered") \/ PostSucceeds(q)
           \/ /\ Decide(q) /\ token # None /\ refresh'[q].pc = "posted"
              /\ refresh'[q].sent = token /\ refresh'[q].base = revision
<1>1. CASE q # p
  BY <1>1, OthersKeep DEF At
<1>2. CASE q = p /\ PostSucceeds(p)
  BY <1>2, Moves DEF PostSucceeds, At, Sent
<1>3. CASE q = p /\ Decide(p)
  BY <1>3, Moves DEF Sent
<1>4. CASE q = p /\ ~PostSucceeds(p) /\ ~Decide(p)
  BY <1>4, Moves DEF ProcessStep, RefreshStep, Sent
<1> QED
  BY <1>1, <1>2, <1>3, <1>4

\* The token that was sent, where a refresh has sent one, and its credential.
LEMMA StepGrants ==
    ASSUME IInv, Held, Grants, NEW p \in Process, ProcessStep(p)
    PROVE  Grants'
<1>1. token' # None => token'.grant <= revision'
  <2>1. CASE Commit(p)
    BY <2>1, CommitFields, CredentialTypes DEF Grants
  <2>2. CASE ~Commit(p)
    BY <2>2, KeepsCredential DEF Grants
  <2> QED
    BY <2>1, <2>2
<1>2. ASSUME NEW q \in Process, refresh'[q].pc \in Sent
      PROVE  refresh'[q].sent.grant <= refresh'[q].base
  BY <1>2, SentMoves DEF Grants
<1>3. ASSUME NEW q \in Process \ crowd', refresh'[q].pc \in Sent, SameGrant(q)'
      PROVE  refresh'[q].base = revision'
  <2>0. q \notin crowd
    BY <1>3, CrowdMoves
  <2>1. CASE /\ refresh[q].pc \in Sent
             /\ refresh'[q].sent = refresh[q].sent
             /\ refresh'[q].base = refresh[q].base
    <3>1. CASE Commit(p) /\ refresh[p].base = revision
      <4>1. p # q
        BY <1>3, <3>1, Moves DEF Sent
      <4>2. p \notin Process \ {q}
        BY <2>0, <2>1, <3>1, Alone DEF Commit, At, Sent, Holding
      <4> QED
        BY <4>1, <4>2
    <3>2. CASE ~(Commit(p) /\ refresh[p].base = revision)
      <4>1. UNCHANGED <<token, revision>>
        BY <3>2, KeepsCredential, CommitFields
      <4> QED
        BY <1>3, <2>0, <2>1, <4>1 DEF Grants, SameGrant
    <3> QED
      BY <3>1, <3>2
  <2>2. CASE Decide(q) /\ refresh'[q].base = revision
    BY <2>2 DEF Decide, credential
  <2> QED
    BY <1>3, <2>1, <2>2, SentMoves
<1> QED
  BY <1>1, <1>2, <1>3 DEF Grants

\* What the issuer accepts moves only when it takes a token of the grant that
\* is stored; then that token is the one it accepts.
LEMMA RotatesFields ==
    ASSUME NEW p \in Process, Rotates(p)
    PROVE  \/ ~SameGrant(p) /\ issued' = issued
           \/ /\ SameGrant(p) /\ refresh[p].sent.use = issued
              /\ issued' = issued + 1
BY DEF Rotates

\* The issuer never goes back to a token it has replaced.
LEMMA IssuedGrows ==
    ASSUME IInv, NEW p \in Process, ProcessStep(p)
    PROVE  issued' \in Nat /\ issued <= issued'
<1>1. issued \in Nat
  BY CredentialTypes
<1>2. CASE PostSucceeds(p) \/ AnswerIsLost(p)
  BY <1>1, <1>2, RotatesFields DEF PostSucceeds, AnswerIsLost
<1>3. CASE ~(PostSucceeds(p) \/ AnswerIsLost(p))
  <2>1. issued' = issued
    BY <1>3 DEF ProcessStep, RefreshStep, TakeLock, LockTimesOut, JudgeLock,
                BreakLock, Decide, PostFails, Commit, CommitFails, EndRefresh,
                BeginRefresh, Crash, credential
  <2> QED
    BY <1>1, <2>1
<1> QED
  BY <1>2, <1>3

LEMMA StepAnswers ==
    ASSUME IInv, Answers, NEW p \in Process, ProcessStep(p)
    PROVE  Answers'
<1> SUFFICES ASSUME NEW q \in Process, SameGrant(q)', refresh'[q].pc \in Sent
             PROVE  /\ \/ refresh'[q].base = revision'
                       \/ refresh'[q].sent.use < token'.use
                    /\ At(q, "answered")' => refresh'[q].sent.use < issued'
  BY DEF Answers, At, Sent
<1>1. CASE /\ refresh[q].pc \in Sent
           /\ refresh'[q].sent = refresh[q].sent
           /\ refresh'[q].base = refresh[q].base
           /\ At(q, "answered")' => At(q, "answered") \/ PostSucceeds(q)
  <2>1. /\ refresh[q].sent.use \in Nat /\ refresh[q].base \in Nat
        /\ refresh[q].base = revision => token = refresh[q].sent
    BY <1>1, CredentialTypes
  <2>2. \/ UNCHANGED <<token, revision>>
        \/ /\ token # None /\ token'.grant = token.grant
           /\ token.use \in Nat /\ token'.use = token.use + 1
    BY KeepsCredential, CommitFields, CredentialTypes
  <2>3. SameGrant(q)
    BY <1>1, <2>2 DEF SameGrant
  <2>4. \/ refresh[q].base = revision \/ refresh[q].sent.use < token.use
    BY <1>1, <2>3 DEF Answers
  <2>5. \/ refresh'[q].base = revision'
        \/ refresh'[q].sent.use < token'.use
    BY <1>1, <2>1, <2>2, <2>4
  <2>6. ASSUME At(q, "answered")'
        PROVE  refresh[q].sent.use < issued'
    <3>1. CASE At(q, "answered")
      <4>1. refresh[q].sent.use < issued
        BY <2>3, <3>1 DEF Answers
      <4> QED
        BY <2>1, <4>1, IssuedGrows, CredentialTypes
    <3>2. CASE PostSucceeds(q)
      BY <2>1, <2>3, <3>2, RotatesFields DEF PostSucceeds
    <3> QED
      BY <1>1, <2>6, <3>1, <3>2
  <2> QED
    BY <1>1, <2>5, <2>6
<1>2. CASE /\ Decide(q) /\ refresh'[q].pc = "posted"
           /\ refresh'[q].base = revision
  BY <1>2 DEF Decide, credential, At
<1> QED
  BY <1>1, <1>2, SentMoves

\* A step that keeps credential and issuer, and in which no answer that fits
\* the stored token goes but to waste.
LEMMA QuietStore ==
    ASSUME StoredTokenWorks, UNCHANGED <<token, revision, issued>>,
           wasted' = wasted \/ wasted' = TRUE,
           \A q \in Process :
              At(q, "answered") /\ refresh[q].base = revision /\ token # None =>
                 refresh'[q] = refresh[q] \/ wasted' = TRUE
    PROVE  StoredTokenWorks'
BY DEF StoredTokenWorks, At

LEMMA StepStore ==
    ASSUME IInv, Answers, StoredTokenWorks, NEW p \in Process, ProcessStep(p)
    PROVE  StoredTokenWorks'
<1>1. \A q \in Process \ {p} : refresh'[q] = refresh[q]
  BY OthersKeep
<1>2. CASE PostSucceeds(p) /\ SameGrant(p)
  <2>1. /\ At(p, "posted") /\ UNCHANGED <<token, revision, wasted>>
        /\ refresh[p].sent.use = issued /\ issued' = issued + 1
        /\ token # None /\ token.use \in Nat
    BY <1>2, RotatesFields, CredentialTypes DEF PostSucceeds, SameGrant
  <2>2. \/ refresh[p].base = revision /\ refresh[p].sent = token
        \/ refresh[p].sent.use < token.use
    BY <1>2, <2>1, CredentialTypes DEF Answers, At, Sent
  <2>3. ~wasted => token.use = issued
    BY <2>1, <2>2, CredentialTypes DEF StoredTokenWorks
  <2>4. ~wasted => refresh[p].base = revision
    BY <2>1, <2>2, <2>3
  <2>5. refresh'[p].pc = "answered" /\ refresh'[p].base = refresh[p].base
    BY <1>2, Moves
  <2> QED
    BY <2>1, <2>3, <2>4, <2>5 DEF StoredTokenWorks, At
<1>3. CASE PostSucceeds(p) /\ ~SameGrant(p)
  <2>1. /\ At(p, "posted") /\ UNCHANGED <<token, revision, wasted, issued>>
    BY <1>3, RotatesFields DEF PostSucceeds
  <2> QED
    BY <1>1, <2>1, QuietStore DEF At
<1>4. CASE Commit(p) /\ refresh[p].base = revision
  <2>1. /\ At(p, "answered") /\ UNCHANGED <<issued, wasted>>
        /\ token # None /\ token = refresh[p].sent
        /\ token'.use = token.use + 1 /\ token.use \in Nat
    BY <1>4, CommitFields, CredentialTypes DEF Commit
  <2>2. token.use < issued
    BY <2>1 DEF Answers, SameGrant
  <2>3. ~wasted => issued = token.use + 1
    BY <2>1, <2>2, CredentialTypes DEF StoredTokenWorks
  <2> QED
    BY <2>1, <2>3 DEF StoredTokenWorks
<1>5. CASE Commit(p) /\ refresh[p].base # revision
  <2>1. UNCHANGED <<token, revision, issued, wasted>>
    BY <1>5, CommitFields DEF Commit
  <2> QED
    BY <1>1, <1>5, <2>1, QuietStore
<1>6. CASE AnswerIsLost(p)
  <2>1. /\ At(p, "posted") /\ UNCHANGED <<token, revision>>
        /\ wasted' = (wasted \/ SameGrant(p))
        /\ issued' = issued \/ wasted' = TRUE
    BY <1>6, RotatesFields DEF AnswerIsLost
  <2>2. CASE wasted' = TRUE
    BY <2>2 DEF StoredTokenWorks
  <2>3. CASE wasted' # TRUE
    <3>1. wasted' = wasted
      BY <2>1, <2>3, CredentialTypes
    <3> QED
      BY <1>1, <2>1, <2>3, <3>1, QuietStore DEF At
  <2> QED
    BY <2>2, <2>3
<1>7. CASE CommitFails(p) \/ Crash(p)
  <2>1. /\ UNCHANGED <<token, revision, issued>>
        /\ wasted' = wasted \/ wasted' = TRUE
        /\ At(p, "answered") /\ SameGrant(p) => wasted' = TRUE
    BY <1>7, CredentialTypes DEF CommitFails, Crash, credential
  <2>2. At(p, "answered") /\ refresh[p].base = revision /\ token # None =>
            SameGrant(p)
    BY CredentialTypes DEF At, Sent, SameGrant
  <2> QED
    BY <1>1, <2>1, <2>2, QuietStore
<1>8. CASE \/ TakeLock(p) \/ LockTimesOut(p) \/ JudgeLock(p) \/ BreakLock(p)
           \/ Decide(p) \/ PostFails(p) \/ EndRefresh(p)
           \/ \E i \in Intent, cycle \in Nat \cup {None} :
                  BeginRefresh(p, i, cycle)
  <2>1. UNCHANGED <<token, revision, issued, wasted>> /\ ~At(p, "answered")
    BY <1>8 DEF TakeLock, LockTimesOut, JudgeLock, BreakLock, Decide, PostFails,
                EndRefresh, BeginRefresh, At, credential
  <2> QED
    BY <1>1, <2>1, QuietStore
<1> QED
  BY <1>2, <1>3, <1>4, <1>5, <1>6, <1>7, <1>8 DEF ProcessStep, RefreshStep

\* A new grant has a name that no token that was sent has; after a revocation
\* no token that was sent belongs to anything.
LEMMA GrantLInv ==
    ASSUME IInv, LInv, Authorize \/ RevokeToken
    PROVE  LInv'
<1>1. /\ revision' = revision + 1 /\ UNCHANGED <<lock, refresh, crowd>>
      /\ issued' = 0 /\ wasted' = FALSE
  BY DEF Authorize, RevokeToken, KeepRefresh, Abstract!Grant, Abstract!Revoke
<1>2. \/ token' = None
      \/ token'.grant = revision' /\ token'.use = 0
  BY DEF Authorize, RevokeToken, Abstract!Grant, Abstract!Revoke
<1>3. Held'
  BY <1>1 DEF LInv, Held
<1>4. ASSUME NEW p \in Process, refresh[p].pc \in Sent
      PROVE  ~SameGrant(p)'
  <2>1. /\ refresh[p].sent.grant <= refresh[p].base
        /\ refresh[p].base <= revision
        /\ refresh[p].sent.grant \in Nat /\ refresh[p].base \in Nat
        /\ revision \in Nat
    BY <1>4, CredentialTypes DEF LInv, Grants
  <2>2. refresh[p].sent.grant # revision'
    BY <1>1, <2>1
  <2> QED
    BY <1>1, <1>2, <2>2 DEF SameGrant
<1>5. Grants'
  <2>1. token' # None => token'.grant <= revision'
    BY <1>1, <1>2, CredentialTypes
  <2> QED
    BY <1>1, <1>4, <2>1 DEF LInv, Grants
<1>6. Answers'
  BY <1>1, <1>4 DEF Answers, At, Sent
<1>7. StoredTokenWorks'
  BY <1>1, <1>2 DEF StoredTokenWorks
<1> QED
  BY <1>3, <1>5, <1>6, <1>7 DEF LInv

\* The steps that touch neither a request nor the credential.
LEMMA QuietLInv ==
    ASSUME LInv, UNCHANGED <<token, revision, issued, wasted, crowd>>,
           \A p \in Process : lock = p => lock' = p,
           \A p \in Process : /\ refresh'[p].pc = refresh[p].pc
                              /\ refresh'[p].sent = refresh[p].sent
                              /\ refresh'[p].base = refresh[p].base
    PROVE  LInv'
<1>1. \A p \in Process : SameGrant(p)' = SameGrant(p)
  BY DEF SameGrant
<1>2. Held' /\ Grants'
  BY <1>1 DEF LInv, Held, Grants
<1>3. Answers' /\ StoredTokenWorks'
  BY <1>1 DEF LInv, Answers, StoredTokenWorks, At
<1> QED
  BY <1>2, <1>3 DEF LInv

LEMMA NextLInv == IInv /\ LInv /\ [Next]_vars => LInv'
<1> SUFFICES ASSUME IInv, LInv, [Next]_vars PROVE LInv'
  OBVIOUS
<1>1. ASSUME NEW p \in Process, ProcessStep(p) PROVE LInv'
  BY <1>1, StepHeld, StepGrants, StepAnswers, StepStore DEF LInv
<1>2. ASSUME NEW p \in Process, RefreshStep(p) \/ CallRefresh(p) \/ Crash(p)
      PROVE  LInv'
  BY <1>1, <1>2 DEF CallRefresh, ProcessStep, Intent
<1>3. CASE RunRefreshCycle
  <2>1. Global \in Process /\ "proactive" \in Intent /\ revision \in Nat
    BY CredentialTypes DEF Process, Intent
  <2>2. CASE BeginRefresh(Global, "proactive", revision)
    BY <1>1, <2>1, <2>2 DEF ProcessStep
  <2>3. CASE ~BeginRefresh(Global, "proactive", revision)
    <3> DEFINE r == [refresh[Global] EXCEPT !.cycle = revision]
    <3>1. /\ Becomes(Global, r)
          /\ UNCHANGED <<token, revision, issued, wasted, crowd, lock>>
      BY <1>3, <2>3 DEF RunRefreshCycle, credential
    <3>2. refresh \in [Process -> Refresh]
      BY DEF IInv, TypeOK, Refresh
    <3>3. /\ r.pc = refresh[Global].pc /\ r.sent = refresh[Global].sent
          /\ r.base = refresh[Global].base
      BY <2>1, <3>2 DEF Refresh
    <3>4. refresh' = [refresh EXCEPT ![Global] = r]
      BY <3>1 DEF Becomes
    <3>5. \A p \in Process : /\ refresh'[p].pc = refresh[p].pc
                             /\ refresh'[p].sent = refresh[p].sent
                             /\ refresh'[p].base = refresh[p].base
      BY <2>1, <3>2, <3>3, <3>4
    <3> QED
      BY <3>1, <3>5, QuietLInv
  <2> QED
    BY <2>2, <2>3
<1>4. CASE Authorize \/ RevokeToken
  BY <1>4, GrantLInv
<1>5. CASE \/ \E s \in Session : PollCredential(s)
           \/ CooldownEnds \/ LockGetsOld \/ TimePasses
  <2>1. UNCHANGED <<token, revision, issued, refresh, wasted, crowd>>
    BY <1>5 DEF PollCredential, CooldownEnds, LockGetsOld, TimePasses,
                KeepRefresh, credential
  <2>2. \A p \in Process : lock = p => lock' = p
    BY <1>5, TokenRefreshAssumption
       DEF PollCredential, CooldownEnds, LockGetsOld, TimePasses, KeepRefresh
  <2> QED
    BY <2>1, <2>2, QuietLInv
<1>6. CASE UNCHANGED vars
  BY <1>6, QuietLInv DEF vars
<1> QED
  BY <1>2, <1>3, <1>4, <1>5, <1>6 DEF Next

\* For any number of sidecars that crash, lose answers, break each other's
\* locks and race with authorizations: no refresh sends a refresh token that
\* was already used up, but one whose own lock a waiter broke on a verdict on an
\* older lock, and one that takes the lock next to such a refresh.
THEOREM SentIsCurrent == Spec => []SentTokenIsCurrent
<1>1. IInv /\ LInv => SentTokenIsCurrent
  BY DEF IInv, Based, LInv, Grants, SentTokenIsCurrent, At, Sent
<1> QED
  BY <1>1, InitIInv, NextIInv, InitLInv, NextLInv, PTL DEF Spec

\* The stored refresh token is the one the issuer accepts, but for the time
\* between an answer and its commit, and but for a fault that lost an answer;
\* also when several refreshes have broken into each other's lock.
THEOREM StoredWorks == Spec => []StoredTokenWorks
<1>1. LInv => StoredTokenWorks
  BY DEF LInv
<1> QED
  BY <1>1, InitIInv, NextIInv, InitLInv, NextLInv, PTL DEF Spec
=============================================================================
