------------------------ MODULE MiniAppWorkersProofs ------------------------
(***************************************************************************)
(* Proofs about MiniAppWorkers, for any number of windows and calls and    *)
(* any cap.                                                                *)
(*                                                                         *)
(* That the map has every thread that runs is not inductive: a worker may  *)
(* be terminated twice over, and each end of a termination takes it out of *)
(* the map.  WorkersSound adds how far each spawn and each termination has *)
(* got, and what made a thread end.                                        *)
(***************************************************************************)
EXTENDS MiniAppWorkers, SequenceTheorems, TLAPS

\* A worker enters the map once, with its thread, and leaves it with the exit of
\* the thread at the latest.
SpawnsSound ==
    \A m \in Mount :
        /\ thread[m] = "none" <=> spawn[m] \in {"none", "asked"}
        /\ mount[m] = "new" <=> spawn[m] = "none"
        /\ mount[m] = "open" => spawn[m] = "done"
        /\ Pooled(m) => thread[m] \notin {"none", "exited"}
        /\ Runs(m) => Pooled(m)

\* Who is evicted was in the map; the spawn that evicts does so once.
EvictionsSound ==
    \A m \in Mount :
        /\ spawn[m] \in {"none", "asked"} => stopping[<<"evict", m>>] = Idle
        /\ stopping[<<"evict", m>>].pc # "no" =>
              /\ stopping[<<"evict", m>>].target \in Mount
              /\ thread[stopping[<<"evict", m>>].target] # "none"

\* Only the cleanup of a mount closes its worker, and nobody else's.
ClosesSound ==
    \A m \in Mount : stopping[<<"close", m>>].pc # "no" =>
        /\ stopping[<<"close", m>>].target = m
        /\ mount[m] = "gone" /\ thread[m] # "none"

\* A termination ends when its thread does not run any more.
KillsSound ==
    \A k \in Reason \X Mount :
        stopping[k].pc = "killed" => ~Runs(stopping[k].target)

Evicted(m) == \E n \in Mount : stopping[<<"evict", n>>].target = m

\* A thread that ended crashed, was evicted, did not boot, or its window is gone.
EndsSound ==
    \A m \in Mount : thread[m] \in {"dead", "exited"} =>
        \/ m \in crashed \/ Evicted(m)
        \/ spawn[m] \in {"failing", "failed"} \/ mount[m] = "gone"

\* A call under way is for a worker, and is settled by the exit of its thread.
CallsSound ==
    \A c \in Call :
        /\ call[c].pc = "sent" => call[c].to \in Mount
        /\ call[c].pc = "pending" =>
              call[c].to \in Mount /\ thread[call[c].to] # "exited"

WorkersSound ==
    /\ TypeOK
    /\ SpawnsSound /\ EvictionsSound /\ ClosesSound /\ KillsSound
    /\ EndsSound /\ CallsSound

-----------------------------------------------------------------------------
(***************************************************************************)
(* The map: a sequence in which a worker occurs once.                      *)
(***************************************************************************)
\* A worker that is appended is there, and the others still are.
LEMMA AppendedPool ==
    ASSUME NEW s \in Seq(Mount), IsInjective(s), NEW m \in Mount, ~Contains(s, m)
    PROVE  /\ Append(s, m) \in Seq(Mount) /\ IsInjective(Append(s, m))
           /\ \A w : Contains(Append(s, m), w) <=> Contains(s, w) \/ w = m
<1>1. Append(s, m) \in Seq(Mount) /\ Len(Append(s, m)) = Len(s) + 1
      /\ Append(s, m)[Len(s) + 1] = m
      /\ \A i \in 1..Len(s) : Append(s, m)[i] = s[i]
  OBVIOUS
<1>2. IsInjective(Append(s, m))
  BY <1>1 DEF IsInjective, Contains
<1>3. \A w : Contains(Append(s, m), w) <=> Contains(s, w) \/ w = m
  BY <1>1 DEF Contains
<1>4. QED
  BY <1>1, <1>2, <1>3

\* The sequence without its k-th element.
LEMMA RemovedAt ==
    ASSUME NEW s \in Seq(Mount), NEW k \in 1..Len(s)
    PROVE  /\ RemoveAt(s, k) \in Seq(Mount) /\ Len(RemoveAt(s, k)) = Len(s) - 1
           /\ \A i \in 1..Len(s) - 1 : RemoveAt(s, k)[i] = IF i < k THEN s[i] ELSE s[i + 1]
<1> DEFINE l == SubSeq(s, 1, k - 1)
           r == SubSeq(s, k + 1, Len(s))
<1>1. /\ l \in Seq(Mount) /\ Len(l) = k - 1
      /\ \A i \in 1..k - 1 : l[i] = s[i]
  OBVIOUS
<1>2. /\ r \in Seq(Mount) /\ Len(r) = Len(s) - k
      /\ \A i \in 1..Len(s) - k : r[i] = s[k + i]
  OBVIOUS
<1>3. /\ l \o r \in Seq(Mount) /\ Len(l \o r) = Len(l) + Len(r)
      /\ \A i \in 1..Len(l) + Len(r) :
            (l \o r)[i] = IF i <= Len(l) THEN l[i] ELSE r[i - Len(l)]
  <2> HIDE DEF l, r
  <2>1. QED
    BY <1>1, <1>2, ConcatProperties
<1>4. RemoveAt(s, k) = l \o r
  BY DEF RemoveAt
<1> HIDE DEF l, r
<1>5. Len(l) + Len(r) = Len(s) - 1
  BY <1>1, <1>2
<1>6. ASSUME NEW i \in 1..Len(s) - 1
      PROVE  (l \o r)[i] = IF i < k THEN s[i] ELSE s[i + 1]
  <2>1. CASE i < k
    BY <1>1, <1>3, <1>5, <2>1
  <2>2. CASE ~(i < k)
    <3>1. (l \o r)[i] = r[i - (k - 1)]
      BY <1>1, <1>3, <1>5, <2>2
    <3>2. i - (k - 1) \in 1..Len(s) - k /\ k + (i - (k - 1)) = i + 1
      BY <2>2
    <3>3. QED
      BY <1>2, <2>2, <3>1, <3>2
  <2>3. QED
    BY <2>1, <2>2
<1>7. QED
  BY <1>3, <1>4, <1>5, <1>6

\* A worker that is removed is gone, and the others still are there.
LEMMA RemovedPool ==
    ASSUME NEW s \in Seq(Mount), IsInjective(s), NEW m
    PROVE  /\ RemoveFirst(s, m) \in Seq(Mount) /\ IsInjective(RemoveFirst(s, m))
           /\ \A w : Contains(RemoveFirst(s, m), w) <=> Contains(s, w) /\ w # m
<1>1. CASE ~Contains(s, m)
  BY <1>1 DEF RemoveFirst, Contains
<1>2. CASE Contains(s, m)
  <2> PICK k \in 1..Len(s) : s[k] = m
    BY <1>2 DEF Contains
  <2>1. \A i \in 1..Len(s) : s[i] = m <=> i = k
    BY DEF IsInjective
  <2>2. SelectInSeq(s, LAMBDA v : v = m) = k
    <3>1. {i \in 1..Len(s) : s[i] = m} = {k}
      BY <2>1
    <3>2. Min({k}) = k
      BY DEF Min
    <3>3. QED
      BY <3>1, <3>2 DEF SelectInSeq
  <2>3. RemoveFirst(s, m) = RemoveAt(s, k)
    BY <2>2 DEF RemoveFirst
  <2>4. /\ RemoveAt(s, k) \in Seq(Mount) /\ Len(RemoveAt(s, k)) = Len(s) - 1
        /\ \A i \in 1..Len(s) - 1 : RemoveAt(s, k)[i] = IF i < k THEN s[i] ELSE s[i + 1]
    BY RemovedAt
  <2>5. IsInjective(RemoveAt(s, k))
    <3> DEFINE r == RemoveAt(s, k)
    <3>1. DOMAIN r = 1..Len(s) - 1
      BY <2>4
    <3>2. ASSUME NEW i \in 1..Len(s) - 1, NEW j \in 1..Len(s) - 1, r[i] = r[j]
          PROVE  i = j
      <4>1. (IF i < k THEN s[i] ELSE s[i + 1]) = (IF j < k THEN s[j] ELSE s[j + 1])
        BY <2>4, <3>2
      <4>2. (IF i < k THEN i ELSE i + 1) = (IF j < k THEN j ELSE j + 1)
        BY <4>1 DEF IsInjective
      <4>3. QED
        BY <4>2
    <3>3. QED
      BY <3>1, <3>2 DEF IsInjective
  <2>6. \A w : Contains(RemoveAt(s, k), w) <=> Contains(s, w) /\ w # m
    <3> TAKE w
    <3>1. ASSUME Contains(RemoveAt(s, k), w) PROVE Contains(s, w) /\ w # m
      <4>1. PICK i \in 1..Len(s) - 1 : w = IF i < k THEN s[i] ELSE s[i + 1]
        BY <2>4, <3>1 DEF Contains
      <4>2. QED
        BY <2>1, <4>1 DEF Contains
    <3>2. ASSUME Contains(s, w), w # m PROVE Contains(RemoveAt(s, k), w)
      <4>1. PICK j \in 1..Len(s) : s[j] = w
        BY <3>2 DEF Contains
      <4>2. j # k
        BY <3>2, <4>1
      <4> DEFINE i == IF j < k THEN j ELSE j - 1
      <4>3. i \in 1..Len(s) - 1 /\ RemoveAt(s, k)[i] = w
        BY <2>4, <4>1, <4>2
      <4>4. QED
        BY <2>4, <4>3 DEF Contains
    <3>3. QED
      BY <3>1, <3>2
  <2>7. QED
    BY <2>3, <2>4, <2>5, <2>6
<1>3. QED
  BY <1>1, <1>2

-----------------------------------------------------------------------------
(***************************************************************************)
(* The terminations, which are named by their reason and a mount.          *)
(***************************************************************************)
LEMMA Keys ==
    /\ \A m \in Mount : <<"close", m>> \in Reason \X Mount
                        /\ <<"evict", m>> \in Reason \X Mount
    /\ \A m, n \in Mount : /\ <<"close", m>> # <<"evict", n>>
                           /\ <<"close", m>> = <<"close", n>> => m = n
                           /\ <<"evict", m>> = <<"evict", n>> => m = n
    /\ \A k \in Reason \X Mount : \E m \in Mount : k \in {<<"close", m>>, <<"evict", m>>}
BY DEF Reason

\* Whom a termination is for has had a thread.
LEMMA TargetsSound ==
    ASSUME WorkersSound, NEW k \in Reason \X Mount, stopping[k].pc # "no"
    PROVE  stopping[k].target \in Mount /\ thread[stopping[k].target] # "none"
<1>1. PICK m \in Mount : k \in {<<"close", m>>, <<"evict", m>>}
  BY Keys
<1>2. CASE k = <<"close", m>>
  BY <1>2 DEF WorkersSound, ClosesSound
<1>3. CASE k = <<"evict", m>>
  BY <1>3 DEF WorkersSound, EvictionsSound
<1>4. QED
  BY <1>1, <1>2, <1>3

StopRecord ==
    [pc : {"no", "asked", "grace", "killed", "done"}, target : Mount \cup {None}]

LEMMA StopTypes ==
    ASSUME TypeOK
    PROVE  /\ stopping \in [Reason \X Mount -> StopRecord]
           /\ \A m \in Mount : stopping[<<"close", m>>] \in StopRecord
                               /\ stopping[<<"evict", m>>] \in StopRecord
BY Keys DEF TypeOK, StopRecord

\* A mount asks for its own worker to be closed.
LEMMA CloseAsked ==
    ASSUME TypeOK, NEW m \in Mount, AskClose(m)
    PROVE  /\ stopping' \in [Reason \X Mount -> StopRecord]
           /\ stopping'[<<"close", m>>] = [pc |-> "asked", target |-> m]
           /\ \A j \in Reason \X Mount : j # <<"close", m>> => stopping'[j] = stopping[j]
BY Keys DEF TypeOK, AskClose, StopRecord

\* A spawn begins to evict a worker.
LEMMA EvictionBegins ==
    ASSUME TypeOK, NEW m \in Mount, NEW w \in Mount, Evict(m, w)
    PROVE  /\ stopping' \in [Reason \X Mount -> StopRecord]
           /\ stopping'[<<"evict", m>>] = [pc |-> "grace", target |-> w]
           /\ \A j \in Reason \X Mount : j # <<"evict", m>> => stopping'[j] = stopping[j]
BY Keys DEF TypeOK, Evict, StopRecord

-----------------------------------------------------------------------------
(***************************************************************************)
(* WorkersSound is inductive.                                              *)
(***************************************************************************)
LEMMA InitWorkers == Init => WorkersSound
<1> SUFFICES ASSUME Init PROVE WorkersSound
  OBVIOUS
<1>1. pool \in Seq(Mount) /\ IsInjective(pool) /\ \A m : ~Pooled(m)
  BY DEF Init, IsInjective, Pooled, Contains
<1>2. \A k \in Reason \X Mount : stopping[k] = Idle
  BY DEF Init
<1>3. TypeOK
  BY <1>1 DEF Init, TypeOK, Idle
<1>4. SpawnsSound /\ CallsSound
  BY <1>1 DEF Init, SpawnsSound, CallsSound, Runs
<1>5. EvictionsSound /\ ClosesSound /\ KillsSound
  <2>1. Idle.pc = "no"
    BY DEF Idle
  <2>2. \A m \in Mount : stopping[<<"close", m>>] = Idle /\ stopping[<<"evict", m>>] = Idle
    BY <1>2, Keys
  <2>3. QED
    BY <1>2, <2>1, <2>2 DEF EvictionsSound, ClosesSound, KillsSound
<1>6. EndsSound
  BY DEF Init, EndsSound
<1>7. QED
  BY <1>3, <1>4, <1>5, <1>6 DEF WorkersSound

\* What the calls do leaves the workers alone.
LEMMA CallsAlone ==
    ASSUME WorkersSound, TypeOK', CallsSound', KeepWorkers PROVE WorkersSound'
<1>1. \A m \in Mount : /\ Pooled(m)' <=> Pooled(m)
                       /\ Runs(m)' <=> Runs(m)
                       /\ Evicted(m)' <=> Evicted(m)
  BY DEF KeepWorkers, Pooled, Runs, Evicted
<1>2. SpawnsSound' /\ EndsSound'
  BY <1>1 DEF WorkersSound, KeepWorkers, SpawnsSound, EndsSound
<1>3. EvictionsSound' /\ ClosesSound' /\ KillsSound'
  BY DEF WorkersSound, KeepWorkers, EvictionsSound, ClosesSound, KillsSound, Runs
<1>4. QED
  BY <1>2, <1>3 DEF WorkersSound

CallRecord ==
    [pc : {"new", "sent", "pending", "answered"}, from : Mount \cup {None},
     to : Mount \cup {None}, own : BOOLEAN]

LEMMA SettleTypes ==
    ASSUME TypeOK, NEW C, Settle(C)
    PROVE  /\ call' \in [Call -> CallRecord]
           /\ \A c \in Call :
                 /\ call'[c].to = call[c].to
                 /\ call'[c].pc = IF c \in C /\ call[c].pc = "pending" THEN "answered"
                                  ELSE call[c].pc
<1>1. call \in [Call -> CallRecord]
  BY DEF TypeOK, CallRecord
<1>2. ASSUME NEW c \in Call
      PROVE  /\ call'[c] \in CallRecord /\ call'[c].to = call[c].to
             /\ call'[c].pc = IF c \in C /\ call[c].pc = "pending" THEN "answered"
                              ELSE call[c].pc
  <2>1. call'[c] = IF c \in C /\ call[c].pc = "pending"
                   THEN [call[c] EXCEPT !.pc = "answered"] ELSE call[c]
    BY DEF Settle
  <2>2. call[c] \in CallRecord
    BY <1>1
  <2>3. QED
    BY <2>1, <2>2 DEF CallRecord
<1>3. QED
  BY <1>2 DEF Settle

LEMMA AppCallKeeps ==
    ASSUME WorkersSound, NEW c \in Call, NEW m \in Mount, AppCall(c, m) \/ WorkerCall(c, m)
    PROVE  WorkersSound'
<1>1. PICK r \in CallRecord :
        /\ call' = [call EXCEPT ![c] = r] /\ r.pc # "pending"
        /\ r.pc = "sent" => r.to \in Mount
  <2>1. CASE WorkerCall(c, m)
    <3>1. [pc |-> "sent", from |-> m, to |-> m, own |-> TRUE] \in CallRecord
      BY DEF CallRecord
    <3>2. QED
      BY <2>1, <3>1 DEF WorkerCall
  <2>2. CASE AppCall(c, m)
    <3> DEFINE r == [pc |-> IF routed = None THEN "answered" ELSE "sent",
                     from |-> m, to |-> routed,
                     own |-> mount[m] = "open" => routed = m]
    <3>1. r \in CallRecord /\ r.pc # "pending" /\ (r.pc = "sent" => r.to \in Mount)
      BY DEF WorkersSound, TypeOK, CallRecord
    <3>2. call' = [call EXCEPT ![c] = r]
      BY <2>2 DEF AppCall
    <3>3. QED
      BY <3>1, <3>2
  <2>3. QED
    BY <2>1, <2>2
<1>2. KeepWorkers /\ UNCHANGED posted
  BY DEF AppCall, WorkerCall, KeepWorkers
<1>3. TypeOK'
  BY <1>1, <1>2 DEF WorkersSound, TypeOK, KeepWorkers, CallRecord
<1>4. CallsSound'
  BY <1>1, <1>2 DEF WorkersSound, TypeOK, CallsSound, KeepWorkers
<1>5. QED
  BY <1>2, <1>3, <1>4, CallsAlone

LEMMA AnswerKeeps ==
    ASSUME WorkersSound, NEW c \in Call, Response(c) \/ CallTimesOut(c)
    PROVE  WorkersSound'
<1>1. KeepWorkers /\ posted' \subseteq posted /\ Settle({c})
  BY DEF Response, CallTimesOut
<1>2. /\ call' \in [Call -> CallRecord]
      /\ \A d \in Call : /\ call'[d].to = call[d].to
                         /\ call'[d].pc \in {call[d].pc, "answered"}
  BY <1>1, SettleTypes DEF WorkersSound
<1>3. TypeOK'
  BY <1>1, <1>2 DEF WorkersSound, TypeOK, KeepWorkers, CallRecord
<1>4. CallsSound'
  BY <1>1, <1>2 DEF WorkersSound, TypeOK, CallsSound, KeepWorkers
<1>5. QED
  BY <1>1, <1>3, <1>4, CallsAlone

\* A call that arrives finds its worker in the map, hence not exited, and makes
\* it the one used last.
LEMMA CallArrivesKeeps ==
    ASSUME WorkersSound, NEW c \in Call, CallArrives(c) PROVE WorkersSound'
<1> DEFINE w == call[c].to
<1>1. /\ call[c].pc = "sent" /\ w \in Mount
      /\ UNCHANGED <<mount, routed, thread, spawn, stopping, crashed>>
  BY DEF CallArrives, WorkersSound, CallsSound
<1>2. PICK p \in {"pending", "answered"} :
        call' = [call EXCEPT ![c].pc = p] /\ (p = "pending" => Pooled(w))
  BY <1>1 DEF CallArrives
<1>3. /\ pool' \in Seq(Mount) /\ IsInjective(pool')
      /\ \A m \in Mount : Pooled(m)' <=> Pooled(m)
  <2>1. pool \in Seq(Mount) /\ IsInjective(pool)
    BY DEF WorkersSound, TypeOK
  <2>2. CASE ~Pooled(w)
    BY <1>1, <2>1, <2>2 DEF CallArrives, Pooled
  <2>3. CASE Pooled(w)
    <3> DEFINE rest == RemoveFirst(pool, w)
    <3>1. /\ rest \in Seq(Mount) /\ IsInjective(rest)
          /\ \A m : Contains(rest, m) <=> Contains(pool, m) /\ m # w
      BY <2>1, RemovedPool
    <3> HIDE DEF rest
    <3>2. /\ Append(rest, w) \in Seq(Mount) /\ IsInjective(Append(rest, w))
          /\ \A m : Contains(Append(rest, w), m) <=> Contains(rest, m) \/ m = w
      BY <1>1, <3>1, AppendedPool
    <3>3. pool' = Append(rest, w)
      BY <2>3 DEF CallArrives, rest
    <3>4. QED
      BY <2>3, <3>1, <3>2, <3>3 DEF Pooled
  <2>4. QED
    BY <2>2, <2>3
<1>4. call' \in [Call -> CallRecord]
      /\ \A d \in Call : /\ call'[d].to = call[d].to
                         /\ call'[d].pc = IF d = c THEN p ELSE call[d].pc
  <2>1. call \in [Call -> CallRecord]
    BY DEF WorkersSound, TypeOK, CallRecord
  <2>2. [call[c] EXCEPT !.pc = p] \in CallRecord /\ [call[c] EXCEPT !.pc = p].pc = p
        /\ [call[c] EXCEPT !.pc = p].to = call[c].to
    BY <2>1 DEF CallRecord
  <2>3. call' = [call EXCEPT ![c] = [call[c] EXCEPT !.pc = p]]
    BY <1>2
  <2>4. QED
    BY <2>1, <2>2, <2>3
<1>5. posted' \subseteq Call
  BY DEF CallArrives, WorkersSound, TypeOK
<1>6. TypeOK'
  BY <1>1, <1>3, <1>4, <1>5 DEF WorkersSound, TypeOK, CallRecord
<1>7. SpawnsSound' /\ EndsSound'
  BY <1>1, <1>3 DEF WorkersSound, SpawnsSound, EndsSound, Runs, Evicted
<1>8. EvictionsSound' /\ ClosesSound' /\ KillsSound'
  BY <1>1 DEF WorkersSound, EvictionsSound, ClosesSound, KillsSound, Runs
<1>9. CallsSound'
  BY <1>1, <1>2, <1>4 DEF WorkersSound, CallsSound, SpawnsSound
<1>10. QED
  BY <1>6, <1>7, <1>8, <1>9 DEF WorkersSound

-----------------------------------------------------------------------------
\* A mount that begins, or whose answer is there and who closes or not.
LEMMA BeginKeeps ==
    ASSUME WorkersSound, NEW m \in Mount, Begin(m) PROVE WorkersSound'
<1>1. /\ mount[m] = "new" /\ mount' = [mount EXCEPT ![m] = "spawning"]
      /\ spawn' = [spawn EXCEPT ![m] = "asked"]
      /\ UNCHANGED <<routed, pool, thread, stopping, crashed, call, posted>>
  BY DEF Begin, GotoMount, GotoSpawn, KeepCalls
<1>2. spawn[m] = "none"
  BY <1>1 DEF WorkersSound, SpawnsSound
<1>3. TypeOK'
  BY <1>1 DEF WorkersSound, TypeOK
<1>4. SpawnsSound' /\ EndsSound'
  BY <1>1, <1>2 DEF WorkersSound, TypeOK, SpawnsSound, EndsSound, Runs, Evicted, Pooled
<1>5. EvictionsSound' /\ ClosesSound' /\ KillsSound' /\ CallsSound'
  BY <1>1, <1>2
     DEF WorkersSound, TypeOK, EvictionsSound, ClosesSound, KillsSound, CallsSound, Runs
<1>6. QED
  BY <1>3, <1>4, <1>5 DEF WorkersSound

\* The runner goes on, and only who is gone closes a worker.
LEMMA RunnerKeeps ==
    ASSUME WorkersSound, NEW m \in Mount, NEW p \in {"open", "bare", "cancelled", "gone"},
           GotoMount(m, p), spawn[m] # "none", mount[m] # "gone",
           p = "open" => spawn[m] = "done",
           \/ UNCHANGED stopping
           \/ AskClose(m) /\ p = "gone" /\ spawn[m] = "done",
           routed' \in Mount \cup {None},
           UNCHANGED <<pool, thread, spawn, crashed, call, posted>>
    PROVE  WorkersSound'
<1>1. mount' = [mount EXCEPT ![m] = p] /\ mount'[m] = p
      /\ \A n \in Mount : n # m => mount'[n] = mount[n]
  BY DEF WorkersSound, TypeOK, GotoMount
<1>2. /\ stopping' \in [Reason \X Mount -> StopRecord]
      /\ \A n \in Mount : /\ stopping'[<<"evict", n>>] = stopping[<<"evict", n>>]
                          /\ n # m => stopping'[<<"close", n>>] = stopping[<<"close", n>>]
  <2>1. CASE UNCHANGED stopping
    BY <2>1, StopTypes DEF WorkersSound
  <2>2. CASE AskClose(m)
    <3>1. /\ stopping' \in [Reason \X Mount -> StopRecord]
          /\ \A j \in Reason \X Mount : j # <<"close", m>> => stopping'[j] = stopping[j]
      BY <2>2, CloseAsked DEF WorkersSound
    <3>2. ASSUME NEW n \in Mount
          PROVE  /\ stopping'[<<"evict", n>>] = stopping[<<"evict", n>>]
                 /\ n # m => stopping'[<<"close", n>>] = stopping[<<"close", n>>]
      <4>1. /\ <<"evict", n>> \in Reason \X Mount /\ <<"evict", n>> # <<"close", m>>
            /\ <<"close", n>> \in Reason \X Mount
            /\ n # m => <<"close", n>> # <<"close", m>>
        BY Keys
      <4>2. QED
        BY <3>1, <4>1
    <3>3. QED
      BY <3>1, <3>2
  <2>3. QED
    BY <2>1, <2>2
<1>3. \/ stopping'[<<"close", m>>] = stopping[<<"close", m>>]
      \/ /\ stopping'[<<"close", m>>] = [pc |-> "asked", target |-> m]
         /\ p = "gone" /\ spawn[m] = "done"
  BY CloseAsked DEF WorkersSound
<1>4. TypeOK'
  BY <1>1, <1>2 DEF WorkersSound, TypeOK, StopRecord
<1>5. SpawnsSound'
  BY <1>1 DEF WorkersSound, SpawnsSound, Runs, Pooled
<1>6. EvictionsSound'
  BY <1>2 DEF WorkersSound, EvictionsSound
<1>7. ClosesSound'
  <2> SUFFICES ASSUME NEW n \in Mount, stopping'[<<"close", n>>].pc # "no"
               PROVE  /\ stopping'[<<"close", n>>].target = n
                      /\ mount'[n] = "gone" /\ thread'[n] # "none"
    BY DEF ClosesSound
  <2>1. CASE stopping'[<<"close", n>>] = stopping[<<"close", n>>]
    <3>1. /\ stopping[<<"close", n>>].target = n
          /\ mount[n] = "gone" /\ thread[n] # "none"
      BY <2>1 DEF WorkersSound, ClosesSound
    <3>2. n # m
      BY <3>1
    <3>3. QED
      BY <1>1, <2>1, <3>1, <3>2
  <2>2. CASE stopping'[<<"close", n>>] # stopping[<<"close", n>>]
    <3>1. n = m
      BY <1>2, <2>2
    <3>2. thread[m] # "none"
      BY <1>3, <2>2, <3>1 DEF WorkersSound, SpawnsSound
    <3>3. QED
      BY <1>1, <1>3, <2>2, <3>1, <3>2
  <2>3. QED
    BY <2>1, <2>2
<1>8. KillsSound'
  <2> SUFFICES ASSUME NEW k \in Reason \X Mount, stopping'[k].pc = "killed"
               PROVE  thread'[stopping'[k].target] \notin {"boot", "up"}
    BY DEF KillsSound, Runs
  <2>1. stopping'[k] = stopping[k]
    <3>1. PICK n \in Mount : k \in {<<"close", n>>, <<"evict", n>>}
      BY Keys
    <3>2. CASE k = <<"evict", n>>
      BY <1>2, <3>2
    <3>3. CASE k = <<"close", n>>
      <4>1. CASE n = m
        BY <1>3, <3>3, <4>1
      <4>2. CASE n # m
        BY <1>2, <3>3, <4>2
      <4>3. QED
        BY <4>1, <4>2
    <3>4. QED
      BY <3>1, <3>2, <3>3
  <2>2. stopping[k].target \in Mount /\ ~Runs(stopping[k].target)
    BY <2>1, TargetsSound DEF WorkersSound, KillsSound
  <2>3. QED
    BY <2>1, <2>2 DEF Runs
<1>9. EndsSound'
  <2> SUFFICES ASSUME NEW n \in Mount, thread[n] \in {"dead", "exited"}
               PROVE  \/ n \in crashed \/ Evicted(n)'
                      \/ spawn[n] \in {"failing", "failed"} \/ mount'[n] = "gone"
    BY DEF EndsSound
  <2>1. \/ n \in crashed \/ Evicted(n)
        \/ spawn[n] \in {"failing", "failed"} \/ mount[n] = "gone"
    BY DEF WorkersSound, EndsSound
  <2>2. Evicted(n) => Evicted(n)'
    BY <1>2 DEF Evicted
  <2>3. mount[n] = "gone" => mount'[n] = "gone"
    BY <1>1
  <2>4. QED
    BY <2>1, <2>2, <2>3
<1>10. CallsSound'
  BY DEF WorkersSound, CallsSound
<1>11. QED
  BY <1>4, <1>5, <1>6, <1>7, <1>8, <1>9, <1>10 DEF WorkersSound

LEMMA SpawnReturnsKeeps ==
    ASSUME WorkersSound, NEW m \in Mount, SpawnReturns(m) PROVE WorkersSound'
<1>1. /\ spawn[m] \in {"done", "failed"} /\ mount[m] \in {"spawning", "cancelled"}
      /\ UNCHANGED <<pool, thread, spawn, crashed, call, posted>>
      /\ routed' \in {routed, m}
  BY DEF SpawnReturns, KeepCalls
<1>2. routed' \in Mount \cup {None}
  BY <1>1 DEF WorkersSound, TypeOK
<1>3. \E p \in {"open", "bare", "cancelled", "gone"} :
        /\ GotoMount(m, p)
        /\ p = "open" => spawn[m] = "done"
        /\ UNCHANGED stopping \/ (AskClose(m) /\ p = "gone" /\ spawn[m] = "done")
  BY DEF SpawnReturns
<1>4. QED
  BY <1>1, <1>2, <1>3, RunnerKeeps

LEMMA UnmountKeeps ==
    ASSUME WorkersSound, NEW m \in Mount, Unmount(m) PROVE WorkersSound'
<1>1. /\ mount[m] \in {"spawning", "open", "bare"} /\ routed' = None
      /\ UNCHANGED <<pool, thread, spawn, crashed, call, posted>>
  BY DEF Unmount, KeepCalls
<1>2. spawn[m] # "none" /\ (mount[m] = "open" => spawn[m] = "done")
  BY <1>1 DEF WorkersSound, SpawnsSound
<1>3. \E p \in {"open", "bare", "cancelled", "gone"} :
        /\ GotoMount(m, p) /\ p # "open"
        /\ UNCHANGED stopping \/ (AskClose(m) /\ p = "gone" /\ spawn[m] = "done")
  BY <1>2 DEF Unmount
<1>4. QED
  BY <1>1, <1>2, <1>3, RunnerKeeps

-----------------------------------------------------------------------------
(***************************************************************************)
(* Workers.                                                                *)
(***************************************************************************)
\* The spawn puts a worker in the map that was not there.
LEMMA SpawnKeeps ==
    ASSUME WorkersSound, NEW m \in Mount, Spawn(m) PROVE WorkersSound'
<1>1. /\ spawn[m] = "asked" /\ spawn' = [spawn EXCEPT ![m] = "booting"]
      /\ thread' = [thread EXCEPT ![m] = "boot"] /\ pool' = Append(pool, m)
      /\ UNCHANGED <<mount, routed, crashed, call, posted>>
  BY DEF Spawn, Enters, GotoSpawn, KeepCalls
<1>2. thread[m] = "none" /\ ~Pooled(m) /\ stopping[<<"evict", m>>] = Idle
  BY <1>1 DEF WorkersSound, SpawnsSound, EvictionsSound
<1>3. /\ pool' \in Seq(Mount) /\ IsInjective(pool')
      /\ \A w : Contains(pool', w) <=> Contains(pool, w) \/ w = m
  BY <1>1, <1>2, AppendedPool DEF WorkersSound, TypeOK, Pooled
<1>4. UNCHANGED stopping
      \/ \E w \in Mount : Evict(m, w) /\ thread[w] # "none" /\ w # m
  <2>1. CASE Len(pool) < Cap
    BY <2>1 DEF Spawn
  <2>2. CASE ~(Len(pool) < Cap)
    <3>1. pool \in Seq(Mount) /\ 1 \in 1..Len(pool)
      BY <2>2, MiniAppWorkersAssumption DEF WorkersSound, TypeOK
    <3>2. Head(pool) = pool[1] /\ Head(pool) \in Mount
      BY <3>1
    <3>3. Pooled(Head(pool))
      BY <3>1, <3>2 DEF Pooled, Contains
    <3>4. Evict(m, Head(pool)) /\ thread[Head(pool)] # "none"
      BY <2>2, <3>2, <3>3 DEF Spawn, WorkersSound, SpawnsSound
    <3>5. QED
      BY <1>2, <3>2, <3>3, <3>4
  <2>3. QED
    BY <2>1, <2>2
<1>5. /\ stopping' \in [Reason \X Mount -> StopRecord]
      /\ \A n \in Mount : /\ stopping'[<<"close", n>>] = stopping[<<"close", n>>]
                          /\ n # m => stopping'[<<"evict", n>>] = stopping[<<"evict", n>>]
  BY <1>4, EvictionBegins, StopTypes, Keys DEF WorkersSound
<1>6. /\ stopping'[<<"evict", m>>].pc \in {"no", "grace"}
      /\ stopping'[<<"evict", m>>].pc = "grace" =>
            /\ stopping'[<<"evict", m>>].target \in Mount
            /\ thread[stopping'[<<"evict", m>>].target] # "none"
            /\ stopping'[<<"evict", m>>].target # m
  <2>1. CASE UNCHANGED stopping
    BY <1>2, <2>1 DEF Idle
  <2>2. ASSUME NEW w \in Mount, Evict(m, w), thread[w] # "none", w # m
        PROVE  /\ stopping'[<<"evict", m>>].pc = "grace"
               /\ stopping'[<<"evict", m>>].target = w
    <3>1. stopping'[<<"evict", m>>] = [pc |-> "grace", target |-> w]
      BY <2>2, EvictionBegins DEF WorkersSound
    <3>2. QED
      BY <3>1
  <2>3. QED
    BY <1>4, <2>1, <2>2
<1>7. thread'[m] = "boot" /\ spawn'[m] = "booting"
      /\ \A n \in Mount : n # m => thread'[n] = thread[n] /\ spawn'[n] = spawn[n]
  BY <1>1 DEF WorkersSound, TypeOK
<1>8. TypeOK'
  BY <1>1, <1>3, <1>5 DEF WorkersSound, TypeOK, StopRecord
<1>9. SpawnsSound'
  BY <1>1, <1>2, <1>3, <1>7 DEF WorkersSound, SpawnsSound, Runs, Pooled
<1>10. EvictionsSound'
  <2> SUFFICES ASSUME NEW n \in Mount
               PROVE  /\ spawn'[n] \in {"none", "asked"} => stopping'[<<"evict", n>>] = Idle
                      /\ stopping'[<<"evict", n>>].pc # "no" =>
                            /\ stopping'[<<"evict", n>>].target \in Mount
                            /\ thread'[stopping'[<<"evict", n>>].target] # "none"
    BY DEF EvictionsSound
  <2>1. CASE n = m
    BY <1>6, <1>7, <2>1
  <2>2. CASE n # m
    BY <1>2, <1>5, <1>7, <2>2 DEF WorkersSound, EvictionsSound
  <2>3. QED
    BY <2>1, <2>2
<1>11. ClosesSound'
  <2> SUFFICES ASSUME NEW n \in Mount, stopping'[<<"close", n>>].pc # "no"
               PROVE  /\ stopping'[<<"close", n>>].target = n
                      /\ mount'[n] = "gone" /\ thread'[n] # "none"
    BY DEF ClosesSound
  <2>1. /\ stopping[<<"close", n>>].target = n
        /\ mount[n] = "gone" /\ thread[n] # "none"
    BY <1>5 DEF WorkersSound, ClosesSound
  <2>2. QED
    BY <1>1, <1>5, <1>7, <2>1
<1>12. KillsSound'
  <2> SUFFICES ASSUME NEW k \in Reason \X Mount, stopping'[k].pc = "killed"
               PROVE  thread'[stopping'[k].target] \notin {"boot", "up"}
    BY DEF KillsSound, Runs
  <2>1. k # <<"evict", m>>
    BY <1>6
  <2>2. stopping'[k] = stopping[k]
    <3>1. PICK n \in Mount : k \in {<<"close", n>>, <<"evict", n>>}
      BY Keys
    <3>2. QED
      BY <1>5, <2>1, <3>1
  <2>3. stopping[k].target \in Mount /\ stopping[k].target # m
    BY <1>2, <2>2, TargetsSound
  <2>4. QED
    BY <1>7, <2>2, <2>3 DEF WorkersSound, KillsSound, Runs
<1>13. EndsSound'
  <2> SUFFICES ASSUME NEW n \in Mount, thread'[n] \in {"dead", "exited"}
               PROVE  \/ n \in crashed' \/ \E x \in Mount : stopping'[<<"evict", x>>].target = n
                      \/ spawn'[n] \in {"failing", "failed"} \/ mount'[n] = "gone"
    BY DEF EndsSound, Evicted
  <2>1. n # m
    BY <1>7
  <2>2. stopping[<<"evict", m>>].target # n
    BY <1>2, MiniAppWorkersAssumption DEF Idle
  <2>3. ASSUME NEW x \in Mount, stopping[<<"evict", x>>].target = n
        PROVE  stopping'[<<"evict", x>>].target = n
    BY <1>5, <2>2, <2>3
  <2>4. thread[n] \in {"dead", "exited"} /\ spawn'[n] = spawn[n]
    BY <1>7, <2>1
  <2>5. QED
    BY <1>1, <2>3, <2>4 DEF WorkersSound, EndsSound, Evicted
<1>14. CallsSound'
  BY <1>1, <1>7 DEF WorkersSound, CallsSound
<1>15. QED
  BY <1>8, <1>9, <1>10, <1>11, <1>12, <1>13, <1>14 DEF WorkersSound

\* The terminations stay sound while threads and spawns only go on, and one
\* termination at most moves, to "killed" when its thread does not run any more.
LEMMA StopsKept ==
    ASSUME WorkersSound, mount' = mount,
           \A n \in Mount : /\ thread'[n] = "none" => thread[n] = "none"
                            /\ spawn'[n] \in {"none", "asked"} => spawn[n] \in {"none", "asked"}
                            /\ thread'[n] \in {"boot", "up"} => Runs(n),
           \/ stopping' = stopping
           \/ \E k \in Reason \X Mount, p \in {"grace", "killed", "done"} :
                 /\ GotoStop(k, p) /\ stopping[k].pc # "no"
                 /\ p = "killed" => thread'[stopping[k].target] \notin {"boot", "up"}
    PROVE  /\ stopping' \in [Reason \X Mount -> StopRecord]
           /\ EvictionsSound' /\ ClosesSound' /\ KillsSound'
           /\ \A n \in Mount : Evicted(n) => Evicted(n)'
<1>1. CASE stopping' = stopping
  <2>1. stopping' \in [Reason \X Mount -> StopRecord]
    BY <1>1, StopTypes DEF WorkersSound
  <2>2. EvictionsSound'
    BY <1>1 DEF WorkersSound, EvictionsSound
  <2>3. ClosesSound'
    BY <1>1 DEF WorkersSound, ClosesSound
  <2>4. KillsSound'
    <3> SUFFICES ASSUME NEW k \in Reason \X Mount, stopping[k].pc = "killed"
                 PROVE  thread'[stopping[k].target] \notin {"boot", "up"}
      BY <1>1 DEF KillsSound, Runs
    <3>1. stopping[k].target \in Mount /\ ~Runs(stopping[k].target)
      BY TargetsSound DEF WorkersSound, KillsSound
    <3>2. QED
      BY <3>1
  <2>5. \A n \in Mount : Evicted(n) => Evicted(n)'
    BY <1>1 DEF Evicted
  <2>6. QED
    BY <2>1, <2>2, <2>3, <2>4, <2>5
<1>2. ASSUME NEW k \in Reason \X Mount, NEW p \in {"grace", "killed", "done"},
             GotoStop(k, p), stopping[k].pc # "no",
             p = "killed" => thread'[stopping[k].target] \notin {"boot", "up"}
      PROVE  /\ stopping' \in [Reason \X Mount -> StopRecord]
             /\ EvictionsSound' /\ ClosesSound' /\ KillsSound'
             /\ \A n \in Mount : Evicted(n) => Evicted(n)'
  <2>1. /\ stopping' \in [Reason \X Mount -> StopRecord]
        /\ \A j \in Reason \X Mount :
              /\ stopping'[j].target = stopping[j].target
              /\ stopping'[j].pc = IF j = k THEN p ELSE stopping[j].pc
              /\ stopping[j] = Idle /\ j # k => stopping'[j] = Idle
    BY <1>2 DEF WorkersSound, TypeOK, GotoStop, StopRecord
  <2>2. \A j \in Reason \X Mount : stopping'[j].pc # "no" => stopping[j].pc # "no"
    BY <1>2, <2>1
  <2>3. EvictionsSound'
    <3> SUFFICES ASSUME NEW n \in Mount
                 PROVE  /\ spawn'[n] \in {"none", "asked"} => stopping'[<<"evict", n>>] = Idle
                        /\ stopping'[<<"evict", n>>].pc # "no" =>
                              /\ stopping'[<<"evict", n>>].target \in Mount
                              /\ thread'[stopping'[<<"evict", n>>].target] # "none"
      BY DEF EvictionsSound
    <3>1. <<"evict", n>> \in Reason \X Mount
      BY Keys
    <3>2. ASSUME spawn'[n] \in {"none", "asked"} PROVE stopping'[<<"evict", n>>] = Idle
      <4>1. stopping[<<"evict", n>>] = Idle
        BY <3>2 DEF WorkersSound, EvictionsSound
      <4>2. <<"evict", n>> # k
        BY <1>2, <4>1 DEF Idle
      <4>3. QED
        BY <2>1, <3>1, <4>1, <4>2
    <3>3. ASSUME stopping'[<<"evict", n>>].pc # "no"
          PROVE  /\ stopping'[<<"evict", n>>].target \in Mount
                 /\ thread'[stopping'[<<"evict", n>>].target] # "none"
      BY <2>1, <2>2, <3>1, <3>3, TargetsSound
    <3>4. QED
      BY <3>2, <3>3
  <2>4. ClosesSound'
    <3> SUFFICES ASSUME NEW n \in Mount, stopping'[<<"close", n>>].pc # "no"
                 PROVE  /\ stopping'[<<"close", n>>].target = n
                        /\ mount'[n] = "gone" /\ thread'[n] # "none"
      BY DEF ClosesSound
    <3>1. <<"close", n>> \in Reason \X Mount
      BY Keys
    <3>2. /\ stopping[<<"close", n>>].target = n
          /\ mount[n] = "gone" /\ thread[n] # "none"
      BY <2>2, <3>1 DEF WorkersSound, ClosesSound
    <3>3. QED
      BY <2>1, <3>1, <3>2
  <2>5. KillsSound'
    <3> SUFFICES ASSUME NEW j \in Reason \X Mount, stopping'[j].pc = "killed"
                 PROVE  thread'[stopping'[j].target] \notin {"boot", "up"}
      BY DEF KillsSound, Runs
    <3>1. CASE j = k
      BY <1>2, <2>1, <3>1
    <3>2. CASE j # k
      <4>1. stopping[j].target \in Mount /\ ~Runs(stopping[j].target)
        BY <2>1, <3>2, TargetsSound DEF WorkersSound, KillsSound
      <4>2. QED
        BY <2>1, <4>1
    <3>3. QED
      BY <3>1, <3>2
  <2>6. \A n \in Mount : Evicted(n) => Evicted(n)'
    BY <2>1, Keys DEF Evicted
  <2>7. QED
    BY <2>1, <2>3, <2>4, <2>5, <2>6
<1>3. QED
  BY <1>1, <1>2

\* Whoever stops to run is dead, whoever is dropped does not run any more.
LEMMA Dropped ==
    ASSUME WorkersSound, NEW m, Drop(m)
    PROVE  /\ pool' \in Seq(Mount) /\ IsInjective(pool')
           /\ \A w : Contains(pool', w) <=> Contains(pool, w) /\ w # m
BY RemovedPool DEF WorkersSound, TypeOK, Drop

LEMMA Died ==
    ASSUME WorkersSound, NEW m \in Mount, Dies(m)
    PROVE  /\ thread' \in [Mount -> {"none", "boot", "up", "dead", "exited"}]
           /\ \A n \in Mount : n # m => thread'[n] = thread[n]
           /\ thread'[m] = IF Runs(m) THEN "dead" ELSE thread[m]
BY DEF WorkersSound, TypeOK, Dies, Runs

LEMMA BootReadyKeeps ==
    ASSUME WorkersSound, NEW m \in Mount, BootReady(m) PROVE WorkersSound'
<1>1. /\ spawn[m] = "booting" /\ thread[m] = "boot"
      /\ UNCHANGED <<mount, routed, pool, stopping, crashed, call, posted>>
  BY DEF BootReady, KeepCalls
<1>2. /\ thread' \in [Mount -> {"none", "boot", "up", "dead", "exited"}]
      /\ spawn' \in [Mount -> {"none", "asked", "booting", "failing", "failed", "done"}]
      /\ thread'[m] = "up" /\ spawn'[m] = "done"
      /\ \A n \in Mount : n # m => thread'[n] = thread[n] /\ spawn'[n] = spawn[n]
  BY DEF BootReady, GotoSpawn, WorkersSound, TypeOK
<1>3. /\ stopping' \in [Reason \X Mount -> StopRecord]
      /\ EvictionsSound' /\ ClosesSound' /\ KillsSound'
      /\ \A n \in Mount : Evicted(n) => Evicted(n)'
  BY <1>1, <1>2, StopsKept DEF Runs
<1>4. TypeOK'
  BY <1>1, <1>2 DEF WorkersSound, TypeOK
<1>5. SpawnsSound'
  BY <1>1, <1>2 DEF WorkersSound, SpawnsSound, Runs, Pooled
<1>6. EndsSound'
  BY <1>1, <1>2, <1>3 DEF WorkersSound, EndsSound
<1>7. CallsSound'
  BY <1>1, <1>2 DEF WorkersSound, CallsSound
<1>8. QED
  BY <1>3, <1>4, <1>5, <1>6, <1>7 DEF WorkersSound

LEMMA BootFailsKeeps ==
    ASSUME WorkersSound, NEW m \in Mount, BootFails(m) PROVE WorkersSound'
<1>1. /\ spawn[m] = "booting" /\ Drop(m) /\ Dies(m)
      /\ UNCHANGED <<mount, routed, stopping, crashed, call, posted>>
  BY DEF BootFails, KeepCalls
<1>2. /\ spawn' \in [Mount -> {"none", "asked", "booting", "failing", "failed", "done"}]
      /\ spawn'[m] = "failing" /\ \A n \in Mount : n # m => spawn'[n] = spawn[n]
  BY DEF BootFails, GotoSpawn, WorkersSound, TypeOK
<1>3. /\ thread' \in [Mount -> {"none", "boot", "up", "dead", "exited"}]
      /\ \A n \in Mount : n # m => thread'[n] = thread[n]
      /\ thread'[m] = IF Runs(m) THEN "dead" ELSE thread[m]
  BY <1>1, Died
<1>4. /\ pool' \in Seq(Mount) /\ IsInjective(pool')
      /\ \A w : Contains(pool', w) <=> Contains(pool, w) /\ w # m
  BY <1>1, Dropped
<1>5. \A n \in Mount : /\ thread'[n] = "none" <=> thread[n] = "none"
                       /\ thread'[n] = "exited" <=> thread[n] = "exited"
                       /\ thread'[n] \in {"boot", "up"} => Runs(n) /\ n # m
  BY <1>3 DEF Runs
<1>6. /\ stopping' \in [Reason \X Mount -> StopRecord]
      /\ EvictionsSound' /\ ClosesSound' /\ KillsSound'
      /\ \A n \in Mount : Evicted(n) => Evicted(n)'
  BY <1>1, <1>2, <1>5, StopsKept
<1>7. TypeOK'
  BY <1>1, <1>2, <1>3, <1>4 DEF WorkersSound, TypeOK
<1>8. SpawnsSound'
  BY <1>1, <1>2, <1>4, <1>5 DEF WorkersSound, SpawnsSound, Runs, Pooled
<1>9. EndsSound'
  BY <1>1, <1>2, <1>3, <1>6 DEF WorkersSound, EndsSound
<1>10. CallsSound'
  BY <1>1, <1>5 DEF WorkersSound, CallsSound
<1>11. QED
  BY <1>6, <1>7, <1>8, <1>9, <1>10 DEF WorkersSound

LEMMA CrashKeeps ==
    ASSUME WorkersSound, NEW m \in Mount, Crash(m) PROVE WorkersSound'
<1>1. /\ Runs(m) /\ Dies(m) /\ crashed' = crashed \cup {m}
      /\ UNCHANGED <<mount, routed, pool, spawn, stopping, call, posted>>
  BY DEF Crash, KeepCalls
<1>2. /\ thread' \in [Mount -> {"none", "boot", "up", "dead", "exited"}]
      /\ \A n \in Mount : n # m => thread'[n] = thread[n]
      /\ thread'[m] = "dead" /\ thread[m] \in {"boot", "up"}
  BY <1>1, Died DEF Runs
<1>3. /\ stopping' \in [Reason \X Mount -> StopRecord]
      /\ EvictionsSound' /\ ClosesSound' /\ KillsSound'
      /\ \A n \in Mount : Evicted(n) => Evicted(n)'
  BY <1>1, <1>2, StopsKept DEF Runs
<1>4. TypeOK'
  BY <1>1, <1>2 DEF WorkersSound, TypeOK
<1>5. SpawnsSound'
  BY <1>1, <1>2 DEF WorkersSound, SpawnsSound, Runs, Pooled
<1>6. EndsSound'
  BY <1>1, <1>2, <1>3 DEF WorkersSound, EndsSound
<1>7. CallsSound'
  BY <1>1, <1>2 DEF WorkersSound, CallsSound
<1>8. QED
  BY <1>3, <1>4, <1>5, <1>6, <1>7 DEF WorkersSound

\* The exit takes the worker from the map and settles its calls.
LEMMA ExitKeeps ==
    ASSUME WorkersSound, NEW m \in Mount, Exit(m) PROVE WorkersSound'
<1>1. /\ thread[m] = "dead" /\ Drop(m) /\ Settle(CallsOf(m)) /\ posted' \subseteq posted
      /\ UNCHANGED <<mount, routed, stopping, crashed>>
  BY DEF Exit
<1>2. /\ thread' \in [Mount -> {"none", "boot", "up", "dead", "exited"}]
      /\ thread'[m] = "exited" /\ \A n \in Mount : n # m => thread'[n] = thread[n]
  BY DEF Exit, WorkersSound, TypeOK
<1>3. /\ spawn' \in [Mount -> {"none", "asked", "booting", "failing", "failed", "done"}]
      /\ spawn'[m] = IF spawn[m] \in {"booting", "failing"} THEN "failed" ELSE spawn[m]
      /\ \A n \in Mount : n # m => spawn'[n] = spawn[n]
  BY DEF Exit, GotoSpawn, WorkersSound, TypeOK
<1>4. /\ pool' \in Seq(Mount) /\ IsInjective(pool')
      /\ \A w : Contains(pool', w) <=> Contains(pool, w) /\ w # m
  BY <1>1, Dropped
<1>5. /\ call' \in [Call -> CallRecord]
      /\ \A c \in Call : /\ call'[c].to = call[c].to
                         /\ call'[c].pc = IF call[c].to = m /\ call[c].pc = "pending"
                                          THEN "answered" ELSE call[c].pc
  BY <1>1, SettleTypes DEF WorkersSound, CallsOf
<1>6. /\ stopping' \in [Reason \X Mount -> StopRecord]
      /\ EvictionsSound' /\ ClosesSound' /\ KillsSound'
      /\ \A n \in Mount : Evicted(n) => Evicted(n)'
  BY <1>1, <1>2, <1>3, StopsKept DEF Runs
<1>7. TypeOK'
  BY <1>1, <1>2, <1>3, <1>4, <1>5 DEF WorkersSound, TypeOK, CallRecord
<1>8. SpawnsSound'
  BY <1>1, <1>2, <1>3, <1>4 DEF WorkersSound, SpawnsSound, Runs, Pooled
<1>9. EndsSound'
  BY <1>1, <1>2, <1>3, <1>6 DEF WorkersSound, EndsSound
<1>10. CallsSound'
  BY <1>2, <1>5 DEF WorkersSound, CallsSound
<1>11. QED
  BY <1>6, <1>7, <1>8, <1>9, <1>10 DEF WorkersSound

LEMMA CloseArrivesKeeps ==
    ASSUME WorkersSound, NEW m \in Mount, CloseArrives(m) PROVE WorkersSound'
<1>1. /\ stopping[<<"close", m>>].pc = "asked" /\ <<"close", m>> \in Reason \X Mount
      /\ UNCHANGED <<mount, routed, pool, thread, spawn, crashed, call, posted>>
  BY Keys DEF CloseArrives, KeepCalls
<1>2. \E p \in {"grace", "done"} : GotoStop(<<"close", m>>, p)
  BY DEF CloseArrives
<1>3. /\ stopping' \in [Reason \X Mount -> StopRecord]
      /\ EvictionsSound' /\ ClosesSound' /\ KillsSound'
      /\ \A n \in Mount : Evicted(n) => Evicted(n)'
  BY <1>1, <1>2, StopsKept DEF Runs
<1>4. TypeOK'
  BY <1>1, <1>3 DEF WorkersSound, TypeOK, StopRecord
<1>5. SpawnsSound' /\ CallsSound'
  BY <1>1 DEF WorkersSound, SpawnsSound, CallsSound, Runs, Pooled
<1>6. EndsSound'
  BY <1>1, <1>3 DEF WorkersSound, EndsSound
<1>7. QED
  BY <1>3, <1>4, <1>5, <1>6 DEF WorkersSound

LEMMA KillKeeps ==
    ASSUME WorkersSound, NEW k \in Reason \X Mount, Kill(k) PROVE WorkersSound'
<1> DEFINE w == stopping[k].target
<1>1. /\ stopping[k].pc = "grace" /\ Dies(w) /\ GotoStop(k, "killed")
      /\ UNCHANGED <<mount, routed, pool, spawn, crashed, call, posted>>
  BY DEF Kill, KeepCalls
<1>2. w \in Mount /\ thread[w] # "none"
  BY <1>1, TargetsSound
<1>3. /\ thread' \in [Mount -> {"none", "boot", "up", "dead", "exited"}]
      /\ \A n \in Mount : n # w => thread'[n] = thread[n]
      /\ thread'[w] = IF Runs(w) THEN "dead" ELSE thread[w]
  BY <1>1, <1>2, Died
<1>4. \A n \in Mount : /\ thread'[n] = "none" <=> thread[n] = "none"
                       /\ thread'[n] = "exited" <=> thread[n] = "exited"
                       /\ thread'[n] \in {"boot", "up"} => Runs(n) /\ n # w
  BY <1>3 DEF Runs
<1>5. /\ stopping' \in [Reason \X Mount -> StopRecord]
      /\ EvictionsSound' /\ ClosesSound' /\ KillsSound'
      /\ \A n \in Mount : Evicted(n) => Evicted(n)'
  <2>1. thread'[w] \notin {"boot", "up"}
    BY <1>2, <1>4
  <2>2. \E j \in Reason \X Mount, p \in {"grace", "killed", "done"} :
           /\ GotoStop(j, p) /\ stopping[j].pc # "no"
           /\ p = "killed" => thread'[stopping[j].target] \notin {"boot", "up"}
    BY <1>1, <2>1
  <2>3. QED
    BY <1>1, <1>4, <2>2, StopsKept
<1>6. TypeOK'
  BY <1>1, <1>3, <1>5 DEF WorkersSound, TypeOK, StopRecord
<1>7. SpawnsSound'
  BY <1>1, <1>4 DEF WorkersSound, SpawnsSound, Runs, Pooled
<1>8. EndsSound'
  <2>1. Evicted(w) \/ mount[w] = "gone"
    <3>1. PICK m \in Mount : k \in {<<"close", m>>, <<"evict", m>>}
      BY Keys
    <3>2. CASE k = <<"close", m>>
      BY <1>1, <3>2 DEF WorkersSound, ClosesSound
    <3>3. CASE k = <<"evict", m>>
      BY <3>3 DEF Evicted
    <3>4. QED
      BY <3>1, <3>2, <3>3
  <2>2. QED
    BY <1>1, <1>2, <1>3, <1>5, <2>1 DEF WorkersSound, EndsSound
<1>9. CallsSound'
  BY <1>1, <1>4 DEF WorkersSound, CallsSound
<1>10. QED
  BY <1>5, <1>6, <1>7, <1>8, <1>9 DEF WorkersSound

\* What a termination takes out of the map does not run any more.
LEMMA TerminateEndsKeeps ==
    ASSUME WorkersSound, NEW k \in Reason \X Mount, TerminateEnds(k) PROVE WorkersSound'
<1> DEFINE w == stopping[k].target
<1>1. /\ stopping[k].pc # "no" /\ Drop(w) /\ GotoStop(k, "done")
      /\ stopping[k].pc = "killed" \/ thread[w] = "exited"
      /\ UNCHANGED <<mount, routed, thread, spawn, crashed, call, posted>>
  BY DEF TerminateEnds, KeepCalls
<1>2. w \in Mount /\ ~Runs(w)
  BY <1>1, TargetsSound DEF WorkersSound, KillsSound, Runs
<1>3. /\ pool' \in Seq(Mount) /\ IsInjective(pool')
      /\ \A n : Contains(pool', n) <=> Contains(pool, n) /\ n # w
  BY <1>1, Dropped
<1>4. /\ stopping' \in [Reason \X Mount -> StopRecord]
      /\ EvictionsSound' /\ ClosesSound' /\ KillsSound'
      /\ \A n \in Mount : Evicted(n) => Evicted(n)'
  <2>1. \E j \in Reason \X Mount, p \in {"grace", "killed", "done"} :
           /\ GotoStop(j, p) /\ stopping[j].pc # "no"
           /\ p = "killed" => thread'[stopping[j].target] \notin {"boot", "up"}
    BY <1>1
  <2>2. QED
    BY <1>1, <2>1, StopsKept DEF Runs
<1>5. TypeOK'
  BY <1>1, <1>3, <1>4 DEF WorkersSound, TypeOK, StopRecord
<1>6. SpawnsSound'
  BY <1>1, <1>2, <1>3 DEF WorkersSound, SpawnsSound, Runs, Pooled
<1>7. EndsSound'
  BY <1>1, <1>4 DEF WorkersSound, EndsSound
<1>8. CallsSound'
  BY <1>1 DEF WorkersSound, CallsSound
<1>9. QED
  BY <1>4, <1>5, <1>6, <1>7, <1>8 DEF WorkersSound

LEMMA NextKeepsWorkers == WorkersSound /\ [Next]_vars => WorkersSound'
<1> SUFFICES ASSUME WorkersSound, [Next]_vars PROVE WorkersSound'
  OBVIOUS
<1>1. ASSUME NEW m \in Mount,
             \/ Begin(m) \/ SpawnReturns(m) \/ Unmount(m)
             \/ Spawn(m) \/ BootReady(m) \/ BootFails(m)
             \/ CloseArrives(m) \/ Exit(m) \/ Crash(m)
      PROVE  WorkersSound'
  BY <1>1, BeginKeeps, SpawnReturnsKeeps, UnmountKeeps, SpawnKeeps, BootReadyKeeps,
     BootFailsKeeps, CloseArrivesKeeps, ExitKeeps, CrashKeeps
<1>2. ASSUME NEW c \in Call, NEW m \in Mount, AppCall(c, m) \/ WorkerCall(c, m)
      PROVE  WorkersSound'
  BY <1>2, AppCallKeeps
<1>3. ASSUME NEW c \in Call, CallArrives(c) \/ Response(c) \/ CallTimesOut(c)
      PROVE  WorkersSound'
  BY <1>3, CallArrivesKeeps, AnswerKeeps
<1>4. ASSUME NEW k \in Reason \X Mount, Kill(k) \/ TerminateEnds(k) PROVE WorkersSound'
  BY <1>4, KillKeeps, TerminateEndsKeeps
<1>5. CASE UNCHANGED vars
  <2>1. KeepWorkers /\ UNCHANGED <<call, posted>>
    BY <1>5 DEF vars, KeepWorkers
  <2>2. TypeOK'
    BY <2>1 DEF WorkersSound, TypeOK, KeepWorkers
  <2>3. CallsSound'
    BY <2>1 DEF WorkersSound, CallsSound, KeepWorkers
  <2>4. QED
    BY <2>1, <2>2, <2>3, CallsAlone
<1>6. QED
  BY <1>1, <1>2, <1>3, <1>4, <1>5 DEF Next

-----------------------------------------------------------------------------
(***************************************************************************)
(* What the invariant implies.                                             *)
(***************************************************************************)
\* Spawns, terminations, ends of threads and calls agree with the map of the
\* pool as WorkersSound says (spawn, terminate, call in worker-pool.ts).
THEOREM WorkersInvariance == Spec => []WorkersSound
BY InitWorkers, NextKeepsWorkers, PTL DEF Spec

\* A thread that runs is in the map, where the cap counts it, and no call waits
\* for a worker whose exit was handled, however many terminations of one worker
\* overlap.
THEOREM PoolIsConsistent == Spec => []PoolInv
<1>1. WorkersSound => PoolInv
  BY DEF WorkersSound, PoolInv, NoCallOfTheGone, RunningIsPooled, SpawnsSound, CallsSound
<1>2. QED
  BY <1>1, WorkersInvariance, PTL

\* A window that is open has its worker, unless that crashed or was evicted for
\* the cap: what other windows of the app close is never this one's.
THEOREM WindowsKeepTheirWorker == Spec => []OpenHasItsWorker
<1>1. WorkersSound => OpenHasItsWorker
  <2> SUFFICES ASSUME WorkersSound, NEW m \in Mount, mount[m] = "open", ~Pooled(m)
               PROVE  m \in crashed \/ \E n \in Mount : stopping[<<"evict", n>>].target = m
    BY DEF OpenHasItsWorker
  <2>1. spawn[m] = "done" /\ ~Runs(m) /\ thread[m] # "none"
    BY DEF WorkersSound, SpawnsSound
  <2>2. thread[m] \in {"dead", "exited"}
    BY <2>1 DEF WorkersSound, TypeOK, Runs
  <2>3. QED
    BY <2>1, <2>2 DEF WorkersSound, EndsSound, Evicted
<1>2. QED
  BY <1>1, WorkersInvariance, PTL
=============================================================================
