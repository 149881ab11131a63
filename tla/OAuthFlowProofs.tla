--------------------------- MODULE OAuthFlowProofs ---------------------------
(***************************************************************************)
(* Proofs about OAuthFlow, for any number of attempts and revocations.     *)
(*                                                                         *)
(* What is checked of a flow is not inductive: that the flow which commits *)
(* is the pending one, unless the timer gave it up, rests on what a start  *)
(* may assume when it has its turn, and that rests on flowStartOwners.     *)
(* FlowsSound adds it: the owner of the start is the last call that began  *)
(* and was neither replaced nor revoked, what is pending while it prepares *)
(* is at most the flow it waits for, and no flow was started by a call     *)
(* that began after the one whose flow is pending.                         *)
(***************************************************************************)
EXTENDS OAuthFlow, FiniteSetTheorems, TLAPS

Live == {"waiting", "exchanging", "committing"}

BegunNow == {b \in Attempt : HasBegun(b)}

\* A flow exists once its call has started it.  A callback works on a flow that
\* exists, and commits only while the flow is pending, or after the timer.
PhasesSound ==
    \A a \in Attempt :
        /\ phase[a] = "none" <=> pc[a] # "started"
        /\ task[a] = "exchanging" => phase[a] \in {"exchanging", "settled"}
        /\ task[a] = "committing" =>
              \/ phase[a] = "committing" /\ pending = a
              \/ phase[a] = "settled"
        /\ phase[a] = "committing" => task[a] = "committing"
        /\ pending = a => phase[a] \in Live

\* The start owner has a start or a flow under way, and nobody else's flow is
\* pending, except the one that it waits for.
OwnerSound ==
    \A a \in Attempt : owner = a =>
        /\ pc[a] \in {"settling", "binding", "started"}
        /\ pc[a] = "settling" => pending \in {None, awaits[a]}
        /\ pc[a] = "binding" => pending = None
        /\ pc[a] = "started" => pending = a

\* A server listens from the registration on, or from the start of its flow, and
\* not after the flow.
ServersSound ==
    \A a \in open :
        /\ a \in Registering \/ pc[a] = "started"
        /\ pc[a] \in {"registering", "unregistered", "ready", "settling", "started"}
        /\ pc[a] = "started" => pending = a

\* The owner began last, and no flow belongs to a later call than the pending
\* one.
OrderSound ==
    /\ IsFiniteSet(BegunNow)
    /\ \A a \in Attempt : order[a] <= Cardinality(BegunNow)
    /\ \A a, b \in Attempt : owner = a => order[b] <= order[a]
    /\ \A a \in Attempt : winner = a => pc[a] = "started"
    /\ \A a, b \in Attempt :
          pc[a] = "started" /\ pending = b => order[a] <= order[b]

\* An attempt that a revocation found begun can store a token only as long as
\* the revocation waits for its flow.
RevokersSound ==
    \A r \in Revoker : \A a \in earlier[r] :
        /\ HasBegun(a) /\ owner # a
        /\ pending = a => revoker[r] = "settling" /\ awaits[r] = a

FlowsSound ==
    TypeOK /\ PhasesSound /\ OwnerSound /\ ServersSound /\ OrderSound
    /\ RevokersSound

-----------------------------------------------------------------------------
(***************************************************************************)
(* The two ways in which a flow is given up.                               *)
(***************************************************************************)
FlowEnds(a) ==
    /\ phase' = [phase EXCEPT ![a] = "settled"]
    /\ open' = open \ {a}
    /\ pending' = IF pending = a THEN None ELSE pending
    /\ owner' = IF owner = a THEN None ELSE owner

\* A callback works on a flow that was started, and so does whatever is pending.
LEMMA WorkIsStarted ==
    ASSUME FlowsSound, NEW a \in Attempt,
           \/ task[a] # "none" \/ pending = a \/ phase[a] = "waiting"
    PROVE  pc[a] = "started" /\ phase[a] # "none"
BY DEF FlowsSound, TypeOK, PhasesSound, Live

\* Of a flow that is settled nothing is left to clean up, so that cleanupFlow
\* does the same whether or not it was called before.
LEMMA CleanupEndsFlow ==
    ASSUME FlowsSound, NEW a \in Attempt, pc[a] = "started", CleanupFlow(a)
    PROVE  FlowEnds(a)
<1>1. CASE phase[a] = "settled"
  <2>1. pending # a /\ a \notin open
    BY <1>1 DEF FlowsSound, PhasesSound, ServersSound, Live
  <2>2. owner # a
    BY <2>1 DEF FlowsSound, OwnerSound
  <2>3. phase = [phase EXCEPT ![a] = "settled"]
    BY <1>1 DEF FlowsSound, TypeOK
  <2>4. QED
    BY <1>1, <2>1, <2>2, <2>3 DEF CleanupFlow, FlowEnds
<1>2. CASE phase[a] # "settled"
  BY <1>2 DEF CleanupFlow, FlowEnds, EnterPhase
<1>3. QED
  BY <1>1, <1>2

\* settlePendingFlow leaves a pending flow only to one that commits, and then
\* its caller awaits it.
LEMMA SettleLeavesCommit ==
    ASSUME FlowsSound, NEW x \in Attempt \cup Revoker, NEW o \in Attempt \cup {None},
           o # None => pc[o] # "started",
           SettlePendingFlow(x, o)
    PROVE  /\ owner' = o
           /\ awaits' \in [Attempt \cup Revoker -> Attempt \cup {None}]
           /\ \A y \in Attempt \cup Revoker : y # x => awaits'[y] = awaits[y]
           /\ \/ /\ pending' = pending /\ UNCHANGED <<phase, open>>
                 /\ pending \in {None, awaits'[x]}
              \/ \E p \in Attempt :
                    /\ pending = p /\ pending' = None /\ phase[p] # "committing"
                    /\ phase' = [phase EXCEPT ![p] = "settled"]
                    /\ open' = open \ {p}
<1>1. awaits \in [Attempt \cup Revoker -> Attempt \cup {None}]
      /\ pending \in Attempt \cup {None}
  BY DEF FlowsSound, TypeOK
<1>2. CASE pending = None
  BY <1>1, <1>2 DEF SettlePendingFlow
<1>3. CASE pending # None /\ phase[pending] = "committing"
  BY <1>1, <1>3 DEF SettlePendingFlow
<1>4. CASE pending # None /\ phase[pending] # "committing"
  <2>1. pending \in Attempt /\ o # pending
    BY <1>1, <1>4, WorkIsStarted
  <2>2. QED
    BY <1>1, <1>4, <2>1 DEF SettlePendingFlow, EnterPhase
<1>5. QED
  BY <1>2, <1>3, <1>4

-----------------------------------------------------------------------------
(***************************************************************************)
(* FlowsSound is inductive.                                                *)
(***************************************************************************)
LEMMA InitFlows == Init => FlowsSound
<1> SUFFICES ASSUME Init PROVE FlowsSound
  OBVIOUS
<1>1. TypeOK
  BY FlowAssumption
     DEF Init, TypeOK, CredentialInit, CredentialTypeOK, Token, Phase
<1>2. BegunNow = {}
  BY DEF Init, BegunNow, HasBegun, Begun
<1>3. OrderSound
  <2>1. IsFiniteSet({}) /\ Cardinality({}) = 0
    BY FS_EmptySet
  <2>2. IsFiniteSet(BegunNow) /\ Cardinality(BegunNow) = 0
    BY <1>2, <2>1
  <2>3. /\ owner \notin Attempt /\ winner \notin Attempt
        /\ \A a \in Attempt : order[a] = 0
    BY FlowAssumption DEF Init
  <2>4. QED
    BY <2>2, <2>3 DEF OrderSound
<1>4. PhasesSound /\ OwnerSound /\ ServersSound /\ RevokersSound
  BY FlowAssumption
     DEF Init, PhasesSound, OwnerSound, ServersSound, RevokersSound
<1>5. QED
  BY <1>1, <1>3, <1>4 DEF FlowsSound

\* The order stays as sound as it was while no call begins, no token is stored
\* and no flow becomes pending.
LEMMA OrderKept ==
    ASSUME FlowsSound, BegunNow' = BegunNow, UNCHANGED <<order, pc>>,
           winner' = winner \/ pc[winner'] = "started",
           owner' \in {owner, None}, pending' \in {pending, None}
    PROVE  OrderSound'
BY FlowAssumption DEF FlowsSound, OrderSound

\* A flow ends: it is refused, fails, is given up by the timer, was replaced, or
\* has stored its token.
LEMMA EndKeeps ==
    ASSUME FlowsSound, NEW a \in Attempt, pc[a] = "started", FlowEnds(a),
           task' \in {task, [task EXCEPT ![a] = "none"]},
           winner' \in {winner, a},
           CredentialTypeOK', UNCHANGED <<pc, awaits, revoker, earlier, order, rotations>>
    PROVE  FlowsSound'
<1>1. TypeOK'
  BY DEF FlowsSound, TypeOK, FlowEnds, Phase
<1> USE FlowAssumption
<1>2. PhasesSound'
  BY DEF FlowsSound, TypeOK, PhasesSound, FlowEnds, Live
<1>3. OwnerSound'
  BY DEF FlowsSound, TypeOK, OwnerSound, FlowEnds
<1>4. ServersSound'
  BY DEF FlowsSound, TypeOK, ServersSound, FlowEnds
<1>5. OrderSound'
  <2>1. BegunNow' = BegunNow
    BY DEF BegunNow, HasBegun
  <2>2. owner' \in {owner, None} /\ pending' \in {pending, None}
    BY DEF FlowEnds
  <2>3. QED
    BY <2>1, <2>2, OrderKept
<1>6. RevokersSound'
  BY DEF FlowsSound, TypeOK, RevokersSound, FlowEnds, HasBegun
<1>7. QED
  BY <1>1, <1>2, <1>3, <1>4, <1>5, <1>6 DEF FlowsSound

\* What concerns the order and the revocations is kept by the steps of a call
\* that are not its beginning, if its flow becomes pending as it starts.
LEMMA StartKeeps ==
    ASSUME FlowsSound, NEW a \in Attempt, NEW p, Goto(a, p),
           p \in Begun <=> HasBegun(a),
           owner' \in {owner, None}, UNCHANGED <<task, order, winner, earlier, revoker>>,
           winner # a,
           \/ pending' = pending /\ p # "started"
           \/ pending' = a /\ owner = a,
           \A r \in Revoker : awaits'[r] = awaits[r]
    PROVE  OrderSound' /\ RevokersSound'
<1> USE FlowAssumption
<1>1. \A b \in Attempt : HasBegun(b)' <=> HasBegun(b)
  BY DEF FlowsSound, TypeOK, Goto, HasBegun
<1>2. BegunNow' = BegunNow
  BY <1>1 DEF BegunNow
<1>3. OrderSound'
  <2>1. \A b \in Attempt : b # a => pc'[b] = pc[b]
    BY DEF FlowsSound, TypeOK, Goto
  <2>2. pc'[a] = p
    BY DEF FlowsSound, TypeOK, Goto
  <2>3. ASSUME NEW b \in Attempt, NEW c \in Attempt, pc'[b] = "started", pending' = c
        PROVE  order[b] <= order[c]
    BY <2>1, <2>2, <2>3 DEF FlowsSound, OrderSound
  <2>4. \A b \in Attempt : winner = b => pc'[b] = "started"
    BY <2>1 DEF FlowsSound, OrderSound
  <2>5. QED
    BY <1>2, <2>3, <2>4 DEF FlowsSound, OrderSound
<1>4. RevokersSound'
  BY <1>1 DEF FlowsSound, TypeOK, RevokersSound
<1>5. QED
  BY <1>3, <1>4

LEMMA AuthorizeKeeps ==
    ASSUME FlowsSound, NEW a \in Attempt, Authorize(a) PROVE FlowsSound'
<1> USE FlowAssumption
<1> PICK p \in {"registering", "ready"} :
      /\ Goto(a, p)
      /\ p = "registering" <=> a \in Registering
      /\ open' = IF p = "registering" THEN open \cup {a} ELSE open
  BY DEF Authorize
<1>1. /\ pc[a] = "idle"
      /\ UNCHANGED <<credential, owner, pending, phase, task, awaits, revoker, history>>
  BY DEF Authorize
<1>2. TypeOK'
  BY <1>1 DEF FlowsSound, TypeOK, Goto, credential, history, CredentialTypeOK
<1>3. PhasesSound' /\ OwnerSound'
  BY <1>1 DEF FlowsSound, TypeOK, PhasesSound, OwnerSound, Goto
<1>4. ServersSound'
  BY <1>1 DEF FlowsSound, TypeOK, ServersSound, Goto
<1>5. winner # a
  BY <1>1 DEF FlowsSound, OrderSound
<1>6. OrderSound' /\ RevokersSound'
  BY <1>1, <1>5, StartKeeps DEF HasBegun, Begun, history
<1>7. QED
  BY <1>2, <1>3, <1>4, <1>6 DEF FlowsSound

LEMMA RegisterKeeps ==
    ASSUME FlowsSound, NEW a \in Attempt, Register(a) PROVE FlowsSound'
<1> USE FlowAssumption
<1> PICK p \in {"ready", "unregistered"} : Goto(a, p)
  BY DEF Register
<1>1. pc[a] = "registering"
      /\ UNCHANGED <<credential, owner, pending, phase, task, awaits, open, revoker, history>>
  BY DEF Register
<1>2. TypeOK'
  BY <1>1 DEF FlowsSound, TypeOK, Goto, credential, history, CredentialTypeOK
<1>3. PhasesSound' /\ OwnerSound'
  BY <1>1 DEF FlowsSound, TypeOK, PhasesSound, OwnerSound, Goto
<1>4. ServersSound'
  BY <1>1 DEF FlowsSound, TypeOK, ServersSound, Goto
<1>5. winner # a
  BY <1>1 DEF FlowsSound, OrderSound
<1>6. OrderSound' /\ RevokersSound'
  BY <1>1, <1>5, StartKeeps DEF HasBegun, Begun, history
<1>7. QED
  BY <1>2, <1>3, <1>4, <1>6 DEF FlowsSound

\* A start that lost its turn closes its server.
LEMMA SupersededKeeps ==
    ASSUME FlowsSound, NEW a \in Attempt, pc[a] \in {"settling", "binding"},
           owner # a, Superseded(a),
           awaits' \in [Attempt \cup Revoker -> Attempt \cup {None}],
           \A x \in Attempt \cup Revoker : x # a => awaits'[x] = awaits[x],
           UNCHANGED <<credential, task, revoker, history>>
    PROVE  FlowsSound'
<1> USE FlowAssumption
<1>1. Goto(a, "superseded") /\ open' = open \ {a} /\ UNCHANGED <<owner, pending, phase>>
  BY DEF Superseded
<1>2. TypeOK'
  BY <1>1 DEF FlowsSound, TypeOK, Goto, Begun, credential, history, CredentialTypeOK
<1>3. PhasesSound' /\ OwnerSound'
  BY <1>1 DEF FlowsSound, TypeOK, PhasesSound, OwnerSound, Goto
<1>4. ServersSound'
  BY <1>1 DEF FlowsSound, TypeOK, ServersSound, Goto
<1>5. winner # a
  BY <1>1 DEF FlowsSound, OrderSound
<1>6. OrderSound' /\ RevokersSound'
  BY <1>1, <1>5, StartKeeps DEF HasBegun, Begun, history
<1>7. QED
  BY <1>2, <1>3, <1>4, <1>6 DEF FlowsSound

\* A start whose turn it is finds nothing pending, and its flow becomes the
\* pending one.
LEMMA MaterializeKeeps ==
    ASSUME FlowsSound, NEW a \in Attempt, pc[a] \in {"settling", "binding"},
           owner = a, pending = None, Materialize(a), open' \in {open, open \cup {a}},
           awaits' \in [Attempt \cup Revoker -> Attempt \cup {None}],
           \A x \in Attempt \cup Revoker : x # a => awaits'[x] = awaits[x],
           UNCHANGED <<credential, task, revoker, history>>
    PROVE  FlowsSound'
<1> USE FlowAssumption
<1>1. /\ Goto(a, "started") /\ phase' = [phase EXCEPT ![a] = "waiting"]
      /\ pending' = a /\ owner' = owner
  BY DEF Materialize, EnterPhase
<1>2. TypeOK'
  BY <1>1 DEF FlowsSound, TypeOK, Goto, Begun, Phase, credential, history, CredentialTypeOK
<1>3. phase[a] = "none" /\ task[a] = "none"
  BY DEF FlowsSound, TypeOK, PhasesSound
<1>4. PhasesSound'
  BY <1>1, <1>3 DEF FlowsSound, TypeOK, PhasesSound, Goto, Live
<1>5. OwnerSound'
  BY <1>1 DEF FlowsSound, TypeOK, OwnerSound, Goto
<1>6. ServersSound'
  BY <1>1 DEF FlowsSound, TypeOK, ServersSound, Goto
<1>7. winner # a
  BY DEF FlowsSound, OrderSound
<1>8. OrderSound' /\ RevokersSound'
  BY <1>1, <1>7, StartKeeps DEF HasBegun, Begun, history
<1>9. QED
  BY <1>2, <1>4, <1>5, <1>6, <1>8 DEF FlowsSound

LEMMA ResumeKeeps ==
    ASSUME FlowsSound, NEW a \in Attempt, Resume(a) PROVE FlowsSound'
<1> USE FlowAssumption
<1>1. /\ pc[a] = "settling" /\ Settled(a)
      /\ awaits' = [awaits EXCEPT ![a] = None]
      /\ UNCHANGED <<credential, task, revoker, history>>
  BY DEF Resume
<1>2. /\ awaits' \in [Attempt \cup Revoker -> Attempt \cup {None}]
      /\ \A x \in Attempt \cup Revoker : x # a => awaits'[x] = awaits[x]
  BY <1>1 DEF FlowsSound, TypeOK
<1>3. CASE owner # a
  BY <1>1, <1>2, <1>3, SupersededKeeps DEF Resume
<1>4. CASE owner = a
  <2>1. pending = None
    BY <1>1, <1>4 DEF FlowsSound, TypeOK, OwnerSound, PhasesSound, Live, Settled
  <2>2. CASE a \in Registering
    BY <1>1, <1>2, <1>4, <2>1, <2>2, MaterializeKeeps DEF Resume
  <2>3. CASE a \notin Registering
    <3>1. Goto(a, "binding") /\ UNCHANGED <<owner, pending, phase, open>>
      BY <1>4, <2>3 DEF Resume
    <3>2. TypeOK'
      BY <1>1, <1>2, <3>1
         DEF FlowsSound, TypeOK, Goto, Begun, credential, history, CredentialTypeOK
    <3>3. PhasesSound'
      BY <1>1, <3>1 DEF FlowsSound, TypeOK, PhasesSound, Goto
    <3>4. OwnerSound'
      BY <1>2, <1>4, <2>1, <3>1 DEF FlowsSound, TypeOK, OwnerSound, Goto
    <3>5. ServersSound'
      BY <1>1, <2>3, <3>1 DEF FlowsSound, TypeOK, ServersSound, Goto
    <3>6. winner # a
      BY <1>1 DEF FlowsSound, OrderSound
    <3>7. OrderSound' /\ RevokersSound'
      BY <1>1, <1>2, <3>1, <3>6, StartKeeps DEF HasBegun, Begun, history
    <3>8. QED
      BY <3>2, <3>3, <3>4, <3>5, <3>7 DEF FlowsSound
  <2>4. QED
    BY <2>2, <2>3
<1>5. QED
  BY <1>3, <1>4

LEMMA BoundKeeps ==
    ASSUME FlowsSound, NEW a \in Attempt, Bound(a) PROVE FlowsSound'
<1>1. pc[a] = "binding" /\ UNCHANGED <<credential, task, awaits, revoker, history>>
  BY DEF Bound
<1>2. awaits' \in [Attempt \cup Revoker -> Attempt \cup {None}]
      /\ \A x \in Attempt \cup Revoker : x # a => awaits'[x] = awaits[x]
  BY <1>1 DEF FlowsSound, TypeOK
<1>3. CASE owner # a
  BY <1>1, <1>2, <1>3, SupersededKeeps DEF Bound
<1>4. CASE owner = a
  <2>1. pending = None
    BY <1>1, <1>4 DEF FlowsSound, OwnerSound
  <2>2. QED
    BY <1>1, <1>2, <1>4, <2>1, MaterializeKeeps DEF Bound
<1>5. QED
  BY <1>3, <1>4

LEMMA BindFailsKeeps ==
    ASSUME FlowsSound, NEW a \in Attempt, BindFails(a) PROVE FlowsSound'
<1> USE FlowAssumption
<1>1. /\ pc[a] = "binding" /\ Goto(a, "failed")
      /\ owner' = IF owner = a THEN None ELSE owner
      /\ UNCHANGED <<credential, pending, phase, task, awaits, open, revoker, history>>
  BY DEF BindFails
<1>2. TypeOK'
  BY <1>1 DEF FlowsSound, TypeOK, Goto, Begun, credential, history, CredentialTypeOK
<1>3. PhasesSound' /\ OwnerSound'
  BY <1>1 DEF FlowsSound, TypeOK, PhasesSound, OwnerSound, Goto
<1>4. ServersSound'
  BY <1>1 DEF FlowsSound, TypeOK, ServersSound, Goto
<1>5. winner # a
  BY <1>1 DEF FlowsSound, OrderSound
<1>6. OrderSound' /\ RevokersSound'
  BY <1>1, <1>5, StartKeeps DEF HasBegun, Begun, history
<1>7. QED
  BY <1>2, <1>3, <1>4, <1>6 DEF FlowsSound

\* A call begins: it owns the start, and nobody began after it.
LEMMA BeginStartKeeps ==
    ASSUME FlowsSound, NEW a \in Attempt, BeginStart(a) PROVE FlowsSound'
<1> USE FlowAssumption
<1>1. /\ pc[a] = "ready" /\ Goto(a, "settling") /\ SettlePendingFlow(a, a)
      /\ order' = [order EXCEPT ![a] = 1 + Cardinality(BegunNow)]
      /\ UNCHANGED <<credential, task, revoker, earlier, winner>>
  BY DEF BeginStart, BegunNow
<1>2. /\ owner' = a
      /\ awaits' \in [Attempt \cup Revoker -> Attempt \cup {None}]
      /\ \A y \in Attempt \cup Revoker : y # a => awaits'[y] = awaits[y]
      /\ \/ /\ pending' = pending /\ UNCHANGED <<phase, open>>
            /\ pending \in {None, awaits'[a]}
         \/ \E p \in Attempt :
               /\ pending = p /\ pending' = None /\ phase[p] # "committing"
               /\ phase' = [phase EXCEPT ![p] = "settled"]
               /\ open' = open \ {p}
  BY <1>1, SettleLeavesCommit
<1>3. IsFiniteSet(BegunNow) /\ Cardinality(BegunNow) \in Nat /\ a \notin BegunNow
  BY <1>1, FS_CardinalityType DEF FlowsSound, OrderSound, BegunNow, HasBegun, Begun
<1>4. BegunNow' = BegunNow \cup {a}
  BY <1>1 DEF FlowsSound, TypeOK, Goto, BegunNow, HasBegun, Begun
<1>5. IsFiniteSet(BegunNow') /\ Cardinality(BegunNow') = 1 + Cardinality(BegunNow)
  BY <1>3, <1>4, FS_AddElement
<1>6. TypeOK'
  <2>1. phase' \in [Attempt -> Phase] /\ open' \subseteq Attempt
        /\ pending' \in Attempt \cup {None}
    BY <1>2 DEF FlowsSound, TypeOK, Phase
  <2>2. pc' \in [Attempt -> {"idle", "registering", "ready", "unregistered"} \cup Begun]
    BY <1>1 DEF FlowsSound, TypeOK, Goto, Begun
  <2>3. order' \in [Attempt -> Nat]
    BY <1>1, <1>3 DEF FlowsSound, TypeOK
  <2>4. QED
    BY <1>1, <1>2, <2>1, <2>2, <2>3
       DEF FlowsSound, TypeOK, credential, CredentialTypeOK
<1>7. PhasesSound'
  BY <1>1, <1>2 DEF FlowsSound, TypeOK, PhasesSound, Goto, Live
<1>8. OwnerSound'
  BY <1>1, <1>2 DEF FlowsSound, TypeOK, OwnerSound, Goto
<1>9. ServersSound'
  BY <1>1, <1>2 DEF FlowsSound, TypeOK, ServersSound, Goto
<1>10. OrderSound'
  <2>1. \A b \in Attempt : order[b] \in Nat /\ order[b] <= Cardinality(BegunNow)
    BY DEF FlowsSound, TypeOK, OrderSound
  <2>2. \A b \in Attempt :
           order'[b] <= 1 + Cardinality(BegunNow) /\ order'[b] <= order'[a]
    BY <1>1, <1>3, <2>1 DEF FlowsSound, TypeOK
  <2>3. \A b \in Attempt : winner = b \/ pc'[b] = "started" \/ pending' = b =>
           b # a /\ pc[b] = "started"
    BY <1>1, <1>2, WorkIsStarted DEF FlowsSound, TypeOK, OrderSound, Goto
  <2>4. \A b \in Attempt : winner = b => pc'[b] = "started"
    BY <1>1, <2>3 DEF FlowsSound, TypeOK, Goto
  <2>5. ASSUME NEW b \in Attempt, NEW c \in Attempt, pc'[b] = "started", pending' = c
        PROVE  order'[b] <= order'[c]
    <3>1. pending = c
      BY <1>2, <2>5
    <3>2. order'[b] = order[b] /\ order'[c] = order[c] /\ pc[b] = "started"
      BY <1>1, <2>3, <2>5 DEF FlowsSound, TypeOK
    <3>3. QED
      BY <3>1, <3>2 DEF FlowsSound, OrderSound
  <2>6. QED
    BY <1>1, <1>2, <1>5, <2>2, <2>4, <2>5 DEF OrderSound
<1>11. RevokersSound'
  <2>1. \A b \in Attempt : HasBegun(b) => HasBegun(b)' /\ b # a
    BY <1>1 DEF FlowsSound, TypeOK, Goto, HasBegun, Begun
  <2>2. \A r \in Revoker : awaits'[r] = awaits[r]
    BY <1>2
  <2>3. QED
    BY <1>1, <1>2, <2>1, <2>2 DEF FlowsSound, TypeOK, RevokersSound
<1>12. QED
  BY <1>6, <1>7, <1>8, <1>9, <1>10, <1>11 DEF FlowsSound

\* The browser, the exchange of the code, the commit and the timer.
LEMMA CallbackRefusedKeeps ==
    ASSUME FlowsSound, NEW a \in Attempt, CallbackRefused(a) PROVE FlowsSound'
<1>1. /\ phase[a] = "waiting" /\ CleanupFlow(a)
      /\ UNCHANGED <<credential, pc, task, awaits, revoker, history>>
  BY DEF CallbackRefused
<1>2. pc[a] = "started" /\ FlowEnds(a)
  BY <1>1, WorkIsStarted, CleanupEndsFlow
<1>3. CredentialTypeOK'
  BY <1>1 DEF FlowsSound, TypeOK, CredentialTypeOK, credential
<1>4. QED
  BY <1>1, <1>2, <1>3, EndKeeps DEF credential, history

LEMMA CallbackCodeKeeps ==
    ASSUME FlowsSound, NEW a \in Attempt, CallbackCode(a) PROVE FlowsSound'
<1> USE FlowAssumption
<1>1. /\ phase[a] = "waiting" /\ phase' = [phase EXCEPT ![a] = "exchanging"]
      /\ task' = [task EXCEPT ![a] = "exchanging"]
      /\ UNCHANGED <<credential, owner, pending, pc, awaits, open, revoker, history>>
  BY DEF CallbackCode, EnterPhase
<1>2. TypeOK'
  BY <1>1 DEF FlowsSound, TypeOK, Phase, credential, history, CredentialTypeOK
<1>3. PhasesSound'
  BY <1>1 DEF FlowsSound, TypeOK, PhasesSound, Live
<1>4. OwnerSound' /\ ServersSound'
  BY <1>1 DEF FlowsSound, OwnerSound, ServersSound
<1>5. BegunNow' = BegunNow
  BY <1>1 DEF BegunNow, HasBegun
<1>6. OrderSound'
  BY <1>1, <1>5, OrderKept DEF history
<1>7. RevokersSound'
  BY <1>1 DEF FlowsSound, RevokersSound, HasBegun, history
<1>8. QED
  BY <1>2, <1>3, <1>4, <1>6, <1>7 DEF FlowsSound

LEMMA ExchangeEndsKeeps ==
    ASSUME FlowsSound, NEW a \in Attempt, ExchangeEnds(a) PROVE FlowsSound'
<1> USE FlowAssumption
<1>1. task[a] = "exchanging" /\ UNCHANGED <<credential, pc, awaits, revoker, history>>
  BY DEF ExchangeEnds
<1>2. CASE pending = a
  <2>1. /\ task' = [task EXCEPT ![a] = "committing"]
        /\ phase' = [phase EXCEPT ![a] = "committing"]
        /\ UNCHANGED <<pending, open, owner>>
    BY <1>2 DEF ExchangeEnds, EnterPhase
  <2>2. TypeOK'
    BY <1>1, <2>1 DEF FlowsSound, TypeOK, Phase, credential, history, CredentialTypeOK
  <2>3. PhasesSound'
    BY <1>1, <1>2, <2>1 DEF FlowsSound, TypeOK, PhasesSound, Live
  <2>4. OwnerSound' /\ ServersSound'
    BY <1>1, <2>1 DEF FlowsSound, OwnerSound, ServersSound
  <2>5. BegunNow' = BegunNow
    BY <1>1 DEF BegunNow, HasBegun
  <2>6. OrderSound'
    BY <1>1, <2>1, <2>5, OrderKept DEF history
  <2>7. RevokersSound'
    BY <1>1, <2>1 DEF FlowsSound, RevokersSound, HasBegun, history
  <2>8. QED
    BY <2>2, <2>3, <2>4, <2>6, <2>7 DEF FlowsSound
<1>3. CASE pending # a
  <2>1. task' = [task EXCEPT ![a] = "none"] /\ CleanupFlow(a)
    BY <1>3 DEF ExchangeEnds
  <2>2. pc[a] = "started" /\ FlowEnds(a)
    BY <1>1, <2>1, WorkIsStarted, CleanupEndsFlow
  <2>3. CredentialTypeOK'
    BY <1>1 DEF FlowsSound, TypeOK, CredentialTypeOK, credential
  <2>4. QED
    BY <1>1, <2>1, <2>2, <2>3, EndKeeps DEF credential, history
<1>4. QED
  BY <1>2, <1>3

LEMMA TaskFailsKeeps ==
    ASSUME FlowsSound, NEW a \in Attempt, TaskFails(a) PROVE FlowsSound'
<1>1. /\ task[a] # "none" /\ task' = [task EXCEPT ![a] = "none"] /\ CleanupFlow(a)
      /\ UNCHANGED <<credential, pc, awaits, revoker, history>>
  BY DEF TaskFails
<1>2. pc[a] = "started" /\ FlowEnds(a)
  BY <1>1, WorkIsStarted, CleanupEndsFlow
<1>3. CredentialTypeOK'
  BY <1>1 DEF FlowsSound, TypeOK, CredentialTypeOK, credential
<1>4. QED
  BY <1>1, <1>2, <1>3, EndKeeps DEF credential, history

LEMMA CommitTokenKeeps ==
    ASSUME FlowsSound, NEW a \in Attempt, CommitToken(a) PROVE FlowsSound'
<1>1. /\ task[a] = "committing" /\ Grant /\ winner' = a
      /\ task' = [task EXCEPT ![a] = "none"] /\ CleanupFlow(a)
      /\ UNCHANGED <<pc, awaits, revoker, earlier, order, rotations>>
  BY DEF CommitToken
<1>2. pc[a] = "started" /\ FlowEnds(a)
  BY <1>1, WorkIsStarted, CleanupEndsFlow
<1>3. CredentialTypeOK'
  BY <1>1 DEF FlowsSound, TypeOK, CredentialTypeOK, Token, Grant
<1>4. QED
  BY <1>1, <1>2, <1>3, EndKeeps

\* The timer ends a flow in whatever phase; a commit under way goes on.
LEMMA TimeoutKeeps ==
    ASSUME FlowsSound, NEW a \in Attempt, Timeout(a) PROVE FlowsSound'
<1>1. /\ pending = a /\ CleanupFlow(a)
      /\ UNCHANGED <<credential, pc, task, awaits, revoker, history>>
  BY DEF Timeout
<1>2. pc[a] = "started" /\ FlowEnds(a)
  BY <1>1, WorkIsStarted, CleanupEndsFlow
<1>3. CredentialTypeOK'
  BY <1>1 DEF FlowsSound, TypeOK, CredentialTypeOK, credential
<1>4. QED
  BY <1>1, <1>2, <1>3, EndKeeps DEF credential, history

\* A revocation takes the start from whoever has it, and settles the pending
\* flow or waits for its commit: of the attempts that had begun, only this one
\* is left to store a token.
LEMMA BeginRevokeKeeps ==
    ASSUME FlowsSound, NEW r \in Revoker, BeginRevoke(r) PROVE FlowsSound'
<1> USE FlowAssumption
<1>1. /\ revoker[r] = "idle" /\ SettlePendingFlow(r, None)
      /\ revoker' = [revoker EXCEPT ![r] = "settling"]
      /\ earlier' = [earlier EXCEPT ![r] = BegunNow]
      /\ UNCHANGED <<credential, pc, task, order, winner>>
  BY DEF BeginRevoke, BegunNow, GotoRevoker
<1>2. /\ owner' = None
      /\ awaits' \in [Attempt \cup Revoker -> Attempt \cup {None}]
      /\ \A y \in Attempt \cup Revoker : y # r => awaits'[y] = awaits[y]
      /\ \/ /\ pending' = pending /\ UNCHANGED <<phase, open>>
            /\ pending \in {None, awaits'[r]}
         \/ \E p \in Attempt :
               /\ pending = p /\ pending' = None /\ phase[p] # "committing"
               /\ phase' = [phase EXCEPT ![p] = "settled"]
               /\ open' = open \ {p}
  BY <1>1, SettleLeavesCommit
<1>3. TypeOK'
  <2>1. phase' \in [Attempt -> Phase] /\ open' \subseteq Attempt
        /\ pending' \in Attempt \cup {None}
    BY <1>2 DEF FlowsSound, TypeOK, Phase
  <2>2. earlier' \in [Revoker -> SUBSET Attempt]
    BY <1>1 DEF FlowsSound, TypeOK, BegunNow
  <2>3. QED
    BY <1>1, <1>2, <2>1, <2>2 DEF FlowsSound, TypeOK, credential, CredentialTypeOK
<1>4. PhasesSound'
  BY <1>1, <1>2 DEF FlowsSound, TypeOK, PhasesSound, Live
<1>5. OwnerSound'
  BY <1>2 DEF OwnerSound
<1>6. ServersSound'
  BY <1>1, <1>2 DEF FlowsSound, ServersSound
<1>7. BegunNow' = BegunNow
  BY <1>1 DEF BegunNow, HasBegun
<1>8. OrderSound'
  BY <1>1, <1>2, <1>7, OrderKept
<1>9. RevokersSound'
  <2> SUFFICES ASSUME NEW q \in Revoker, NEW a \in earlier'[q]
               PROVE  /\ HasBegun(a)' /\ owner' # a
                      /\ pending' = a => revoker'[q] = "settling" /\ awaits'[q] = a
    BY DEF RevokersSound
  <2>1. a \in Attempt
    BY <1>3 DEF TypeOK
  <2>2. CASE q = r
    BY <1>1, <1>2, <2>1, <2>2 DEF FlowsSound, TypeOK, BegunNow, HasBegun
  <2>3. CASE q # r
    BY <1>1, <1>2, <2>1, <2>3 DEF FlowsSound, TypeOK, RevokersSound, HasBegun
  <2>4. QED
    BY <2>2, <2>3
<1>10. QED
  BY <1>3, <1>4, <1>5, <1>6, <1>8, <1>9 DEF FlowsSound

\* The rest of a revocation, and a refresh, leave the flows alone.
LEMMA CredentialStepKeeps ==
    ASSUME FlowsSound,
           UNCHANGED <<owner, pending, pc, phase, task, open, history>>,
           TypeOK', UNCHANGED <<revoker, awaits>> \/ \E r \in Revoker : RevokerStep(r)
    PROVE  FlowsSound'
<1> USE FlowAssumption
<1>1. \A a \in Attempt : awaits'[a] = awaits[a]
  BY DEF FlowsSound, TypeOK, RevokerStep, ReadForRevoke, RevocationAnswered, ClearToken
<1>2. PhasesSound' /\ OwnerSound' /\ ServersSound'
  BY <1>1 DEF FlowsSound, PhasesSound, OwnerSound, ServersSound
<1>3. BegunNow' = BegunNow
  BY DEF BegunNow, HasBegun
<1>4. OrderSound'
  BY <1>3 DEF FlowsSound, OrderSound, history
<1>5. RevokersSound'
  <2>1. CASE UNCHANGED <<revoker, awaits>>
    BY <2>1 DEF FlowsSound, RevokersSound, HasBegun, history
  <2>2. ASSUME NEW r \in Revoker, RevokerStep(r) PROVE RevokersSound'
    <3>1. /\ \A q \in Revoker : q # r => revoker'[q] = revoker[q] /\ awaits'[q] = awaits[q]
          /\ revoker[r] = "settling" => Settled(r)
      BY <2>2 DEF FlowsSound, TypeOK, RevokerStep, ReadForRevoke, RevocationAnswered,
                  ClearToken, GotoRevoker
    <3>2. \A a \in Attempt : pending = a => ~(revoker[r] = "settling" /\ awaits[r] = a)
      BY <3>1 DEF FlowsSound, PhasesSound, Live, Settled
    <3>3. QED
      BY <3>1, <3>2 DEF FlowsSound, TypeOK, RevokersSound, HasBegun, history
  <2>3. QED
    BY <2>1, <2>2
<1>6. QED
  BY <1>2, <1>4, <1>5 DEF FlowsSound

LEMMA RevokerStepKeeps ==
    ASSUME FlowsSound, NEW r \in Revoker, RevokerStep(r) PROVE FlowsSound'
<1> USE FlowAssumption
<1>1. UNCHANGED <<rotations, owner, pending, pc, phase, task, open, history>>
  BY DEF RevokerStep, ReadForRevoke, RevocationAnswered, ClearToken, credential
<1>2. CredentialTypeOK'
  BY DEF FlowsSound, TypeOK, CredentialTypeOK, RevokerStep, ReadForRevoke,
         RevocationAnswered, ClearToken, credential, Revoke
<1>3. TypeOK'
  BY <1>1, <1>2 DEF FlowsSound, TypeOK, RevokerStep, ReadForRevoke, RevocationAnswered,
                    ClearToken, GotoRevoker, history
<1>4. QED
  BY <1>1, <1>3, CredentialStepKeeps

LEMMA RefreshedKeeps == ASSUME FlowsSound, Refreshed PROVE FlowsSound'
<1>1. UNCHANGED <<owner, pending, pc, phase, task, awaits, open, revoker, history>>
  BY DEF Refreshed
<1>2. CredentialTypeOK'
  BY DEF FlowsSound, TypeOK, CredentialTypeOK, Token, Refreshed, Rotate
<1>3. rotations' \in 0..MaxRotations
  BY FlowAssumption DEF FlowsSound, TypeOK, Refreshed
<1>4. TypeOK'
  BY <1>1, <1>2, <1>3 DEF FlowsSound, TypeOK, history
<1>5. QED
  BY <1>1, <1>4, CredentialStepKeeps

LEMMA NextKeepsFlows == FlowsSound /\ [Next]_vars => FlowsSound'
<1> SUFFICES ASSUME FlowsSound, [Next]_vars PROVE FlowsSound'
  OBVIOUS
<1>1. ASSUME NEW a \in Attempt,
             \/ Authorize(a) \/ AttemptStep(a) \/ CallbackRefused(a)
             \/ CallbackCode(a) \/ Timeout(a)
      PROVE  FlowsSound'
  BY <1>1, AuthorizeKeeps, RegisterKeeps, BeginStartKeeps, ResumeKeeps, BoundKeeps,
     BindFailsKeeps, ExchangeEndsKeeps, TaskFailsKeeps, CommitTokenKeeps,
     CallbackRefusedKeeps, CallbackCodeKeeps, TimeoutKeeps
     DEF AttemptStep
<1>2. ASSUME NEW r \in Revoker, BeginRevoke(r) \/ RevokerStep(r) PROVE FlowsSound'
  BY <1>2, BeginRevokeKeeps, RevokerStepKeeps
<1>3. CASE Refreshed
  BY <1>3, RefreshedKeeps
<1>4. CASE UNCHANGED vars
  <2>1. UNCHANGED <<owner, pending, pc, phase, task, awaits, open, revoker, history>>
        /\ UNCHANGED credential
    BY <1>4 DEF vars, credential, history
  <2>2. TypeOK'
    BY <2>1 DEF FlowsSound, TypeOK, credential, history, CredentialTypeOK
  <2>3. QED
    BY <2>1, <2>2, CredentialStepKeeps
<1>5. QED
  BY <1>1, <1>2, <1>3, <1>4 DEF Next

-----------------------------------------------------------------------------
(***************************************************************************)
(* What the invariant implies.                                             *)
(***************************************************************************)
\* The flows, the owner of the start, the servers, the order of the attempts and
\* the revocations stay consistent as FlowsSound says (flowStartOwners, pendingFlows, cleanupFlow in authorization.ts).
THEOREM FlowsInvariance == Spec => []FlowsSound
BY InitFlows, NextKeepsFlows, PTL DEF Spec

\* The flow that commits is the pending one until the timer gives it up, so that
\* a later call finds it to wait for, and the pending flow is not settled.
THEOREM FlowsAreConsistent == Spec => []FlowInv
<1>1. FlowsSound => FlowInv
  BY DEF FlowsSound, FlowInv, TypeOK, PendingIsLive, PhasesSound, Live, Overdue
<1>2. QED
  BY <1>1, FlowsInvariance, PTL

\* A callback server that listens belongs to the pending flow or to a start
\* under way, or to a registration that threw: every other end closes it.
THEOREM NoServerIsLeft == Spec => []ServersAreClosed
<1>1. FlowsSound => ServersAreClosed
  BY DEF FlowsSound, ServersSound, ServersAreClosed
<1>2. QED
  BY <1>1, FlowsInvariance, PTL

\* However many attempts overlap, an earlier one never stores its token over
\* that of a later one, unless the timer gave its flow up while it was storing
\* (commitToken in authorization.ts, behind the check of pendingFlows).
THEOREM LastAttemptStays == Spec => LaterAttemptWins
<1>1. FlowsSound /\ [Next]_vars
      => [winner # None /\ winner' # None
          => order[winner'] >= order[winner] \/ Overdue(winner')]_vars
  <2> SUFFICES ASSUME FlowsSound, [Next]_vars, winner # None, winner' # None,
                      ~Overdue(winner')
               PROVE  order[winner'] >= order[winner]
    OBVIOUS
  <2>1. winner \in Attempt /\ \A a \in Attempt : order[a] \in Nat
    BY DEF FlowsSound, TypeOK
  <2>2. CASE winner' = winner
    BY <2>1, <2>2
  <2>3. ASSUME NEW a \in Attempt, CommitToken(a) PROVE order[winner'] >= order[winner]
    <3>1. winner' = a /\ pending = a
      BY <2>3 DEF CommitToken, FlowsSound, PhasesSound, Overdue
    <3>2. pc[winner] = "started"
      BY <2>1 DEF FlowsSound, OrderSound
    <3>3. QED
      BY <2>1, <3>1, <3>2 DEF FlowsSound, OrderSound
  <2>4. winner' = winner \/ \E a \in Attempt : CommitToken(a)
    BY DEF Next, vars, history, AttemptStep, RevokerStep, Authorize, Register,
           BeginStart, Resume, Bound, BindFails, ExchangeEnds, TaskFails, CallbackRefused,
           CallbackCode, Timeout, BeginRevoke, ReadForRevoke, RevocationAnswered,
           ClearToken, Refreshed
  <2>5. QED
    BY <2>2, <2>3, <2>4
<1>2. QED
  BY <1>1, FlowsInvariance, PTL DEF Spec, LaterAttemptWins

\* The tombstone of a revocation is the last write: no attempt that had begun
\* when it did stores a token after it (cancelFlow in index.ts), unless the timer
\* gave its flow up while it was storing.
THEOREM TombstonesStay == Spec => RevocationIsFinal
<1>1. FlowsSound => \A a \in Attempt, r \in Revoker :
          task[a] = "committing" /\ ~Overdue(a) /\ revoker[r] = "done"
          => a \notin earlier[r]
  BY DEF FlowsSound, PhasesSound, RevokersSound, Overdue
<1>2. FlowsSound /\ [Next]_vars
      => [\A a \in Attempt, r \in Revoker :
             CommitToken(a) /\ ~Overdue(a) /\ revoker[r] = "done"
             => a \notin earlier[r]]_vars
  BY <1>1 DEF CommitToken
<1>3. QED
  BY <1>2, FlowsInvariance, PTL DEF Spec, RevocationIsFinal
=============================================================================
