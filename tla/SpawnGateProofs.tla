-------------------------- MODULE SpawnGateProofs ---------------------------
(***************************************************************************)
(* Proofs about SpawnGate, for any finite set of creators and any set of   *)
(* updaters: an update that has the gate has it alone.                     *)
(***************************************************************************)
EXTENDS SpawnGate, FiniteSetTheorems, TLAPS

Creating == {c \in Creator : creator[c] = "creating"}
Pending == {"waiting"} \cup Owning

\* The counter counts the permits that are out, and the flag is up exactly
\* while one updater waits for them or has the gate.
IInv ==
    /\ TypeOK
    /\ active = Cardinality(Creating)
    /\ \A u \in Updater : updater[u] \in Pending => requested
    /\ OneUpdateAtATime
    /\ \A u \in Updater : updater[u] \in Owning => active = 0
    /\ \A u \in Updater : updater[u] = "stopped" => alive = {}
    /\ GateIsNotStuck

LEMMA CreatingFinite ==
    IsFiniteSet(Creating) /\ Cardinality(Creating) \in Nat
BY CreatorAssumption, FS_Subset, FS_CardinalityType DEF Creating

LEMMA NoneCreating ==
    ASSUME IInv, active = 0
    PROVE  \A c \in Creator : creator[c] # "creating"
BY CreatingFinite, FS_EmptySet DEF IInv, Creating

LEMMA InitIInv == Init => IInv
<1> SUFFICES ASSUME Init PROVE IInv
  OBVIOUS
<1>1. TypeOK
  BY DEF Init, TypeOK, SpawnGateState
<1>2. Creating = {}
  BY DEF Init, Creating
<1>3. active = Cardinality(Creating)
  BY <1>2, FS_EmptySet DEF Init
<1> QED
  BY <1>1, <1>3 DEF Init, IInv, Pending, Owning, OneUpdateAtATime, GateIsNotStuck

\* A step that leaves the permits and the update alone.
LEMMA Quiet ==
    ASSUME IInv, TypeOK',
           UNCHANGED <<gate, requested, active, updater>>,
           Creating' = Creating,
           alive' \subseteq alive \/ Creating # {}
    PROVE  IInv'
<1>1. Creating # {} => active # 0
  BY NoneCreating DEF Creating
<1> QED
  BY <1>1 DEF IInv, Pending, Owning, OneUpdateAtATime, GateIsNotStuck

LEMMA CreatorStepIInv ==
    ASSUME IInv, NEW c \in Creator, CreatorStep(c) \/ ResourceEnds(c)
    PROVE  IInv'
<1>1. CASE CheckGate(c)
  <2>1. TypeOK'
    BY <1>1 DEF IInv, TypeOK, CheckGate
  <2>2. Creating' = Creating
    BY <1>1 DEF IInv, TypeOK, CheckGate, Creating
  <2> QED
    BY <1>1, <2>1, <2>2, Quiet DEF CheckGate
<1>2. CASE Admit(c) /\ requested
  <2>1. TypeOK'
    BY <1>2 DEF IInv, TypeOK, Admit
  <2>2. Creating' = Creating
    BY <1>2 DEF IInv, TypeOK, Admit, Creating
  <2> QED
    BY <1>2, <2>1, <2>2, Quiet DEF Admit
<1>3. CASE Admit(c) /\ ~requested
  <2>1. TypeOK'
    BY <1>3 DEF IInv, TypeOK, Admit
  <2>2. Creating' = Creating \cup {c} /\ c \notin Creating
    BY <1>3 DEF IInv, TypeOK, Admit, Creating
  <2>3. active' = Cardinality(Creating')
    BY <1>3, <2>2, CreatingFinite, FS_AddElement DEF IInv, Admit
  <2>4. \A u \in Updater : updater[u] \notin Pending
    BY <1>3 DEF IInv
  <2> QED
    BY <1>3, <2>1, <2>3, <2>4
       DEF IInv, Admit, Pending, Owning, OneUpdateAtATime, GateIsNotStuck
<1>4. CASE CreateResource(c)
  <2>1. TypeOK'
    BY <1>4 DEF IInv, TypeOK, CreateResource
  <2>2. Creating' = Creating /\ Creating # {}
    BY <1>4 DEF CreateResource, Creating
  <2> QED
    BY <1>4, <2>1, <2>2, Quiet DEF CreateResource
<1>5. CASE DropPermit(c)
  <2>1. c \in Creating /\ active # 0
    BY <1>5, NoneCreating DEF DropPermit, Creating
  <2>2. Creating' = Creating \ {c}
    BY <1>5 DEF IInv, TypeOK, DropPermit, Creating
  <2>3. active' = active - 1 /\ active \in Nat
    BY <1>5, <2>1 DEF DropPermit, IInv, TypeOK
  <2>4. active' = Cardinality(Creating')
    BY <2>1, <2>2, <2>3, CreatingFinite, FS_RemoveElement DEF IInv
  <2>5. TypeOK'
    BY <1>5, <2>1, <2>3 DEF IInv, TypeOK, DropPermit, Waiting
  <2>6. \A u \in Updater : updater[u] \notin Owning
    BY <2>1 DEF IInv
  <2> QED
    BY <1>5, <2>4, <2>5, <2>6
       DEF IInv, DropPermit, Pending, Owning, OneUpdateAtATime, GateIsNotStuck
<1>6. CASE ResourceEnds(c)
  <2>1. TypeOK'
    BY <1>6 DEF IInv, TypeOK, ResourceEnds
  <2>2. Creating' = Creating /\ alive' \subseteq alive
    BY <1>6 DEF ResourceEnds, Creating
  <2> QED
    BY <1>6, <2>1, <2>2, Quiet DEF ResourceEnds
<1> QED
  BY <1>1, <1>2, <1>3, <1>4, <1>5, <1>6 DEF CreatorStep

LEMMA UpdaterStepIInv ==
    ASSUME IInv, NEW u \in Updater, UpdaterStep(u)
    PROVE  IInv'
<1> USE DEF Pending, Owning
<1>1. CASE CheckExited(u)
  <2>1. TypeOK' /\ Creating' = Creating
    BY <1>1 DEF IInv, TypeOK, CheckExited, Creating
  <2> QED
    BY <1>1, <2>1
       DEF IInv, TypeOK, CheckExited, OneUpdateAtATime, GateIsNotStuck
<1>2. CASE Request(u)
  <2>1. TypeOK' /\ Creating' = Creating
    BY <1>2 DEF IInv, TypeOK, Request, Creating, SpawnGateState
  <2> QED
    BY <1>2, <2>1
       DEF IInv, TypeOK, Request, OneUpdateAtATime, GateIsNotStuck
<1>3. CASE Wake(u)
  <2>1. TypeOK' /\ Creating' = Creating
    BY <1>3 DEF IInv, TypeOK, Wake, Creating
  <2> QED
    BY <1>3, <2>1 DEF IInv, TypeOK, Wake, OneUpdateAtATime, GateIsNotStuck
<1>4. CASE ShutDown(u)
  <2>1. TypeOK' /\ Creating' = Creating
    BY <1>4 DEF IInv, TypeOK, ShutDown, Creating
  <2> QED
    BY <1>4, <2>1 DEF IInv, TypeOK, ShutDown, OneUpdateAtATime, GateIsNotStuck
<1>5. CASE DropGuard(u)
  <2>1. TypeOK' /\ Creating' = Creating
    BY <1>5 DEF IInv, TypeOK, DropGuard, Creating, Waiting, SpawnGateState
  <2> QED
    BY <1>5, <2>1 DEF IInv, TypeOK, DropGuard, OneUpdateAtATime, GateIsNotStuck
<1> QED
  BY <1>1, <1>2, <1>3, <1>4, <1>5 DEF UpdaterStep

LEMMA ExitIInv ==
    ASSUME IInv, ExitRequested \/ WindowDestroyed \/ StopForExit
    PROVE  IInv'
<1> USE DEF Pending, Owning
<1>1. TypeOK' /\ Creating' = Creating
  BY DEF IInv, TypeOK, ExitRequested, WindowDestroyed, StopForExit, Creating,
         SpawnGateState
<1>2. CASE ExitRequested
  BY <1>1, <1>2 DEF IInv, ExitRequested, OneUpdateAtATime, GateIsNotStuck
<1>3. CASE WindowDestroyed
  BY <1>1, <1>3 DEF IInv, WindowDestroyed, OneUpdateAtATime, GateIsNotStuck
<1>4. CASE StopForExit
  BY <1>1, <1>4 DEF IInv, StopForExit, OneUpdateAtATime, GateIsNotStuck
<1> QED
  BY <1>2, <1>3, <1>4

THEOREM Invariance == Spec => []IInv
<1>1. Init => IInv
  BY InitIInv
<1>2. IInv /\ [Next]_vars => IInv'
  <2>1. IInv /\ UNCHANGED vars => IInv'
    BY DEF IInv, vars, TypeOK, Creating, OneUpdateAtATime, GateIsNotStuck
  <2> QED
    BY <2>1, CreatorStepIInv, UpdaterStepIInv, ExitIInv DEF Next
<1> QED
  BY <1>1, <1>2, PTL DEF Spec

\* The gate's variables keep their types.
THEOREM TypeCorrect == Spec => []TypeOK
<1>1. IInv => TypeOK
  BY DEF IInv
<1> QED
  BY <1>1, Invariance, PTL

\* While an update has the gate nothing is created, and what it stopped stays
\* stopped.
THEOREM QuiesceIsExclusive == Spec => []QuiesceExcludesCreation
<1>1. IInv => QuiesceExcludesCreation
  <2> SUFFICES ASSUME IInv, NEW u \in Updater, updater[u] \in Owning
               PROVE  /\ \A c \in Creator : creator[c] # "creating"
                      /\ updater[u] = "stopped" => alive = {}
    BY DEF QuiesceExcludesCreation
  <2>1. active = 0
    BY DEF IInv
  <2> QED
    BY <2>1, NoneCreating DEF IInv
<1> QED
  BY <1>1, Invariance, PTL

\* The gate is closed for an update only while there is one.
THEOREM GateReopens == Spec => []GateIsNotStuck
<1>1. IInv => GateIsNotStuck
  BY DEF IInv
<1> QED
  BY <1>1, Invariance, PTL

\* Two updates never shut down at once.
THEOREM OneUpdate == Spec => []OneUpdateAtATime
<1>1. IInv => OneUpdateAtATime
  BY DEF IInv
<1> QED
  BY <1>1, Invariance, PTL
=============================================================================
