---------------------------- MODULE SidecarProofs ----------------------------
(***************************************************************************)
(* Proofs about SidecarManager, for any sets of sessions, owners and       *)
(* runtimes, and then about SidecarEnsure, for any number of threads as    *)
(* well: the calls of ensure_session_sidecar, whatever they interleave     *)
(* with, take only steps of the manager's specification, and their local   *)
(* state stays consistent with the record they act on.                     *)
(*                                                                         *)
(* The argument about the calls is in two halves.  A step from a state in  *)
(* which the local state is sound is a step of the manager                 *)
(* (StepIsManagers); and what such a step leaves of the instances (Follows)*)
(* keeps the local state of the calls that do not move sound.              *)
(***************************************************************************)
EXTENDS SidecarEnsure, TLAPS


(***************************************************************************)
(* The record, and every method that changes it.                           *)
(***************************************************************************)
\* The conjuncts of the inductive invariant, of a record m.
Typed(m) == m \in Manager /\ m.counter >= 1

\* Every generation on file has been drawn, no two sessions have the same
\* one, and an entry has one: residual generations of removed entries too.
Numbered(m) ==
    /\ \A s \in Session : m.generations[s] < m.counter
    /\ \A r, s \in Session :
          (r # s /\ m.generations[r] # 0)
              => m.generations[r] # m.generations[s]
    /\ \A s \in Session : Present(m, s) => m.generations[s] # 0

\* A stop event carries a generation that was drawn and that no entry has,
\* under whatever session id the entry is filed now.
Stopped(m) ==
    \A e \in m.stops :
        /\ e[2] < m.counter
        /\ \A s \in Session : Present(m, s) => m.generations[s] # e[2]

Base(m) == Typed(m) /\ Numbered(m) /\ Stopped(m)

Owned(m) == \A s \in Session : Present(m, s) => m.sidecars[s].owners # {}

TabsApart(m) ==
    \A r, s \in Session :
        (r # s /\ m.activations[r] # None /\ m.activations[s] # None)
            => \/ m.activations[r].tab = None
               \/ m.activations[r].tab # m.activations[s].tab

Good(m) == Base(m) /\ Owned(m) /\ TabsApart(m)

IInv == Good(mgr)

(***************************************************************************)
(* What each method does to the fields of the record.                      *)
(***************************************************************************)
LEMMA RemoveSidecarFields ==
    ASSUME NEW m \in Manager, NEW s \in Session
    PROVE  LET n == RemoveSidecar(m, s) IN
           /\ n \in Manager
           /\ n.sidecars = [m.sidecars EXCEPT ![s] = None]
           /\ n.generations = m.generations
           /\ n.activations = m.activations
           /\ n.counter = m.counter
           /\ n.stops = IF Present(m, s)
                        THEN m.stops \cup {<<s, m.generations[s]>>}
                        ELSE m.stops
           /\ n.terminals = IF Present(m, s) /\ OwnersOf(m, s) = {}
                            THEN m.terminals \cup {<<s, m.generations[s]>>}
                            ELSE m.terminals
           /\ n.unowned = m.unowned
<1>1. CASE ~Present(m, s)
  <2>1. m.sidecars = [m.sidecars EXCEPT ![s] = None]
    BY <1>1 DEF Manager, Present
  <2> QED
    BY <1>1, <2>1 DEF RemoveSidecar
<1>2. CASE Present(m, s)
  <2>1. <<s, m.generations[s]>> \in Event
    BY DEF Manager, Event
  <2>2. RemoveSidecar(m, s) =
          [m EXCEPT !.sidecars = [m.sidecars EXCEPT ![s] = None],
                    !.stops = m.stops \cup {<<s, m.generations[s]>>},
                    !.terminals =
                       IF OwnersOf(m, s) = {}
                       THEN m.terminals \cup {<<s, m.generations[s]>>}
                       ELSE m.terminals]
    BY <1>2 DEF RemoveSidecar, Manager
  <2>3. [m.sidecars EXCEPT ![s] = None] \in [Session -> Sidecar \cup {None}]
    BY DEF Manager
  <2>4. /\ m.stops \cup {<<s, m.generations[s]>>} \in SUBSET Event
        /\ m.terminals \cup {<<s, m.generations[s]>>} \in SUBSET Event
        /\ m.terminals \in SUBSET Event
    BY <2>1 DEF Manager
  <2> QED
    BY <1>2, <2>2, <2>3, <2>4 DEF Manager
<1> QED
  BY <1>1, <1>2

LEMMA ClearGenerationFields ==
    ASSUME NEW m \in Manager, NEW s \in Session
    PROVE  LET n == ClearGeneration(m, s) IN
           /\ n \in Manager
           /\ n.sidecars = m.sidecars
           /\ n.generations = [m.generations EXCEPT ![s] = 0]
           /\ n.activations = m.activations
           /\ n.counter = m.counter
           /\ n.stops = m.stops
           /\ n.terminals = m.terminals
           /\ n.unowned = m.unowned
BY DEF ClearGeneration, Manager

LEMMA RemoveSidecarBase ==
    ASSUME NEW m, NEW s \in Session, Base(m)
    PROVE  Base(RemoveSidecar(m, s)) /\ ~Present(RemoveSidecar(m, s), s)
<1> DEFINE n == RemoveSidecar(m, s)
<1>1. m \in Manager
  BY DEF Base, Typed
<1>2. /\ n \in Manager
      /\ n.sidecars = [m.sidecars EXCEPT ![s] = None]
      /\ n.generations = m.generations
      /\ n.counter = m.counter
      /\ n.stops = IF Present(m, s)
                   THEN m.stops \cup {<<s, m.generations[s]>>}
                   ELSE m.stops
  BY <1>1, RemoveSidecarFields
<1> HIDE DEF n
<1>3. \A r \in Session : Present(n, r) <=> (r # s /\ Present(m, r))
  BY <1>1, <1>2 DEF Present, Manager
<1>4. Typed(n)
  BY <1>2 DEF Base, Typed
<1>5. Numbered(n)
  BY <1>2, <1>3 DEF Base, Numbered
<1>6. Stopped(n)
  BY <1>1, <1>2, <1>3 DEF Base, Typed, Numbered, Stopped, Manager
<1> QED
  BY <1>3, <1>4, <1>5, <1>6 DEF Base, n

\* An entry is changed in place.
LEMMA InsertSidecarFields ==
    ASSUME NEW m \in Manager, NEW s \in Session, NEW sc \in Sidecar
    PROVE  LET n == InsertSidecar(m, s, sc) IN
           /\ n \in Manager
           /\ n.sidecars = [m.sidecars EXCEPT ![s] = sc]
           /\ n.generations = m.generations
           /\ n.activations = m.activations
           /\ n.counter = m.counter
           /\ n.stops = m.stops
           /\ n.terminals = m.terminals
           /\ n.unowned = m.unowned
BY DEF InsertSidecar, Manager

LEMMA NextGenerationFields ==
    ASSUME NEW m \in Manager, NEW s \in Session
    PROVE  LET n == NextGeneration(m, s) IN
           /\ n \in Manager
           /\ n.sidecars = m.sidecars
           /\ n.generations = [m.generations EXCEPT ![s] = m.counter]
           /\ n.activations = m.activations
           /\ n.counter = m.counter + 1
           /\ n.stops = m.stops
           /\ n.terminals = m.terminals
           /\ n.unowned = m.unowned
<1>1. /\ [m.generations EXCEPT ![s] = m.counter] \in [Session -> Nat]
      /\ m.counter + 1 \in Nat
  BY DEF Manager
<1>2. NextGeneration(m, s) =
        [m EXCEPT !.generations = [m.generations EXCEPT ![s] = m.counter],
                  !.counter = m.counter + 1]
  BY DEF NextGeneration, Manager
<1> QED
  BY <1>1, <1>2 DEF Manager

\* Base says nothing of an entry but that it is there.
LEMMA SameInstances ==
    ASSUME NEW m, NEW n \in Manager, Base(m),
           n.generations = m.generations, n.counter = m.counter,
           n.stops = m.stops,
           \A s \in Session : Present(n, s) <=> Present(m, s)
    PROVE  Base(n)
BY DEF Base, Typed, Numbered, Stopped

LEMMA RemoveSidecarGood ==
    ASSUME NEW m, NEW s \in Session, Good(m)
    PROVE  Good(RemoveSidecar(m, s)) /\ ~Present(RemoveSidecar(m, s), s)
<1> DEFINE n == RemoveSidecar(m, s)
<1>1. m \in Manager
  BY DEF Good, Base, Typed
<1>2. /\ n.sidecars = [m.sidecars EXCEPT ![s] = None]
      /\ n.activations = m.activations
  BY <1>1, RemoveSidecarFields
<1>3. Base(n) /\ ~Present(n, s)
  BY RemoveSidecarBase DEF Good
<1> HIDE DEF n
<1>4. Owned(n)
  BY <1>1, <1>2, <1>3 DEF Good, Owned, Present, Manager
<1>5. TabsApart(n)
  BY <1>2 DEF Good, TabsApart
<1> QED
  BY <1>3, <1>4, <1>5 DEF Good, n

LEMMA ClearGenerationGood ==
    ASSUME NEW m, NEW s \in Session, Good(m), ~Present(m, s)
    PROVE  Good(ClearGeneration(m, s)) /\ ~Present(ClearGeneration(m, s), s)
<1> DEFINE n == ClearGeneration(m, s)
<1>1. m \in Manager /\ m.counter >= 1
  BY DEF Good, Base, Typed
<1>2. /\ n \in Manager
      /\ n.sidecars = m.sidecars
      /\ n.generations = [m.generations EXCEPT ![s] = 0]
      /\ n.activations = m.activations
      /\ n.counter = m.counter
      /\ n.stops = m.stops
  BY <1>1, ClearGenerationFields
<1> HIDE DEF n
<1>3. \A r \in Session : Present(n, r) <=> Present(m, r)
  BY <1>2 DEF Present
<1>4. \A r \in Session :
        n.generations[r] = IF r = s THEN 0 ELSE m.generations[r]
  BY <1>1, <1>2 DEF Manager
<1>5. Typed(n)
  BY <1>1, <1>2 DEF Typed
<1>6. Numbered(n)
  BY <1>1, <1>2, <1>3, <1>4 DEF Good, Base, Numbered, Manager
<1>7. Stopped(n)
  BY <1>2, <1>3, <1>4 DEF Good, Base, Stopped
<1>8. Owned(n) /\ TabsApart(n)
  BY <1>2 DEF Good, Owned, TabsApart, Present
<1> QED
  BY <1>3, <1>5, <1>6, <1>7, <1>8 DEF Good, Base, n

LEMMA NextGenerationGood ==
    ASSUME NEW m, NEW s \in Session, Good(m), ~Present(m, s)
    PROVE  LET n == NextGeneration(m, s) IN
           /\ Good(n) /\ ~Present(n, s)
           /\ n.generations[s] # 0
           /\ \A e \in n.stops : n.generations[s] # e[2]
<1> DEFINE n == NextGeneration(m, s)
<1>1. m \in Manager /\ m.counter >= 1 /\ m.counter \in Nat
  BY DEF Good, Base, Typed, Manager
<1>2. /\ n \in Manager
      /\ n.sidecars = m.sidecars
      /\ n.generations = [m.generations EXCEPT ![s] = m.counter]
      /\ n.activations = m.activations
      /\ n.counter = m.counter + 1
      /\ n.stops = m.stops
  BY <1>1, NextGenerationFields
<1> HIDE DEF n
<1>3. \A r \in Session : Present(n, r) <=> Present(m, r)
  BY <1>2 DEF Present
<1>4. \A r \in Session :
        /\ n.generations[r] = IF r = s THEN m.counter ELSE m.generations[r]
        /\ m.generations[r] \in Nat
  BY <1>1, <1>2 DEF Manager
<1>5. Typed(n)
  BY <1>1, <1>2 DEF Typed
<1>6. Numbered(n)
  BY <1>1, <1>2, <1>3, <1>4 DEF Good, Base, Numbered
<1>7. \A e \in m.stops : e[2] \in Nat /\ e[2] < m.counter
  BY <1>1 DEF Good, Base, Stopped, Manager, Event
<1>8. Stopped(n)
  BY <1>1, <1>2, <1>3, <1>4, <1>7 DEF Good, Base, Stopped
<1>9. Owned(n) /\ TabsApart(n)
  BY <1>2 DEF Good, Owned, TabsApart, Present
<1>10. n.generations[s] # 0 /\ \A e \in n.stops : n.generations[s] # e[2]
  BY <1>1, <1>2, <1>4, <1>7
<1> QED
  BY <1>3, <1>5, <1>6, <1>8, <1>9, <1>10 DEF Good, Base, n

\* An entry may be filed under a session whose generation is fresh.
LEMMA InsertSidecarGood ==
    ASSUME NEW m, NEW s \in Session, NEW sc \in Sidecar, Good(m),
           sc.owners # {},
           m.generations[s] # 0, \A e \in m.stops : m.generations[s] # e[2]
    PROVE  Good(InsertSidecar(m, s, sc))
<1> DEFINE n == InsertSidecar(m, s, sc)
<1>1. m \in Manager
  BY DEF Good, Base, Typed
<1>2. /\ n \in Manager
      /\ n.sidecars = [m.sidecars EXCEPT ![s] = sc]
      /\ n.generations = m.generations
      /\ n.activations = m.activations
      /\ n.counter = m.counter
      /\ n.stops = m.stops
  BY <1>1, InsertSidecarFields
<1> HIDE DEF n
<1>3. \A r \in Session :
        n.sidecars[r] = IF r = s THEN sc ELSE m.sidecars[r]
  BY <1>1, <1>2 DEF Manager
<1>4. \A r \in Session : Present(n, r) <=> r = s \/ Present(m, r)
  BY <1>3, NoneAssumption DEF Present
<1>5. Base(n)
  BY <1>2, <1>4 DEF Good, Base, Typed, Numbered, Stopped
<1>6. Owned(n)
  BY <1>3, <1>4 DEF Good, Owned, Present
<1>7. TabsApart(n)
  BY <1>2 DEF Good, TabsApart
<1> QED
  BY <1>5, <1>6, <1>7 DEF Good, n

(***************************************************************************)
(* The compositions that the actions use.                                  *)
(***************************************************************************)
LEMMA EvictionsGood ==
    ASSUME NEW m, NEW s \in Session, Good(m), NEW n \in Evictions(m, s)
    PROVE  Good(n) /\ ~Present(n, s)
BY RemoveSidecarGood, ClearGenerationGood DEF Evictions

LEMMA InstallGood ==
    ASSUME NEW m, NEW s \in Session, NEW o \in Owner, NEW rt \in Runtime,
           Good(m), ~Present(m, s)
    PROVE  Good(Install(m, s, o, rt))
<1> DEFINE sc == [port |-> m.counter, runtime |-> rt, owners |-> {o},
                  state |-> "Starting", proc |-> "booting"]
<1>1. m.counter \in Nat
  BY DEF Good, Base, Typed, Manager
<1>2. sc \in Sidecar /\ sc.owners # {}
  BY <1>1 DEF Sidecar, SidecarState, ProcState
<1> HIDE DEF sc
<1>3. Good(InsertSidecar(NextGeneration(m, s), s, sc))
  BY <1>2, NextGenerationGood, InsertSidecarGood
<1> QED
  BY <1>3 DEF Install, sc

\* A present entry replaced by one that has owners.
LEMMA ChangeEntryGood ==
    ASSUME NEW m, NEW s \in Session, NEW sc \in Sidecar,
           Good(m), Present(m, s), sc.owners # {}
    PROVE  Good(InsertSidecar(m, s, sc))
BY InsertSidecarGood DEF Good, Base, Numbered, Stopped

LEMMA AddOwnersGood ==
    ASSUME NEW m, NEW s \in Session, NEW os \in SUBSET Owner, Good(m)
    PROVE  Good(AddOwners(m, s, os))
<1>1. CASE ~Present(m, s)
  BY <1>1 DEF AddOwners
<1>2. CASE Present(m, s)
  <2> DEFINE sc == [m.sidecars[s] EXCEPT !.owners = @ \cup os]
  <2>1. m \in Manager /\ m.sidecars[s] \in Sidecar
    BY <1>2 DEF Good, Base, Typed, Manager, Present
  <2>2. m.sidecars[s].owners # {}
    BY <1>2 DEF Good, Owned
  <2>3. sc \in Sidecar /\ sc.owners # {}
    BY <2>1, <2>2 DEF Sidecar
  <2>4. AddOwners(m, s, os) = InsertSidecar(m, s, sc)
    BY <1>2, <2>1 DEF AddOwners, InsertSidecar, Manager
  <2> HIDE DEF sc
  <2> QED
    BY <1>2, <2>3, <2>4, ChangeEntryGood
<1> QED
  BY <1>1, <1>2

LEMMA MarkHealthyGood ==
    ASSUME NEW m, NEW s \in Session, Good(m), Present(m, s)
    PROVE  Good(MarkHealthy(m, s)) /\ Present(MarkHealthy(m, s), s)
<1> DEFINE sc == [m.sidecars[s] EXCEPT !.state = "Healthy"]
<1>1. m \in Manager /\ m.sidecars[s] \in Sidecar
  BY DEF Good, Base, Typed, Manager, Present
<1>2. m.sidecars[s].owners # {}
  BY DEF Good, Owned
<1>3. sc \in Sidecar /\ sc.owners # {}
  BY <1>1, <1>2 DEF Sidecar, SidecarState
<1>4. MarkHealthy(m, s) = InsertSidecar(m, s, sc)
  BY <1>1 DEF MarkHealthy, InsertSidecar, Manager
<1> HIDE DEF sc
<1>5. InsertSidecar(m, s, sc).sidecars = [m.sidecars EXCEPT ![s] = sc]
  BY <1>1, <1>3, InsertSidecarFields
<1>6. Present(MarkHealthy(m, s), s)
  BY <1>1, <1>3, <1>4, <1>5, NoneAssumption DEF Present, Manager
<1> QED
  BY <1>3, <1>4, <1>6, ChangeEntryGood

Without(sc, o) == [sc EXCEPT !.owners = @ \ {o}]

\* The one intermediate record in which an entry may be ownerless: the owner
\* that is taken away was the last.
Drops(m, n, s, o) ==
    /\ Without(m.sidecars[s], o) \in Sidecar
    /\ n \in Manager
    /\ n.sidecars = [m.sidecars EXCEPT ![s] = Without(m.sidecars[s], o)]
    /\ n.activations = m.activations
    /\ n.terminals = m.terminals
    /\ n.unowned = IF OwnersOf(m, s) = {o}
                   THEN m.unowned \cup {<<s, m.generations[s]>>}
                   ELSE m.unowned
    /\ n.stops = m.stops
    /\ n.generations = m.generations
    /\ n.counter = m.counter
    /\ Base(n) /\ TabsApart(n) /\ Present(n, s)

LEMMA DropOwnerFields ==
    ASSUME NEW m, NEW s \in Session, NEW o, Good(m), Present(m, s)
    PROVE  Drops(m, DropOwner(m, s, o), s, o)
<1> DEFINE n == DropOwner(m, s, o)
<1> DEFINE sc == Without(m.sidecars[s], o)
<1> DEFINE gone == IF OwnersOf(m, s) = {o}
                   THEN m.unowned \cup {<<s, m.generations[s]>>}
                   ELSE m.unowned
<1>1. m \in Manager /\ m.sidecars[s] \in Sidecar
  BY DEF Good, Base, Typed, Manager, Present
<1>2. sc \in Sidecar
  BY <1>1 DEF Sidecar, Without
<1>3. n = [m EXCEPT !.sidecars = [m.sidecars EXCEPT ![s] = sc],
                    !.unowned = gone]
  BY <1>1 DEF DropOwner, Manager, Without
<1>a. [m.sidecars EXCEPT ![s] = sc] \in [Session -> Sidecar \cup {None}]
  BY <1>1, <1>2 DEF Manager
<1>b. gone \in SUBSET Event
  BY <1>1 DEF Manager, Event
<1> HIDE DEF n, sc, gone
<1>4. /\ n \in Manager
      /\ n.sidecars = [m.sidecars EXCEPT ![s] = sc]
      /\ n.generations = m.generations
      /\ n.activations = m.activations
      /\ n.counter = m.counter
      /\ n.stops = m.stops
      /\ n.terminals = m.terminals
      /\ n.unowned = gone
  BY <1>1, <1>3, <1>a, <1>b DEF Manager
<1>5. \A r \in Session : Present(n, r) <=> Present(m, r)
  BY <1>1, <1>2, <1>4, NoneAssumption DEF Present, Manager
<1>6. Base(n)
  BY <1>4, <1>5, SameInstances DEF Good
<1>7. TabsApart(n)
  BY <1>4 DEF Good, TabsApart
<1> QED
  <2>1. /\ sc \in Sidecar /\ n \in Manager
        /\ n.unowned = gone /\ Present(n, s)
    BY <1>2, <1>4, <1>5
  <2> QED
    BY <1>4, <1>6, <1>7, <2>1 DEF n, sc, gone, Drops

\* Another owner stays.
LEMMA DropOwnerGood ==
    ASSUME NEW m, NEW s \in Session, NEW o, Good(m), Present(m, s),
           OwnersOf(m, s) # {o}
    PROVE  Good(DropOwner(m, s, o))
<1> DEFINE sc == Without(m.sidecars[s], o)
<1>1. /\ m \in Manager
      /\ m.sidecars[s] \in Sidecar /\ m.sidecars[s].owners # {}
  BY DEF Good, Base, Typed, Owned, Manager, Present
<1>2. sc.owners # {}
  BY <1>1 DEF OwnersOf, Sidecar, Without
<1>3. sc \in Sidecar
  BY <1>1 DEF Sidecar, Without
<1>4. DropOwner(m, s, o) = InsertSidecar(m, s, sc)
  BY <1>1 DEF DropOwner, InsertSidecar, Manager, Without
<1> HIDE DEF sc
<1> QED
  BY <1>2, <1>3, <1>4, ChangeEntryGood

\* The last owner leaves, and its sidecar with it.
LEMMA RemoveLastOwnerGood ==
    ASSUME NEW m, NEW s \in Session, NEW o, Good(m), Present(m, s)
    PROVE  LET n == RemoveSidecar(DropOwner(m, s, o), s) IN
           Good(n) /\ ~Present(n, s)
<1> DEFINE k == DropOwner(m, s, o)
<1> DEFINE sc == Without(m.sidecars[s], o)
<1>1. m \in Manager
  BY DEF Good, Base, Typed
<1>a. Drops(m, k, s, o)
  BY DropOwnerFields
<1> HIDE DEF k
<1>2. /\ k.sidecars = [m.sidecars EXCEPT ![s] = sc]
      /\ k.activations = m.activations
  BY <1>a DEF Drops
<1>3. k \in Manager /\ Base(k) /\ TabsApart(k)
  BY <1>a DEF Drops
<1> DEFINE n == RemoveSidecar(k, s)
<1> HIDE DEF k, sc
<1>4. n.sidecars = [k.sidecars EXCEPT ![s] = None]
      /\ n.activations = k.activations
  BY <1>3, RemoveSidecarFields
<1>5. Base(n) /\ ~Present(n, s)
  BY <1>3, RemoveSidecarBase
<1> HIDE DEF n
<1>6. \A r \in Session : r # s => n.sidecars[r] = m.sidecars[r]
  BY <1>1, <1>2, <1>4 DEF Manager
<1>7. Owned(n)
  BY <1>5, <1>6 DEF Good, Owned, Present
<1>8. TabsApart(n)
  BY <1>2, <1>3, <1>4 DEF TabsApart
<1> QED
  BY <1>5, <1>7, <1>8 DEF Good, n, k

LEMMA DeactivateGood ==
    ASSUME NEW m, NEW s \in Session, Good(m)
    PROVE  /\ Good(Deactivate(m, s))
           /\ Deactivate(m, s).sidecars = m.sidecars
<1> DEFINE n == Deactivate(m, s)
<1>1. m \in Manager
  BY DEF Good, Base, Typed
<1>2. /\ n \in Manager
      /\ n.activations = [m.activations EXCEPT ![s] = None]
      /\ n.sidecars = m.sidecars
      /\ n.generations = m.generations
      /\ n.counter = m.counter
      /\ n.stops = m.stops
  BY <1>1 DEF Deactivate, Manager
<1> HIDE DEF n
<1>3. Base(n)
  BY <1>2, SameInstances DEF Good, Present
<1>4. Owned(n)
  BY <1>2 DEF Good, Owned, Present
<1>5. TabsApart(n)
  BY <1>1, <1>2 DEF Good, TabsApart, Manager
<1> QED
  BY <1>2, <1>3, <1>4, <1>5 DEF Good, n

LEMMA RemoveLastGood ==
    ASSUME NEW m, NEW s \in Session, NEW o, Good(m), Present(m, s)
    PROVE  /\ Good(ClearGeneration(RemoveSidecar(DropOwner(m, s, o), s), s))
           /\ Good(ClearGeneration(Deactivate(
                     RemoveSidecar(DropOwner(m, s, o), s), s), s))
<1> DEFINE n == RemoveSidecar(DropOwner(m, s, o), s)
<1>1. Good(n) /\ ~Present(n, s)
  BY RemoveLastOwnerGood
<1> HIDE DEF n
<1>2. Good(Deactivate(n, s)) /\ ~Present(Deactivate(n, s), s)
  BY <1>1, DeactivateGood DEF Present
<1> QED
  BY <1>1, <1>2, ClearGenerationGood DEF n

LEMMA RemoveSessionOwnerGood ==
    ASSUME NEW m, NEW s \in Session, NEW o, Good(m)
    PROVE  Good(RemoveSessionOwner(m, s, o))
<1>1. CASE o \notin OwnersOf(m, s)
  BY <1>1 DEF RemoveSessionOwner
<1>2. CASE o \in OwnersOf(m, s) /\ OwnersOf(m, s) = {o}
  BY <1>2, RemoveLastGood DEF RemoveSessionOwner, OwnersOf
<1>3. CASE o \in OwnersOf(m, s) /\ OwnersOf(m, s) # {o}
  BY <1>3, DropOwnerGood DEF RemoveSessionOwner, OwnersOf
<1> QED
  BY <1>1, <1>2, <1>3

LEMMA DetachOwnerGood ==
    ASSUME NEW m, NEW s \in Session, NEW o, Good(m), o \in OwnersOf(m, s)
    PROVE  Good(DetachOwner(m, s, o))
<1>1. Present(m, s)
  BY DEF OwnersOf
<1>2. CASE OwnersOf(m, s) = {o}
  BY <1>1, <1>2, RemoveLastGood DEF DetachOwner
<1>3. CASE OwnersOf(m, s) # {o}
  BY <1>1, <1>3, DropOwnerGood DEF DetachOwner
<1> QED
  BY <1>2, <1>3

(***************************************************************************)
(* Activations: a tab is taken from every other session before it is given.*)
(***************************************************************************)
OnlyActivations(m, n) ==
    /\ n \in Manager
    /\ n.sidecars = m.sidecars
    /\ n.generations = m.generations
    /\ n.counter = m.counter
    /\ n.stops = m.stops
    /\ n.terminals = m.terminals
    /\ n.unowned = m.unowned

LEMMA OnlyActivationsGood ==
    ASSUME NEW m, NEW n, Good(m), OnlyActivations(m, n), TabsApart(n)
    PROVE  Good(n)
<1>1. Base(n)
  BY SameInstances DEF Good, OnlyActivations, Present
<1>2. Owned(n)
  BY DEF Good, Owned, OnlyActivations, Present
<1> QED
  BY <1>1, <1>2 DEF Good

\* After a claim the tab is on no activation but possibly the keeper's.
ClaimedFrom(m, n, keeper, tab) ==
    /\ OnlyActivations(m, n)
    /\ TabsApart(n)
    /\ n.activations[keeper] = m.activations[keeper]
    /\ \A s \in Session \ {keeper} :
          n.activations[s] # None
              => n.activations[s].tab = None \/ n.activations[s].tab # tab

LEMMA ClaimTabClaims ==
    ASSUME NEW m, NEW keeper \in Session, NEW tab \in Tab \cup {None}, Good(m)
    PROVE  ClaimedFrom(m, ClaimTab(m, keeper, tab), keeper, tab)
<1>1. m \in Manager /\ TabsApart(m)
  BY DEF Good, Base, Typed
<1>2. CASE tab = None
  BY <1>1, <1>2 DEF ClaimTab, ClaimedFrom, OnlyActivations
<1>3. CASE tab # None
  <2> DEFINE act == [s \in Session |->
                IF s # keeper /\ m.activations[s] # None
                   /\ m.activations[s].tab = tab
                THEN [m.activations[s] EXCEPT !.tab = None]
                ELSE m.activations[s]]
  <2> DEFINE n == ClaimTab(m, keeper, tab)
  <2>1. n = [m EXCEPT !.activations = act]
    BY <1>3 DEF ClaimTab, ClearTabElsewhere
  <2>2. act \in [Session -> Activation \cup {None}]
    BY <1>1 DEF Manager, Activation
  <2>3. \A s \in Session :
          \/ act[s] = m.activations[s]
             /\ (s = keeper \/ m.activations[s] = None
                  \/ m.activations[s].tab # tab)
          \/ act[s].tab = None
    BY <1>1, <2>2 DEF Manager, Activation
  <2>4. act[keeper] = m.activations[keeper]
    OBVIOUS
  <2> HIDE DEF act
  <2>5. OnlyActivations(m, n) /\ n.activations = act
    BY <1>1, <2>1, <2>2 DEF OnlyActivations, Manager
  <2> HIDE DEF n
  <2>6. \A s \in Session \ {keeper} :
          act[s] # None => act[s].tab = None \/ act[s].tab # tab
    BY <2>3
  <2>7. TabsApart(n)
    BY <1>1, <2>3, <2>5 DEF TabsApart
  <2> QED
    BY <2>4, <2>5, <2>6, <2>7 DEF ClaimedFrom, n
<1> QED
  BY <1>2, <1>3

\* The keeper's activation then takes the tab.
LEMMA GiveTabGood ==
    ASSUME NEW m, NEW n, NEW s \in Session, NEW tab \in Tab \cup {None},
           NEW act \in Activation, act.tab = tab,
           Good(m), ClaimedFrom(m, n, s, tab)
    PROVE  Good([n EXCEPT !.activations[s] = act])
<1> DEFINE k == [n EXCEPT !.activations[s] = act]
<1>1. n \in Manager /\ TabsApart(n)
  BY DEF ClaimedFrom, OnlyActivations
<1>2. OnlyActivations(n, k) /\ k.activations = [n.activations EXCEPT ![s] = act]
  BY <1>1 DEF OnlyActivations, Manager
<1> HIDE DEF k
<1>3. \A r \in Session :
        k.activations[r] = IF r = s THEN act ELSE n.activations[r]
  BY <1>1, <1>2 DEF Manager
<1>4. TabsApart(k)
  BY <1>1, <1>3 DEF ClaimedFrom, TabsApart
<1>5. Good(n)
  BY <1>1, OnlyActivationsGood DEF ClaimedFrom
<1> QED
  BY <1>2, <1>4, <1>5, OnlyActivationsGood DEF k

LEMMA ActivateGood ==
    ASSUME NEW m, NEW s \in Session, NEW tab \in Tab \cup {None},
           NEW port \in Nat, Good(m)
    PROVE  Good(Activate(m, s, tab, port))
<1> DEFINE act == [tab |-> tab, port |-> port]
<1>1. act \in Activation /\ act.tab = tab
  BY DEF Activation
<1>2. ClaimedFrom(m, ClaimTab(m, s, tab), s, tab)
  BY ClaimTabClaims
<1> HIDE DEF act
<1>3. Good([ClaimTab(m, s, tab) EXCEPT !.activations[s] = act])
  BY <1>1, <1>2, GiveTabGood
<1> QED
  BY <1>3 DEF Activate, act

LEMMA UpdateTabGood ==
    ASSUME NEW m, NEW s \in Session, NEW tab \in Tab \cup {None}, Good(m)
    PROVE  Good(UpdateTab(m, s, tab))
<1> DEFINE n == ClaimTab(m, s, tab)
<1>1. ClaimedFrom(m, n, s, tab)
  BY ClaimTabClaims
<1> HIDE DEF n
<1>2. CASE m.activations[s] = None
  <2>1. Good(n)
    BY <1>1, OnlyActivationsGood DEF ClaimedFrom
  <2> QED
    BY <1>2, <2>1 DEF UpdateTab, n
<1>3. CASE m.activations[s] # None
  <2> DEFINE act == [m.activations[s] EXCEPT !.tab = tab]
  <2>1. m.activations[s] \in Activation
    BY <1>3 DEF Good, Base, Typed, Manager
  <2>2. act \in Activation /\ act.tab = tab
    BY <2>1 DEF Activation
  <2>3. n \in Manager /\ n.activations[s] = m.activations[s]
    BY <1>1 DEF ClaimedFrom, OnlyActivations
  <2>4. UpdateTab(m, s, tab) = [n EXCEPT !.activations[s] = act]
    BY <1>3, <2>3 DEF UpdateTab, n, Manager
  <2> HIDE DEF act
  <2> QED
    BY <1>1, <2>2, <2>4, GiveTabGood
<1> QED
  BY <1>2, <1>3

LEMMA ReleaseTabGood ==
    ASSUME NEW m, NEW s \in Session, NEW t, NEW persisted \in BOOLEAN, Good(m)
    PROVE  Good(ReleaseTab(m, s, t, persisted))
<1> DEFINE n == RemoveSessionOwner(m, s, t)
<1>1. Good(n)
  BY RemoveSessionOwnerGood
<1> HIDE DEF n
<1>2. Good(UpdateTab(n, s, None)) /\ Good(Deactivate(n, s))
  BY <1>1, UpdateTabGood, DeactivateGood
<1> QED
  BY <1>1, <1>2 DEF ReleaseTab, n

(***************************************************************************)
(* Renaming, drift and shutdown.                                           *)
(***************************************************************************)
LEMMA RenameGood ==
    ASSUME NEW m, NEW old \in Session, NEW new \in Session, old # new,
           MayRename(m, old, new), Good(m)
    PROVE  Good(Rename(m, old, new))
<1> DEFINE n == Rename(m, old, new)
<1>1. m \in Manager /\ m.counter >= 1
  BY DEF Good, Base, Typed
<1>2. ~Present(m, new) /\ m.activations[new] = None
  BY DEF MayRename, Known
<1> DEFINE Moved(f) == [f EXCEPT ![old] = None, ![new] = f[old]]
<1> DEFINE gens == IF m.generations[old] = 0 THEN m.generations
                   ELSE [m.generations EXCEPT ![old] = 0,
                                              ![new] = m.generations[old]]
<1>3. /\ Moved(m.sidecars) \in [Session -> Sidecar \cup {None}]
      /\ Moved(m.activations) \in [Session -> Activation \cup {None}]
      /\ gens \in [Session -> Nat]
  BY <1>1 DEF Manager
<1>4. n = [m EXCEPT !.sidecars = Moved(m.sidecars),
                    !.activations = Moved(m.activations),
                    !.generations = gens]
  BY DEF Rename
<1> DEFINE sidecars == Moved(m.sidecars)
<1> DEFINE activations == Moved(m.activations)
<1>5. \A r \in Session :
        /\ sidecars[r] = IF r = new THEN m.sidecars[old]
                         ELSE IF r = old THEN None ELSE m.sidecars[r]
        /\ activations[r] = IF r = new THEN m.activations[old]
                            ELSE IF r = old THEN None ELSE m.activations[r]
        /\ m.generations[old] # 0 =>
             gens[r] = IF r = new THEN m.generations[old]
                       ELSE IF r = old THEN 0 ELSE m.generations[r]
        /\ m.generations[old] = 0 => gens[r] = m.generations[r]
  BY <1>1 DEF Manager
<1> HIDE DEF gens, sidecars, activations
<1>6. /\ n \in Manager
      /\ n.sidecars = sidecars
      /\ n.activations = activations
      /\ n.generations = gens
      /\ n.counter = m.counter
      /\ n.stops = m.stops
  BY <1>1, <1>3, <1>4 DEF Manager, sidecars, activations
<1> HIDE DEF n, Moved
<1>7. \A r \in Session :
        Present(n, r) <=> \/ r = new /\ Present(m, old)
                          \/ r # new /\ r # old /\ Present(m, r)
  BY <1>5, <1>6 DEF Present
<1>8. Numbered(m) /\ Stopped(m)
  BY DEF Good, Base
<1>9. m.generations[old] = 0 => ~Present(m, old)
  BY <1>8 DEF Numbered
<1>10. Typed(n)
  BY <1>1, <1>6 DEF Typed
<1>11. Numbered(n)
  <2>1. CASE m.generations[old] = 0
    BY <1>5, <1>6, <1>7, <1>8, <1>9, <2>1 DEF Numbered
  <2>2. CASE m.generations[old] # 0
    BY <1>1, <1>5, <1>6, <1>7, <1>8, <2>2 DEF Numbered, Manager
  <2> QED
    BY <2>1, <2>2
<1>12. Stopped(n)
  <2>1. CASE m.generations[old] = 0
    BY <1>5, <1>6, <1>7, <1>8, <1>9, <2>1 DEF Stopped
  <2>2. CASE m.generations[old] # 0
    BY <1>5, <1>6, <1>7, <1>8, <2>2 DEF Stopped
  <2> QED
    BY <2>1, <2>2
<1>13. Owned(n)
  BY <1>5, <1>6, <1>7 DEF Good, Owned, Present
<1>14. TabsApart(n)
  BY <1>5, <1>6 DEF Good, TabsApart
<1> QED
  BY <1>10, <1>11, <1>12, <1>13, <1>14 DEF Good, Base, n

LEMMA UpgradeSessionIdGood ==
    ASSUME NEW m, NEW old \in Session, NEW new \in Session, Good(m)
    PROVE  Good(UpgradeSessionId(m, old, new))
BY RenameGood DEF UpgradeSessionId

LEMMA KillIfRuntimeDiffersGood ==
    ASSUME NEW m, NEW s \in Session, NEW rt, Good(m)
    PROVE  Good(KillIfRuntimeDiffers(m, s, rt))
BY RemoveSidecarGood, ClearGenerationGood DEF KillIfRuntimeDiffers

LEMMA StopAllGood ==
    ASSUME NEW m, Good(m)
    PROVE  Good(StopAll(m))
<1> DEFINE n == StopAll(m)
<1> DEFINE gone ==
      {<<s, m.generations[s]>> : s \in {t \in Session : Present(m, t)}}
<1>1. /\ m \in Manager /\ m.counter \in Nat /\ m.counter >= 1
      /\ Numbered(m) /\ Stopped(m)
  BY DEF Good, Base, Typed, Manager
<1>2. gone \subseteq Event
  BY <1>1 DEF Manager, Event
<1>3. \A e \in gone : e[2] < m.counter
  BY <1>1 DEF Numbered
<1>4. n = [m EXCEPT !.sidecars    = [s \in Session |-> None],
                    !.activations = [s \in Session |-> None],
                    !.generations = [s \in Session |-> 0],
                    !.stops       = m.stops \cup gone,
                    !.terminals   = m.terminals \cup gone,
                    !.unowned     = m.unowned \cup gone]
  BY DEF StopAll
<1> HIDE DEF gone
<1>. /\ [s \in Session |-> None] \in [Session -> Sidecar \cup {None}]
     /\ [s \in Session |-> None] \in [Session -> Activation \cup {None}]
     /\ [s \in Session |-> 0] \in [Session -> Nat]
     /\ m.stops \cup gone \in SUBSET Event
     /\ m.terminals \cup gone \in SUBSET Event
     /\ m.unowned \cup gone \in SUBSET Event
  BY <1>1, <1>2 DEF Manager
<1>5. /\ n \in Manager
      /\ n.sidecars = [s \in Session |-> None]
      /\ n.activations = [s \in Session |-> None]
      /\ n.generations = [s \in Session |-> 0]
      /\ n.counter = m.counter
      /\ n.stops = m.stops \cup gone
  BY <1>1, <1>2, <1>4 DEF Manager
<1> HIDE DEF n
<1>6. \A s \in Session : ~Present(n, s)
  BY <1>5 DEF Present
<1>7. Typed(n) /\ Numbered(n)
  <2>1. \A s \in Session : n.generations[s] = 0
    BY <1>5
  <2>2. Typed(n)
    BY <1>1, <1>5 DEF Typed
  <2> QED
    BY <1>1, <1>5, <1>6, <2>1, <2>2 DEF Numbered
<1>8. Stopped(n)
  BY <1>1, <1>3, <1>5, <1>6 DEF Stopped
<1>9. Owned(n) /\ TabsApart(n)
  BY <1>5, <1>6 DEF Owned, TabsApart
<1> QED
  BY <1>7, <1>8, <1>9 DEF Good, Base, n

\* Entries may change but for their owners, as a process comes up or exits
\* and as readers notice it.
LEMMA SameOwnersGood ==
    ASSUME NEW m, NEW f \in [Session -> Sidecar \cup {None}], Good(m),
           \A s \in Session :
              /\ f[s] = None <=> m.sidecars[s] = None
              /\ f[s] # None => f[s].owners = m.sidecars[s].owners
    PROVE  Good([m EXCEPT !.sidecars = f])
<1> DEFINE n == [m EXCEPT !.sidecars = f]
<1>1. m \in Manager
  BY DEF Good, Base, Typed
<1>2. /\ n \in Manager
      /\ n.sidecars = f
      /\ n.activations = m.activations
      /\ n.generations = m.generations
      /\ n.counter = m.counter
      /\ n.stops = m.stops
  BY <1>1 DEF Manager
<1> HIDE DEF n
<1>3. Base(n)
  BY <1>2, SameInstances DEF Good, Present
<1>4. Owned(n) /\ TabsApart(n)
  BY <1>2 DEF Good, Owned, TabsApart, Present
<1> QED
  BY <1>3, <1>4 DEF Good, n

LEMMA ReapGood ==
    ASSUME NEW m, NEW ss, Good(m)
    PROVE  Good(Reap(m, ss))
<1> DEFINE f == [s \in Session |->
                  IF s \in ss /\ m.sidecars[s] # None /\ IsDead(m.sidecars[s])
                  THEN [m.sidecars[s] EXCEPT !.state = "Dead"]
                  ELSE m.sidecars[s]]
<1>1. m.sidecars \in [Session -> Sidecar \cup {None}]
  BY DEF Good, Base, Typed, Manager
<1>2. \A s \in Session :
        /\ f[s] \in Sidecar \cup {None}
        /\ f[s] = None <=> m.sidecars[s] = None
        /\ f[s] # None => f[s].owners = m.sidecars[s].owners
  BY <1>1, NoneAssumption DEF Sidecar, SidecarState
<1>3. f \in [Session -> Sidecar \cup {None}]
  BY <1>2
<1>4. Reap(m, ss) = [m EXCEPT !.sidecars = f]
  BY DEF Reap
<1> HIDE DEF f
<1> QED
  BY <1>2, <1>3, <1>4, SameOwnersGood

LEMMA ProcGood ==
    ASSUME NEW m, NEW s \in Session, NEW p \in ProcState, Good(m), Present(m, s)
    PROVE  Good([m EXCEPT !.sidecars[s].proc = p])
<1> DEFINE sc == [m.sidecars[s] EXCEPT !.proc = p]
<1>1. m \in Manager /\ m.sidecars[s] \in Sidecar
  BY DEF Good, Base, Typed, Manager, Present
<1>2. sc \in Sidecar /\ sc.owners # {}
  BY <1>1 DEF Good, Owned, Sidecar
<1>3. [m EXCEPT !.sidecars[s].proc = p] = InsertSidecar(m, s, sc)
  BY <1>1 DEF InsertSidecar, Manager
<1> HIDE DEF sc
<1> QED
  BY <1>2, <1>3, ChangeEntryGood

(***************************************************************************)
(* The inductive invariant.                                                *)
(***************************************************************************)
LEMMA InitGood == Init => IInv
<1> SUFFICES ASSUME Init PROVE IInv
  OBVIOUS
<1>1. /\ [s \in Session |-> None] \in [Session -> Sidecar \cup {None}]
      /\ [s \in Session |-> None] \in [Session -> Activation \cup {None}]
      /\ [s \in Session |-> 0] \in [Session -> Nat]
  OBVIOUS
<1>2. /\ mgr \in Manager
      /\ mgr.sidecars = [s \in Session |-> None]
      /\ mgr.activations = [s \in Session |-> None]
      /\ mgr.generations = [s \in Session |-> 0]
      /\ mgr.counter = 1
      /\ mgr.stops = {}
  BY <1>1 DEF Init, Manager
<1>3. \A s \in Session : ~Present(mgr, s) /\ mgr.generations[s] = 0
  BY <1>2 DEF Present
<1>4. Base(mgr)
  BY <1>2, <1>3 DEF Base, Typed, Numbered, Stopped
<1>5. Owned(mgr) /\ TabsApart(mgr)
  BY <1>2, <1>3 DEF Owned, TabsApart
<1> QED
  BY <1>4, <1>5 DEF IInv, Good

LEMMA EnsureStepGood == IInv /\ EnsureStep => IInv'
<1> SUFFICES ASSUME IInv, NEW s \in Session,
                    \/ Evict(s) \/ SpawnFails(s)
                    \/ \E os \in SUBSET Owner : Join(s, os) \/ BecomeHealthy(s, os)
                    \/ \E o \in Owner :
                          Detach(s, o) \/ \E rt \in Runtime : Spawn(s, o, rt)
             PROVE  Good(mgr')
  BY DEF EnsureStep, IInv
<1> USE DEF IInv
<1>1. CASE Evict(s)
  BY <1>1, EvictionsGood DEF Evict
<1>2. CASE SpawnFails(s)
  <2>1. PICK m \in Evictions(mgr, s) :
          mgr' = ClearGeneration(NextGeneration(m, s), s)
    BY <1>2 DEF SpawnFails
  <2>2. Good(m) /\ ~Present(m, s)
    BY EvictionsGood
  <2>3. Good(NextGeneration(m, s)) /\ ~Present(NextGeneration(m, s), s)
    BY <2>2, NextGenerationGood
  <2> QED
    BY <2>1, <2>3, ClearGenerationGood
<1>3. ASSUME NEW os \in SUBSET Owner, Join(s, os)
      PROVE  Good(mgr')
  BY <1>3, AddOwnersGood DEF Join
<1>4. ASSUME NEW os \in SUBSET Owner, BecomeHealthy(s, os)
      PROVE  Good(mgr')
  <2>1. Good(MarkHealthy(mgr, s))
    BY <1>4, MarkHealthyGood DEF BecomeHealthy
  <2> QED
    BY <1>4, <2>1, AddOwnersGood DEF BecomeHealthy
<1>5. ASSUME NEW o \in Owner, Detach(s, o)
      PROVE  Good(mgr')
  BY <1>5, DetachOwnerGood DEF Detach
<1>6. ASSUME NEW o \in Owner, NEW rt \in Runtime, Spawn(s, o, rt)
      PROVE  Good(mgr')
  <2>1. PICK m \in Evictions(mgr, s) : mgr' = Install(m, s, o, rt)
    BY <1>6 DEF Spawn
  <2>2. Good(m) /\ ~Present(m, s)
    BY EvictionsGood
  <2> QED
    BY <2>1, <2>2, InstallGood
<1> QED
  BY <1>1, <1>2, <1>3, <1>4, <1>5, <1>6

LEMMA CommandGood == IInv /\ Command => IInv'
<1> SUFFICES ASSUME IInv, Command PROVE Good(mgr')
  BY DEF IInv
<1> USE DEF IInv
<1>1. CASE StopAllSidecars
  BY <1>1, StopAllGood DEF StopAllSidecars
<1>2. ASSUME NEW ss, Observe(ss) PROVE Good(mgr')
  BY <1>2, ReapGood DEF Observe
<1>3. ASSUME NEW s \in Session, DeactivateSession(s) PROVE Good(mgr')
  BY <1>3, DeactivateGood DEF DeactivateSession
<1>4. ASSUME NEW s \in Session, NEW o, Release(s, o) PROVE Good(mgr')
  BY <1>4, RemoveSessionOwnerGood DEF Release
<1>5. ASSUME NEW s \in Session, NEW t, ReleaseTabSession(s, t)
      PROVE  Good(mgr')
  BY <1>5, ReleaseTabGood DEF ReleaseTabSession
<1>6. ASSUME NEW s \in Session, NEW tab \in Tab \cup {None},
             ActivateSession(s, tab)
      PROVE  Good(mgr')
  <2>1. PICK port \in 1..(mgr.counter - 1) :
          mgr' = Activate(mgr, s, tab, port)
    BY <1>6 DEF ActivateSession
  <2>2. port \in Nat
    BY DEF Good, Base, Typed, Manager
  <2> QED
    BY <2>1, <2>2, ActivateGood
<1>7. ASSUME NEW s \in Session, NEW tab \in Tab \cup {None},
             UpdateSessionTab(s, tab)
      PROVE  Good(mgr')
  BY <1>7, UpdateTabGood DEF UpdateSessionTab
<1>8. ASSUME NEW old \in Session, NEW new \in Session, Upgrade(old, new)
      PROVE  Good(mgr')
  BY <1>8, UpgradeSessionIdGood DEF Upgrade
<1>9. ASSUME NEW s \in Session, NEW rt, DriftKill(s, rt) PROVE Good(mgr')
  BY <1>9, KillIfRuntimeDiffersGood DEF DriftKill
<1> QED
  BY <1>1, <1>2, <1>3, <1>4, <1>5, <1>6, <1>7, <1>8, <1>9 DEF Command

LEMMA ProcessGood == IInv /\ Process => IInv'
<1> SUFFICES ASSUME IInv, NEW s \in Session,
                    ProcessReady(s) \/ ProcessExits(s)
             PROVE  Good(mgr')
  BY DEF Process, IInv
<1> USE DEF IInv, ProcState
<1>1. CASE ProcessReady(s)
  BY <1>1, ProcGood DEF ProcessReady
<1>2. CASE ProcessExits(s)
  BY <1>2, ProcGood DEF ProcessExits
<1> QED
  BY <1>1, <1>2

\* Whatever locked sections the callers run, the record stays Good: generations on
\* file are apart, no stop event matches an entry, every entry has an owner and
\* no tab has two activations.
THEOREM Invariance == Spec => []IInv
<1>1. Init => IInv
  BY InitGood
<1>2. IInv /\ [Next]_mgr => IInv'
  <2>1. IInv /\ UNCHANGED mgr => IInv'
    BY DEF IInv
  <2> QED
    BY <2>1, EnsureStepGood, CommandGood, ProcessGood DEF Next
<1> QED
  BY <1>1, <1>2, PTL DEF Spec

(***************************************************************************)
(* What it implies.                                                        *)
(***************************************************************************)
\* The record keeps its type.
THEOREM TypeCorrect == Spec => []TypeOK
<1>1. IInv => TypeOK
  BY DEF IInv, Good, Base, Typed, TypeOK
<1> QED
  BY <1>1, Invariance, PTL

\* Every sidecar has an owner: removing the last one always stops it.
THEOREM SidecarsAreOwned == Spec => []NoOwnerlessSidecar
<1>1. IInv => NoOwnerlessSidecar
  BY DEF IInv, Good, Owned, NoOwnerlessSidecar
<1> QED
  BY <1>1, Invariance, PTL

\* No two sidecars share a generation, through renames and reuse of ids.
THEOREM GenerationsNameInstances == Spec => []GenerationNamesInstance
<1>1. IInv => GenerationNamesInstance
  <2> SUFFICES ASSUME IInv, NEW s \in Session, Present(mgr, s)
               PROVE  /\ mgr.generations[s] \in 1..(mgr.counter - 1)
                      /\ \A r \in Session \ {s} :
                           Present(mgr, r)
                             => mgr.generations[r] # mgr.generations[s]
    BY DEF GenerationNamesInstance
  <2>1. Numbered(mgr)
    BY DEF IInv, Good, Base
  <2>2. mgr.generations[s] \in Nat /\ mgr.counter \in Nat
    BY DEF IInv, Good, Base, Typed, Manager
  <2> QED
    BY <2>1, <2>2 DEF Numbered
<1> QED
  BY <1>1, Invariance, PTL

\* A stop event never matches an instance that is still there.
THEOREM StaleStopsAreHarmless == Spec => []StaleStopIsHarmless
<1>1. IInv => StaleStopIsHarmless
  BY DEF IInv, Good, Base, Stopped, StaleStopIsHarmless
<1> QED
  BY <1>1, Invariance, PTL

\* No two activations carry the same tab id.
THEOREM TabsNameOneSession == Spec => []TabNamesOneSession
<1>1. IInv => TabNamesOneSession
  BY DEF IInv, Good, TabsApart, TabNamesOneSession
<1> QED
  BY <1>1, Invariance, PTL

(***************************************************************************)
(* What becomes of the instances in one step.                              *)
(***************************************************************************)
\* An entry and what the same instance's entry is later: the port stays, a
\* process does not boot twice, and it is only marked once it has answered.
Ages(a, b) ==
    /\ b.port = a.port
    /\ a.proc # "booting" => b.proc # "booting"
    /\ (b.state = "Healthy" /\ b.proc = "booting") => a.state = "Healthy"

\* The instance that r has in m is the one that s has in n.
Continues(m, r, n, s) ==
    /\ Present(m, r) /\ Present(n, s)
    /\ n.generations[s] = m.generations[r]
    /\ Ages(m.sidecars[r], n.sidecars[s])

\* Instances stay where they are, or go and are announced; none comes.
Thins(m, n) ==
    /\ m.counter <= n.counter
    /\ m.stops \subseteq n.stops
    /\ \A s \in Session : Present(n, s) => Continues(m, s, n, s)
    /\ \A s \in Session : Present(m, s) =>
          Present(n, s) \/ <<s, m.generations[s]>> \in n.stops

\* The port and the generation of an instance are the number it was drawn.
Fresh(m, n, s) ==
    /\ n.sidecars[s].port = n.generations[s]
    /\ n.generations[s] \in m.counter..(n.counter - 1)
    /\ n.sidecars[s].state # "Healthy"

\* Any step: instances may also move, and new ones come.
Follows(m, n) ==
    /\ m.counter <= n.counter
    /\ \A s \in Session : Present(n, s) =>
          (\E r \in Session : Continues(m, r, n, s)) \/ Fresh(m, n, s)
    /\ \A s \in Session : Present(m, s) =>
          \/ \E r \in Session : Continues(m, s, n, r)
          \/ <<s, m.generations[s]>> \in n.stops

LEMMA ThinsAgain ==
    ASSUME NEW m \in Manager, NEW k \in Manager, NEW n \in Manager,
           Thins(m, k), Thins(k, n)
    PROVE  Thins(m, n)
<1>1. m.counter <= n.counter /\ m.stops \subseteq n.stops
  <2>1. m.counter \in Nat /\ k.counter \in Nat /\ n.counter \in Nat
    BY DEF Manager
  <2> QED
    BY <2>1 DEF Thins
<1>2. ASSUME NEW s \in Session, Present(n, s)
      PROVE  Continues(m, s, n, s)
  <2>1. Continues(k, s, n, s) /\ Continues(m, s, k, s)
    BY <1>2 DEF Thins, Continues
  <2> QED
    BY <2>1 DEF Continues, Ages
<1>3. ASSUME NEW s \in Session, Present(m, s)
      PROVE  Present(n, s) \/ <<s, m.generations[s]>> \in n.stops
  <2>1. CASE Present(k, s)
    <3>1. k.generations[s] = m.generations[s]
      BY <2>1 DEF Thins, Continues
    <3> QED
      BY <2>1, <3>1 DEF Thins
  <2>2. CASE ~Present(k, s)
    BY <1>3, <2>2 DEF Thins
  <2> QED
    BY <2>1, <2>2
<1> QED
  BY <1>1, <1>2, <1>3 DEF Thins

LEMMA ThinsFollows ==
    ASSUME NEW m, NEW n, Thins(m, n)
    PROVE  Follows(m, n)
BY DEF Thins, Follows

\* The entries are left alone.
LEMMA SameEntriesThin ==
    ASSUME NEW m, NEW n \in Manager, m.counter \in Nat,
           n.sidecars = m.sidecars, n.counter >= m.counter, n.stops = m.stops,
           \A s \in Session : Present(m, s) =>
              n.generations[s] = m.generations[s]
    PROVE  Thins(m, n)
<1>1. n.counter \in Nat
  BY DEF Manager
<1> QED
  BY <1>1 DEF Thins, Continues, Ages, Present

LEMMA RemoveSidecarThins ==
    ASSUME NEW m \in Manager, NEW s \in Session
    PROVE  Thins(m, RemoveSidecar(m, s))
<1> DEFINE n == RemoveSidecar(m, s)
<1>1. /\ n \in Manager
      /\ n.sidecars = [m.sidecars EXCEPT ![s] = None]
      /\ n.generations = m.generations
      /\ n.counter = m.counter
      /\ n.stops = IF Present(m, s)
                   THEN m.stops \cup {<<s, m.generations[s]>>}
                   ELSE m.stops
  BY RemoveSidecarFields
<1> HIDE DEF n
<1>2. m.counter \in Nat /\ m.sidecars \in [Session -> Sidecar \cup {None}]
  BY DEF Manager
<1>3. \A r \in Session :
        n.sidecars[r] = IF r = s THEN None ELSE m.sidecars[r]
  BY <1>1, <1>2
<1> QED
  BY <1>1, <1>2, <1>3 DEF Thins, Continues, Ages, Present, n

LEMMA ClearGenerationThins ==
    ASSUME NEW m \in Manager, NEW s \in Session, ~Present(m, s)
    PROVE  Thins(m, ClearGeneration(m, s))
<1> DEFINE n == ClearGeneration(m, s)
<1>1. /\ n \in Manager
      /\ n.sidecars = m.sidecars
      /\ n.generations = [m.generations EXCEPT ![s] = 0]
      /\ n.counter = m.counter
      /\ n.stops = m.stops
  BY ClearGenerationFields
<1>2. m.counter \in Nat /\ m.generations \in [Session -> Nat]
  BY DEF Manager
<1> HIDE DEF n
<1>3. \A r \in Session : r # s => n.generations[r] = m.generations[r]
  BY <1>1, <1>2
<1> QED
  BY <1>1, <1>2, <1>3, SameEntriesThin DEF n

LEMMA NextGenerationThins ==
    ASSUME NEW m \in Manager, NEW s \in Session, ~Present(m, s)
    PROVE  Thins(m, NextGeneration(m, s))
<1> DEFINE n == NextGeneration(m, s)
<1>1. /\ n \in Manager
      /\ n.sidecars = m.sidecars
      /\ n.generations = [m.generations EXCEPT ![s] = m.counter]
      /\ n.counter = m.counter + 1
      /\ n.stops = m.stops
  BY NextGenerationFields
<1>2. m.counter \in Nat /\ m.generations \in [Session -> Nat]
  BY DEF Manager
<1> HIDE DEF n
<1>3. \A r \in Session : r # s => n.generations[r] = m.generations[r]
  BY <1>1, <1>2
<1> QED
  BY <1>1, <1>2, <1>3, SameEntriesThin DEF n

LEMMA ChangeEntryThins ==
    ASSUME NEW m \in Manager, NEW s \in Session, NEW sc \in Sidecar,
           Present(m, s), Ages(m.sidecars[s], sc)
    PROVE  Thins(m, InsertSidecar(m, s, sc))
<1> DEFINE n == InsertSidecar(m, s, sc)
<1>1. /\ n.sidecars = [m.sidecars EXCEPT ![s] = sc]
      /\ n.generations = m.generations
      /\ n.counter = m.counter
      /\ n.stops = m.stops
  BY InsertSidecarFields
<1>2. m.counter \in Nat /\ m.sidecars \in [Session -> Sidecar \cup {None}]
  BY DEF Manager
<1> HIDE DEF n
<1>3. \A r \in Session :
        n.sidecars[r] = IF r = s THEN sc ELSE m.sidecars[r]
  BY <1>1, <1>2
<1>4. \A r \in Session : Present(n, r) <=> Present(m, r)
  BY <1>3, NoneAssumption DEF Present
<1>5. \A r \in Session : Present(n, r) => Continues(m, r, n, r)
  BY <1>1, <1>3, <1>4 DEF Continues, Ages
<1> QED
  BY <1>1, <1>2, <1>4, <1>5 DEF Thins, n

LEMMA AddOwnersThins ==
    ASSUME NEW m \in Manager, NEW s \in Session, NEW os \in SUBSET Owner
    PROVE  Thins(m, AddOwners(m, s, os))
<1>1. CASE ~Present(m, s)
  <2>1. AddOwners(m, s, os) = m /\ m.counter \in Nat
    BY <1>1 DEF AddOwners, Manager
  <2> QED
    BY <2>1, SameEntriesThin
<1>2. CASE Present(m, s)
  <2> DEFINE sc == [m.sidecars[s] EXCEPT !.owners = @ \cup os]
  <2>1. m.sidecars[s] \in Sidecar
    BY <1>2 DEF Manager, Present
  <2>2. sc \in Sidecar /\ Ages(m.sidecars[s], sc)
    BY <2>1 DEF Sidecar, Ages
  <2>3. AddOwners(m, s, os) = InsertSidecar(m, s, sc)
    BY <1>2, <2>1 DEF AddOwners, InsertSidecar, Manager
  <2> HIDE DEF sc
  <2> QED
    BY <1>2, <2>2, <2>3, ChangeEntryThins
<1> QED
  BY <1>1, <1>2

\* Here the mark is given: to a process that is no longer booting.
LEMMA MarkHealthyThins ==
    ASSUME NEW m \in Manager, NEW s \in Session, Present(m, s),
           m.sidecars[s].proc # "booting"
    PROVE  Thins(m, MarkHealthy(m, s))
<1> DEFINE sc == [m.sidecars[s] EXCEPT !.state = "Healthy"]
<1>1. m.sidecars[s] \in Sidecar
  BY DEF Manager, Present
<1>2. sc \in Sidecar /\ Ages(m.sidecars[s], sc)
  BY <1>1 DEF Sidecar, SidecarState, Ages
<1>3. MarkHealthy(m, s) = InsertSidecar(m, s, sc)
  BY <1>1 DEF MarkHealthy, InsertSidecar, Manager
<1> HIDE DEF sc
<1> QED
  BY <1>2, <1>3, ChangeEntryThins

LEMMA DropOwnerThins ==
    ASSUME NEW m, NEW s \in Session, NEW o, Good(m), Present(m, s)
    PROVE  Thins(m, DropOwner(m, s, o))
<1> DEFINE sc == Without(m.sidecars[s], o)
<1> DEFINE k == InsertSidecar(m, s, sc)
<1> DEFINE n == DropOwner(m, s, o)
<1>1. m \in Manager /\ m.sidecars[s] \in Sidecar
  BY DEF Good, Base, Typed, Manager, Present
<1>a. Drops(m, n, s, o)
  BY DropOwnerFields
<1> HIDE DEF n
<1>2. /\ sc \in Sidecar
      /\ n.sidecars = [m.sidecars EXCEPT ![s] = sc]
      /\ n.generations = m.generations
      /\ n.counter = m.counter
      /\ n.stops = m.stops
  BY <1>a DEF Drops
<1>3. Ages(m.sidecars[s], sc)
  BY <1>1 DEF Sidecar, Without, Ages
<1> HIDE DEF sc, n
<1>4. /\ k.sidecars = [m.sidecars EXCEPT ![s] = sc]
      /\ k.generations = m.generations
      /\ k.counter = m.counter
      /\ k.stops = m.stops
  BY <1>1, <1>2, InsertSidecarFields
<1>5. Thins(m, k)
  BY <1>1, <1>2, <1>3, ChangeEntryThins
<1> HIDE DEF k
<1>6. Thins(m, n)
  BY <1>2, <1>4, <1>5 DEF Thins, Continues, Present
<1> QED
  BY <1>6 DEF n

LEMMA OnlyActivationsThins ==
    ASSUME NEW m \in Manager, NEW n, OnlyActivations(m, n)
    PROVE  Thins(m, n)
<1>1. m.counter \in Nat
  BY DEF Manager
<1> QED
  BY <1>1, SameEntriesThin DEF OnlyActivations

LEMMA DeactivateOnly ==
    ASSUME NEW m \in Manager, NEW s \in Session
    PROVE  OnlyActivations(m, Deactivate(m, s))
BY DEF Deactivate, OnlyActivations, Manager

LEMMA ActivateOnly ==
    ASSUME NEW m, NEW s \in Session, NEW tab \in Tab \cup {None},
           NEW port \in Nat, Good(m)
    PROVE  OnlyActivations(m, Activate(m, s, tab, port))
<1> DEFINE n == ClaimTab(m, s, tab)
<1>1. OnlyActivations(m, n)
  BY ClaimTabClaims DEF ClaimedFrom
<1> HIDE DEF n
<1>2. OnlyActivations(m, [n EXCEPT
                            !.activations[s] = [tab |-> tab, port |-> port]])
  BY <1>1 DEF OnlyActivations, Manager, Activation
<1> QED
  BY <1>2 DEF Activate, n

LEMMA UpdateTabOnly ==
    ASSUME NEW m, NEW s \in Session, NEW tab \in Tab \cup {None}, Good(m)
    PROVE  OnlyActivations(m, UpdateTab(m, s, tab))
<1> DEFINE n == ClaimTab(m, s, tab)
<1>1. OnlyActivations(m, n) /\ n.activations[s] = m.activations[s]
  BY ClaimTabClaims DEF ClaimedFrom
<1> HIDE DEF n
<1>2. CASE m.activations[s] = None
  BY <1>1, <1>2 DEF UpdateTab, n
<1>3. CASE m.activations[s] # None
  <2> DEFINE act == [n.activations[s] EXCEPT !.tab = tab]
  <2>1. m \in Manager
    BY DEF Good, Base, Typed
  <2>2. act \in Activation
    BY <1>1, <1>3, <2>1 DEF Manager, Activation
  <2>3. UpdateTab(m, s, tab) = [n EXCEPT !.activations[s] = act]
    BY <1>1, <1>3 DEF UpdateTab, n, OnlyActivations, Manager
  <2> HIDE DEF act
  <2>4. OnlyActivations(m, [n EXCEPT !.activations[s] = act])
    BY <1>1, <2>2 DEF OnlyActivations, Manager
  <2> QED
    BY <2>3, <2>4
<1> QED
  BY <1>2, <1>3

LEMMA RemoveLastThins ==
    ASSUME NEW m, NEW s \in Session, NEW o, Good(m), Present(m, s)
    PROVE  /\ Thins(m, ClearGeneration(
                          RemoveSidecar(DropOwner(m, s, o), s), s))
           /\ Thins(m, ClearGeneration(Deactivate(
                          RemoveSidecar(DropOwner(m, s, o), s), s), s))
<1> DEFINE k == DropOwner(m, s, o)
<1> DEFINE n == RemoveSidecar(k, s)
<1>1. m \in Manager /\ k \in Manager
  BY DropOwnerFields DEF Good, Base, Typed, Drops
<1>2. Thins(m, k)
  BY DropOwnerThins
<1>3. Good(n) /\ ~Present(n, s)
  BY RemoveLastOwnerGood
<1> HIDE DEF k
<1>4. Thins(k, n)
  BY <1>1, RemoveSidecarThins
<1> HIDE DEF n
<1>5. n \in Manager
  BY <1>3 DEF Good, Base, Typed
<1>6. Thins(m, n)
  BY <1>1, <1>2, <1>4, <1>5, ThinsAgain
<1> DEFINE d == Deactivate(n, s)
<1>7. OnlyActivations(n, d)
  BY <1>5, DeactivateOnly
<1> HIDE DEF d
<1>8. d \in Manager /\ ~Present(d, s)
  BY <1>3, <1>7 DEF OnlyActivations, Present
<1>9. Thins(m, d)
  BY <1>1, <1>5, <1>6, <1>7, <1>8, OnlyActivationsThins, ThinsAgain
<1>10. ASSUME NEW x \in Manager, Thins(m, x), ~Present(x, s)
       PROVE  Thins(m, ClearGeneration(x, s))
  <2>1. Thins(x, ClearGeneration(x, s))
    BY <1>10, ClearGenerationThins
  <2>2. ClearGeneration(x, s) \in Manager
    BY ClearGenerationFields
  <2> QED
    BY <1>1, <1>10, <2>1, <2>2, ThinsAgain
<1> QED
  BY <1>3, <1>5, <1>6, <1>8, <1>9, <1>10 DEF d, n, k

LEMMA RemoveSessionOwnerThins ==
    ASSUME NEW m, NEW s \in Session, NEW o, Good(m)
    PROVE  Thins(m, RemoveSessionOwner(m, s, o))
<1>1. m \in Manager /\ m.counter \in Nat
  BY DEF Good, Base, Typed, Manager
<1>2. CASE o \notin OwnersOf(m, s)
  BY <1>1, <1>2, SameEntriesThin DEF RemoveSessionOwner
<1>3. CASE o \in OwnersOf(m, s) /\ OwnersOf(m, s) = {o}
  BY <1>3, RemoveLastThins DEF RemoveSessionOwner, OwnersOf
<1>4. CASE o \in OwnersOf(m, s) /\ OwnersOf(m, s) # {o}
  BY <1>4, DropOwnerThins DEF RemoveSessionOwner, OwnersOf
<1> QED
  BY <1>2, <1>3, <1>4

LEMMA DetachOwnerThins ==
    ASSUME NEW m, NEW s \in Session, NEW o, Good(m), o \in OwnersOf(m, s)
    PROVE  Thins(m, DetachOwner(m, s, o))
<1>1. Present(m, s)
  BY DEF OwnersOf
<1>2. CASE OwnersOf(m, s) = {o}
  BY <1>1, <1>2, RemoveLastThins DEF DetachOwner
<1>3. CASE OwnersOf(m, s) # {o}
  BY <1>1, <1>3, DropOwnerThins DEF DetachOwner
<1> QED
  BY <1>2, <1>3

LEMMA ReleaseTabThins ==
    ASSUME NEW m, NEW s \in Session, NEW t, NEW persisted \in BOOLEAN, Good(m)
    PROVE  Thins(m, ReleaseTab(m, s, t, persisted))
<1> DEFINE n == RemoveSessionOwner(m, s, t)
<1>1. Thins(m, n) /\ Good(n)
  BY RemoveSessionOwnerGood, RemoveSessionOwnerThins
<1> HIDE DEF n
<1>2. m \in Manager /\ m.counter \in Nat /\ n \in Manager
  BY <1>1 DEF Good, Base, Typed, Manager
<1>3. Thins(m, m)
  BY <1>2, SameEntriesThin
<1>4. ASSUME NEW k, OnlyActivations(n, k)
      PROVE  Thins(m, k)
  <2>1. k \in Manager
    BY <1>4 DEF OnlyActivations
  <2> QED
    BY <1>1, <1>2, <1>4, <2>1, OnlyActivationsThins, ThinsAgain
<1>5. Thins(m, UpdateTab(n, s, None)) /\ Thins(m, Deactivate(n, s))
  BY <1>1, <1>2, <1>4, UpdateTabOnly, DeactivateOnly
<1> QED
  BY <1>1, <1>3, <1>5 DEF ReleaseTab, n

LEMMA EvictionsThins ==
    ASSUME NEW m, NEW s \in Session, Good(m), NEW n \in Evictions(m, s)
    PROVE  Thins(m, n)
<1> DEFINE k == RemoveSidecar(m, s)
<1>1. m \in Manager
  BY DEF Good, Base, Typed
<1>2. Thins(m, k) /\ Good(k) /\ ~Present(k, s)
  BY <1>1, RemoveSidecarThins, RemoveSidecarGood
<1> HIDE DEF k
<1>3. k \in Manager
  BY <1>2 DEF Good, Base, Typed
<1>4. Thins(k, ClearGeneration(k, s)) /\ ClearGeneration(k, s) \in Manager
  BY <1>2, <1>3, ClearGenerationThins, ClearGenerationFields
<1>5. Thins(m, ClearGeneration(k, s))
  BY <1>1, <1>2, <1>3, <1>4, ThinsAgain
<1> QED
  BY <1>2, <1>5 DEF Evictions, k

LEMMA KillIfRuntimeDiffersThins ==
    ASSUME NEW m, NEW s \in Session, NEW rt, Good(m)
    PROVE  Thins(m, KillIfRuntimeDiffers(m, s, rt))
<1>1. m \in Manager /\ m.counter \in Nat
  BY DEF Good, Base, Typed, Manager
<1>2. Thins(m, m)
  BY <1>1, SameEntriesThin
<1>3. Thins(m, ClearGeneration(RemoveSidecar(m, s), s))
  BY EvictionsThins DEF Evictions
<1> QED
  BY <1>2, <1>3 DEF KillIfRuntimeDiffers

LEMMA StopAllThins ==
    ASSUME NEW m \in Manager
    PROVE  Thins(m, StopAll(m))
<1> DEFINE gone ==
      {<<s, m.generations[s]>> : s \in {t \in Session : Present(m, t)}}
<1> DEFINE n == StopAll(m)
<1>1. /\ \A s \in Session : n.sidecars[s] = None
      /\ n.counter = m.counter /\ m.counter \in Nat
      /\ n.stops = m.stops \cup gone
  BY DEF StopAll, Manager
<1>2. \A s \in Session : Present(m, s) => <<s, m.generations[s]>> \in gone
  OBVIOUS
<1> HIDE DEF n, gone
<1> QED
  BY <1>1, <1>2 DEF Thins, Present, n

\* The entries change in place.
LEMMA SameOwnersThins ==
    ASSUME NEW m \in Manager, NEW f,
           \A s \in Session :
              /\ f[s] = None <=> m.sidecars[s] = None
              /\ f[s] # None => Ages(m.sidecars[s], f[s])
    PROVE  Thins(m, [m EXCEPT !.sidecars = f])
<1> DEFINE n == [m EXCEPT !.sidecars = f]
<1>1. /\ n.sidecars = f
      /\ n.generations = m.generations
      /\ n.counter = m.counter /\ m.counter \in Nat
      /\ n.stops = m.stops
  BY DEF Manager
<1> HIDE DEF n
<1> QED
  BY <1>1 DEF Thins, Continues, Present, n

LEMMA ReapThins ==
    ASSUME NEW m \in Manager, NEW ss
    PROVE  Thins(m, Reap(m, ss))
<1> DEFINE f == [s \in Session |->
                  IF s \in ss /\ m.sidecars[s] # None /\ IsDead(m.sidecars[s])
                  THEN [m.sidecars[s] EXCEPT !.state = "Dead"]
                  ELSE m.sidecars[s]]
<1>1. \A s \in Session :
        m.sidecars[s] # None => m.sidecars[s] \in Sidecar
  BY DEF Manager
<1>2. \A s \in Session :
        /\ f[s] = None <=> m.sidecars[s] = None
        /\ f[s] # None => Ages(m.sidecars[s], f[s])
  BY <1>1, NoneAssumption DEF Sidecar, SidecarState, Ages
<1>3. Reap(m, ss) = [m EXCEPT !.sidecars = f]
  BY DEF Reap
<1> HIDE DEF f
<1> QED
  BY <1>2, <1>3, SameOwnersThins

LEMMA ProcThins ==
    ASSUME NEW m \in Manager, NEW s \in Session,
           NEW p \in ProcState \ {"booting"}, Present(m, s)
    PROVE  Thins(m, [m EXCEPT !.sidecars[s].proc = p])
<1> DEFINE sc == [m.sidecars[s] EXCEPT !.proc = p]
<1>1. m.sidecars[s] \in Sidecar
  BY DEF Manager, Present
<1>2. sc \in Sidecar /\ Ages(m.sidecars[s], sc)
  BY <1>1 DEF Sidecar, Ages
<1>3. [m EXCEPT !.sidecars[s].proc = p] = InsertSidecar(m, s, sc)
  BY <1>1 DEF InsertSidecar, Manager
<1> HIDE DEF sc
<1> QED
  BY <1>2, <1>3, ChangeEntryThins

\* A new entry gets the number the counter stands at.
LEMMA InstallFollows ==
    ASSUME NEW m \in Manager, NEW k \in Manager, Thins(m, k),
           NEW s \in Session, ~Present(k, s), NEW o \in Owner, NEW rt \in Runtime
    PROVE  /\ Follows(m, Install(k, s, o, rt))
           /\ Install(k, s, o, rt).counter = k.counter + 1
<1> DEFINE sc == [port |-> k.counter, runtime |-> rt, owners |-> {o},
                  state |-> "Starting", proc |-> "booting"]
<1> DEFINE x == NextGeneration(k, s)
<1> DEFINE n == InsertSidecar(x, s, sc)
<1>1. /\ m.counter \in Nat /\ k.counter \in Nat /\ m.counter <= k.counter
      /\ k.sidecars \in [Session -> Sidecar \cup {None}]
      /\ k.generations \in [Session -> Nat]
  BY DEF Manager, Thins
<1>2. sc \in Sidecar
  BY <1>1 DEF Sidecar, SidecarState, ProcState
<1>3. sc.port = k.counter /\ sc.state # "Healthy"
  OBVIOUS
<1> HIDE DEF sc
<1>4. /\ x \in Manager
      /\ x.sidecars = k.sidecars
      /\ x.generations = [k.generations EXCEPT ![s] = k.counter]
      /\ x.counter = k.counter + 1
      /\ x.stops = k.stops
  BY NextGenerationFields
<1> HIDE DEF x
<1>5. /\ n.sidecars = [x.sidecars EXCEPT ![s] = sc]
      /\ n.generations = x.generations
      /\ n.counter = x.counter
      /\ n.stops = x.stops
  BY <1>2, <1>4, InsertSidecarFields
<1> HIDE DEF n
<1>6. \A r \in Session :
        /\ n.sidecars[r] = IF r = s THEN sc ELSE k.sidecars[r]
        /\ n.generations[r] = IF r = s THEN k.counter ELSE k.generations[r]
  BY <1>1, <1>4, <1>5
<1>7. Fresh(m, n, s)
  BY <1>1, <1>3, <1>4, <1>5, <1>6 DEF Fresh
<1>8. \A r \in Session : Present(k, r) => r # s /\ Present(n, r)
  BY <1>6 DEF Present
<1>9. \A r \in Session : Present(n, r) => r = s \/ Present(k, r)
  BY <1>6 DEF Present
<1>10. ASSUME NEW r \in Session, Present(k, r)
       PROVE  Continues(m, r, n, r)
  <2>1. Continues(m, r, k, r)
    BY <1>10 DEF Thins
  <2>2. /\ r # s /\ Present(n, r)
        /\ n.sidecars[r] = k.sidecars[r]
        /\ n.generations[r] = k.generations[r]
    BY <1>6, <1>8, <1>10
  <2> QED
    BY <2>1, <2>2 DEF Continues
<1>11. Follows(m, n)
  <2>1. \A r \in Session : Present(n, r) =>
          (\E q \in Session : Continues(m, q, n, r)) \/ Fresh(m, n, r)
    BY <1>7, <1>9, <1>10
  <2>2. \A r \in Session : Present(m, r) =>
          \/ \E q \in Session : Continues(m, r, n, q)
          \/ <<r, m.generations[r]>> \in n.stops
    BY <1>4, <1>5, <1>10 DEF Thins
  <2>3. m.counter <= n.counter
    BY <1>1, <1>4, <1>5
  <2> QED
    BY <2>1, <2>2, <2>3 DEF Follows
<1> QED
  BY <1>4, <1>5, <1>11 DEF Install, n, x, sc

LEMMA RenameFollows ==
    ASSUME NEW m, NEW old \in Session, NEW new \in Session, old # new,
           MayRename(m, old, new), Good(m)
    PROVE  Follows(m, Rename(m, old, new))
<1> DEFINE n == Rename(m, old, new)
<1>1. /\ m \in Manager /\ m.counter \in Nat
      /\ m.sidecars \in [Session -> Sidecar \cup {None}]
      /\ m.generations \in [Session -> Nat]
  BY DEF Good, Base, Typed, Manager
<1>2. ~Present(m, new) /\ (Present(m, old) => m.generations[old] # 0)
  BY DEF MayRename, Known, Good, Base, Numbered
<1>3. /\ n.sidecars = [m.sidecars EXCEPT ![old] = None,
                                        ![new] = m.sidecars[old]]
      /\ n.generations = IF m.generations[old] = 0 THEN m.generations
                         ELSE [m.generations EXCEPT
                                 ![old] = 0, ![new] = m.generations[old]]
      /\ n.counter = m.counter
  BY <1>1 DEF Rename, Manager
<1> HIDE DEF n
<1>4. \A r \in Session :
        /\ n.sidecars[r] = IF r = new THEN m.sidecars[old]
                           ELSE IF r = old THEN None ELSE m.sidecars[r]
        /\ (r # new /\ r # old) => n.generations[r] = m.generations[r]
        /\ Present(m, old) => n.generations[new] = m.generations[old]
  BY <1>1, <1>2, <1>3
<1>5. \A r \in Session :
        (Present(m, r) /\ r # old) => r # new /\ Continues(m, r, n, r)
  BY <1>2, <1>4 DEF Present, Continues, Ages
<1>6. Present(m, old) => Continues(m, old, n, new)
  BY <1>4 DEF Present, Continues, Ages
<1>7. \A r \in Session : Present(n, r) =>
        \/ r = new /\ Present(m, old)
        \/ r # old /\ Present(m, r)
  BY <1>4 DEF Present
<1> QED
  BY <1>1, <1>3, <1>5, <1>6, <1>7 DEF Follows, n

LEMMA UpgradeSessionIdFollows ==
    ASSUME NEW m, NEW old \in Session, NEW new \in Session, Good(m)
    PROVE  Follows(m, UpgradeSessionId(m, old, new))
<1>1. m \in Manager /\ m.counter \in Nat
  BY DEF Good, Base, Typed, Manager
<1>2. Follows(m, m)
  BY <1>1, SameEntriesThin, ThinsFollows
<1> QED
  BY <1>2, RenameFollows DEF UpgradeSessionId

LEMMA EnsureStepFollows == IInv /\ EnsureStep => Follows(mgr, mgr')
<1> SUFFICES ASSUME IInv, NEW s \in Session,
                    \/ Evict(s) \/ SpawnFails(s)
                    \/ \E os \in SUBSET Owner : Join(s, os) \/ BecomeHealthy(s, os)
                    \/ \E o \in Owner :
                          Detach(s, o) \/ \E rt \in Runtime : Spawn(s, o, rt)
             PROVE  Follows(mgr, mgr')
  BY DEF EnsureStep
<1>1. Good(mgr) /\ mgr \in Manager
  BY DEF IInv, Good, Base, Typed
<1>2. ASSUME NEW m \in Evictions(mgr, s)
      PROVE  Thins(mgr, m) /\ Good(m) /\ m \in Manager /\ ~Present(m, s)
  <2>1. Good(m) /\ ~Present(m, s)
    BY <1>1, EvictionsGood
  <2> QED
    BY <1>1, <2>1, EvictionsThins DEF Good, Base, Typed
<1>3. CASE Evict(s)
  BY <1>2, <1>3, ThinsFollows DEF Evict
<1>4. CASE SpawnFails(s)
  <2>1. PICK m \in Evictions(mgr, s) :
          mgr' = ClearGeneration(NextGeneration(m, s), s)
    BY <1>4 DEF SpawnFails
  <2> DEFINE k == NextGeneration(m, s)
  <2>2. Thins(m, k) /\ Good(k) /\ ~Present(k, s)
    BY <1>2, NextGenerationThins, NextGenerationGood
  <2> HIDE DEF k
  <2>3. k \in Manager
    BY <2>2 DEF Good, Base, Typed
  <2>4. Thins(k, ClearGeneration(k, s)) /\ ClearGeneration(k, s) \in Manager
    BY <2>2, <2>3, ClearGenerationThins, ClearGenerationFields
  <2>5. Thins(mgr, k)
    BY <1>1, <1>2, <2>2, <2>3, ThinsAgain
  <2>6. Thins(mgr, ClearGeneration(k, s))
    BY <1>1, <2>3, <2>4, <2>5, ThinsAgain
  <2> QED
    BY <2>1, <2>6, ThinsFollows DEF k
<1>5. ASSUME NEW os \in SUBSET Owner, Join(s, os)
      PROVE  Follows(mgr, mgr')
  BY <1>1, <1>5, AddOwnersThins, ThinsFollows DEF Join
<1>6. ASSUME NEW os \in SUBSET Owner, BecomeHealthy(s, os)
      PROVE  Follows(mgr, mgr')
  <2> DEFINE k == MarkHealthy(mgr, s)
  <2>1. Thins(mgr, k) /\ Good(k)
    BY <1>1, <1>6, MarkHealthyThins, MarkHealthyGood DEF BecomeHealthy
  <2> HIDE DEF k
  <2>2. k \in Manager
    BY <2>1 DEF Good, Base, Typed
  <2>3. Thins(k, AddOwners(k, s, os)) /\ Good(AddOwners(k, s, os))
    BY <2>1, <2>2, AddOwnersThins, AddOwnersGood
  <2>4. AddOwners(k, s, os) \in Manager
    BY <2>3 DEF Good, Base, Typed
  <2>5. Thins(mgr, AddOwners(k, s, os))
    BY <1>1, <2>1, <2>2, <2>3, <2>4, ThinsAgain
  <2> QED
    BY <1>6, <2>5, ThinsFollows DEF BecomeHealthy, k
<1>7. ASSUME NEW o \in Owner, Detach(s, o)
      PROVE  Follows(mgr, mgr')
  BY <1>1, <1>7, DetachOwnerThins, ThinsFollows DEF Detach
<1>8. ASSUME NEW o \in Owner, NEW rt \in Runtime, Spawn(s, o, rt)
      PROVE  Follows(mgr, mgr')
  BY <1>1, <1>2, <1>8, InstallFollows DEF Spawn
<1> QED
  BY <1>3, <1>4, <1>5, <1>6, <1>7, <1>8

LEMMA CommandFollows == IInv /\ Command => Follows(mgr, mgr')
<1> SUFFICES ASSUME IInv, Command PROVE Follows(mgr, mgr')
  OBVIOUS
<1>0. Good(mgr) /\ mgr \in Manager
  BY DEF IInv, Good, Base, Typed
<1>1. CASE StopAllSidecars
  BY <1>0, <1>1, StopAllThins, ThinsFollows DEF StopAllSidecars
<1>2. ASSUME NEW ss, Observe(ss) PROVE Follows(mgr, mgr')
  BY <1>0, <1>2, ReapThins, ThinsFollows DEF Observe
<1>3. ASSUME NEW s \in Session, DeactivateSession(s) PROVE Follows(mgr, mgr')
  BY <1>0, <1>3, DeactivateOnly, OnlyActivationsThins, ThinsFollows
     DEF DeactivateSession
<1>4. ASSUME NEW s \in Session, NEW o, Release(s, o) PROVE Follows(mgr, mgr')
  BY <1>0, <1>4, RemoveSessionOwnerThins, ThinsFollows DEF Release
<1>5. ASSUME NEW s \in Session, NEW t, ReleaseTabSession(s, t)
      PROVE  Follows(mgr, mgr')
  BY <1>0, <1>5, ReleaseTabThins, ThinsFollows DEF ReleaseTabSession
<1>6. ASSUME NEW s \in Session, NEW tab \in Tab \cup {None},
             ActivateSession(s, tab)
      PROVE  Follows(mgr, mgr')
  <2>1. PICK port \in 1..(mgr.counter - 1) :
          mgr' = Activate(mgr, s, tab, port)
    BY <1>6 DEF ActivateSession
  <2>2. port \in Nat
    BY <1>0 DEF Manager
  <2> QED
    BY <1>0, <2>1, <2>2, ActivateOnly, OnlyActivationsThins, ThinsFollows
<1>7. ASSUME NEW s \in Session, NEW tab \in Tab \cup {None},
             UpdateSessionTab(s, tab)
      PROVE  Follows(mgr, mgr')
  BY <1>0, <1>7, UpdateTabOnly, OnlyActivationsThins, ThinsFollows
     DEF UpdateSessionTab
<1>8. ASSUME NEW old \in Session, NEW new \in Session, Upgrade(old, new)
      PROVE  Follows(mgr, mgr')
  BY <1>0, <1>8, UpgradeSessionIdFollows DEF Upgrade
<1>9. ASSUME NEW s \in Session, NEW rt, DriftKill(s, rt)
      PROVE  Follows(mgr, mgr')
  BY <1>0, <1>9, KillIfRuntimeDiffersThins, ThinsFollows DEF DriftKill
<1> QED
  BY <1>1, <1>2, <1>3, <1>4, <1>5, <1>6, <1>7, <1>8, <1>9 DEF Command

LEMMA NextFollows == IInv /\ [Next]_mgr => Follows(mgr, mgr')
<1> SUFFICES ASSUME IInv, [Next]_mgr PROVE Follows(mgr, mgr')
  OBVIOUS
<1>1. mgr \in Manager /\ mgr.counter \in Nat
  BY DEF IInv, Good, Base, Typed, Manager
<1>2. ASSUME NEW s \in Session, ProcessReady(s) \/ ProcessExits(s)
      PROVE  Follows(mgr, mgr')
  BY <1>1, <1>2, ProcThins, ThinsFollows
     DEF ProcessReady, ProcessExits, ProcState
<1>3. CASE UNCHANGED mgr
  BY <1>1, <1>3, SameEntriesThin, ThinsFollows
<1> QED
  BY <1>2, <1>3, EnsureStepFollows, CommandFollows DEF Next, Process

(***************************************************************************)
(* What the steps imply: an instance that goes is announced, and ports and *)
(* health marks are those of the instance.                                 *)
(***************************************************************************)
\* The port of an instance is its generation (both are its number).
Ported(m) ==
    \A s \in Session : Present(m, s) =>
        m.sidecars[s].port = m.generations[s]

\* Only a process that answered is marked healthy.
Answered(m) ==
    \A s \in Session :
        (Present(m, s) /\ IsReusable(m.sidecars[s]))
            => m.sidecars[s].proc # "booting"

\* Whatever listens on a port has answered there.
AnswersAt(m, port) ==
    \A s \in Session :
        Holds(m, s, port) => m.sidecars[s].proc # "booting"

LEMMA FollowsPorted ==
    ASSUME NEW m, NEW n, Follows(m, n), Ported(m)
    PROVE  Ported(n)
BY DEF Follows, Fresh, Continues, Ages, Ported

LEMMA FollowsAnswered ==
    ASSUME NEW m, NEW n, Follows(m, n), Answered(m)
    PROVE  Answered(n)
BY DEF Follows, Fresh, Continues, Ages, Answered, IsReusable

\* A port that was handed out is not handed out again.
LEMMA FollowsAnswersAt ==
    ASSUME NEW m \in Manager, NEW n, Follows(m, n),
           NEW port \in 1..(m.counter - 1), AnswersAt(m, port)
    PROVE  AnswersAt(n, port)
<1>1. m.counter \in Nat
  BY DEF Manager
<1> SUFFICES ASSUME NEW s \in Session, Holds(n, s, port)
             PROVE  n.sidecars[s].proc # "booting"
  BY DEF AnswersAt
<1>2. ~Fresh(m, n, s)
  BY <1>1 DEF Fresh, Holds
<1>3. PICK r \in Session : Continues(m, r, n, s)
  BY <1>2 DEF Follows, Holds
<1>4. Holds(m, r, port)
  BY <1>3 DEF Continues, Ages, Holds
<1> QED
  BY <1>3, <1>4 DEF Continues, Ages, AnswersAt

\* The invariant of the ports and marks.
PInv == IInv /\ Ported(mgr) /\ Answered(mgr)

LEMMA InitPorted == Init => PInv
<1> SUFFICES ASSUME Init PROVE PInv
  OBVIOUS
<1>1. \A s \in Session : ~Present(mgr, s)
  BY DEF Init, Present
<1> QED
  BY <1>1, InitGood DEF PInv, Ported, Answered

LEMMA NextIInv == IInv /\ [Next]_mgr => IInv'
<1>1. IInv /\ UNCHANGED mgr => IInv'
  BY DEF IInv
<1> QED
  BY <1>1, EnsureStepGood, CommandGood, ProcessGood DEF Next

LEMMA NextPInv == PInv /\ [Next]_mgr => PInv'
<1> SUFFICES ASSUME PInv, [Next]_mgr PROVE PInv'
  OBVIOUS
<1>1. IInv' /\ Follows(mgr, mgr')
  BY NextIInv, NextFollows DEF PInv
<1>2. Ported(mgr') /\ Answered(mgr')
  BY <1>1, FollowsPorted, FollowsAnswered DEF PInv
<1> QED
  BY <1>1, <1>2 DEF PInv

\* An instance keeps the port it was drawn with, and is marked healthy only once
\* its process has answered, through renames, restarts and owners that come and go.
THEOREM PortsInvariance == Spec => []PInv
BY InitPorted, NextPInv, PTL DEF Spec

\* Subscribers are told of every instance that goes: whichever method of the manager
\* takes a process out of the record broadcasts its session and generation.
THEOREM NoRemovalIsSilent == Spec => NoSilentRemoval
<1>1. IInv /\ [Next]_mgr =>
        [\A s \in Session :
           (Present(mgr, s) /\ ~Listening(mgr', mgr.sidecars[s].port))
             => <<s, mgr.generations[s]>> \in mgr'.stops]_mgr
  <2> SUFFICES ASSUME IInv, [Next]_mgr, NEW s \in Session, Present(mgr, s),
                      ~Listening(mgr', mgr.sidecars[s].port)
               PROVE  <<s, mgr.generations[s]>> \in mgr'.stops
    OBVIOUS
  <2>1. Follows(mgr, mgr')
    BY NextFollows
  <2>2. \A r \in Session : ~Continues(mgr, s, mgr', r)
    BY DEF Listening, Holds, Continues, Ages
  <2> QED
    BY <2>1, <2>2 DEF Follows
<1> QED
  BY <1>1, Invariance, PTL DEF Spec, NoSilentRemoval

(***************************************************************************)
(* Terminal events.                                                        *)
(***************************************************************************)
\* A change that neither leaves an instance unowned nor announces one, and one
\* that announces whatever it leaves unowned and nothing else.
Quiet(m, n) == n.terminals = m.terminals /\ n.unowned = m.unowned
Announces(m, n) == m.terminals = m.unowned => n.terminals = n.unowned

\* An instance that has owners goes without one.
LEMMA EvictionsQuiet ==
    ASSUME NEW m, NEW s \in Session, Good(m), NEW n \in Evictions(m, s)
    PROVE  Quiet(m, n)
<1> DEFINE k == RemoveSidecar(m, s)
<1>1. m \in Manager
  BY DEF Good, Base, Typed
<1>2. k \in Manager /\ (~Present(m, s) \/ OwnersOf(m, s) # {})
  BY <1>1, RemoveSidecarFields DEF Good, Owned, OwnersOf
<1>3. k.terminals = IF Present(m, s) /\ OwnersOf(m, s) = {}
                    THEN m.terminals \cup {<<s, m.generations[s]>>}
                    ELSE m.terminals
  BY <1>1, RemoveSidecarFields
<1> HIDE DEF k
<1>4. /\ k.unowned = m.unowned
      /\ ClearGeneration(k, s).unowned = k.unowned
      /\ ClearGeneration(k, s).terminals = k.terminals
  BY <1>1, <1>2, RemoveSidecarFields, ClearGenerationFields DEF k
<1> QED
  BY <1>2, <1>3, <1>4 DEF Evictions, Quiet, k

\* The sidecar of the owner that is taken away was its alone.
LEMMA RemoveLastAnnounces ==
    ASSUME NEW m, NEW s \in Session, NEW o, Good(m), Present(m, s),
           OwnersOf(m, s) = {o}
    PROVE  /\ Announces(m, ClearGeneration(
                              RemoveSidecar(DropOwner(m, s, o), s), s))
           /\ Announces(m, ClearGeneration(Deactivate(
                              RemoveSidecar(DropOwner(m, s, o), s), s), s))
<1> DEFINE k == DropOwner(m, s, o)
<1> DEFINE n == RemoveSidecar(k, s)
<1>1. m \in Manager
  BY DEF Good, Base, Typed
<1>a. Drops(m, k, s, o)
  BY DropOwnerFields
<1> HIDE DEF k
<1>2. /\ k \in Manager
      /\ k.terminals = m.terminals
      /\ k.generations = m.generations
      /\ k.unowned = m.unowned \cup {<<s, m.generations[s]>>}
      /\ Present(k, s)
      /\ k.sidecars = [m.sidecars EXCEPT ![s] = Without(m.sidecars[s], o)]
  BY <1>a DEF Drops
<1>3. OwnersOf(k, s) = {}
  <2>1. m.sidecars[s] \in Sidecar /\ m.sidecars[s].owners = {o}
    BY <1>1 DEF Manager, Present, OwnersOf
  <2>2. k.sidecars[s] = Without(m.sidecars[s], o)
    BY <1>1, <1>2 DEF Manager
  <2>3. Without(m.sidecars[s], o).owners = {}
    BY <2>1 DEF Without, Sidecar
  <2> QED
    BY <1>2, <2>2, <2>3 DEF OwnersOf
<1> HIDE DEF k
<1>4. /\ n \in Manager
      /\ n.terminals = k.terminals \cup {<<s, k.generations[s]>>}
      /\ n.unowned = k.unowned
  BY <1>2, <1>3, RemoveSidecarFields
<1> HIDE DEF n
<1> DEFINE d == Deactivate(n, s)
<1>5. d \in Manager /\ d.terminals = n.terminals /\ d.unowned = n.unowned
  BY <1>4, DeactivateOnly DEF OnlyActivations
<1> HIDE DEF d
<1>6. /\ ClearGeneration(n, s).terminals = n.terminals
      /\ ClearGeneration(n, s).unowned = n.unowned
      /\ ClearGeneration(d, s).terminals = n.terminals
      /\ ClearGeneration(d, s).unowned = n.unowned
  BY <1>4, <1>5, ClearGenerationFields
<1>7. m.terminals = m.unowned => n.terminals = n.unowned
  BY <1>2, <1>4
<1> QED
  BY <1>6, <1>7 DEF Announces, d, n, k

LEMMA DropOwnerQuiet ==
    ASSUME NEW m, NEW s \in Session, NEW o, Good(m), Present(m, s),
           OwnersOf(m, s) # {o}
    PROVE  Quiet(m, DropOwner(m, s, o))
<1>1. Drops(m, DropOwner(m, s, o), s, o)
  BY DropOwnerFields
<1> QED
  BY <1>1 DEF Quiet, Drops

LEMMA QuietAnnounces ==
    ASSUME NEW m, NEW n, Quiet(m, n)
    PROVE  Announces(m, n)
BY DEF Quiet, Announces

LEMMA RemoveSessionOwnerAnnounces ==
    ASSUME NEW m, NEW s \in Session, NEW o, Good(m)
    PROVE  Announces(m, RemoveSessionOwner(m, s, o))
<1>1. CASE o \notin OwnersOf(m, s)
  BY <1>1, QuietAnnounces DEF RemoveSessionOwner, Quiet
<1>2. CASE o \in OwnersOf(m, s) /\ OwnersOf(m, s) = {o}
  BY <1>2, RemoveLastAnnounces DEF RemoveSessionOwner, OwnersOf
<1>3. CASE o \in OwnersOf(m, s) /\ OwnersOf(m, s) # {o}
  BY <1>3, DropOwnerQuiet, QuietAnnounces DEF RemoveSessionOwner, OwnersOf
<1> QED
  BY <1>1, <1>2, <1>3

LEMMA DetachOwnerAnnounces ==
    ASSUME NEW m, NEW s \in Session, NEW o, Good(m), o \in OwnersOf(m, s)
    PROVE  Announces(m, DetachOwner(m, s, o))
<1>1. Present(m, s)
  BY DEF OwnersOf
<1>2. CASE OwnersOf(m, s) = {o}
  BY <1>1, <1>2, RemoveLastAnnounces DEF DetachOwner
<1>3. CASE OwnersOf(m, s) # {o}
  BY <1>1, <1>3, DropOwnerQuiet, QuietAnnounces DEF DetachOwner
<1> QED
  BY <1>2, <1>3

LEMMA ReleaseTabAnnounces ==
    ASSUME NEW m, NEW s \in Session, NEW t, NEW persisted \in BOOLEAN, Good(m)
    PROVE  Announces(m, ReleaseTab(m, s, t, persisted))
<1> DEFINE n == RemoveSessionOwner(m, s, t)
<1>1. Announces(m, n) /\ Good(n)
  BY RemoveSessionOwnerGood, RemoveSessionOwnerAnnounces
<1> HIDE DEF n
<1>2. n \in Manager
  BY <1>1 DEF Good, Base, Typed
<1>3. Announces(m, m)
  BY QuietAnnounces DEF Quiet
<1>4. ASSUME NEW k, OnlyActivations(n, k)
      PROVE  Announces(m, k)
  BY <1>1, <1>4 DEF OnlyActivations, Announces
<1>5. Announces(m, UpdateTab(n, s, None)) /\ Announces(m, Deactivate(n, s))
  BY <1>1, <1>2, <1>4, UpdateTabOnly, DeactivateOnly
<1> QED
  BY <1>1, <1>3, <1>5 DEF ReleaseTab, n

LEMMA EnsureStepAnnounces == IInv /\ EnsureStep => Announces(mgr, mgr')
<1> SUFFICES ASSUME IInv, NEW s \in Session,
                    \/ Evict(s) \/ SpawnFails(s)
                    \/ \E os \in SUBSET Owner : Join(s, os) \/ BecomeHealthy(s, os)
                    \/ \E o \in Owner :
                          Detach(s, o) \/ \E rt \in Runtime : Spawn(s, o, rt)
             PROVE  Announces(mgr, mgr')
  BY DEF EnsureStep
<1>1. Good(mgr) /\ mgr \in Manager
  BY DEF IInv, Good, Base, Typed
<1>2. ASSUME NEW m \in Evictions(mgr, s)
      PROVE  Quiet(mgr, m) /\ m \in Manager
  BY <1>1, EvictionsGood, EvictionsQuiet DEF Good, Base, Typed
<1>3. CASE Evict(s)
  BY <1>2, <1>3, QuietAnnounces DEF Evict, Quiet
<1>4. CASE SpawnFails(s)
  <2>1. PICK m \in Evictions(mgr, s) :
          mgr' = ClearGeneration(NextGeneration(m, s), s)
    BY <1>4 DEF SpawnFails
  <2> DEFINE k == NextGeneration(m, s)
  <2>2. k \in Manager /\ Quiet(m, k)
    BY <1>2, NextGenerationFields DEF Quiet
  <2> HIDE DEF k
  <2>3. Quiet(k, ClearGeneration(k, s))
    BY <2>2, ClearGenerationFields DEF Quiet
  <2> QED
    BY <1>2, <2>1, <2>2, <2>3, QuietAnnounces DEF Quiet, k
<1>5. ASSUME NEW m \in Manager, NEW os \in SUBSET Owner
      PROVE  Quiet(m, AddOwners(m, s, os))
  BY <1>5 DEF AddOwners, Manager, Quiet
<1>6. ASSUME NEW os \in SUBSET Owner, Join(s, os)
      PROVE  Announces(mgr, mgr')
  BY <1>1, <1>5, <1>6, QuietAnnounces DEF Join, Quiet
<1>7. ASSUME NEW os \in SUBSET Owner, BecomeHealthy(s, os)
      PROVE  Announces(mgr, mgr')
  <2> DEFINE k == MarkHealthy(mgr, s)
  <2>1. Good(k)
    BY <1>1, <1>7, MarkHealthyGood DEF BecomeHealthy
  <2>2. Quiet(mgr, k)
    BY <1>1 DEF MarkHealthy, Manager, Quiet
  <2> HIDE DEF k
  <2>3. Quiet(k, AddOwners(k, s, os))
    BY <1>5, <2>1 DEF Good, Base, Typed
  <2> QED
    BY <1>7, <2>2, <2>3, QuietAnnounces DEF BecomeHealthy, Quiet, k
<1>8. ASSUME NEW o \in Owner, Detach(s, o)
      PROVE  Announces(mgr, mgr')
  BY <1>1, <1>8, DetachOwnerAnnounces DEF Detach
<1>9. ASSUME NEW o \in Owner, NEW rt \in Runtime, Spawn(s, o, rt)
      PROVE  Announces(mgr, mgr')
  <2>1. PICK m \in Evictions(mgr, s) : mgr' = Install(m, s, o, rt)
    BY <1>9 DEF Spawn
  <2>2. Quiet(m, Install(m, s, o, rt))
    BY <1>2 DEF Install, InsertSidecar, NextGeneration, Manager, Quiet
  <2> QED
    BY <1>2, <2>1, <2>2, QuietAnnounces DEF Quiet
<1> QED
  BY <1>3, <1>4, <1>6, <1>7, <1>8, <1>9

LEMMA CommandAnnounces == IInv /\ Command => Announces(mgr, mgr')
<1> SUFFICES ASSUME IInv, Command PROVE Announces(mgr, mgr')
  OBVIOUS
<1>0. Good(mgr) /\ mgr \in Manager
  BY DEF IInv, Good, Base, Typed
<1>a. ASSUME NEW n, OnlyActivations(mgr, n) PROVE Announces(mgr, n)
  BY <1>a, QuietAnnounces DEF OnlyActivations, Quiet
<1>1. CASE StopAllSidecars
  <2> DEFINE gone == {<<s, mgr.generations[s]>> :
                        s \in {t \in Session : Present(mgr, t)}}
  <2>1. /\ mgr'.terminals = mgr.terminals \cup gone
        /\ mgr'.unowned = mgr.unowned \cup gone
    BY <1>0, <1>1 DEF StopAllSidecars, StopAll, Manager
  <2> QED
    BY <2>1 DEF Announces
<1>2. ASSUME NEW ss, Observe(ss) PROVE Announces(mgr, mgr')
  <2>1. Quiet(mgr, mgr')
    BY <1>0, <1>2 DEF Observe, Reap, Manager, Quiet
  <2> QED
    BY <2>1, QuietAnnounces
<1>3. ASSUME NEW s \in Session, DeactivateSession(s)
      PROVE  Announces(mgr, mgr')
  BY <1>0, <1>a, <1>3, DeactivateOnly DEF DeactivateSession
<1>4. ASSUME NEW s \in Session, NEW o, Release(s, o)
      PROVE  Announces(mgr, mgr')
  BY <1>0, <1>4, RemoveSessionOwnerAnnounces DEF Release
<1>5. ASSUME NEW s \in Session, NEW t, ReleaseTabSession(s, t)
      PROVE  Announces(mgr, mgr')
  BY <1>0, <1>5, ReleaseTabAnnounces DEF ReleaseTabSession
<1>6. ASSUME NEW s \in Session, NEW tab \in Tab \cup {None},
             ActivateSession(s, tab)
      PROVE  Announces(mgr, mgr')
  <2>1. PICK port \in 1..(mgr.counter - 1) :
          mgr' = Activate(mgr, s, tab, port)
    BY <1>6 DEF ActivateSession
  <2>2. port \in Nat
    BY <1>0 DEF Manager
  <2> QED
    BY <1>0, <1>a, <2>1, <2>2, ActivateOnly
<1>7. ASSUME NEW s \in Session, NEW tab \in Tab \cup {None},
             UpdateSessionTab(s, tab)
      PROVE  Announces(mgr, mgr')
  BY <1>0, <1>a, <1>7, UpdateTabOnly DEF UpdateSessionTab
<1>8. ASSUME NEW old \in Session, NEW new \in Session, Upgrade(old, new)
      PROVE  Announces(mgr, mgr')
  <2>1. Quiet(mgr, Rename(mgr, old, new))
    BY <1>0 DEF Rename, Manager, Quiet
  <2> QED
    BY <1>8, <2>1, QuietAnnounces DEF Upgrade, UpgradeSessionId, Quiet
<1>9. ASSUME NEW s \in Session, NEW rt, DriftKill(s, rt)
      PROVE  Announces(mgr, mgr')
  <2>1. ClearGeneration(RemoveSidecar(mgr, s), s) \in Evictions(mgr, s)
    BY DEF Evictions
  <2> QED
    BY <1>0, <1>9, <2>1, EvictionsQuiet, QuietAnnounces
       DEF DriftKill, KillIfRuntimeDiffers, Quiet
<1> QED
  BY <1>1, <1>2, <1>3, <1>4, <1>5, <1>6, <1>7, <1>8, <1>9 DEF Command

LEMMA NextAnnounces == IInv /\ [Next]_mgr => Announces(mgr, mgr')
<1> SUFFICES ASSUME IInv, [Next]_mgr PROVE Announces(mgr, mgr')
  OBVIOUS
<1>1. mgr \in Manager
  BY DEF IInv, Good, Base, Typed
<1>2. ASSUME NEW s \in Session, ProcessReady(s) \/ ProcessExits(s)
      PROVE  Announces(mgr, mgr')
  <2>1. Quiet(mgr, mgr')
    BY <1>1, <1>2 DEF ProcessReady, ProcessExits, Manager, Quiet
  <2> QED
    BY <2>1, QuietAnnounces
<1>3. CASE UNCHANGED mgr
  BY <1>3, QuietAnnounces DEF Quiet
<1> QED
  BY <1>2, <1>3, EnsureStepAnnounces, CommandAnnounces DEF Next, Process

\* A tab is unbound exactly from an instance that is nobody's any more: the
\* terminal events broadcast are those of the instances whose last owner went or
\* that stop_all ended, none too many and none missing.
THEOREM TerminalsAreTheUnowned == Spec => []TerminalExactlyWhenUnowned
<1>1. Init => TerminalExactlyWhenUnowned
  BY DEF Init, TerminalExactlyWhenUnowned
<1>2. IInv /\ TerminalExactlyWhenUnowned /\ [Next]_mgr
        => TerminalExactlyWhenUnowned'
  BY NextAnnounces DEF Announces, TerminalExactlyWhenUnowned
<1> QED
  BY <1>1, <1>2, Invariance, PTL DEF Spec

(***************************************************************************)
(* The threads: what their local state has to do with the record.          *)
(***************************************************************************)
Busy(call) == call.pc \notin {"idle", "done"}

\* What a call found or made: a port that was handed out; in a probe the
\* generation read with it; after an answer, a process that has answered.
Sound(m, call) ==
    /\ Busy(call) => call.s \in Session /\ call.o \in Owner
    /\ call.pc \in {"probe", "verdict", "boot", "booted"} =>
          call.rt \in Runtime /\ call.port \in 1..(m.counter - 1)
    /\ call.pc \in {"probe", "verdict"} => call.gen = call.port
    /\ (call.pc \in {"verdict", "booted"} /\ call.ok) =>
          AnswersAt(m, call.port)

CallsSound == \A c \in Caller : Sound(mgr, caller[c])

HeldSound == \A h \in held : h[3] \in 1..(mgr.counter - 1)

\* The monitor's call is of the session it waits for, which stays queued.
MonitorSound ==
    /\ \A s \in mon.todo : recovery[s] # None
    /\ mon.pc = "await" => mon.at \in mon.todo
    /\ mon.pc # "await" => caller[Monitor].pc = "idle"
    /\ (mon.pc = "await" /\ Busy(caller[Monitor])) =>
          caller[Monitor].s = mon.at

Local ==
    /\ caller \in [Caller -> CallState]
    /\ held \subseteq (Session \X Owner \X Nat)
    /\ recovery \in [Session -> RecoveryEntry \cup {None}]
    /\ mon \in [pc: {"sleep", "retain", "visit", "await"},
                todo: SUBSET Session, at: Session \cup {None}]

\* The inductive invariant.
EInv == PInv /\ Local /\ CallsSound /\ HeldSound /\ MonitorSound

(***************************************************************************)
(* Calls.                                                                  *)
(***************************************************************************)
LEMMA IdleCall ==
    /\ Idle \in CallState
    /\ Idle.pc = "idle"
    /\ \A b \in BOOLEAN :
          /\ [Idle EXCEPT !.pc = "done", !.ok = b] \in CallState
          /\ [Idle EXCEPT !.pc = "done", !.ok = b].pc = "done"
BY DEF Idle, CallState, Pc

LEMMA CalledFields ==
    ASSUME NEW s \in Session, NEW o \in Owner, NEW a \in Nat
    PROVE  LET call == Called(s, o, a) IN
           /\ call \in CallState
           /\ call.pc = "enter" /\ call.s = s /\ call.o = o
BY DEF Called, Idle, CallState, Pc

LEMMA ReleasedFields ==
    ASSUME NEW call \in CallState, NEW b \in BOOLEAN
    PROVE  LET new == [call EXCEPT !.released = b] IN
           /\ new \in CallState
           /\ new.pc = call.pc /\ new.s = call.s /\ new.o = call.o
           /\ new.rt = call.rt /\ new.port = call.port
           /\ new.gen = call.gen /\ new.ok = call.ok
BY DEF CallState

\* A call that is not past its first step has nothing of the record.
LEMMA EnterSound ==
    ASSUME NEW m, NEW call, call.pc \in {"idle", "done", "enter"},
           Busy(call) => call.s \in Session /\ call.o \in Owner
    PROVE  Sound(m, call)
BY DEF Sound

LEMMA IdleSound ==
    ASSUME NEW m
    PROVE  Sound(m, Idle)
BY IdleCall DEF Sound, Busy

LEMMA SoundStays ==
    ASSUME NEW m \in Manager, NEW n \in Manager, Follows(m, n),
           NEW call, Sound(m, call)
    PROVE  Sound(n, call)
<1>1. m.counter \in Nat /\ n.counter \in Nat /\ m.counter <= n.counter
  BY DEF Manager, Follows
<1>2. \A port \in 1..(m.counter - 1) : port \in 1..(n.counter - 1)
  BY <1>1
<1>3. \A port \in 1..(m.counter - 1) : AnswersAt(m, port) => AnswersAt(n, port)
  BY FollowsAnswersAt
<1> QED
  BY <1>2, <1>3 DEF Sound

\* Two instances never have the same port.
LEMMA PortsDiffer ==
    ASSUME NEW m, Good(m), Ported(m), NEW r \in Session, NEW s \in Session,
           NEW port, Holds(m, r, port), Holds(m, s, port)
    PROVE  r = s
BY DEF Good, Base, Numbered, Ported, Holds

LEMMA PortsDrawn ==
    ASSUME NEW m, Good(m), Ported(m), NEW s \in Session, Present(m, s)
    PROVE  /\ m.sidecars[s].port \in 1..(m.counter - 1)
           /\ m.generations[s] = m.sidecars[s].port
<1>1. m.generations[s] \in Nat /\ m.counter \in Nat
  BY DEF Good, Base, Typed, Manager
<1> QED
  BY <1>1 DEF Good, Base, Numbered, Ported

\* A step of the manager keeps what the calls that do not move rely on.
LEMMA ManagerKeeps ==
    ASSUME EInv, [Next]_mgr
    PROVE  /\ PInv'
           /\ mgr \in Manager /\ mgr' \in Manager
           /\ mgr.counter \in Nat /\ mgr'.counter \in Nat
           /\ mgr.counter <= mgr'.counter
           /\ \A call : Sound(mgr, call) => Sound(mgr', call)
<1>1. PInv' /\ Follows(mgr, mgr')
  BY NextPInv, NextFollows DEF EInv, PInv
<1>2. mgr \in Manager /\ mgr' \in Manager
  BY <1>1 DEF EInv, PInv, IInv, Good, Base, Typed
<1> QED
  BY <1>1, <1>2, SoundStays DEF Follows, Manager

\* What a step of call c must be for the invariant to hold after it.
CallGoesTo(c, new) ==
    /\ caller' = [caller EXCEPT ![c] = new]
    /\ new \in CallState
    /\ Sound(mgr', new)
    /\ Busy(new) => new.s = caller[c].s
    /\ held' \subseteq (Session \X Owner \X Nat)
    /\ \A h \in held' : h[3] \in 1..(mgr'.counter - 1)

LEMMA MovesKeep ==
    ASSUME EInv, [Next]_mgr, NEW c \in Caller, Busy(caller[c]),
           NEW new, CallGoesTo(c, new), UNCHANGED <<recovery, mon>>
    PROVE  EInv'
<1>1. PInv' /\ \A call : Sound(mgr, call) => Sound(mgr', call)
  BY ManagerKeeps
<1>2. \A d \in Caller : caller'[d] = IF d = c THEN new ELSE caller[d]
  BY DEF CallGoesTo, EInv, Local
<1>3. Local'
  BY DEF CallGoesTo, EInv, Local
<1>4. CallsSound'
  BY <1>1, <1>2 DEF CallGoesTo, EInv, CallsSound
<1>5. HeldSound'
  BY DEF CallGoesTo, HeldSound
<1>6. MonitorSound'
  <2>1. c = Monitor => mon.pc = "await"
    BY DEF EInv, MonitorSound, Busy
  <2>2. Monitor \in Caller
    BY DEF Caller
  <2> QED
    BY <1>2, <2>1, <2>2 DEF CallGoesTo, EInv, MonitorSound
<1> QED
  BY <1>1, <1>3, <1>4, <1>5, <1>6 DEF EInv

LEMMA ReturnMoves ==
    ASSUME EInv, [Next]_mgr, NEW c \in Caller, Busy(caller[c]),
           NEW ok \in BOOLEAN, Return(c, ok),
           ok => caller[c].port \in 1..(mgr.counter - 1)
    PROVE  \E new : CallGoesTo(c, new)
<1> DEFINE new == IF c = Monitor THEN [Idle EXCEPT !.pc = "done", !.ok = ok]
                  ELSE Idle
<1>1. new \in CallState /\ new.pc \in {"idle", "done"}
  BY IdleCall
<1>2. caller' = [caller EXCEPT ![c] = new]
  BY DEF Return
<1> HIDE DEF new
<1>3. Sound(mgr', new) /\ ~Busy(new)
  BY <1>1, EnterSound DEF Busy
<1>4. /\ mgr.counter \in Nat /\ mgr'.counter \in Nat
      /\ mgr.counter <= mgr'.counter
  BY ManagerKeeps
<1>5. /\ caller[c].s \in Session /\ caller[c].o \in Owner
      /\ caller[c].port \in Nat
  BY DEF EInv, CallsSound, Sound, Local, CallState
<1>6. \A h \in held' : h \in held \/ (ok /\ h = <<caller[c].s, caller[c].o, caller[c].port>>)
  BY DEF Return
<1>7. \A h \in held : /\ h \in Session \X Owner \X Nat
                      /\ h[3] \in 1..(mgr.counter - 1)
  BY DEF EInv, Local, HeldSound
<1>8. held' \subseteq (Session \X Owner \X Nat)
  BY <1>5, <1>6, <1>7
<1>9. \A h \in held' : h[3] \in 1..(mgr'.counter - 1)
  BY <1>4, <1>6, <1>7
<1> QED
  BY <1>1, <1>2, <1>3, <1>8, <1>9 DEF CallGoesTo

\* A call that goes on keeps what the clients hold.
LEMMA GoesOn ==
    ASSUME EInv, [Next]_mgr, NEW c \in Caller, NEW new \in CallState,
           caller' = [caller EXCEPT ![c] = new], UNCHANGED held,
           Sound(mgr', new), new.s = caller[c].s
    PROVE  CallGoesTo(c, new)
<1>1. /\ mgr.counter \in Nat /\ mgr'.counter \in Nat
      /\ mgr.counter <= mgr'.counter
  BY ManagerKeeps
<1>2. held' \subseteq (Session \X Owner \X Nat)
  BY DEF EInv, Local
<1>3. \A h \in held' : h[3] \in 1..(mgr'.counter - 1)
  BY <1>1 DEF EInv, HeldSound
<1> QED
  BY <1>2, <1>3 DEF CallGoesTo

LEMMA RetryMoves ==
    ASSUME EInv, [Next]_mgr, NEW c \in Caller, Busy(caller[c]), Retry(c)
    PROVE  \E new : CallGoesTo(c, new)
<1> DEFINE call == caller[c]
<1> DEFINE again == Called(call.s, call.o, call.attempt + 1)
<1> DEFINE new == [again EXCEPT !.released = call.released]
<1>1. /\ call.s \in Session /\ call.o \in Owner
      /\ call.attempt + 1 \in Nat /\ call.released \in BOOLEAN
  BY DEF EInv, CallsSound, Sound, Local, CallState
<1>2. new \in CallState /\ new.pc = "enter" /\ new.s = call.s /\ new.o = call.o
  <2>1. /\ again \in CallState /\ again.pc = "enter"
        /\ again.s = call.s /\ again.o = call.o
    BY <1>1, CalledFields
  <2> HIDE DEF again
  <2> QED
    BY <1>1, <2>1, ReleasedFields
<1>3. caller' = [caller EXCEPT ![c] = new] /\ UNCHANGED held
  BY DEF Retry, EInv, Local
<1> HIDE DEF new
<1>4. Sound(mgr', new)
  BY <1>1, <1>2, EnterSound
<1> QED
  BY <1>2, <1>3, <1>4, GoesOn

\* The record with which a creation may start: what was there, or evicted.
LEMMA EvictedFields ==
    ASSUME NEW m, Good(m), NEW s \in Session, NEW k \in Evictions(m, s)
    PROVE  /\ ~Present(k, s) /\ ~Alive(k, s)
           /\ RemoveSidecar(k, s) = k
           /\ k \in Manager /\ k.counter = m.counter
<1>1. Good(k) /\ ~Present(k, s)
  BY EvictionsGood
<1>2. RemoveSidecar(k, s) = k /\ ~Alive(k, s)
  BY <1>1 DEF RemoveSidecar, Alive
<1> DEFINE x == RemoveSidecar(m, s)
<1>3. m \in Manager
  BY DEF Good, Base, Typed
<1>4. x \in Manager /\ x.counter = m.counter
  BY <1>3, RemoveSidecarFields
<1> HIDE DEF x
<1>5. ClearGeneration(x, s).counter = x.counter
  BY <1>4, ClearGenerationFields
<1>6. k.counter = m.counter
  BY <1>4, <1>5 DEF Evictions, x
<1> QED
  BY <1>1, <1>2, <1>6 DEF Good, Base, Typed

\* A creation is a step of the manager, after which the call is over, starts
\* again, or waits for the port it has drawn.
Booting(c, rt) ==
    /\ caller' = [caller EXCEPT ![c].pc = "boot", ![c].rt = rt,
                                ![c].port = mgr.counter]
    /\ mgr'.counter = mgr.counter + 1
    /\ UNCHANGED held

LEMMA EvictedCreates ==
    ASSUME EInv, NEW c \in Caller, Busy(caller[c]), NEW rt \in Runtime,
           NEW k \in Evictions(mgr, caller[c].s), Create(c, k, rt) \/
           (/\ k = RemoveSidecar(mgr, caller[c].s)
            /\ ~Alive(mgr, caller[c].s) /\ Create(c, mgr, rt))
    PROVE  Next /\ (Return(c, FALSE) \/ Booting(c, rt))
<1> DEFINE s == caller[c].s
<1> DEFINE o == caller[c].o
<1>1. s \in Session /\ o \in Owner
  BY DEF EInv, CallsSound, Sound
<1>2. Good(mgr) /\ mgr \in Manager
  BY DEF EInv, PInv, IInv, Good, Base, Typed
<1>3. /\ RemoveSidecar(k, s) = k /\ ~Alive(k, s)
      /\ k.counter = mgr.counter /\ k \in Manager
  BY <1>1, <1>2, EvictedFields
<1>4. \/ mgr' = k /\ Return(c, FALSE)
      \/ /\ mgr.counter <= MaxInstance
         /\ mgr' = ClearGeneration(NextGeneration(k, s), s)
         /\ Return(c, FALSE)
      \/ /\ mgr.counter <= MaxInstance
         /\ mgr' = Install(k, s, o, rt)
         /\ caller' = [caller EXCEPT ![c].pc = "boot", ![c].rt = rt,
                                     ![c].port = mgr.counter]
         /\ UNCHANGED held
  BY <1>3 DEF Create
<1>5. CASE mgr' = k /\ Return(c, FALSE)
  BY <1>1, <1>5 DEF Next, EnsureStep, Evict
<1>6. CASE /\ mgr.counter <= MaxInstance
           /\ mgr' = ClearGeneration(NextGeneration(k, s), s)
           /\ Return(c, FALSE)
  BY <1>1, <1>6 DEF Next, EnsureStep, SpawnFails
<1>7. CASE /\ mgr.counter <= MaxInstance
           /\ mgr' = Install(k, s, o, rt)
           /\ caller' = [caller EXCEPT ![c].pc = "boot", ![c].rt = rt,
                                       ![c].port = mgr.counter]
           /\ UNCHANGED held
  <2>1. Spawn(s, o, rt)
    BY <1>7 DEF Spawn
  <2>2. Next
    BY <1>1, <2>1 DEF Next, EnsureStep
  <2>3. ~Present(k, s) /\ Thins(k, k)
    BY <1>1, <1>2, <1>3, EvictedFields, SameEntriesThin DEF Manager
  <2>4. Install(k, s, o, rt).counter = k.counter + 1
    BY <1>1, <1>3, <2>3, InstallFollows
  <2> QED
    BY <1>3, <1>7, <2>2, <2>4 DEF Booting
<1> QED
  BY <1>4, <1>5, <1>6, <1>7

LEMMA BootingMoves ==
    ASSUME EInv, [Next]_mgr, NEW c \in Caller, Busy(caller[c]),
           NEW rt \in Runtime, Booting(c, rt)
    PROVE  \E new : CallGoesTo(c, new)
<1> DEFINE new == [caller[c] EXCEPT !.pc = "boot", !.rt = rt,
                                    !.port = mgr.counter]
<1>1. /\ caller[c] \in CallState
      /\ caller[c].s \in Session /\ caller[c].o \in Owner
  BY DEF EInv, CallsSound, Sound, Local
<1>2. mgr.counter \in Nat /\ mgr.counter >= 1
  BY DEF EInv, PInv, IInv, Good, Base, Typed, Manager
<1>3. /\ new \in CallState
      /\ new.pc = "boot" /\ new.s = caller[c].s /\ new.o = caller[c].o
      /\ new.rt = rt /\ new.port = mgr.counter
  BY <1>1, <1>2 DEF CallState, Pc
<1>4. caller' = [caller EXCEPT ![c] = new] /\ UNCHANGED held
  BY DEF Booting, EInv, Local
<1> HIDE DEF new
<1>5. new.port \in 1..(mgr'.counter - 1)
  BY <1>2, <1>3 DEF Booting
<1>6. Sound(mgr', new)
  BY <1>1, <1>3, <1>5 DEF Sound
<1> QED
  BY <1>3, <1>4, <1>6, GoesOn

LEMMA CreateMoves ==
    ASSUME EInv, NEW c \in Caller, Busy(caller[c]), NEW rt \in Runtime,
           NEW m \in {mgr} \cup Evictions(mgr, caller[c].s), Create(c, m, rt)
    PROVE  [Next]_mgr /\ \E new : CallGoesTo(c, new)
<1> DEFINE s == caller[c].s
<1>1. CASE m = mgr /\ Alive(mgr, s)
  <2>1. mgr' = mgr /\ Retry(c)
    BY <1>1 DEF Create
  <2> QED
    BY <2>1, RetryMoves
<1>2. CASE m = mgr /\ ~Alive(mgr, s)
  <2>1. RemoveSidecar(mgr, s) \in Evictions(mgr, s)
    BY DEF Evictions
  <2>2. Next /\ (Return(c, FALSE) \/ Booting(c, rt))
    BY <1>2, <2>1, EvictedCreates
  <2> QED
    BY <2>2, ReturnMoves, BootingMoves
<1>3. CASE m \in Evictions(mgr, s)
  <2>1. Next /\ (Return(c, FALSE) \/ Booting(c, rt))
    BY <1>3, EvictedCreates
  <2> QED
    BY <2>1, ReturnMoves, BootingMoves
<1> QED
  BY <1>1, <1>2, <1>3

(***************************************************************************)
(* The steps of a call.                                                    *)
(***************************************************************************)
\* Everything a later step reads of the call that takes it.
LEMMA CallFacts ==
    ASSUME EInv, NEW c \in Caller, Busy(caller[c])
    PROVE  /\ caller[c] \in CallState /\ Sound(mgr, caller[c])
           /\ caller[c].s \in Session /\ caller[c].o \in Owner
           /\ Good(mgr) /\ Ported(mgr) /\ Answered(mgr) /\ mgr \in Manager
BY DEF EInv, CallsSound, Sound, Local, PInv, IInv, Good, Base, Typed

\* The monitor restarts an instance with the runtime it recorded.
LEMMA RuntimesExpected ==
    ASSUME EInv, NEW c \in Caller, Busy(caller[c])
    PROVE  ExpectedRuntimes(c) \subseteq Runtime
<1>1. CASE c = Monitor
  <2>1. mon.pc = "await" /\ caller[c].s = mon.at
    BY <1>1 DEF EInv, MonitorSound, Busy
  <2>2. caller[c].s \in Session /\ recovery[caller[c].s] # None
    BY <2>1, CallFacts DEF EInv, MonitorSound
  <2>3. recovery[caller[c].s] \in RecoveryEntry
    BY <2>2 DEF EInv, Local
  <2> QED
    BY <1>1, <2>3 DEF ExpectedRuntimes, RecoveryEntry
<1>2. CASE c # Monitor
  BY <1>2 DEF ExpectedRuntimes
<1> QED
  BY <1>1, <1>2

LEMMA ClearedEvicts ==
    ASSUME NEW c
    PROVE  Cleared(c) \in {mgr} \cup Evictions(mgr, caller[c].s)
BY DEF Cleared, Evictions

LEMMA EnterReuseMoves ==
    ASSUME EInv, NEW c \in Caller, caller[c].pc = "enter", NEW rt \in Runtime,
           Alive(mgr, caller[c].s), EnterReuse(c, rt)
    PROVE  [Next]_mgr /\ \E new : CallGoesTo(c, new)
<1> DEFINE s == caller[c].s
<1> DEFINE o == caller[c].o
<1>1. Busy(caller[c]) /\ Present(mgr, s)
  BY DEF Busy, Alive
<1>2. /\ s \in Session /\ o \in Owner /\ caller[c] \in CallState
      /\ Good(mgr) /\ Ported(mgr)
  BY <1>1, CallFacts
<1>3. /\ mgr.sidecars[s].port \in 1..(mgr.counter - 1)
      /\ mgr.generations[s] = mgr.sidecars[s].port
  BY <1>1, <1>2, PortsDrawn
<1>4. mgr.counter \in Nat
  BY <1>2 DEF Good, Base, Typed, Manager
<1>5. [Next]_mgr
  <2>1. CASE IsReusable(mgr.sidecars[s])
    BY <2>1 DEF EnterReuse
  <2>2. CASE ~IsReusable(mgr.sidecars[s])
    <3>1. Join(s, {o})
      BY <1>1, <2>2 DEF EnterReuse, Join
    <3> QED
      BY <1>2, <3>1 DEF Next, EnsureStep
  <2> QED
    BY <2>1, <2>2
<1>6. \E starting, joined \in BOOLEAN :
        caller' = [caller EXCEPT ![c] =
                     [caller[c] EXCEPT !.pc = "probe", !.rt = rt,
                         !.port = mgr.sidecars[s].port,
                         !.gen = mgr.generations[s],
                         !.starting = starting, !.joined = joined]]
  <2> DEFINE st == ~IsReusable(mgr.sidecars[s])
  <2> DEFINE jo == st /\ o \notin OwnersOf(mgr, s)
  <2>1. caller' = [caller EXCEPT ![c] =
                     [caller[c] EXCEPT !.pc = "probe", !.rt = rt,
                         !.port = mgr.sidecars[s].port,
                         !.gen = mgr.generations[s],
                         !.starting = st, !.joined = jo]]
    BY Zenon DEF EnterReuse
  <2>2. st \in BOOLEAN /\ jo \in BOOLEAN
    BY DEF IsReusable
  <2> QED
    BY <2>1, <2>2, Zenon
<1>7. PICK starting \in BOOLEAN, joined \in BOOLEAN :
        caller' = [caller EXCEPT ![c] =
                     [caller[c] EXCEPT !.pc = "probe", !.rt = rt,
                         !.port = mgr.sidecars[s].port,
                         !.gen = mgr.generations[s],
                         !.starting = starting, !.joined = joined]]
  BY <1>6
<1> DEFINE new == [caller[c] EXCEPT !.pc = "probe", !.rt = rt,
                      !.port = mgr.sidecars[s].port,
                      !.gen = mgr.generations[s],
                      !.starting = starting, !.joined = joined]
<1>8. /\ new \in CallState /\ new.pc = "probe"
      /\ new.s = s /\ new.o = o /\ new.rt = rt
      /\ new.port = mgr.sidecars[s].port /\ new.gen = mgr.generations[s]
  <2>1. mgr.sidecars[s].port \in Nat /\ mgr.generations[s] \in Nat
    BY <1>3, <1>4
  <2> QED
    BY <1>2, <2>1 DEF CallState, Pc
<1> HIDE DEF new
<1>9. mgr.counter <= mgr'.counter /\ mgr'.counter \in Nat
  BY <1>5, ManagerKeeps
<1>10. Sound(mgr', new)
  BY <1>2, <1>3, <1>4, <1>8, <1>9 DEF Sound
<1> QED
  BY <1>5, <1>7, <1>8, <1>10, GoesOn DEF EnterReuse, new

LEMMA EnterMoves ==
    ASSUME EInv, NEW c \in Caller, Enter(c)
    PROVE  [Next]_mgr /\ \E new : CallGoesTo(c, new)
<1>1. Busy(caller[c])
  BY DEF Enter, Busy
<1>2. CASE Return(c, FALSE) /\ UNCHANGED mgr
  BY <1>1, <1>2, ReturnMoves
<1>3. ASSUME NEW rt \in ExpectedRuntimes(c), Create(c, mgr, rt)
      PROVE  [Next]_mgr /\ \E new : CallGoesTo(c, new)
  BY <1>1, <1>3, RuntimesExpected, CreateMoves
<1>4. ASSUME NEW rt \in ExpectedRuntimes(c), Create(c, Cleared(c), rt)
      PROVE  [Next]_mgr /\ \E new : CallGoesTo(c, new)
  BY <1>1, <1>4, RuntimesExpected, ClearedEvicts, CreateMoves
<1>5. ASSUME NEW rt \in ExpectedRuntimes(c), Alive(mgr, caller[c].s),
             EnterReuse(c, rt)
      PROVE  [Next]_mgr /\ \E new : CallGoesTo(c, new)
  BY <1>1, <1>5, RuntimesExpected, EnterReuseMoves DEF Enter
<1> QED
  BY <1>2, <1>3, <1>4, <1>5 DEF Enter

\* The answer came from the instance that has the port, and no other has it.
LEMMA ServingAnswers ==
    ASSUME NEW m, Good(m), Ported(m), NEW port, Serving(m, port)
    PROVE  AnswersAt(m, port)
<1>1. PICK r \in Session : Holds(m, r, port) /\ m.sidecars[r].proc = "serving"
  BY DEF Serving
<1>2. ASSUME NEW s \in Session, Holds(m, s, port)
      PROVE  m.sidecars[s].proc # "booting"
  BY <1>1, <1>2, PortsDiffer
<1> QED
  BY <1>2 DEF AnswersAt

LEMMA PollMoves ==
    ASSUME EInv, NEW c \in Caller, PollAnswered(c) \/ PollTimesOut(c)
    PROVE  [Next]_mgr /\ \E new : CallGoesTo(c, new)
<1>1. PICK ok \in BOOLEAN :
        PollEnds(c, ok) /\ (ok => Serving(mgr, caller[c].port))
  BY DEF PollAnswered, PollTimesOut
<1> DEFINE pc == IF caller[c].pc = "probe" THEN "verdict" ELSE "booted"
<1> DEFINE new == [caller[c] EXCEPT !.pc = pc, !.ok = ok]
<1>2. caller[c].pc \in {"probe", "boot"} /\ Busy(caller[c])
  BY DEF PollAnswered, PollTimesOut, Busy
<1>3. /\ caller[c] \in CallState /\ Sound(mgr, caller[c])
      /\ Good(mgr) /\ Ported(mgr)
  BY <1>2, CallFacts
<1>4. caller' = [caller EXCEPT ![c] = new] /\ UNCHANGED <<mgr, held>>
  BY <1>1 DEF PollEnds, EInv, Local
<1>5. /\ new \in CallState /\ new.pc = pc /\ new.ok = ok
      /\ new.s = caller[c].s /\ new.o = caller[c].o /\ new.rt = caller[c].rt
      /\ new.port = caller[c].port /\ new.gen = caller[c].gen
  BY <1>2, <1>3 DEF CallState, Pc
<1> HIDE DEF new
<1>6. ok => AnswersAt(mgr, caller[c].port)
  BY <1>1, <1>3, ServingAnswers
<1>7. Sound(mgr, new)
  BY <1>2, <1>3, <1>5, <1>6 DEF Sound, Busy
<1>8. Sound(mgr', new)
  BY <1>4, <1>7
<1> QED
  BY <1>4, <1>5, <1>8, GoesOn

\* A joiner that gives up with the generation it saw acts on the instance it
\* joined: the owner it takes back is that of the entry it waited for.
LEMMA GiveUpJoinSteps ==
    ASSUME EInv, NEW c \in Caller, caller[c].pc = "verdict",
           SameGeneration(c), GiveUpJoin(c)
    PROVE  [Next]_mgr
<1> DEFINE s == caller[c].s
<1> DEFINE o == caller[c].o
<1>1. Busy(caller[c])
  BY DEF Busy
<1>2. /\ s \in Session /\ o \in Owner /\ Good(mgr) /\ Ported(mgr)
      /\ Sound(mgr, caller[c])
  BY <1>1, CallFacts
<1>3. CASE ~caller[c].joined \/ o \notin OwnersOf(mgr, s)
  BY <1>3 DEF GiveUpJoin
<1>4. CASE caller[c].joined /\ o \in OwnersOf(mgr, s)
  <2>1. Present(mgr, s)
    BY <1>4 DEF OwnersOf
  <2>2. mgr.sidecars[s].port = caller[c].port
    BY <1>2, <2>1, PortsDrawn DEF SameGeneration, Sound
  <2>3. Mine(c)
    BY <2>1, <2>2 DEF Mine, Holds
  <2>4. Detach(s, o)
    BY <1>4, <2>3 DEF GiveUpJoin, Detach
  <2> QED
    BY <1>2, <2>4 DEF Next, EnsureStep
<1> QED
  BY <1>3, <1>4

\* The instance that answered is marked: it is the one that was polled.
LEMMA VerdictMarks ==
    ASSUME EInv, NEW c \in Caller, caller[c].pc = "verdict", caller[c].ok,
           Usable(c),
           mgr' = AddOwners(MarkHealthy(mgr, caller[c].s), caller[c].s,
                            {caller[c].o})
    PROVE  [Next]_mgr
<1> DEFINE s == caller[c].s
<1>1. Busy(caller[c])
  BY DEF Busy
<1>2. s \in Session /\ caller[c].o \in Owner /\ Sound(mgr, caller[c])
  BY <1>1, CallFacts
<1>3. Holds(mgr, s, caller[c].port)
  BY DEF Usable, Mine
<1>4. BecomeHealthy(s, {caller[c].o})
  BY <1>2, <1>3 DEF Sound, AnswersAt, Holds, BecomeHealthy
<1> QED
  BY <1>2, <1>4 DEF Next, EnsureStep

LEMMA VerdictMoves ==
    ASSUME EInv, NEW c \in Caller, Verdict(c)
    PROVE  [Next]_mgr /\ \E new : CallGoesTo(c, new)
<1> DEFINE s == caller[c].s
<1> DEFINE rt == caller[c].rt
<1>1. caller[c].pc = "verdict" /\ Busy(caller[c])
  BY DEF Verdict, Busy
<1>2. /\ Sound(mgr, caller[c]) /\ rt \in Runtime
      /\ caller[c].port \in 1..(mgr.counter - 1)
  BY <1>1, CallFacts DEF Sound
<1>3. ASSUME NEW m \in {mgr, Cleared(c), RemoveSidecar(mgr, s)},
             Create(c, m, rt)
      PROVE  [Next]_mgr /\ \E new : CallGoesTo(c, new)
  <2>1. m \in {mgr} \cup Evictions(mgr, s)
    BY <1>3, ClearedEvicts DEF Evictions
  <2> QED
    BY <1>1, <1>2, <1>3, <2>1, CreateMoves
<1>4. CASE VerdictReplaced(c)
  <2>1. CASE UNCHANGED mgr /\ Retry(c)
    BY <1>1, <2>1, RetryMoves
  <2> QED
    BY <1>3, <1>4, <2>1 DEF VerdictReplaced
<1>5. CASE VerdictHealthy(c)
  <2>1. CASE /\ Usable(c)
             /\ mgr' = AddOwners(MarkHealthy(mgr, s), s, {caller[c].o})
             /\ Return(c, TRUE)
    <3>1. [Next]_mgr
      BY <1>1, <1>5, <2>1, VerdictMarks DEF VerdictHealthy
    <3> QED
      BY <1>1, <1>2, <2>1, <3>1, ReturnMoves
  <2> QED
    BY <1>3, <1>5, <2>1 DEF VerdictHealthy
<1>6. CASE VerdictUnhealthy(c)
  <2>1. CASE GiveUpJoin(c) /\ Return(c, FALSE)
    <3>1. [Next]_mgr
      BY <1>1, <1>6, <2>1, GiveUpJoinSteps DEF VerdictUnhealthy
    <3> QED
      BY <1>1, <2>1, <3>1, ReturnMoves
  <2> QED
    BY <1>3, <1>6, <2>1 DEF VerdictUnhealthy
<1> QED
  BY <1>4, <1>5, <1>6 DEF Verdict

LEMMA NoOwnersAdded ==
    ASSUME NEW m \in Manager, NEW s \in Session, Present(m, s)
    PROVE  AddOwners(MarkHealthy(m, s), s, {}) = MarkHealthy(m, s)
<1> DEFINE sc == [m.sidecars[s] EXCEPT !.state = "Healthy"]
<1> DEFINE n == MarkHealthy(m, s)
<1>1. m.sidecars[s] \in Sidecar
  BY DEF Manager, Present
<1>2. sc \in Sidecar
  BY <1>1 DEF Sidecar, SidecarState
<1>3. n = InsertSidecar(m, s, sc)
  BY <1>1 DEF MarkHealthy, InsertSidecar, Manager
<1> HIDE DEF sc
<1>4. n \in Manager /\ n.sidecars = [m.sidecars EXCEPT ![s] = sc]
  BY <1>2, <1>3, InsertSidecarFields
<1> HIDE DEF n
<1>5. n.sidecars[s] = sc /\ Present(n, s)
  BY <1>2, <1>4, NoneAssumption DEF Present, Manager
<1>6. [sc EXCEPT !.owners = @ \cup {}] = sc
  BY <1>2 DEF Sidecar
<1>7. AddOwners(n, s, {}) = InsertSidecar(n, s, [sc EXCEPT !.owners = @ \cup {}])
  BY <1>4, <1>5 DEF AddOwners, InsertSidecar, Manager
<1>8. InsertSidecar(n, s, sc) = n
  BY <1>4, <1>5 DEF InsertSidecar, Manager
<1> QED
  BY <1>6, <1>7, <1>8 DEF n

LEMMA BootMoves ==
    ASSUME EInv, NEW c \in Caller, BootSucceeds(c) \/ BootFails(c)
    PROVE  [Next]_mgr /\ \E new : CallGoesTo(c, new)
<1> DEFINE s == caller[c].s
<1>1. caller[c].pc = "booted" /\ Busy(caller[c])
  BY DEF BootSucceeds, BootFails, Busy
<1>2. /\ s \in Session /\ Sound(mgr, caller[c]) /\ mgr \in Manager
      /\ caller[c].port \in 1..(mgr.counter - 1)
  BY <1>1, CallFacts DEF Sound
<1>3. CASE BootSucceeds(c)
  <2>1. CASE ~Mine(c)
    BY <1>1, <1>2, <1>3, <2>1, ReturnMoves DEF BootSucceeds
  <2>2. CASE Mine(c)
    <3>1. Present(mgr, s) /\ mgr.sidecars[s].proc # "booting"
      BY <1>1, <1>2, <1>3, <2>2
         DEF BootSucceeds, Mine, Holds, Sound, AnswersAt
    <3>2. mgr' = AddOwners(MarkHealthy(mgr, s), s, {})
      BY <1>2, <1>3, <2>2, <3>1, NoOwnersAdded DEF BootSucceeds
    <3>3. BecomeHealthy(s, {})
      BY <3>1, <3>2 DEF BecomeHealthy
    <3>4. Next
      BY <1>2, <3>3 DEF Next, EnsureStep
    <3> QED
      BY <1>1, <1>2, <1>3, <3>4, ReturnMoves DEF BootSucceeds
  <2> QED
    BY <2>1, <2>2
<1>4. CASE BootFails(c)
  <2>1. [Next]_mgr
    <3>1. CASE mgr' = RemoveSidecar(mgr, s)
      <4>1. Evict(s)
        BY <3>1 DEF Evict, Evictions
      <4> QED
        BY <1>2, <4>1 DEF Next, EnsureStep
    <3>2. CASE mgr' = mgr
      BY <3>2
    <3> QED
      BY <1>4, <3>1, <3>2 DEF BootFails
  <2> QED
    BY <1>1, <1>4, <2>1, ReturnMoves DEF BootFails
<1> QED
  BY <1>3, <1>4

LEMMA CallerStepGood ==
    ASSUME EInv, NEW c \in Caller, CallerStep(c)
    PROVE  [Next]_mgr /\ EInv'
<1>1. Busy(caller[c]) /\ UNCHANGED <<recovery, mon>>
  BY DEF CallerStep, Enter, PollAnswered, PollTimesOut, PollEnds, Verdict,
         BootSucceeds, BootFails, Busy
<1>2. [Next]_mgr /\ \E new : CallGoesTo(c, new)
  BY EnterMoves, PollMoves, VerdictMoves, BootMoves DEF CallerStep
<1> QED
  BY <1>1, <1>2, MovesKeep

(***************************************************************************)
(* Commands and the environment.                                           *)
(***************************************************************************)
\* Ports of what the clients hold, and calls that change in nothing that
\* Sound reads.
LEMMA CallsKept ==
    ASSUME EInv, [Next]_mgr, UNCHANGED <<recovery, mon>>,
           caller' \in [Caller -> CallState],
           \A c \in Caller :
              /\ Sound(mgr, caller'[c])
              /\ caller'[c] = caller[c] \/ c # Monitor
                 \/ (caller'[c].pc = caller[c].pc /\ caller'[c].s = caller[c].s),
           held' \subseteq (Session \X Owner \X Nat),
           \A h \in held' : h[3] \in 1..(mgr.counter - 1)
    PROVE  EInv'
<1>1. /\ PInv'
      /\ mgr.counter \in Nat /\ mgr'.counter \in Nat
      /\ mgr.counter <= mgr'.counter
      /\ \A call : Sound(mgr, call) => Sound(mgr', call)
  BY ManagerKeeps
<1>2. Local'
  BY DEF EInv, Local
<1>3. CallsSound'
  BY <1>1 DEF CallsSound
<1>4. HeldSound'
  BY <1>1 DEF HeldSound
<1>5. MonitorSound'
  <2>1. /\ caller'[Monitor].pc = caller[Monitor].pc
        /\ caller'[Monitor].s = caller[Monitor].s
    BY DEF Caller
  <2> QED
    BY <2>1 DEF EInv, MonitorSound, Busy
<1> QED
  BY <1>1, <1>2, <1>3, <1>4, <1>5 DEF EInv

LEMMA KeepCallsGood ==
    ASSUME EInv, [Next]_mgr, KeepCalls
    PROVE  EInv'
<1>1. UNCHANGED <<caller, held, recovery, mon>>
  BY DEF KeepCalls
<1> QED
  BY <1>1, CallsKept DEF EInv, Local, CallsSound, HeldSound

LEMMA ReleaseOwnerGood ==
    ASSUME EInv, NEW s \in Session, NEW o \in Owner, ReleaseOwner(s, o)
    PROVE  [Next]_mgr /\ EInv'
<1>1. Next
  <2>1. CASE o \in Tab
    <3>1. ReleaseTabSession(s, o)
      BY <2>1 DEF ReleaseOwner, ReleaseAs, ReleaseTabSession
    <3> QED
      BY <2>1, <3>1 DEF Next, Command
  <2>2. CASE o \notin Tab
    <3>1. Release(s, o)
      BY <2>2 DEF ReleaseOwner, ReleaseAs, Release
    <3> QED
      BY <3>1 DEF Next, Command
  <2> QED
    BY <2>1, <2>2
<1>2. ASSUME NEW c \in Caller
      PROVE  /\ caller'[c] \in CallState
             /\ Sound(mgr, caller'[c])
             /\ caller'[c].pc = caller[c].pc
             /\ caller'[c].s = caller[c].s
  <2> DEFINE call == [caller[c] EXCEPT !.released = TRUE]
  <2>1. caller[c] \in CallState /\ Sound(mgr, caller[c])
    BY DEF EInv, Local, CallsSound
  <2>2. /\ call \in CallState
        /\ call.pc = caller[c].pc /\ call.s = caller[c].s
        /\ call.o = caller[c].o /\ call.rt = caller[c].rt
        /\ call.port = caller[c].port /\ call.gen = caller[c].gen
        /\ call.ok = caller[c].ok
    BY <2>1, ReleasedFields
  <2>3. caller'[c] = call \/ caller'[c] = caller[c]
    BY DEF ReleaseOwner
  <2> HIDE DEF call
  <2>4. Sound(mgr, call)
    BY <2>1, <2>2 DEF Sound, Busy
  <2> QED
    BY <2>1, <2>2, <2>3, <2>4
<1>3. caller' \in [Caller -> CallState]
  BY <1>2 DEF ReleaseOwner
<1>4. held' \subseteq held /\ UNCHANGED <<recovery, mon>>
  BY DEF ReleaseOwner
<1> QED
  BY <1>1, <1>2, <1>3, <1>4, CallsKept DEF EInv, Local, HeldSound

LEMMA RenameSessionGood ==
    ASSUME EInv, NEW old \in Session, NEW new \in Session,
           RenameSession(old, new)
    PROVE  [Next]_mgr /\ EInv'
<1>1. Next
  <2>1. Upgrade(old, new)
    BY DEF RenameSession, Upgrade
  <2> QED
    BY <2>1 DEF Next, Command
<1>2. \A h \in held : /\ h \in Session \X Owner \X Nat
                      /\ h[3] \in 1..(mgr.counter - 1)
  BY DEF EInv, Local, HeldSound
<1>3. ASSUME NEW h \in held'
      PROVE  h \in Session \X Owner \X Nat /\ h[3] \in 1..(mgr.counter - 1)
  <2>1. PICK g \in held : h = IF g[1] = old THEN <<new, g[2], g[3]>> ELSE g
    BY DEF RenameSession
  <2> QED
    BY <1>2, <2>1
<1> QED
  BY <1>1, <1>3, CallsKept DEF RenameSession, EInv, Local, CallsSound

LEMMA ActivateTabGood ==
    ASSUME EInv, NEW h \in held, ActivateTab(h)
    PROVE  [Next]_mgr /\ EInv'
<1>1. h[1] \in Session /\ h[3] \in 1..(mgr.counter - 1) /\ h[2] \in Tab
  BY DEF EInv, Local, HeldSound, ActivateTab
<1>2. ActivateSession(h[1], h[2])
  BY <1>1 DEF ActivateTab, ActivateSession
<1>3. Next
  BY <1>1, <1>2 DEF Next, Command
<1> QED
  BY <1>3, KeepCallsGood DEF ActivateTab, KeepCalls

LEMMA StartGood ==
    ASSUME EInv, NEW c \in Client, NEW s \in Session, NEW o \in Acts[c],
           Start(c, s, o)
    PROVE  [Next]_mgr /\ EInv'
<1> DEFINE call == Called(s, o, 0)
<1>1. o \in Owner /\ c \in Caller /\ c # Monitor
  BY CallerAssumption DEF Caller
<1>2. call \in CallState /\ call.pc = "enter" /\ call.s = s /\ call.o = o
  BY <1>1, CalledFields
<1> HIDE DEF call
<1>3. Sound(mgr, call)
  BY <1>1, <1>2, EnterSound
<1>4. caller' = [caller EXCEPT ![c] = call] /\ mgr' = mgr
      /\ UNCHANGED <<held, recovery, mon>>
  BY DEF Start, call
<1>5. \A d \in Caller : caller'[d] = IF d = c THEN call ELSE caller[d]
  BY <1>4 DEF EInv, Local
<1> QED
  BY <1>1, <1>2, <1>3, <1>4, <1>5, CallsKept
     DEF EInv, Local, CallsSound, HeldSound

LEMMA EnvironmentGood ==
    ASSUME EInv, Environment
    PROVE  [Next]_mgr /\ EInv'
<1>1. ASSUME NEW s \in Session, ProcessReady(s) \/ ProcessExits(s), KeepCalls
      PROVE  [Next]_mgr /\ EInv'
  <2>1. Next
    BY <1>1 DEF Next, Process
  <2> QED
    BY <1>1, <2>1, KeepCallsGood
<1>2. ASSUME NEW s \in Session, Observe({s}), KeepCalls
      PROVE  [Next]_mgr /\ EInv'
  <2>1. Next
    BY <1>2 DEF Next, Command
  <2> QED
    BY <1>2, <2>1, KeepCallsGood
<1> QED
  BY <1>1, <1>2, ReleaseOwnerGood, RenameSessionGood, ActivateTabGood,
     StartGood DEF Environment

(***************************************************************************)
(* The monitor.                                                            *)
(***************************************************************************)
\* A scan or a visit that starts no call: entries are only queued, or leave
\* the queue when they are not to be visited.
LEMMA QueueKept ==
    ASSUME EInv, [Next]_mgr, UNCHANGED <<caller, held>>, mon.pc # "await",
           recovery' \in [Session -> RecoveryEntry \cup {None}],
           mon' \in [pc: {"sleep", "retain", "visit"},
                     todo: SUBSET Session, at: Session \cup {None}],
           \A s \in mon'.todo : recovery'[s] # None
    PROVE  EInv'
<1>1. PInv' /\ (\A call : Sound(mgr, call) => Sound(mgr', call))
  BY ManagerKeeps
<1>2. Local'
  BY DEF EInv, Local
<1>3. CallsSound'
  BY <1>1 DEF EInv, CallsSound
<1>4. HeldSound'
  BY ManagerKeeps DEF EInv, HeldSound
<1>5. MonitorSound'
  BY DEF EInv, MonitorSound
<1> QED
  BY <1>1, <1>2, <1>3, <1>4, <1>5 DEF EInv

LEMMA ScanIsManagers ==
    ASSUME mgr' = Reap(mgr, Session)
    PROVE  Next
<1>1. Observe(Session)
  BY DEF Observe
<1> QED
  BY <1>1 DEF Next, Command

LEMMA MonitorScanGood ==
    ASSUME EInv, MonitorScan
    PROVE  [Next]_mgr /\ EInv'
<1>1. [Next]_mgr
  BY ScanIsManagers DEF MonitorScan
<1>2. PICK first \in [NewlyDead -> Owner] :
        recovery' = [s \in Session |->
             IF s \in NewlyDead
             THEN [owners |-> OwnersOf(mgr, s), first |-> first[s],
                   runtime |-> mgr.sidecars[s].runtime, failures |-> 0]
             ELSE recovery[s]]
  BY DEF MonitorScan
<1>3. mgr \in Manager
  BY DEF EInv, PInv, IInv, Good, Base, Typed
<1>4. ASSUME NEW s \in NewlyDead
      PROVE  [owners |-> OwnersOf(mgr, s), first |-> first[s],
              runtime |-> mgr.sidecars[s].runtime, failures |-> 0]
                \in RecoveryEntry
  <2>1. s \in Session /\ Present(mgr, s)
    BY DEF NewlyDead
  <2>2. mgr.sidecars[s] \in Sidecar
    BY <1>3, <2>1 DEF Manager, Present
  <2> QED
    BY <2>1, <2>2 DEF RecoveryEntry, Sidecar, OwnersOf
<1>5. recovery' \in [Session -> RecoveryEntry \cup {None}]
  BY <1>2, <1>4 DEF EInv, Local
<1>6. \A s \in mon.todo : s \in Session /\ recovery[s] # None
  BY DEF EInv, Local, MonitorSound
<1>7. \A s \in mon.todo : recovery'[s] # None
  BY <1>2, <1>6 DEF NewlyDead
<1>8. /\ mon' = [mon EXCEPT !.pc = "retain"]
      /\ mon.pc = "sleep" /\ UNCHANGED <<caller, held>>
  BY DEF MonitorScan
<1>9. /\ mon' \in [pc: {"sleep", "retain", "visit"},
                   todo: SUBSET Session, at: Session \cup {None}]
      /\ mon'.todo = mon.todo
  BY <1>8 DEF EInv, Local
<1> QED
  BY <1>1, <1>5, <1>7, <1>8, <1>9, QueueKept

LEMMA MonitorRetainGood ==
    ASSUME EInv, MonitorRetain
    PROVE  [Next]_mgr /\ EInv'
<1>1. [Next]_mgr
  BY ScanIsManagers DEF MonitorRetain
<1>2. /\ recovery' = [s \in Session |->
                        IF Retained(s) THEN recovery[s] ELSE None]
      /\ mon.pc = "retain" /\ UNCHANGED <<caller, held>>
  BY DEF MonitorRetain
<1>3. recovery' \in [Session -> RecoveryEntry \cup {None}]
  BY <1>2 DEF EInv, Local
<1>4. /\ mon' \in [pc: {"sleep", "retain", "visit"},
                   todo: SUBSET Session, at: Session \cup {None}]
      /\ mon'.todo = {s \in Session : Retained(s)}
  BY DEF MonitorRetain, EInv, Local
<1>5. \A s \in mon'.todo : recovery'[s] # None
  BY <1>2, <1>4 DEF Retained
<1> QED
  BY <1>1, <1>2, <1>3, <1>4, <1>5, QueueKept

LEMMA LeaveFields ==
    ASSUME EInv, NEW s \in Session
    PROVE  /\ Leave(s) \in [pc: {"sleep", "retain", "visit"},
                            todo: SUBSET Session, at: Session \cup {None}]
           /\ Leave(s).todo = mon.todo \ {s}
           /\ Leave(s).pc # "await"
BY DEF Leave, EInv, Local

LEMMA MonitorSkipsGood ==
    ASSUME EInv, NEW s \in Session, MonitorSkips(s)
    PROVE  [Next]_mgr /\ EInv'
<1>1. /\ UNCHANGED <<mgr, caller, held>>
      /\ mon.pc = "visit" /\ mon' = Leave(s)
      /\ recovery' = recovery \/ recovery' = [recovery EXCEPT ![s] = None]
  BY DEF MonitorSkips
<1>2. recovery' \in [Session -> RecoveryEntry \cup {None}]
  BY <1>1 DEF EInv, Local
<1>3. \A r \in mon.todo \ {s} : recovery'[r] # None
  BY <1>1 DEF EInv, MonitorSound, Local
<1> QED
  BY <1>1, <1>2, <1>3, LeaveFields, QueueKept

LEMMA MonitorRestartsGood ==
    ASSUME EInv, NEW s \in Session, MonitorRestarts(s)
    PROVE  [Next]_mgr /\ EInv'
<1> DEFINE call == Called(s, recovery[s].first, 0)
<1>1. [Next]_mgr
  <2>1. Evict(s)
    BY DEF MonitorRestarts, Evict, Evictions
  <2> QED
    BY <2>1 DEF Next, EnsureStep
<1>2. recovery[s] # None /\ s \in mon.todo
  BY DEF MonitorRestarts, EInv, MonitorSound
<1>3. recovery[s].first \in Owner
  BY <1>2 DEF EInv, Local, RecoveryEntry
<1>4. /\ call \in CallState /\ call.pc = "enter" /\ call.s = s
      /\ call.o \in Owner
  BY <1>3, CalledFields
<1>5. caller' = [caller EXCEPT ![Monitor] = call]
      /\ mon' = [mon EXCEPT !.pc = "await", !.at = s]
      /\ UNCHANGED <<held, recovery>>
  BY DEF MonitorRestarts
<1> HIDE DEF call
<1>6. Monitor \in Caller
  BY DEF Caller
<1>7. /\ PInv' /\ (\A c : Sound(mgr, c) => Sound(mgr', c))
  BY <1>1, ManagerKeeps
<1>8. \A c \in Caller : caller'[c] = IF c = Monitor THEN call ELSE caller[c]
  BY <1>5 DEF EInv, Local
<1>9. /\ mon' \in [pc: {"sleep", "retain", "visit", "await"},
                   todo: SUBSET Session, at: Session \cup {None}]
      /\ mon'.pc = "await" /\ mon'.at = s /\ mon'.todo = mon.todo
  BY <1>5 DEF EInv, Local
<1>10. Local'
  BY <1>4, <1>5, <1>6, <1>8, <1>9 DEF EInv, Local
<1>11. CallsSound'
  <2>1. Sound(mgr', call)
    BY <1>4, EnterSound
  <2> QED
    BY <1>7, <1>8, <2>1 DEF EInv, CallsSound
<1>12. HeldSound'
  BY <1>1, <1>5, ManagerKeeps DEF EInv, HeldSound
<1>13. MonitorSound'
  BY <1>2, <1>4, <1>5, <1>6, <1>8, <1>9 DEF EInv, MonitorSound
<1> QED
  BY <1>1, <1>7, <1>10, <1>11, <1>12, <1>13 DEF EInv

LEMMA MonitorSettlesGood ==
    ASSUME EInv, MonitorSettles
    PROVE  [Next]_mgr /\ EInv'
<1> DEFINE s == mon.at
<1>1. /\ mon.pc = "await" /\ s \in mon.todo /\ s \in Session
      /\ recovery[s] \in RecoveryEntry
  BY DEF MonitorSettles, EInv, MonitorSound, Local
<1>2. [Next]_mgr
  <2> DEFINE os == recovery[s].owners \ {recovery[s].first}
  <2>1. CASE mgr' = mgr
    BY <2>1
  <2>2. CASE mgr' = AddOwners(mgr, s, os)
    <3>1. os \in SUBSET Owner
      BY <1>1 DEF RecoveryEntry
    <3>2. CASE Present(mgr, s)
      <4>1. Join(s, os)
        BY <2>2, <3>2 DEF Join
      <4> QED
        BY <1>1, <3>1, <4>1 DEF Next, EnsureStep
    <3>3. CASE ~Present(mgr, s)
      BY <2>2, <3>3 DEF AddOwners
    <3> QED
      BY <3>2, <3>3
  <2> QED
    BY <2>1, <2>2 DEF MonitorSettles
<1>3. /\ caller' = [caller EXCEPT ![Monitor] = Idle]
      /\ mon' = Leave(s) /\ UNCHANGED held
  BY DEF MonitorSettles
<1>4. /\ recovery' \in [Session -> RecoveryEntry \cup {None}]
      /\ \A r \in Session \ {s} : recovery'[r] = recovery[r]
  <2>1. CASE recovery' = [recovery EXCEPT ![s] = None]
    BY <2>1 DEF EInv, Local
  <2>2. CASE recovery' = [recovery EXCEPT ![s].failures = @ + 1]
    <3> DEFINE e == [recovery[s] EXCEPT !.failures = @ + 1]
    <3>1. e \in RecoveryEntry
      BY <1>1 DEF RecoveryEntry
    <3>2. recovery' = [recovery EXCEPT ![s] = e]
      BY <2>2
    <3> HIDE DEF e
    <3> QED
      BY <3>1, <3>2 DEF EInv, Local
  <2> QED
    BY <2>1, <2>2 DEF MonitorSettles
<1>5. /\ PInv' /\ (\A c : Sound(mgr, c) => Sound(mgr', c))
  BY <1>2, ManagerKeeps
<1>6. Monitor \in Caller
  BY DEF Caller
<1>7. \A c \in Caller : caller'[c] = IF c = Monitor THEN Idle ELSE caller[c]
  BY <1>3 DEF EInv, Local
<1>8. Local'
  BY <1>1, <1>3, <1>4, <1>7, IdleCall, LeaveFields DEF EInv, Local
<1>9. CallsSound'
  <2>1. Sound(mgr', Idle)
    BY IdleSound
  <2> QED
    BY <1>5, <1>7, <2>1 DEF EInv, CallsSound
<1>10. HeldSound'
  BY <1>2, <1>3, ManagerKeeps DEF EInv, HeldSound
<1>11. MonitorSound'
  <2>1. \A r \in mon'.todo : recovery'[r] # None
    BY <1>1, <1>3, <1>4, LeaveFields DEF EInv, MonitorSound, Local
  <2> QED
    BY <1>1, <1>3, <1>6, <1>7, <2>1, IdleCall, LeaveFields DEF MonitorSound
<1> QED
  BY <1>2, <1>5, <1>8, <1>9, <1>10, <1>11 DEF EInv

(***************************************************************************)
(* The theorems.                                                           *)
(***************************************************************************)
LEMMA InitEInv == EnsureInit => EInv
<1> SUFFICES ASSUME EnsureInit PROVE EInv
  OBVIOUS
<1>1. PInv
  BY InitPorted DEF EnsureInit
<1>2. \A c \in Caller : caller[c] = Idle
  BY DEF EnsureInit
<1>3. Local
  BY <1>2, IdleCall DEF EnsureInit, Local
<1>4. CallsSound
  BY <1>2, IdleSound DEF CallsSound
<1>5. HeldSound /\ MonitorSound
  BY <1>2, IdleCall DEF EnsureInit, HeldSound, MonitorSound, Caller
<1> QED
  BY <1>1, <1>3, <1>4, <1>5 DEF EInv

\* A step of the calls, the clients or the monitor is one of the manager.
LEMMA StepGood == EInv /\ [EnsureNext]_vars => [Next]_mgr /\ EInv'
<1> SUFFICES ASSUME EInv, [EnsureNext]_vars PROVE [Next]_mgr /\ EInv'
  OBVIOUS
<1>1. CASE UNCHANGED vars
  <2>1. [Next]_mgr /\ KeepCalls
    BY <1>1 DEF vars, KeepCalls
  <2> QED
    BY <2>1, KeepCallsGood
<1>2. CASE MonitorStep
  BY <1>2, MonitorScanGood, MonitorRetainGood, MonitorSkipsGood,
     MonitorRestartsGood, MonitorSettlesGood DEF MonitorStep
<1>3. CASE CallsNext
  BY <1>3, CallerStepGood, EnvironmentGood DEF CallsNext
<1> QED
  BY <1>1, <1>2, <1>3 DEF EnsureNext

\* What a call of ensure_session_sidecar remembers while the mutex is free stays
\* sound, whatever the other threads, the monitor and the processes do: its port was
\* handed out, its generation is the port's, and who answered it had booted.
THEOREM EnsureInvariance == EnsureSpec => []EInv
BY InitEInv, StepGood, PTL DEF EnsureSpec

\* A call never marks a process that has not answered, and the local state
\* of the calls keeps its type.
THEOREM CallsAreConsistent == EnsureSpec => []EnsureInv
<1>1. EInv => EnsureInv
  BY DEF EInv, PInv, IInv, Good, Base, Typed, TypeOK, Local, Answered,
         EnsureInv, EnsureTypeOK, HealthyHasAnswered
<1> QED
  BY <1>1, EnsureInvariance, PTL

\* Every locked section of ensure, release, activation, rename and the monitor,
\* with the local state it acts on, is one of the sections of the manager's
\* specification, for any number of threads.
THEOREM CallsImplementManager == EnsureSpec => ImplementsManager
<1>1. EnsureInit => Init
  BY DEF EnsureInit
<1> QED
  BY <1>1, StepGood, EnsureInvariance, PTL
     DEF EnsureSpec, ImplementsManager, Spec

\* What is proved of the manager holds of the threads: no sidecar runs without an
\* owner, generations and tabs stay apart, and every removal is announced.
COROLLARY ThreadsKeepSidecarsOwned ==
    EnsureSpec => /\ []NoOwnerlessSidecar
                  /\ []GenerationNamesInstance
                  /\ []StaleStopIsHarmless
                  /\ []TabNamesOneSession
                  /\ NoSilentRemoval
                  /\ []TerminalExactlyWhenUnowned
BY CallsImplementManager, SidecarsAreOwned, GenerationsNameInstances,
   StaleStopsAreHarmless, TabsNameOneSession, NoRemovalIsSilent,
   TerminalsAreTheUnowned DEF ImplementsManager
==============================================================================
