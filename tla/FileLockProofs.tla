--------------------------- MODULE FileLockProofs ---------------------------
(***************************************************************************)
(* The file lock, for any number of calls and processes: its types, and    *)
(* that a call which holds the lock has its own directory at the path      *)
(* unless another removed it.  The two together are inductive.  With       *)
(* Judged, that a break follows a verdict on a dead or unverifiable owner, *)
(* a live owner keeps its lock.                                            *)
(***************************************************************************)
EXTENDS FileLock, TLAPS

LEMMA InitType == Init => TypeOK
BY FileLockAssumption DEF Init, TypeOK, Sync, Ended, Dir

\* What each step keeps of the types.
LEMMA StepType ==
    ASSUME TypeOK, NEW c \in Caller, Start(c) \/ Step(c)
    PROVE  TypeOK'
<1> USE FileLockAssumption DEF TypeOK, Sync, Ended, Dir, At, Goto
<1>1. CASE Start(c) BY <1>1 DEF Start
<1>2. CASE Mkdir(c)
  <2>1. CASE dir' = [by |-> c, owner |-> None, old |-> FALSE] /\ Goto(c, "made")
    BY <1>2, <2>1 DEF Mkdir
  <2>2. CASE UNCHANGED dir /\ \E p \in {"stat", "failed"} : Goto(c, p)
    BY <1>2, <2>2 DEF Mkdir
  <2>3. QED BY <1>2, <2>1, <2>2 DEF Mkdir
<1>3. CASE WriteOwner(c) BY <1>3 DEF WriteOwner
<1>4. CASE Stat(c) BY <1>4 DEF Stat
<1>5. CASE ReadOwner(c) BY <1>5 DEF ReadOwner
<1>6. CASE Judge(c) BY <1>6 DEF Judge
<1>7. CASE BreakLock(c) BY <1>7 DEF BreakLock, RemoveDir
<1>8. CASE Poll(c) BY <1>8 DEF Poll
<1>9. CASE CheckOwner(c) BY <1>9 DEF CheckOwner
<1>10. CASE UnlinkOwner(c) BY <1>10 DEF UnlinkOwner
<1>11. CASE Rmdir(c) BY <1>11 DEF Rmdir, RemoveDir
<1>12. QED
  BY <1>1, <1>2, <1>3, <1>4, <1>5, <1>6, <1>7, <1>8, <1>9, <1>10, <1>11
     DEF Step

LEMMA NextType == ASSUME TypeOK, [Next]_vars PROVE TypeOK'
<1>1. CASE \E c \in Caller : Start(c) \/ Step(c) BY <1>1, StepType
<1>2. CASE \E p \in Process : Crash(p)
  BY <1>2 DEF Crash, TypeOK, Ended, Sync
<1>3. CASE Age BY <1>3 DEF Age, TypeOK, Dir
<1>4. CASE UNCHANGED vars BY <1>4 DEF vars, TypeOK
<1>5. QED BY <1>1, <1>2, <1>3, <1>4 DEF Next

\* The variables keep their types.
THEOREM TypeCorrect == Spec => []TypeOK
<1>1. TypeOK /\ [Next]_vars => TypeOK' BY NextType
<1>2. QED BY InitType, <1>1, PTL DEF Spec

\* Removing the directory counts its live maker among the lost; so the others
\* keep what they had.
LEMMA RemovalIsCounted ==
    ASSUME TypeOK, MutualExclusion, NEW c \in Caller, RemoveDir(c),
           NEW d \in Caller \ {c}, pc[d] \in Holding
    PROVE  d \in lost'
BY FileLockAssumption DEF MutualExclusion, RemoveDir, TypeOK, Dir

LEMMA StepExcludes ==
    ASSUME TypeOK, MutualExclusion, NEW c \in Caller, Start(c) \/ Step(c)
    PROVE  MutualExclusion'
<1> SUFFICES ASSUME NEW d \in Caller, (pc[d] \in Holding)', (d \notin lost)'
             PROVE  (dir # None /\ dir.by = d)'
  BY DEF MutualExclusion
<1> USE DEF Holding, At, Goto
<1>1. CASE Start(c) BY <1>1 DEF Start, MutualExclusion, TypeOK
<1>2. CASE Mkdir(c)
  <2>1. CASE /\ dir = None /\ pc' = [pc EXCEPT ![c] = "made"]
             /\ dir' = [by |-> c, owner |-> None, old |-> FALSE]
    <3>1. d = c BY <1>2, <2>1 DEF Mkdir, MutualExclusion, TypeOK
    <3>2. dir' \in Dir BY <2>1 DEF Dir
    <3>3. QED BY <2>1, <3>1, <3>2, FileLockAssumption
  <2>2. CASE UNCHANGED dir /\ \E p \in {"stat", "failed"} : Goto(c, p)
    BY <1>2, <2>2 DEF Mkdir, MutualExclusion, TypeOK
  <2>3. QED BY <1>2, <2>1, <2>2 DEF Mkdir
<1>3. CASE WriteOwner(c)
  <2>1. dir # None /\ dir.by = d
    BY <1>3 DEF WriteOwner, MutualExclusion, TypeOK
  <2>2. dir \in Dir BY <2>1 DEF TypeOK
  <2>3. dir' \in Dir /\ dir'.by = dir.by
    BY <1>3, <2>2, FileLockAssumption DEF WriteOwner, Dir
  <2>4. QED BY <2>1, <2>3, FileLockAssumption
<1>4. CASE Stat(c) BY <1>4 DEF Stat, MutualExclusion, TypeOK
<1>5. CASE ReadOwner(c) BY <1>5 DEF ReadOwner, MutualExclusion, TypeOK
<1>6. CASE Judge(c) BY <1>6 DEF Judge, MutualExclusion, TypeOK
<1>7. CASE BreakLock(c)
  BY <1>7, RemovalIsCounted DEF BreakLock, MutualExclusion, TypeOK
<1>8. CASE Poll(c) BY <1>8 DEF Poll, MutualExclusion, TypeOK
<1>9. CASE CheckOwner(c) BY <1>9 DEF CheckOwner, MutualExclusion, TypeOK
<1>10. CASE UnlinkOwner(c)
  BY <1>10, FileLockAssumption DEF UnlinkOwner, MutualExclusion, TypeOK, Dir
<1>11. CASE Rmdir(c)
  BY <1>11, RemovalIsCounted DEF Rmdir, MutualExclusion, TypeOK
<1>12. QED
  BY <1>1, <1>2, <1>3, <1>4, <1>5, <1>6, <1>7, <1>8, <1>9, <1>10, <1>11
     DEF Step

LEMMA NextExcludes ==
    ASSUME TypeOK, MutualExclusion, [Next]_vars PROVE MutualExclusion'
<1>1. CASE \E c \in Caller : Start(c) \/ Step(c) BY <1>1, StepExcludes
<1>2. CASE \E p \in Process : Crash(p)
  BY <1>2 DEF Crash, MutualExclusion, Holding, TypeOK
<1>3. CASE Age
  BY <1>3, FileLockAssumption DEF Age, MutualExclusion, TypeOK, Dir
<1>4. CASE UNCHANGED vars BY <1>4 DEF vars, MutualExclusion
<1>5. QED BY <1>1, <1>2, <1>3, <1>4 DEF Next

\* Of the calls from which no directory was taken, at most one holds the lock,
\* and the directory at the path is its own.
THEOREM Excludes == Spec => []MutualExclusion
<1>1. Init => MutualExclusion BY DEF Init, MutualExclusion, Holding
<1>2. TypeOK /\ MutualExclusion /\ [Next]_vars => MutualExclusion'
  BY NextExcludes
<1>3. QED BY TypeCorrect, <1>1, <1>2, PTL DEF Spec

(***************************************************************************)
(* A live owner.  Judged carries a verdict to the rename: who was found    *)
(* dead stays dead, and nothing of a dead process holds the lock.          *)
(***************************************************************************)
Judged ==
    /\ \A c \in Caller : Of[c] \notin alive => pc[c] \in Ended
    /\ \A c \in Caller : pc[c] = "break" =>
          seen[c] = None \/ seen[c] \notin alive \/ seen[c] \in Unverifiable

LEMMA InitJudged == Init => Judged
BY FileLockAssumption DEF Init, Judged, Ended

\* Only the first step of a removal brings a call to `break', and only a call
\* that has not ended takes a step.
LEMMA StepJudged ==
    ASSUME TypeOK, Judged, NEW c \in Caller, Start(c) \/ Step(c)
    PROVE  Judged'
<1>1. Of[c] \in alive /\ alive' = alive
  BY DEF Start, Step, Mkdir, WriteOwner, Stat, ReadOwner, Judge, BreakLock,
         Poll, CheckOwner, UnlinkOwner, Rmdir, At, Judged, Ended
<1>2. \E p : Goto(c, p)
  BY DEF Start, Step, Mkdir, WriteOwner, Stat, ReadOwner, Judge, BreakLock,
         Poll, CheckOwner, UnlinkOwner, Rmdir
<1>3. \A d \in Caller \ {c} : pc'[d] = pc[d]
  BY <1>2 DEF Goto, TypeOK
<1>4. \A d \in Caller : Of[d] \notin alive' => pc'[d] \in Ended
  BY <1>1, <1>3 DEF Judged
<1>5. \A d \in Caller \ {c} : seen'[d] = seen[d]
  BY DEF Start, Step, Mkdir, WriteOwner, Stat, ReadOwner, Judge, BreakLock,
         Poll, CheckOwner, UnlinkOwner, Rmdir, TypeOK
<1>6. pc'[c] = "break" =>
        /\ seen' = seen
        /\ seen[c] = None \/ seen[c] \notin alive \/ seen[c] \in Unverifiable
  BY DEF Start, Step, Mkdir, WriteOwner, Stat, ReadOwner, Judge, Breakable,
         BreakLock, Poll, CheckOwner, UnlinkOwner, Rmdir, Goto, TypeOK
<1> QED
  BY <1>1, <1>3, <1>4, <1>5, <1>6 DEF Judged

LEMMA NextJudged == ASSUME TypeOK, Judged, [Next]_vars PROVE Judged'
<1>1. CASE \E c \in Caller : Start(c) \/ Step(c) BY <1>1, StepJudged
<1>2. CASE \E p \in Process : Crash(p)
  BY <1>2 DEF Crash, TypeOK, Judged, Ended
<1>3. CASE Age BY <1>3 DEF Age, Judged
<1>4. CASE UNCHANGED vars BY <1>4 DEF vars, Judged
<1>5. QED BY <1>1, <1>2, <1>3, <1>4 DEF Next

\* A call is robbed while it holds the lock, of the directory that is at the
\* path and is its own, by the removal of another.
LEMMA RobbedHolds ==
    ASSUME TypeOK, [Next]_vars, NEW d \in lost', d \notin lost
    PROVE  \E c \in Caller :
               /\ BreakLock(c) \/ Rmdir(c)
               /\ c # d /\ dir # None /\ dir.by = d /\ pc[d] \in Holding
<1>1. \E c \in Caller : RemoveDir(c) /\ (BreakLock(c) \/ Rmdir(c))
  BY DEF Next, vars, Start, Step, Mkdir, WriteOwner, Stat, ReadOwner, Judge,
         BreakLock, Poll, CheckOwner, UnlinkOwner, Rmdir, Crash, Age
<1> QED
  BY <1>1 DEF RemoveDir

\* A lock whose owner lives is not broken but for the named reasons, whatever the
\* step: a verdict about another owner file or another directory, an owner whose
\* start time cannot be told (tryBreakStaleLock, breakLockSafely in
\* file-lock.ts), or the release of a call that was robbed itself (the `finally'
\* of withFileLock).
THEOREM LiveOwnersKeepTheirLocks == Spec => LiveOwnerKeepsItsLock
<1>1. TypeOK /\ MutualExclusion /\ Judged /\ [Next]_vars =>
        [\A d \in lost' \ lost : \E c \in Caller \ {d} :
            \/ /\ pc[c] = "break" /\ pc'[c] # "break"
               /\ seen[c] # Of[d] \/ seen[c] \in Unverifiable \/ judged[c] # d
            \/ pc[c] = "rmdir" /\ pc'[c] # "rmdir" /\ c \in lost]_vars
  <2> SUFFICES ASSUME TypeOK, MutualExclusion, Judged, [Next]_vars,
                      NEW d \in lost', d \notin lost
               PROVE  \E c \in Caller \ {d} :
                  \/ /\ pc[c] = "break" /\ pc'[c] # "break"
                     /\ \/ seen[c] # Of[d] \/ seen[c] \in Unverifiable
                        \/ judged[c] # d
                  \/ pc[c] = "rmdir" /\ pc'[c] # "rmdir" /\ c \in lost
    OBVIOUS
  <2>1. PICK c \in Caller : /\ BreakLock(c) \/ Rmdir(c)
                            /\ c # d /\ dir # None /\ dir.by = d
                            /\ pc[d] \in Holding
    BY RobbedHolds
  <2>2. d \in Caller
    BY <2>1 DEF TypeOK, Dir
  <2>3. CASE BreakLock(c)
    <3>1. pc[c] = "break" /\ pc'[c] # "break"
      BY <2>3 DEF BreakLock, At, Goto, TypeOK
    <3>2. Of[d] \in alive /\ Of[d] # None
      BY <2>1, <2>2, FileLockAssumption DEF Judged, Holding, Ended
    <3>3. seen[c] # Of[d] \/ seen[c] \in Unverifiable
      BY <3>1, <3>2 DEF Judged
    <3> QED
      BY <2>1, <3>1, <3>3
  <2>4. CASE Rmdir(c)
    <3>1. pc[c] = "rmdir" /\ pc'[c] # "rmdir"
      BY <2>4 DEF Rmdir, At, Goto, TypeOK
    <3>2. c \in lost
      BY <2>1, <3>1 DEF MutualExclusion, Holding
    <3> QED
      BY <2>1, <3>1, <3>2
  <2> QED
    BY <2>1, <2>3, <2>4
<1>2. TypeOK /\ Judged /\ [Next]_vars => Judged'
  BY NextJudged
<1>3. QED
  BY InitJudged, TypeCorrect, Excludes, <1>1, <1>2, PTL
     DEF Spec, LiveOwnerKeepsItsLock
=============================================================================
