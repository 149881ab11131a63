------------------------------ MODULE FileLock ------------------------------
(***************************************************************************)
(* withFileLock (server/utils/file-lock.ts): a lock between processes that *)
(* is a directory.  mkdir takes it, an `owner' file in it names the        *)
(* process, and a waiter breaks a lock that is older than staleMs and      *)
(* whose owner is dead or unknown.                                         *)
(*                                                                         *)
(* Every system call is a step, as the calls of two processes interleave;  *)
(* within one process they do not while they are synchronous (Sync).  A    *)
(* caller takes the lock once: its name also names the directory it made.  *)
(* existsSync and readFileSync of a release are one step.                  *)
(***************************************************************************)
EXTENDS Naturals

CONSTANTS
    Caller,        \* calls of withFileLock on one path
    Process,
    Of,            \* the process of a call
    Unverifiable,  \* processes whose start time cannot be read or compared
    PollLimit,     \* timeoutMs / pollMs
    None           \* no directory, no owner file

Dir == [by : Caller, owner : Process \cup {None}, old : BOOLEAN]

ASSUME FileLockAssumption ==
    /\ Of \in [Caller -> Process]
    /\ Unverifiable \subseteq Process
    /\ PollLimit \in Nat
    /\ None \notin Process /\ None \notin Caller /\ None \notin Dir

VARIABLES
    dir,     \* the directory at lockPath: who made it, its owner file, its age
    pc,      \* where each call is
    polls,   \* how often a call has slept
    seen,    \* the owner that a waiter has read
    judged,  \* whose directory it read it from (not in the code)
    alive,   \* the processes that run
    lost     \* calls whose directory another one removed (not in the code)

vars == <<dir, pc, polls, seen, judged, alive, lost>>

Sync == {"made", "stat", "read", "judge", "break", "retry", "unlink", "rmdir"}
Holding == {"made", "op", "unlink", "rmdir"}
Ended == {"done", "busy", "failed", "dead"}

TypeOK ==
    /\ dir \in Dir \cup {None}
    /\ pc \in [Caller -> {"out", "want", "op", "poll"} \cup Sync \cup Ended]
    /\ polls \in [Caller -> 0..PollLimit]
    /\ seen \in [Caller -> Process \cup {None}]
    /\ judged \in [Caller -> Caller \cup {None}]
    /\ alive \subseteq Process
    /\ lost \subseteq Caller

Init ==
    /\ dir = None
    /\ pc = [c \in Caller |-> "out"]
    /\ polls = [c \in Caller |-> 0]
    /\ seen = [c \in Caller |-> None]
    /\ judged = [c \in Caller |-> None]
    /\ alive = Process
    /\ lost = {}

\* c is at one of ats, and no other call of its process is between two
\* synchronous calls.
At(c, ats) ==
    /\ pc[c] \in ats
    /\ \A d \in Caller \ {c} : Of[d] = Of[c] => pc[d] \notin Sync
Goto(c, p) == pc' = [pc EXCEPT ![c] = p]

\* The directory is removed by c, or renamed away.
RemoveDir(c) ==
    /\ dir' = None
    /\ lost' = IF dir # None /\ dir.by # c /\ pc[dir.by] \in Holding
               THEN lost \cup {dir.by} ELSE lost

(***************************************************************************)
(* Taking the lock.                                                        *)
(***************************************************************************)
Start(c) ==
    /\ At(c, {"out"})
    /\ Goto(c, "want")
    /\ UNCHANGED <<dir, polls, seen, judged, alive, lost>>

\* Variant: the directory is made with `recursive', which does not fail when
\* it is there.
MkdirRecursive(c) ==
    /\ At(c, {"want", "retry"})
    /\ dir' = IF dir = None THEN [by |-> c, owner |-> None, old |-> FALSE]
                            ELSE dir
    /\ Goto(c, "made")
    /\ UNCHANGED <<polls, seen, judged, alive, lost>>

\* The directory is there by then, or was before, or the file system refuses it,
\* which goes to the caller.
Mkdir(c) ==
    /\ At(c, {"want", "retry"})
    /\ \/ /\ dir = None /\ Goto(c, "made")
          /\ dir' = [by |-> c, owner |-> None, old |-> FALSE]
       \/ dir # None /\ Goto(c, "stat") /\ UNCHANGED dir
       \/ Goto(c, "failed") /\ UNCHANGED dir
    /\ UNCHANGED <<polls, seen, judged, alive, lost>>

\* writeFileSync of the owner, into whatever directory is there; a failure is
\* ignored.
WriteOwner(c) ==
    /\ At(c, {"made"})
    /\ dir' \in {dir} \cup
           IF dir = None THEN {} ELSE {[dir EXCEPT !.owner = Of[c]]}
    /\ Goto(c, "op")
    /\ UNCHANGED <<polls, seen, judged, alive, lost>>

(***************************************************************************)
(* tryBreakStaleLock.                                                      *)
(***************************************************************************)
Stat(c) ==
    /\ At(c, {"stat"})
    /\ Goto(c, IF dir = None THEN "retry" ELSE IF dir.old THEN "read" ELSE "poll")
    /\ UNCHANGED <<dir, polls, seen, judged, alive, lost>>

ReadOwner(c) ==
    /\ At(c, {"read"})
    /\ seen' = [seen EXCEPT ![c] = IF dir = None THEN None ELSE dir.owner]
    /\ judged' = [judged EXCEPT ![c] = IF dir = None THEN None ELSE dir.by]
    /\ Goto(c, "judge")
    /\ UNCHANGED <<dir, polls, alive, lost>>

Breakable(c) == seen[c] = None \/ seen[c] \notin alive

\* Variant: age alone decides.
JudgeByAge(c) ==
    /\ At(c, {"judge"})
    /\ Goto(c, "break")
    /\ UNCHANGED <<dir, polls, seen, judged, alive, lost>>

\* kill(pid, 0), and the start time against a pid that was used again: a live
\* owner is left alone unless its start time says nothing and 60 s are over.
Judge(c) ==
    /\ At(c, {"judge"})
    /\ \/ Breakable(c) /\ Goto(c, "break")
       \/ ~Breakable(c) /\ Goto(c, "poll")
       \/ ~Breakable(c) /\ seen[c] \in Unverifiable /\ Goto(c, "break")
    /\ UNCHANGED <<dir, polls, seen, judged, alive, lost>>

\* breakLockSafely: rename, whatever is there; ENOENT is a success, another
\* error is not.
BreakLock(c) ==
    /\ At(c, {"break"})
    /\ \/ RemoveDir(c) /\ Goto(c, "retry")
       \/ Goto(c, "poll") /\ UNCHANGED <<dir, lost>>
    /\ seen' = [seen EXCEPT ![c] = None]
    /\ judged' = [judged EXCEPT ![c] = None]
    /\ UNCHANGED <<polls, alive>>

\* Variant: the deadline is never looked at.
PollForEver(c) ==
    /\ At(c, {"poll"})
    /\ Goto(c, "want")
    /\ UNCHANGED <<dir, polls, seen, judged, alive, lost>>

\* FileBusyError, or the delay.
Poll(c) ==
    /\ At(c, {"poll"})
    /\ IF polls[c] = PollLimit
       THEN Goto(c, "busy") /\ UNCHANGED polls
       ELSE Goto(c, "want") /\ polls' = [polls EXCEPT ![c] = @ + 1]
    /\ UNCHANGED <<dir, seen, judged, alive, lost>>

(***************************************************************************)
(* Giving it back: the `finally' of withFileLock.                          *)
(***************************************************************************)
\* A directory without an owner file is taken for ours.
CheckOwner(c) ==
    /\ At(c, {"op"})
    /\ Goto(c, IF dir # None /\ dir.owner \in {None, Of[c]} THEN "unlink"
                                                            ELSE "done")
    /\ UNCHANGED <<dir, polls, seen, judged, alive, lost>>

\* rmSync removes the owner file, then the directory; where it fails, the
\* directory stays, with or without the file.
UnlinkOwner(c) ==
    /\ At(c, {"unlink"})
    /\ \/ /\ dir' = IF dir = None THEN None ELSE [dir EXCEPT !.owner = None]
          /\ Goto(c, "rmdir")
       \/ Goto(c, "done") /\ UNCHANGED dir
    /\ UNCHANGED <<polls, seen, judged, alive, lost>>

Rmdir(c) ==
    /\ At(c, {"rmdir"})
    /\ RemoveDir(c) \/ UNCHANGED <<dir, lost>>
    /\ Goto(c, "done")
    /\ UNCHANGED <<polls, seen, judged, alive>>

(***************************************************************************)
(* The environment: a process dies anywhere, a directory gets old.         *)
(***************************************************************************)
Crash(p) ==
    /\ p \in alive
    /\ alive' = alive \ {p}
    /\ pc' = [c \in Caller |-> IF Of[c] = p /\ pc[c] \notin Ended THEN "dead"
                                                                ELSE pc[c]]
    /\ UNCHANGED <<dir, polls, seen, judged, lost>>

Age ==
    /\ dir # None
    /\ dir' = [dir EXCEPT !.old = TRUE]
    /\ UNCHANGED <<pc, polls, seen, judged, alive, lost>>

Step(c) ==
    \/ Mkdir(c) \/ WriteOwner(c)
    \/ Stat(c) \/ ReadOwner(c) \/ Judge(c) \/ BreakLock(c) \/ Poll(c)
    \/ CheckOwner(c) \/ UnlinkOwner(c) \/ Rmdir(c)

Next ==
    \/ \E c \in Caller : Start(c) \/ Step(c)
    \/ \E p \in Process : Crash(p)
    \/ Age

Spec == Init /\ [][Next]_vars

\* A call goes on while its process runs: the delays and `op' end.
FairSpec == Spec /\ \A c \in Caller : WF_vars(Step(c))

(***************************************************************************)
(* Properties.                                                             *)
(***************************************************************************)
\* A call that holds the lock and whose directory was not taken from it has
\* its own directory at the path; so two such calls never run `op' together.
MutualExclusion ==
    \A c \in Caller : pc[c] \in Holding /\ c \notin lost =>
        dir # None /\ dir.by = c

\* A call that holds the lock loses its directory only to one of two steps of
\* another: to a rename after a verdict that was not about this directory or
\* not about its owner file, or about an owner whose start time cannot be told;
\* or to the release of a call that was itself robbed before.  So the staleness
\* test alone never takes the lock from a process that lives.
LiveOwnerKeepsItsLock ==
    [][\A d \in lost' \ lost : \E c \in Caller \ {d} :
          \/ /\ pc[c] = "break" /\ pc'[c] # "break"
             /\ seen[c] # Of[d] \/ seen[c] \in Unverifiable \/ judged[c] # d
          \/ pc[c] = "rmdir" /\ pc'[c] # "rmdir" /\ c \in lost]_vars

\* A call ends: nobody waits for ever behind a lock, whoever died with it.
EveryCallEnds == \A c \in Caller : pc[c] = "want" ~> pc[c] \in Ended
=============================================================================
