------------------------- MODULE GlobalSidecarProofs ------------------------
(***************************************************************************)
(* The types of the global sidecar, for any number of callers and ports,   *)
(* and that the monitor spares the process it checks unless that process   *)
(* missed as many checks in a row as the threshold says, whatever starts   *)
(* and stops come between its steps.                                       *)
(***************************************************************************)
EXTENDS GlobalSidecar, TLAPS

Call == [pc: {"idle", "enter", "wait", "ended", "recheck"},
         port: Port \cup {None}, ok: BOOLEAN]

\* A field of one call is replaced by a value of its type.
LEMMA ReturnType ==
  ASSUME TypeOK, NEW c \in Caller, NEW ok \in BOOLEAN, Return(c, ok)
  PROVE  call' \in [Caller -> Call]
BY DEF TypeOK, Return, Quiet, Call

\* A step of a start.
LEMMA CallType ==
  ASSUME TypeOK, NEW c \in Caller, CallStep(c)
  PROVE  TypeOK'
<1>1. CASE EnterFinds(c) \/ EnterFails(c)
  <2>1. call' \in [Caller -> Call]
    BY <1>1, ReturnType DEF EnterFinds, EnterFails
  <2>2. QED BY <1>1, <2>1 DEF EnterFinds, EnterFails, TypeOK, Call
<1>2. CASE EnterSpawns(c)
  BY <1>2 DEF EnterSpawns, FreshPorts, TypeOK, Instance
<1>3. CASE Connects(c) \/ GivesUp(c)
  BY <1>3 DEF Connects, GivesUp, TypeOK
<1>4. CASE Succeeds(c)
  <2>1. call' \in [Caller -> Call] BY <1>4, ReturnType DEF Succeeds
  <2>2. inst' \in Instance \cup {None}
    BY <1>4 DEF Succeeds, Exists, TypeOK, Instance
  <2>3. QED BY <1>4, <2>1, <2>2 DEF Succeeds, TypeOK, Call
<1>5. CASE Fails(c)
  BY <1>5 DEF Fails, TypeOK
<1>6. QED BY <1>1, <1>2, <1>3, <1>4, <1>5 DEF CallStep

Mon == [pc: {"sleep", "probe", "mark", "await"}, port: Port \cup {None},
        misses: 0..Threshold, failed: 0..2]

\* A field of the monitor's state, or of an instance, is replaced by a value of
\* its type.
LEMMA MonField ==
  ASSUME NEW m \in Mon
  PROVE  /\ \A x \in {"sleep", "probe", "mark", "await"} : [m EXCEPT !.pc = x] \in Mon
         /\ \A x \in Port \cup {None} : [m EXCEPT !.port = x] \in Mon
         /\ \A x \in 0..Threshold : [m EXCEPT !.misses = x] \in Mon
         /\ \A x \in 0..2 : [m EXCEPT !.failed = x] \in Mon
BY DEF Mon

LEMMA Missed ==
  ASSUME NEW i \in Instance, NEW n \in Nat
  PROVE  [i EXCEPT !.missed = n] \in Instance
BY DEF Instance

\* A step of the monitor: both counters keep below their limits.
LEMMA MonitorType ==
  ASSUME TypeOK, MonitorStep
  PROVE  TypeOK'
<1>0. mon \in Mon /\ Threshold \in Nat \ {0}
  BY ThresholdAssumption DEF TypeOK, Mon
<1>m. /\ mon.misses \in 0..Threshold /\ mon.failed \in 0..2 /\ 0 \in 0..Threshold
      /\ Threshold \in 0..Threshold /\ 0 \in 0..2
  BY <1>0 DEF Mon
<1>1. CASE Check
  <2>1. CASE ~Exists \/ (inst.young /\ Alive)
    <3>1. mon' \in Mon BY <1>0, <1>m, <1>1, <2>1, MonField DEF Check
    <3>2. inst' \in Instance \cup {None}
      <4>1. inst' = IF Exists THEN [inst EXCEPT !.seen = TRUE] ELSE inst
        BY <1>1, <2>1 DEF Check
      <4>2. QED BY <4>1 DEF Exists, TypeOK, Instance
    <3>3. QED BY <1>1, <3>1, <3>2 DEF Check, TypeOK, Mon
  <2>2. CASE ~(~Exists \/ (inst.young /\ Alive))
    <3> DEFINE m1 == [mon EXCEPT !.pc = IF Alive THEN "probe" ELSE "mark"]
               m2 == [m1 EXCEPT !.port = inst.port]
    <3>1. inst.port \in Port \cup {None} BY <2>2 DEF Exists, TypeOK, Instance
    <3>2. m1 \in Mon BY <1>0, MonField
    <3>3. m2 \in Mon BY <3>1, <3>2, MonField
    <3>4. mon' = [m2 EXCEPT !.misses = IF Alive THEN mon.misses ELSE 0]
      BY <1>1, <2>2 DEF Check
    <3>5. mon' \in Mon BY <1>m, <3>3, <3>4, MonField
    <3>6. QED BY <1>1, <2>2, <3>5 DEF Check, TypeOK, Mon
  <2>3. QED BY <2>1, <2>2
<1>2. CASE ProbeAnswered
  <2> DEFINE m1 == [mon EXCEPT !.pc = "sleep"]
             m2 == [m1 EXCEPT !.misses = 0]
  <2>1. m1 \in Mon BY <1>0, MonField
  <2>2. m2 \in Mon BY <1>m, <2>1, MonField
  <2>3. mon' = [m2 EXCEPT !.failed = 0] BY <1>2 DEF ProbeAnswered
  <2>4. mon' \in Mon BY <1>m, <2>2, <2>3, MonField
  <2>5. inst' \in Instance \cup {None}
    BY <1>2, Missed DEF ProbeAnswered, IsAt, Exists, TypeOK
  <2>6. QED BY <1>2, <2>4, <2>5 DEF ProbeAnswered, TypeOK, Mon
<1>3. CASE ProbeMissed
  <2> DEFINE restart == mon.misses + 1 >= Threshold
             k == IF restart THEN Threshold ELSE mon.misses + 1
             m1 == [mon EXCEPT !.misses = k]
             m2 == [m1 EXCEPT !.pc = IF restart THEN "mark" ELSE "sleep"]
  <2>1. k \in 0..Threshold BY <1>0, <1>m
  <2>2. m1 \in Mon BY <1>0, <2>1, MonField
  <2>3. m2 \in Mon BY <2>2, MonField
  <2>4. mon' = [m2 EXCEPT !.failed = IF restart THEN mon.failed ELSE 0]
    BY <1>3 DEF ProbeMissed
  <2>5. mon' \in Mon BY <1>m, <2>3, <2>4, MonField
  <2>6. inst' \in Instance \cup {None}
    <3>1. CASE IsAt(mon.port)
      <4>1. inst \in Instance BY <3>1 DEF IsAt, Exists, TypeOK
      <4>2. (IF inst.missed < Threshold THEN inst.missed + 1 ELSE inst.missed) \in Nat
        BY <4>1 DEF Instance
      <4>3. QED BY <1>3, <3>1, <4>1, <4>2, Missed DEF ProbeMissed
    <3>2. CASE ~IsAt(mon.port) BY <1>3, <3>2 DEF ProbeMissed, TypeOK
    <3>3. QED BY <3>1, <3>2
  <2>7. QED BY <1>3, <2>5, <2>6 DEF ProbeMissed, TypeOK, Mon
<1>4. CASE MarkUnhealthy
  <2>1. mon' \in Mon BY <1>0, <1>4, MonField DEF MarkUnhealthy
  <2>2. inst' \in Instance \cup {None}
    BY <1>4 DEF MarkUnhealthy, Exists, TypeOK, Instance
  <2>3. call' \in [Caller -> Call]
    BY <1>4 DEF MarkUnhealthy, TypeOK, Caller, Call
  <2>4. QED BY <1>4, <2>1, <2>2, <2>3 DEF MarkUnhealthy, TypeOK, Mon, Call
<1>5. CASE Restarted
  <2> DEFINE ok == call[Monitor].ok
             m1 == [mon EXCEPT !.pc = "sleep"]
             m2 == [m1 EXCEPT !.misses = IF ok THEN 0 ELSE mon.misses]
             n == IF ok THEN 0 ELSE IF mon.failed < 2 THEN mon.failed + 1
                                                      ELSE mon.failed
  <2>1. m1 \in Mon BY <1>0, MonField
  <2>2. m2 \in Mon BY <1>m, <2>1, MonField
  <2>3. mon' = [m2 EXCEPT !.failed = n] BY <1>5 DEF Restarted
  <2>4. n \in 0..2 BY <1>m
  <2>5. mon' \in Mon BY <2>2, <2>3, <2>4, MonField
  <2>6. QED BY <1>5, <2>5 DEF Restarted, TypeOK, Mon
<1>6. QED BY <1>1, <1>2, <1>3, <1>4, <1>5 DEF MonitorStep

\* Clients, processes and the clock.
LEMMA RestType ==
  ASSUME TypeOK,
         (\E c \in Client : Start(c)) \/ Stop \/ Serves \/ Hangs \/ Exits \/ GraceEnds
  PROVE  TypeOK'
<1>1. CASE \E c \in Client : Start(c)
  BY <1>1 DEF Start, TypeOK, Caller
<1>2. CASE Stop
  BY <1>2 DEF Stop, TypeOK
<1>3. CASE Serves \/ Hangs \/ Exits
  BY <1>3 DEF Serves, Hangs, Exits, Alive, Exists, Becomes, TypeOK, Instance
<1>4. CASE GraceEnds
  BY <1>4 DEF GraceEnds, Exists, TypeOK, Instance
<1>5. QED BY <1>1, <1>2, <1>3, <1>4

LEMMA NextType == TypeOK /\ [Next]_vars => TypeOK'
<1> SUFFICES ASSUME TypeOK, [Next]_vars PROVE TypeOK'
  OBVIOUS
<1>1. CASE Next
  BY <1>1, CallType, MonitorType, RestType DEF Next
<1>2. CASE UNCHANGED vars
  BY <1>2 DEF TypeOK, vars
<1>3. QED BY <1>1, <1>2

LEMMA InitType == Init => TypeOK
BY ThresholdAssumption DEF Init, TypeOK, Quiet

\* The instance, the calls and the counters of the monitor keep their types,
\* whatever starts, stops and probes interleave: the misses never exceed the
\* threshold and the failed restarts never two.
THEOREM TypeCorrect == Spec => []TypeOK
BY InitType, NextType, PTL DEF Spec

-----------------------------------------------------------------------------
(***************************************************************************)
(* The misses that the monitor counts are misses of the process at the     *)
(* port that it checks.  The counter outlives a process that is replaced   *)
(* behind the monitor's back, and a restart that fails; only a check       *)
(* within the grace of the next process clears it.  A monitor that backs   *)
(* off may miss that grace, but then it has nothing counted: with a        *)
(* threshold of two or more, a miss below it clears the failures.          *)
(***************************************************************************)
\* Once its grace is over, or a check has seen it.
Known == Exists /\ (inst.seen \/ ~inst.young)

\* The monitor's own start is under way only while the monitor waits for it, and
\* when it has failed, no process that a check has seen is left.
OwnStart ==
    /\ mon.pc # "await" => call[Monitor].pc = "idle"
    /\ mon.pc = "await" /\ call[Monitor].pc = "idle" /\ ~call[Monitor].ok => ~Known

\* While a check is under way, a process other than the one that is checked has
\* only just come; the one that was given up has missed the checks.
Verdict ==
    /\ mon.pc = "probe" /\ Exists => (inst.port = mon.port <=> Known)
    /\ mon.pc = "probe" /\ Exists => ~(inst.port = mon.port /\ inst.young)
    /\ mon.pc = "mark" /\ Alive /\ IsAt(mon.port) => inst.missed >= Threshold
    /\ mon.pc = "await" /\ call[Monitor].pc = "enter" /\ Alive /\ IsAt(mon.port)
         => inst.missed >= Threshold

\* A threshold of one needs nothing of this: the one miss is of the process.
MissesAreItsOwn ==
    Threshold >= 2 =>
        /\ mon.pc \in {"sleep", "probe"} /\ Known => mon.misses <= inst.missed
        /\ mon.failed >= 2 => mon.misses = 0
        /\ mon.failed >= 1 /\ (mon.pc # "sleep" \/ Known) => mon.misses = 0

Counted == TypeOK /\ OwnStart /\ Verdict /\ MissesAreItsOwn

LEMMA InitCounted == Init => Counted
<1> SUFFICES ASSUME Init PROVE Counted
  OBVIOUS
<1>1. TypeOK
  BY InitType
<1>2. OwnStart /\ Verdict /\ MissesAreItsOwn
  BY CallerAssumption
     DEF Init, OwnStart, Verdict, MissesAreItsOwn, Quiet, Caller, Known, Exists
<1>3. QED
  BY <1>1, <1>2 DEF Counted

\* What a step of a start does to the call it is a step of.
LEMMA Returned ==
  ASSUME TypeOK, NEW c \in Caller, NEW ok \in BOOLEAN, Return(c, ok)
  PROVE  /\ call'[c].pc = "idle" /\ call'[c].ok = ok
         /\ \A d \in Caller : d # c => call'[d] = call[d]
BY DEF TypeOK, Return, Quiet

\* A start leaves the monitor's record and the other calls alone.
LEMMA CallFrame ==
  ASSUME TypeOK, NEW c \in Caller, CallStep(c)
  PROVE  /\ mon' = mon /\ call[c].pc # "idle" /\ call'[c].pc # "enter"
         /\ \A d \in Caller : d # c => call'[d] = call[d]
<1>1. CASE EnterFinds(c) \/ EnterFails(c) \/ Succeeds(c)
  BY <1>1, Returned DEF EnterFinds, EnterFails, Succeeds
<1>2. CASE EnterSpawns(c) \/ Connects(c) \/ GivesUp(c) \/ Fails(c)
  BY <1>2 DEF EnterSpawns, Connects, GivesUp, Fails, TypeOK
<1>3. QED
  BY <1>1, <1>2 DEF CallStep

\* What a start may do to the instance: take it away, put one that is new in its
\* place, at a port that is neither the monitor's nor anybody's, or leave its
\* process as it is, in which case the call has not failed.
LEMMA CallMoves ==
  ASSUME TypeOK, NEW c \in Caller, CallStep(c)
  PROVE  \/ ~Exists'
         \/ /\ Exists' /\ inst'.young /\ ~inst'.seen /\ inst'.port # mon.port
            /\ call'[c].pc = "wait"
         \/ /\ Exists' /\ Exists
            /\ inst'.young = inst.young /\ inst'.seen = inst.seen
            /\ inst'.missed = inst.missed /\ inst'.port = inst.port
            /\ inst'.proc = inst.proc
            /\ call'[c].pc = "idle" => call'[c].ok
<1>1. CASE EnterFinds(c) \/ EnterFails(c)
  BY <1>1, Returned DEF EnterFinds, EnterFails, Exists
<1>2. CASE EnterSpawns(c)
  <2>1. PICK p \in FreshPorts :
          /\ inst' = [port |-> p, healthy |-> FALSE, proc |-> "booting",
                      young |-> TRUE, seen |-> FALSE, missed |-> 0]
          /\ call' = [call EXCEPT ![c] = [pc |-> "wait", port |-> p, ok |-> FALSE]]
    BY <1>2 DEF EnterSpawns
  <2>2. inst'.port # mon.port /\ inst'.young /\ ~inst'.seen
    BY <2>1 DEF FreshPorts
  <2>3. call'[c].pc = "wait"
    BY <2>1 DEF TypeOK
  <2>4. QED
    BY <2>2, <2>3
<1>3. CASE Connects(c) \/ GivesUp(c)
  BY <1>3 DEF Connects, GivesUp, TypeOK, Exists
<1>4. CASE Succeeds(c)
  <2>1. call'[c].pc = "idle" /\ call'[c].ok
    BY <1>4, Returned DEF Succeeds
  <2>2. CASE ~Exists
    BY <1>4, <2>2 DEF Succeeds, Exists
  <2>3. CASE Exists
    <3>1. inst \in Instance /\ inst' = [inst EXCEPT !.healthy = TRUE]
      BY <1>4, <2>3 DEF Succeeds, Exists, TypeOK
    <3>2. /\ inst'.young = inst.young /\ inst'.seen = inst.seen
          /\ inst'.missed = inst.missed /\ inst'.port = inst.port
          /\ inst'.proc = inst.proc
      BY <3>1 DEF Instance
    <3>3. QED
      BY <2>1, <2>3, <3>2
  <2>4. QED
    BY <2>2, <2>3
<1>5. CASE Fails(c)
  BY <1>5 DEF Fails, TypeOK, Exists
<1>6. QED
  BY <1>1, <1>2, <1>3, <1>4, <1>5 DEF CallStep

LEMMA CallKeeps ==
  ASSUME Counted, NEW c \in Caller, CallStep(c)
  PROVE  OwnStart' /\ Verdict' /\ MissesAreItsOwn'
<1>0. TypeOK /\ Monitor \in Caller
  BY DEF Counted, Caller
<1>1. /\ mon' = mon /\ call[c].pc # "idle" /\ call'[c].pc # "enter"
      /\ \A d \in Caller : d # c => call'[d] = call[d]
  BY <1>0, CallFrame
<1>2. c = Monitor => mon.pc = "await"
  BY <1>1 DEF Counted, OwnStart
<1>3. CASE ~Exists'
  <2>1. ~Alive' /\ ~Known'
    BY <1>3 DEF Alive, Known, Exists
  <2>2. OwnStart' /\ Verdict'
    BY <1>0, <1>1, <1>2, <1>3, <2>1 DEF Counted, OwnStart, Verdict
  <2>3. MissesAreItsOwn'
    BY <1>1, <2>1 DEF Counted, MissesAreItsOwn
  <2>4. QED
    BY <2>2, <2>3
<1>4. CASE /\ Exists' /\ inst'.young /\ ~inst'.seen /\ inst'.port # mon.port
           /\ call'[c].pc = "wait"
  <2>1. ~Known' /\ ~IsAt(mon.port)'
    BY <1>1, <1>4 DEF Known, IsAt
  <2>2. OwnStart' /\ Verdict'
    BY <1>0, <1>1, <1>2, <1>4, <2>1 DEF Counted, OwnStart, Verdict
  <2>3. MissesAreItsOwn'
    BY <1>1, <2>1 DEF Counted, MissesAreItsOwn
  <2>4. QED
    BY <2>2, <2>3
<1>5. CASE /\ Exists' /\ Exists
           /\ inst'.young = inst.young /\ inst'.seen = inst.seen
           /\ inst'.missed = inst.missed /\ inst'.port = inst.port
           /\ inst'.proc = inst.proc
           /\ call'[c].pc = "idle" => call'[c].ok
  <2>1. Known' = Known /\ Alive' = Alive /\ IsAt(mon.port)' = IsAt(mon.port)
    BY <1>1, <1>5 DEF Known, Alive, IsAt
  <2>2. OwnStart'
    BY <1>0, <1>1, <1>2, <1>5, <2>1 DEF Counted, OwnStart
  <2>3. Verdict'
    BY <1>0, <1>1, <1>2, <1>5, <2>1 DEF Counted, Verdict
  <2>4. MissesAreItsOwn'
    BY <1>1, <1>5, <2>1 DEF Counted, MissesAreItsOwn
  <2>5. QED
    BY <2>2, <2>3, <2>4
<1>6. QED
  BY <1>0, <1>3, <1>4, <1>5, CallMoves

\* The steps of the clients, of the process and of the clock.
LEMMA RestKeeps ==
  ASSUME Counted,
         (\E c \in Client : Start(c)) \/ Stop \/ Serves \/ Hangs \/ Exits \/ GraceEnds
  PROVE  OwnStart' /\ Verdict' /\ MissesAreItsOwn'
<1>0. TypeOK /\ mon' = mon
  BY DEF Counted, Start, Stop, Serves, Hangs, Exits, GraceEnds, Becomes
<1>1. CASE \E c \in Client : Start(c)
  <2>1. PICK c \in Client : Start(c)
    BY <1>1
  <2>2. inst' = inst /\ call'[Monitor] = call[Monitor]
    BY <1>0, <2>1, CallerAssumption DEF Start, TypeOK, Caller
  <2>3. QED
    BY <1>0, <2>2
       DEF Counted, OwnStart, Verdict, MissesAreItsOwn, Known, Exists, Alive, IsAt
<1>2. CASE Stop
  <2>1. call' = call /\ ~Exists' /\ ~Known' /\ ~Alive'
    BY <1>2 DEF Stop, Exists, Known, Alive
  <2>2. QED
    BY <1>0, <2>1 DEF Counted, OwnStart, Verdict, MissesAreItsOwn
<1>3. CASE Serves \/ Hangs \/ Exits
  <2>1. /\ Exists /\ inst.proc # "exited" /\ call' = call
        /\ \E p \in {"serving", "hung", "exited"} : inst' = [inst EXCEPT !.proc = p]
    BY <1>3 DEF Serves, Hangs, Exits, Alive, Becomes
  <2>2. inst \in Instance
    BY <1>0, <2>1 DEF TypeOK, Exists
  <2>3. /\ inst'.young = inst.young /\ inst'.seen = inst.seen
        /\ inst'.missed = inst.missed /\ inst'.port = inst.port
    BY <2>1, <2>2 DEF Instance
  <2>4. Exists' => Known' = Known
    BY <2>1, <2>3 DEF Known
  <2>5. OwnStart' /\ MissesAreItsOwn'
    BY <1>0, <2>1, <2>3, <2>4 DEF Counted, OwnStart, MissesAreItsOwn, Known
  <2>6. Verdict'
    BY <1>0, <2>1, <2>3, <2>4 DEF Counted, Verdict, Alive, IsAt
  <2>7. QED
    BY <2>5, <2>6
<1>4. CASE GraceEnds
  <2>1. /\ Exists /\ inst.young /\ inst' = [inst EXCEPT !.young = FALSE] /\ call' = call
        /\ \/ inst.seen
           \/ mon.pc = "sleep" /\ mon.failed >= 2
           \/ mon.pc = "await" /\ call[Monitor].pc # "idle"
    BY <1>4 DEF GraceEnds
  <2>2. inst \in Instance
    BY <1>0, <2>1 DEF TypeOK, Exists
  <2>3. /\ ~inst'.young /\ inst'.seen = inst.seen /\ inst'.proc = inst.proc
        /\ inst'.missed = inst.missed /\ inst'.port = inst.port
        /\ inst.missed \in Nat
    BY <2>1, <2>2 DEF Instance
  <2>4. mon.pc = "probe" => Known /\ ~(inst.port = mon.port /\ inst.young)
    BY <2>1 DEF Counted, Verdict, Known
  <2>5. mon.pc # "probe"
    BY <2>1, <2>4 DEF Counted, Verdict
  <2>6. OwnStart'
    <3>1. mon.pc = "await" /\ call[Monitor].pc = "idle" /\ ~call[Monitor].ok => ~Known
      BY DEF Counted, OwnStart
    <3>2. mon.pc = "await" /\ call[Monitor].pc = "idle" /\ ~call[Monitor].ok => FALSE
      BY <2>1, <3>1 DEF Known
    <3>3. QED
      BY <1>0, <2>1, <3>2 DEF Counted, OwnStart
  <2>7. Verdict'
    BY <1>0, <2>1, <2>3, <2>5 DEF Counted, Verdict, Exists, Alive, IsAt
  <2>8. MissesAreItsOwn'
    BY <1>0, <2>1, <2>3, <2>5 DEF Counted, MissesAreItsOwn, Known, Exists, TypeOK
  <2>9. QED
    BY <2>6, <2>7, <2>8
<1>5. QED
  BY <1>1, <1>2, <1>3, <1>4

\* The steps of the monitor.
LEMMA MonitorKeeps ==
  ASSUME Counted, MonitorStep
  PROVE  OwnStart' /\ Verdict' /\ MissesAreItsOwn'
<1>0. TypeOK /\ Threshold \in Nat \ {0} /\ Monitor \in Caller
  BY ThresholdAssumption DEF Counted, Caller
<1>1. Exists => inst \in Instance /\ inst.missed \in Nat
  BY <1>0 DEF Exists, TypeOK, Instance
<1>2. mon.misses \in 0..Threshold /\ mon.failed \in 0..2
  BY <1>0 DEF TypeOK
<1>3. CASE Check
  <2>1. mon.pc = "sleep" /\ call' = call /\ call[Monitor].pc = "idle"
    BY <1>3 DEF Check, Counted, OwnStart
  <2>3. CASE ~Exists \/ (inst.young /\ Alive)
    <3>1. mon' = [mon EXCEPT !.misses = 0]
          /\ inst' = IF Exists THEN [inst EXCEPT !.seen = TRUE] ELSE inst
      BY <1>3, <2>3 DEF Check
    <3>2. mon'.pc = "sleep" /\ mon'.misses = 0
      BY <1>0, <2>1, <3>1 DEF TypeOK
    <3>3. Exists' => inst'.missed \in Nat
      BY <1>1, <3>1 DEF Exists, Instance
    <3>4. OwnStart' /\ Verdict' /\ MissesAreItsOwn'
      BY <2>1, <3>2, <3>3 DEF OwnStart, Verdict, MissesAreItsOwn, Known
    <3>5. QED
      BY <3>4
  <2>4. CASE Exists /\ ~(inst.young /\ Alive)
    <3>1. /\ inst' = inst
          /\ mon' = [mon EXCEPT !.pc = IF Alive THEN "probe" ELSE "mark",
                                !.port = inst.port,
                                !.misses = IF Alive THEN @ ELSE 0]
      BY <1>3, <2>4 DEF Check
    <3>2. /\ mon'.pc = IF Alive THEN "probe" ELSE "mark"
          /\ mon'.port = inst.port /\ mon'.failed = mon.failed
          /\ mon'.misses = IF Alive THEN mon.misses ELSE 0
      BY <1>0, <3>1 DEF TypeOK
    <3>3. OwnStart' /\ Verdict'
      BY <2>1, <2>4, <3>1, <3>2 DEF OwnStart, Verdict, Exists, Alive, Known
    <3>4. MissesAreItsOwn'
      BY <1>1, <1>2, <2>1, <2>4, <3>1, <3>2 DEF Counted, MissesAreItsOwn, Known, Exists, Alive
    <3>5. QED
      BY <3>3, <3>4
  <2>5. QED
    BY <2>3, <2>4
<1>4. CASE ProbeAnswered
  <2>1. /\ mon.pc = "probe" /\ call' = call /\ Exists
        /\ mon' = [mon EXCEPT !.pc = "sleep", !.misses = 0, !.failed = 0]
        /\ inst' = [inst EXCEPT !.missed = 0]
    BY <1>4 DEF ProbeAnswered, IsAt
  <2>2. mon'.pc = "sleep" /\ mon'.misses = 0 /\ mon'.failed = 0 /\ inst'.missed = 0
    BY <1>0, <1>1, <2>1 DEF TypeOK, Instance
  <2>3. QED
    BY <2>1, <2>2 DEF Counted, OwnStart, Verdict, MissesAreItsOwn
<1>5. CASE ProbeMissed
  <2> DEFINE restart == mon.misses + 1 >= Threshold
  <2>1. /\ mon.pc = "probe" /\ call' = call
        /\ mon' = [mon EXCEPT !.misses = IF restart THEN Threshold ELSE @ + 1,
                              !.pc = IF restart THEN "mark" ELSE "sleep",
                              !.failed = IF restart THEN @ ELSE 0]
        /\ inst' = IF IsAt(mon.port)
                   THEN [inst EXCEPT !.missed = IF @ < Threshold THEN @ + 1 ELSE @]
                   ELSE inst
    BY <1>5 DEF ProbeMissed
  <2>2. /\ mon'.misses = IF restart THEN Threshold ELSE mon.misses + 1
        /\ mon'.pc = IF restart THEN "mark" ELSE "sleep"
        /\ mon'.failed = IF restart THEN mon.failed ELSE 0
        /\ mon'.port = mon.port
    BY <1>0, <2>1 DEF TypeOK
  <2>3. OwnStart'
    BY <2>1, <2>2 DEF Counted, OwnStart
  <2>4. Threshold >= 2 /\ restart => mon.failed = 0
    BY <1>0, <1>2, <2>1 DEF Counted, MissesAreItsOwn
  <2>5. CASE ~IsAt(mon.port)
    <3>1. inst' = inst /\ ~IsAt(mon.port)'
      BY <2>1, <2>2, <2>5 DEF IsAt, Exists
    <3>2. ~Known'
      BY <2>1, <2>5, <3>1 DEF Counted, Verdict, IsAt, Known, Exists
    <3>3. Verdict'
      BY <2>2, <3>1 DEF Verdict
    <3>4. MissesAreItsOwn'
      BY <1>0, <1>2, <2>2, <2>4, <3>2 DEF MissesAreItsOwn
    <3>5. QED
      BY <2>3, <3>3, <3>4
  <2>6. CASE IsAt(mon.port)
    <3>1. Exists /\ Known
      BY <2>1, <2>6 DEF Counted, Verdict, IsAt
    <3>2. inst'.missed = IF inst.missed < Threshold THEN inst.missed + 1 ELSE inst.missed
      BY <1>1, <2>1, <2>6, <3>1 DEF Instance
    <3>3. Threshold >= 2 => mon.misses <= inst.missed
      BY <2>1, <3>1 DEF Counted, MissesAreItsOwn
    <3>4. restart => inst'.missed >= Threshold
      BY <1>0, <1>1, <1>2, <3>1, <3>2, <3>3
    <3>5. Verdict'
      BY <2>2, <3>4 DEF Verdict
    <3>6. Threshold >= 2 /\ ~restart => mon'.misses <= inst'.missed
      BY <1>0, <1>1, <1>2, <2>2, <3>1, <3>2, <3>3
    <3>7. MissesAreItsOwn'
      BY <2>2, <2>4, <3>6 DEF MissesAreItsOwn
    <3>8. QED
      BY <2>3, <3>5, <3>7
  <2>7. QED
    BY <2>5, <2>6
<1>6. CASE MarkUnhealthy
  <2>1. /\ mon.pc = "mark"
        /\ inst' = IF Exists THEN [inst EXCEPT !.healthy = FALSE] ELSE inst
        /\ call' = [call EXCEPT ![Monitor].pc = "enter"]
        /\ mon' = [mon EXCEPT !.pc = "await"]
    BY <1>6 DEF MarkUnhealthy
  <2>2. /\ mon'.pc = "await" /\ mon'.misses = mon.misses /\ mon'.failed = mon.failed
        /\ mon'.port = mon.port
    BY <1>0, <2>1 DEF TypeOK
  <2>3. call'[Monitor].pc = "enter"
    BY <1>0, <2>1 DEF TypeOK
  <2>4. Exists => /\ inst'.missed = inst.missed /\ inst'.proc = inst.proc
                  /\ inst'.port = inst.port
    BY <1>1, <2>1 DEF Instance
  <2>5. Exists' => Exists
    BY <2>1 DEF Exists
  <2>6. OwnStart'
    BY <2>2, <2>3 DEF OwnStart
  <2>7. Verdict'
    BY <2>1, <2>2, <2>3, <2>4, <2>5 DEF Counted, Verdict, Alive, IsAt
  <2>8. MissesAreItsOwn'
    BY <2>1, <2>2 DEF Counted, MissesAreItsOwn
  <2>9. QED
    BY <2>6, <2>7, <2>8
<1>7. CASE Restarted
  <2>1. /\ mon.pc = "await" /\ call[Monitor].pc = "idle" /\ inst' = inst /\ call' = call
        /\ mon' = [mon EXCEPT
              !.pc = "sleep",
              !.misses = IF call[Monitor].ok THEN 0 ELSE @,
              !.failed = IF call[Monitor].ok THEN 0 ELSE IF @ < 2 THEN @ + 1 ELSE @]
    BY <1>7 DEF Restarted
  <2>2. /\ mon'.pc = "sleep"
        /\ mon'.misses = IF call[Monitor].ok THEN 0 ELSE mon.misses
        /\ mon'.failed = IF call[Monitor].ok THEN 0
                         ELSE IF mon.failed < 2 THEN mon.failed + 1 ELSE mon.failed
    BY <1>0, <2>1 DEF TypeOK
  <2>3. OwnStart' /\ Verdict'
    BY <2>1, <2>2 DEF OwnStart, Verdict
  <2>4. CASE call[Monitor].ok
    <3>1. mon'.misses = 0 /\ mon'.failed = 0
      BY <2>2, <2>4
    <3>2. Known' => inst'.missed \in Nat
      BY <1>1, <2>1 DEF Known, Exists
    <3>3. QED
      BY <2>2, <2>3, <3>1, <3>2 DEF MissesAreItsOwn
  <2>5. CASE ~call[Monitor].ok
    <3>1. ~Known'
      BY <2>1, <2>5 DEF Counted, OwnStart, Known, Exists
    <3>2. Threshold >= 2 /\ mon'.failed >= 2 => mon'.misses = 0
      BY <1>2, <2>1, <2>2, <2>5 DEF Counted, MissesAreItsOwn
    <3>3. QED
      BY <2>2, <2>3, <3>1, <3>2 DEF MissesAreItsOwn
  <2>6. QED
    BY <2>4, <2>5
<1>8. QED
  BY <1>3, <1>4, <1>5, <1>6, <1>7 DEF MonitorStep

LEMMA NextKeepsCounted == Counted /\ [Next]_vars => Counted'
<1> SUFFICES ASSUME Counted, [Next]_vars PROVE Counted'
  OBVIOUS
<1>1. TypeOK'
  BY NextType DEF Counted
<1>2. OwnStart' /\ Verdict' /\ MissesAreItsOwn'
  <2>1. CASE Next
    BY <2>1, CallKeeps, RestKeeps, MonitorKeeps DEF Next
  <2>2. CASE UNCHANGED vars
    BY <2>2 DEF vars, Counted, OwnStart, Verdict, MissesAreItsOwn, Known, Exists, Alive, IsAt
  <2>3. QED
    BY <2>1, <2>2
<1>3. QED
  BY <1>1, <1>2 DEF Counted

\* Whatever is started and stopped between the steps of the monitor, the misses it
\* has counted against the process it checks are that process's own: the counter is
\* reset, or the grace of the next process intervenes, wherever the process changes.
THEOREM MissesAreCounted == Spec => []Counted
BY InitCounted, NextKeepsCounted, PTL DEF Spec

\* Under every interleaving of starts, stops and the monitor's cycle, the monitor
\* takes the life of the process that it checked only after
\* GLOBAL_HEALTH_FAIL_THRESHOLD consecutive checks which that very process missed.
THEOREM BlipsAreSpared == Spec => BlipIsSpared
<1>1. ASSUME Counted, [Next]_vars
      PROVE  [(Alive /\ call[Monitor].pc = "enter" /\ call'[Monitor].pc # "enter"
                /\ (inst' = None \/ inst'.port # inst.port))
                => inst.missed >= Threshold \/ inst.port # mon.port]_vars
  <2>1. call[Monitor].pc = "enter" => mon.pc = "await"
    BY <1>1 DEF Counted, OwnStart
  <2>2. QED
    BY <1>1, <2>1 DEF Counted, Verdict, Alive, IsAt
<1>2. QED
  BY <1>1, MissesAreCounted, PTL DEF Spec, BlipIsSpared
=============================================================================
