-------------------------- MODULE TurnQueueProofs --------------------------
(***************************************************************************)
(* Proofs about TurnQueue, for any messages, sizes of the queues, clients  *)
(* and numbers of stops, cancellations, crashes and restarts.              *)
(*                                                                         *)
(* A handler is a function of the host's record, and the argument follows  *)
(* the functions it is made of.  Good says of a record that its queues and *)
(* generators hold every message once.  A Quiet function leaves them alone;*)
(* one that Moves messages leaves a Good record in which nothing waits that*)
(* did not wait before, apart from the messages named in S, and in which   *)
(* nobody was told of a cancellation.  Both compose, so that each action   *)
(* is its functions one after the other.  What they leave then keeps what  *)
(* relates the host to the subprocess: what the SDK was given, and whose   *)
(* cancellation was confirmed, does not wait (StepKeeps).                  *)
(***************************************************************************)
EXTENDS TurnQueue, SequenceTheorems, TLAPS

(***************************************************************************)
(* Sequences in which an element occurs once.                              *)
(***************************************************************************)
LEMMA RangeIn ==
    ASSUME NEW S, NEW s \in Seq(S)
    PROVE  Range(s) \subseteq S /\ \A x : Contains(s, x) <=> x \in Range(s)
  BY DEF Range, Contains

\* An element, by its position.
LEMMA RangeAt ==
    ASSUME NEW S, NEW s \in Seq(S)
    PROVE  /\ DOMAIN s = 1..Len(s) /\ Len(s) \in Nat
           /\ \A x : x \in Range(s) <=> \E i \in 1..Len(s) : s[i] = x
  BY DEF Range

LEMMA Widened ==
    ASSUME NEW S, NEW T, S \subseteq T, NEW s \in Seq(S)
    PROVE  s \in Seq(T)
  OBVIOUS

LEMMA Emptied ==
    ASSUME NEW S
    PROVE  <<>> \in Seq(S) /\ Range(<<>>) = {} /\ IsInjective(<<>>)
  BY DEF Range, IsInjective

LEMMA Single ==
    ASSUME NEW S, NEW x \in S
    PROVE  <<x>> \in Seq(S) /\ Range(<<x>>) = {x} /\ IsInjective(<<x>>)
  BY DEF Range, IsInjective

LEMMA Appended ==
    ASSUME NEW S, NEW s \in Seq(S), NEW x \in S
    PROVE  /\ Append(s, x) \in Seq(S)
           /\ Range(Append(s, x)) = Range(s) \cup {x}
           /\ IsInjective(s) /\ x \notin Range(s) => IsInjective(Append(s, x))
<1>1. Append(s, x) \in Seq(S) /\ Len(Append(s, x)) = Len(s) + 1
      /\ Append(s, x)[Len(s) + 1] = x
      /\ \A i \in 1..Len(s) : Append(s, x)[i] = s[i]
  OBVIOUS
<1>2. Range(Append(s, x)) = Range(s) \cup {x}
  BY <1>1 DEF Range
<1>3. IsInjective(s) /\ x \notin Range(s) => IsInjective(Append(s, x))
  BY <1>1 DEF IsInjective, Range
<1>4. QED
  BY <1>1, <1>2, <1>3

LEMMA Shortened ==
    ASSUME NEW S, NEW s \in Seq(S), s # <<>>
    PROVE  /\ Head(s) \in Range(s) /\ Tail(s) \in Seq(S)
           /\ IsInjective(s) => /\ IsInjective(Tail(s))
                                /\ Range(Tail(s)) = Range(s) \ {Head(s)}
<1>1. /\ Tail(s) \in Seq(S) /\ Len(Tail(s)) = Len(s) - 1 /\ Len(s) \in Nat \ {0}
      /\ Head(s) = s[1]
      /\ \A i \in 1..Len(s) - 1 : Tail(s)[i] = s[i + 1]
  OBVIOUS
<1>2. Head(s) \in Range(s)
  BY <1>1 DEF Range
<1>3. ASSUME IsInjective(s) PROVE IsInjective(Tail(s))
  BY <1>1, <1>3 DEF IsInjective
<1>4. ASSUME IsInjective(s) PROVE Range(Tail(s)) = Range(s) \ {Head(s)}
  <2>1. ASSUME NEW i \in 1..Len(s) - 1 PROVE Tail(s)[i] \in Range(s) \ {Head(s)}
    BY <1>1, <1>4 DEF IsInjective, Range
  <2>2. ASSUME NEW i \in 1..Len(s), s[i] # Head(s) PROVE s[i] \in Range(Tail(s))
    <3>1. i - 1 \in 1..Len(s) - 1 /\ Tail(s)[i - 1] = s[i]
      BY <1>1, <2>2
    <3>2. QED
      BY <1>1, <3>1, RangeAt
  <2>3. \A x \in Range(Tail(s)) : x \in Range(s) \ {Head(s)}
    <3> DEFINE t == Tail(s)
    <3>1. \A x \in Range(t) : \E i \in 1..Len(s) - 1 : t[i] = x
      <4>1. t \in Seq(S) /\ Len(t) = Len(s) - 1
        BY <1>1
      <4> HIDE DEF t
      <4>2. QED
        BY <4>1, RangeAt
    <3>2. QED
      BY <2>1, <3>1
  <2>4. \A x \in Range(s) \ {Head(s)} : x \in Range(Tail(s))
    BY <2>2, RangeAt
  <2>5. QED
    BY <2>3, <2>4
<1>5. QED
  BY <1>1, <1>2, <1>3, <1>4

LEMMA Joined ==
    ASSUME NEW S, NEW s \in Seq(S), NEW t \in Seq(S)
    PROVE  /\ s \o t \in Seq(S) /\ Range(s \o t) = Range(s) \cup Range(t)
           /\ IsInjective(s) /\ IsInjective(t) /\ Range(s) \cap Range(t) = {}
                => IsInjective(s \o t)
<1>1. /\ s \o t \in Seq(S) /\ Len(s \o t) = Len(s) + Len(t)
      /\ \A i \in 1..Len(s) + Len(t) :
            (s \o t)[i] = IF i <= Len(s) THEN s[i] ELSE t[i - Len(s)]
  OBVIOUS
<1>2. ASSUME NEW i \in 1..Len(t)
      PROVE  Len(s) + i \in 1..Len(s) + Len(t) /\ (s \o t)[Len(s) + i] = t[i]
  BY <1>1
<1>3. Range(s \o t) = Range(s) \cup Range(t)
  <2>0. /\ \A x : x \in Range(s) <=> \E i \in 1..Len(s) : s[i] = x
        /\ \A x : x \in Range(t) <=> \E i \in 1..Len(t) : t[i] = x
        /\ \A x : x \in Range(s \o t) <=>
                     \E i \in 1..Len(s) + Len(t) : (s \o t)[i] = x
        /\ Len(s) \in Nat /\ Len(t) \in Nat
    BY <1>1, RangeAt
  <2>1. Range(s) \subseteq Range(s \o t)
    <3>1. \A i \in 1..Len(s) : i \in 1..Len(s) + Len(t) /\ (s \o t)[i] = s[i]
      BY <1>1
    <3>2. QED
      BY <2>0, <3>1
  <2>2. Range(t) \subseteq Range(s \o t)
    BY <2>0, <1>2
  <2>3. Range(s \o t) \subseteq Range(s) \cup Range(t)
    <3> SUFFICES ASSUME NEW i \in 1..Len(s) + Len(t)
                 PROVE  (s \o t)[i] \in Range(s) \cup Range(t)
      BY <2>0
    <3>1. CASE i <= Len(s)
      BY <1>1, <2>0, <3>1
    <3>2. CASE i > Len(s)
      <4>1. i - Len(s) \in 1..Len(t) /\ (s \o t)[i] = t[i - Len(s)]
        BY <1>1, <2>0, <3>2
      <4>2. QED
        BY <2>0, <4>1
    <3>3. QED
      BY <2>0, <3>1, <3>2
  <2>4. QED
    BY <2>1, <2>2, <2>3
<1>4. ASSUME IsInjective(s), IsInjective(t), Range(s) \cap Range(t) = {}
      PROVE  IsInjective(s \o t)
  <2> SUFFICES ASSUME NEW a \in 1..Len(s) + Len(t), NEW b \in 1..Len(s) + Len(t),
                      (s \o t)[a] = (s \o t)[b]
               PROVE  a = b
    BY <1>1 DEF IsInjective
  <2>0. /\ Len(s) \in Nat /\ Len(t) \in Nat
        /\ \A i \in 1..Len(s) + Len(t) :
              \/ i <= Len(s) /\ (s \o t)[i] = s[i] /\ s[i] \in Range(s)
              \/ /\ i > Len(s) /\ i - Len(s) \in 1..Len(t)
                 /\ (s \o t)[i] = t[i - Len(s)] /\ t[i - Len(s)] \in Range(t)
    BY <1>1, RangeAt
  <2>1. CASE a <= Len(s) /\ b <= Len(s)
    BY <2>0, <1>4, <2>1, RangeAt DEF IsInjective
  <2>2. CASE a > Len(s) /\ b > Len(s)
    <3>1. a - Len(s) = b - Len(s)
      BY <2>0, <1>4, <2>2, RangeAt DEF IsInjective
    <3>2. QED
      BY <2>0, <3>1
  <2>3. CASE ~(a <= Len(s) <=> b <= Len(s))
    BY <2>0, <1>4, <2>3
  <2>4. QED
    BY <2>0, <2>1, <2>2, <2>3
<1>5. QED
  BY <1>1, <1>3, <1>4

\* The sequence without its k-th element.
LEMMA RemovedAt ==
    ASSUME NEW S, NEW s \in Seq(S), NEW k \in 1..Len(s)
    PROVE  /\ RemoveAt(s, k) \in Seq(S) /\ Len(RemoveAt(s, k)) = Len(s) - 1
           /\ \A i \in 1..Len(s) - 1 : RemoveAt(s, k)[i] = IF i < k THEN s[i] ELSE s[i + 1]
<1> DEFINE l == SubSeq(s, 1, k - 1)
           r == SubSeq(s, k + 1, Len(s))
<1>1. /\ l \in Seq(S) /\ Len(l) = k - 1
      /\ \A i \in 1..k - 1 : l[i] = s[i]
  OBVIOUS
<1>2. /\ r \in Seq(S) /\ Len(r) = Len(s) - k
      /\ \A i \in 1..Len(s) - k : r[i] = s[k + i]
  OBVIOUS
<1>3. /\ l \o r \in Seq(S) /\ Len(l \o r) = Len(l) + Len(r)
      /\ \A i \in 1..Len(l) + Len(r) :
            (l \o r)[i] = IF i <= Len(l) THEN l[i] ELSE r[i - Len(l)]
  <2> HIDE DEF l, r
  <2>1. QED
    BY <1>1, <1>2, ConcatProperties
<1>4. RemoveAt(s, k) = l \o r
  BY DEF RemoveAt
<1> HIDE DEF l, r
<1>5. Len(l) + Len(r) = Len(s) - 1
  BY <1>1, <1>2
<1>6. ASSUME NEW i \in 1..Len(s) - 1
      PROVE  (l \o r)[i] = IF i < k THEN s[i] ELSE s[i + 1]
  <2>1. CASE i < k
    BY <1>1, <1>3, <1>5, <2>1
  <2>2. CASE ~(i < k)
    <3>1. (l \o r)[i] = r[i - (k - 1)]
      BY <1>1, <1>3, <1>5, <2>2
    <3>2. i - (k - 1) \in 1..Len(s) - k /\ k + (i - (k - 1)) = i + 1
      BY <2>2
    <3>3. QED
      BY <1>2, <2>2, <3>1, <3>2
  <2>3. QED
    BY <2>1, <2>2
<1>7. QED
  BY <1>3, <1>4, <1>5, <1>6

\* An element that is removed is gone, and the others still are there.
LEMMA Removed ==
    ASSUME NEW S, NEW s \in Seq(S), IsInjective(s), NEW m
    PROVE  /\ RemoveFirst(s, m) \in Seq(S) /\ IsInjective(RemoveFirst(s, m))
           /\ Range(RemoveFirst(s, m)) = Range(s) \ {m}
<1>1. CASE ~Contains(s, m)
  BY <1>1, RangeIn DEF RemoveFirst, Contains
<1>2. CASE Contains(s, m)
  <2> PICK k \in 1..Len(s) : s[k] = m
    BY <1>2 DEF Contains
  <2>1. \A i \in 1..Len(s) : s[i] = m <=> i = k
    BY DEF IsInjective
  <2>2. SelectInSeq(s, LAMBDA v : v = m) = k
    <3>1. {i \in 1..Len(s) : s[i] = m} = {k}
      BY <2>1
    <3>2. Min({k}) = k
      BY DEF Min
    <3>3. QED
      BY <3>1, <3>2 DEF SelectInSeq
  <2>3. RemoveFirst(s, m) = RemoveAt(s, k)
    BY <2>2 DEF RemoveFirst
  <2>4. /\ RemoveAt(s, k) \in Seq(S) /\ Len(RemoveAt(s, k)) = Len(s) - 1
        /\ \A i \in 1..Len(s) - 1 : RemoveAt(s, k)[i] = IF i < k THEN s[i] ELSE s[i + 1]
    BY RemovedAt
  <2>5. IsInjective(RemoveAt(s, k))
    <3> DEFINE r == RemoveAt(s, k)
    <3>1. DOMAIN r = 1..Len(s) - 1
      BY <2>4
    <3>2. ASSUME NEW i \in 1..Len(s) - 1, NEW j \in 1..Len(s) - 1, r[i] = r[j]
          PROVE  i = j
      <4>1. (IF i < k THEN s[i] ELSE s[i + 1]) = (IF j < k THEN s[j] ELSE s[j + 1])
        BY <2>4, <3>2
      <4>2. (IF i < k THEN i ELSE i + 1) = (IF j < k THEN j ELSE j + 1)
        BY <4>1 DEF IsInjective
      <4>3. QED
        BY <4>2
    <3>3. QED
      BY <3>1, <3>2 DEF IsInjective
  <2>6. \A w : Contains(RemoveAt(s, k), w) <=> Contains(s, w) /\ w # m
    <3> TAKE w
    <3>1. ASSUME Contains(RemoveAt(s, k), w) PROVE Contains(s, w) /\ w # m
      <4>1. PICK i \in 1..Len(s) - 1 : w = IF i < k THEN s[i] ELSE s[i + 1]
        BY <2>4, <3>1 DEF Contains
      <4>2. QED
        BY <2>1, <4>1 DEF Contains
    <3>2. ASSUME Contains(s, w), w # m PROVE Contains(RemoveAt(s, k), w)
      <4>1. PICK j \in 1..Len(s) : s[j] = w
        BY <3>2 DEF Contains
      <4>2. j # k
        BY <3>2, <4>1
      <4> DEFINE i == IF j < k THEN j ELSE j - 1
      <4>3. i \in 1..Len(s) - 1 /\ RemoveAt(s, k)[i] = w
        BY <2>4, <4>1, <4>2
      <4>4. QED
        BY <2>4, <4>3 DEF Contains
    <3>3. QED
      BY <3>1, <3>2
  <2>7. Range(RemoveAt(s, k)) = Range(s) \ {m}
    BY <2>4, <2>6, RangeIn
  <2>8. QED
    BY <2>3, <2>4, <2>5, <2>7
<1>3. QED
  BY <1>1, <1>2

(***************************************************************************)
(* What holds of the queues and the generators, for any record that a      *)
(* handler may leave on its way.                                           *)
(***************************************************************************)
GenState ==
    [pc : {"gone", "parked"}, item : {None}]
      \cup [pc : {"promoted", "admitted"}, item : Message]

\* What its owner was told of a message.
Outcome ==
    {"no", "cancelled", "strayed", "dropped", "failed", "ended", "completed"}

HostType ==
    [message : Seq(Message), pending : Seq(Realtime), boundary : Seq(Message),
     ready : SUBSET Message, ticket : Turn \cup {None}, slot : Location,
     ack : Location, promoted : Location, gen : [Generator -> GenState],
     epoch : Generator, resolver : Generator \cup {None},
     streaming : BOOLEAN, source : Location,
     session : {"none", "spawning", "live", "closed"},
     preWarming : BOOLEAN, aborting : BOOLEAN, starts : BOOLEAN,
     timer : BOOLEAN, drain : SUBSET {"terminal", "recovery"},
     told : [Message -> Outcome],
     replays : BOOLEAN]

\* What is past its reservation, and what waits at all.
Active(h) ==
    Range(h.message) \cup Range(h.pending)
      \cup ({h.gen[0].item, h.gen[1].item} \ {None})
Waiting(h) == Active(h) \cup Range(h.boundary)

\* A message waits once.
Apart(h) ==
    /\ IsInjective(h.message) /\ IsInjective(h.pending) /\ IsInjective(h.boundary)
    /\ Range(h.message) \cap Range(h.pending) = {}
    /\ Range(h.message) \cap Range(h.boundary) = {}
    /\ Range(h.pending) \cap Range(h.boundary) = {}
    /\ \A g \in Generator :
          h.gen[g].item \notin Range(h.message) \cup Range(h.pending)
                                 \cup Range(h.boundary)
    /\ h.gen[0].item # h.gen[1].item \/ h.gen[0].item = None

\* The generator that waits has no message, the one to be started is gone, the
\* message that is recorded as promoted has a generator, and an admitted one has
\* given its ticket back.
Held(h) ==
    /\ h.resolver # None => h.gen[h.resolver].pc = "parked"
    /\ h.session = "spawning" => h.gen[1 - h.epoch].pc = "gone"
    /\ h.promoted # None =>
          \E g \in Generator : h.gen[g] = [pc |-> "promoted", item |-> h.promoted]
    /\ \A g \in Generator : h.gen[g].pc = "admitted" => h.ticket # h.gen[g].item

Good(h) == h \in HostType /\ Apart(h) /\ Held(h)

\* A handler brings a message into the queues only from its reservation, once
\* that was confirmed, or if it is in S.
Moves(h, n, S) ==
    /\ Good(n)
    /\ n.ready \subseteq h.ready /\ n.ticket \in {h.ticket, None}
    /\ Range(n.boundary) \subseteq Range(h.boundary)
    /\ Active(n) \subseteq Active(h) \cup (Range(h.boundary) \cap h.ready) \cup S
    /\ \A i \in Message : n.told[i] = "cancelled" => h.told[i] = "cancelled"

\* The same for a step of the program, which may make and confirm a reservation
\* in S.
Gives(h, n, S) ==
    /\ Good(n)
    /\ n.ready \subseteq h.ready \cup S /\ n.ticket \in {h.ticket, None}
    /\ Range(n.boundary) \subseteq Range(h.boundary) \cup S
    /\ Active(n) \subseteq Active(h) \cup (Range(h.boundary) \cap h.ready) \cup S

StopRecord ==
    [pc : {"no", "asked", "answered", "cancelling", "waiting"}, target : Location,
     ended : {"no", "result", "session"}, gone : BOOLEAN]

Types ==
    /\ caller \in [Message -> {"new", "direct", "busy", "reserved", "held", "done"}]
    /\ cli \in [pc : {"idle", "run", "said", "exited", "dead"}, commands : Seq(Message)]
    /\ cancel \in [Message -> {"no", "asked", "yes"}]
    /\ stop \in StopRecord
    /\ blocked \in Location
    /\ wasQueued \subseteq Realtime /\ surfacing \subseteq Message
    /\ turnEnds \in Nat /\ troubles \in 0..MaxTroubles /\ yielded \subseteq Message

\* What the SDK was given does not wait any more, and a caller that is not done
\* has at most its reservation.
Given ==
    /\ IsInjective(cli.commands) /\ Range(cli.commands) \subseteq yielded
    /\ Waiting(host) \cap yielded = {} /\ host.ticket \notin yielded
    /\ \A i \in Message : caller[i] # "done" =>
          /\ i \notin Active(host) \cup host.ready \cup yielded
          /\ i \in Range(host.boundary) => caller[i] = "reserved"

\* Nothing but its reservation is left for its caller to do.
Sent(i) == caller[i] \in {"done", "reserved"}

\* A message whose cancellation is confirmed, or will be, is nowhere.
Cancelled ==
    /\ \A i \in Message : host.told[i] = "cancelled" =>
          /\ i \notin Waiting(host) \cup Range(cli.commands)
          /\ Sent(i)
    /\ \A i \in Message : cancel[i] = "yes" =>
          i \in yielded /\ i \notin Range(cli.commands)

QInv == Good(host) /\ Types /\ Given /\ Cancelled

(***************************************************************************)
(* Handlers that leave the queues and the generators alone.                *)
(***************************************************************************)
Quiet(h, n) ==
    /\ n \in HostType
    /\ n.message = h.message /\ n.pending = h.pending /\ n.boundary = h.boundary
    /\ n.ready = h.ready /\ n.gen = h.gen /\ n.epoch = h.epoch
    /\ n.resolver = h.resolver
    /\ n.session = "spawning" =>
          h.session = "spawning" \/ h.gen[1 - h.epoch].pc = "gone"
    /\ n.ticket \in {h.ticket, None} /\ n.promoted \in {h.promoted, None}
    /\ \A i \in Message : n.told[i] = "cancelled" => h.told[i] = "cancelled"

LEMMA QuietGood ==
    ASSUME NEW h, NEW n, Good(h), Quiet(h, n)
    PROVE  Good(n) /\ Moves(h, n, {})
<1>1. Apart(n)
  BY DEF Good, Quiet, Apart
<1>2. Held(n)
  <2>1. \A g \in Generator : h.gen[g].pc = "admitted" => h.gen[g].item # None
    BY TurnQueueAssumption DEF Good, HostType, GenState, Generator
  <2>2. QED
    BY <2>1 DEF Good, Quiet, Held
<1>3. Active(n) = Active(h)
  BY DEF Quiet, Active
<1>4. QED
  BY <1>1, <1>2, <1>3 DEF Quiet, Good, Moves

LEMMA QuietAgain ==
    ASSUME NEW h, NEW k, NEW n, Quiet(h, k), Quiet(k, n)
    PROVE  Quiet(h, n)
  BY DEF Quiet

LEMMA QuietSelf ==
    ASSUME NEW h \in HostType
    PROVE  Quiet(h, h)
  BY DEF Quiet

LEMMA ClearSlotQuiet ==
    ASSUME NEW h \in HostType
    PROVE  Quiet(h, ClearSlot(h))
  BY ZenonT(30) DEF ClearSlot, Quiet, HostType, Location

LEMMA TakeSlotQuiet ==
    ASSUME NEW h \in HostType, NEW i \in Message
    PROVE  Quiet(h, TakeSlot(h, i))
  BY ZenonT(30) DEF TakeSlot, Quiet, HostType, Location

LEMMA ReleaseTicketQuiet ==
    ASSUME NEW h \in HostType, NEW i
    PROVE  Quiet(h, ReleaseTicket(h, i))
  BY ZenonT(30) DEF ReleaseTicket, Quiet, HostType

LEMMA ClearPromotedQuiet ==
    ASSUME NEW h \in HostType, NEW i
    PROVE  Quiet(h, ClearPromoted(h, i))
<1> DEFINE n == [h EXCEPT !.promoted = None]
<1>1. n \in HostType /\ n.promoted = None
  BY DEF HostType, Location
<1>2. Quiet(h, n)
  BY <1>1 DEF Quiet, HostType
<1>3. QED
  BY <1>2, QuietSelf DEF ClearPromoted

LEMMA TellQuiet ==
    ASSUME NEW h \in HostType, NEW S,
           NEW how \in Outcome \ {"cancelled"}
    PROVE  Quiet(h, Tell(h, S, how))
  BY ZenonT(40) DEF Tell, Quiet, HostType

\* The source of a turn is told once how it ended.
LEMMA NotifyQuiet ==
    ASSUME NEW h \in HostType, NEW how \in Outcome \ {"cancelled"}
    PROVE  Quiet(h, Notify(h, how))
<1>1. CASE h.source = None
  BY <1>1, QuietSelf DEF Notify
<1>2. CASE h.source # None
  <2> DEFINE told == [h.told EXCEPT ![h.source] = IF @ = "no" THEN how ELSE @]
  <2>1. /\ told \in [Message -> Outcome]
        /\ \A i \in Message : told[i] = "cancelled" => h.told[i] = "cancelled"
    BY <1>2 DEF HostType, Location
  <2> HIDE DEF told
  <2>2. [h EXCEPT !.told = told] \in HostType
    BY <2>1 DEF HostType
  <2>3. Notify(h, how) = [h EXCEPT !.told = told]
    BY <1>2 DEF Notify, told, HostType
  <2>4. Quiet(h, [h EXCEPT !.told = told])
    BY <2>1, <2>2 DEF Quiet, HostType
  <2>5. QED
    BY <2>3, <2>4
<1>3. QED
  BY <1>1, <1>2

LEMMA EndTurnQuiet ==
    ASSUME NEW h \in HostType, NEW how \in Outcome \ {"cancelled"}
    PROVE  Quiet(h, EndTurn(h, how))
<1> DEFINE k == [h EXCEPT !.streaming = FALSE]
<1>1. Quiet(h, k)
  BY DEF Quiet, HostType
<1> HIDE DEF k
<1>2. Quiet(k, Notify(k, how))
  BY <1>1, NotifyQuiet DEF Quiet
<1>3. QED
  BY <1>1, <1>2, QuietAgain DEF EndTurn, k

LEMMA AwaitAckQuiet ==
    ASSUME NEW h \in HostType
    PROVE  Quiet(h, AwaitAck(h))
  BY DEF AwaitAck, Quiet, HostType

LEMMA ScheduleQuiet ==
    ASSUME NEW h \in HostType, NEW reason \in {"terminal", "recovery"}
    PROVE  Quiet(h, Schedule(h, reason))
  BY DEF Schedule, Quiet, HostType

(***************************************************************************)
(* Handlers that move messages.                                            *)
(***************************************************************************)
LEMMA MovesSelf ==
    ASSUME NEW h, Good(h), NEW S
    PROVE  Moves(h, h, S)
  BY DEF Moves

LEMMA MovesAgain ==
    ASSUME NEW h, NEW k, NEW n, NEW S, Moves(h, k, S), Moves(k, n, S)
    PROVE  Moves(h, n, S)
  BY DEF Moves

LEMMA MovesMore ==
    ASSUME NEW h, NEW n, NEW S, NEW T, Moves(h, n, S),
           S \subseteq Active(h) \cup (Range(h.boundary) \cap h.ready) \cup T
    PROVE  Moves(h, n, T)
  BY DEF Moves

LEMMA MovesQuiet ==
    ASSUME NEW h, NEW k, NEW n, NEW S, Moves(h, k, S), Quiet(k, n)
    PROVE  Moves(h, n, S)
<1>1. Moves(k, n, {})
  BY QuietGood DEF Moves
<1>2. QED
  BY <1>1, MovesMore, MovesAgain

LEMMA QuietMoves ==
    ASSUME NEW h, NEW k, NEW n, NEW S, Good(h), Quiet(h, k), Moves(k, n, S)
    PROVE  Moves(h, n, S)
<1>1. Moves(h, k, S)
  BY QuietGood, MovesMore
<1>2. QED
  BY <1>1, MovesAgain

\* The facts of a record that its type gives.
LEMMA HostFacts ==
    ASSUME NEW h \in HostType
    PROVE  /\ h.message \in Seq(Message) /\ h.pending \in Seq(Message)
           /\ h.pending \in Seq(Realtime)
           /\ h.boundary \in Seq(Message)
           /\ h.gen \in [Generator -> GenState] /\ h.epoch \in Generator
           /\ Waiting(h) \subseteq Message
           /\ Range(h.pending) \subseteq Realtime
           /\ \A g \in Generator :
                 /\ h.gen[g].item \in Location
                 /\ h.gen[g].item = None <=> h.gen[g].pc \in {"gone", "parked"}
                 /\ h.gen[g].item \in Message <=> h.gen[g].pc \in {"promoted", "admitted"}
<1>1. /\ h.message \in Seq(Message) /\ h.pending \in Seq(Realtime)
      /\ h.boundary \in Seq(Message) /\ h.gen \in [Generator -> GenState]
      /\ h.epoch \in Generator
  BY DEF HostType
<1>2. h.pending \in Seq(Message)
  BY <1>1, Widened DEF Message
<1>3. \A g \in Generator :
         /\ h.gen[g].item \in Location
         /\ h.gen[g].item = None <=> h.gen[g].pc \in {"gone", "parked"}
         /\ h.gen[g].item \in Message <=> h.gen[g].pc \in {"promoted", "admitted"}
  BY <1>1, TurnQueueAssumption DEF GenState, Location
<1>4. /\ Range(h.message) \subseteq Message /\ Range(h.pending) \subseteq Realtime
      /\ Range(h.boundary) \subseteq Message
  BY <1>1, RangeIn
<1>5. Waiting(h) \subseteq Message
  BY <1>3, <1>4 DEF Waiting, Active, Location, Message, Generator
<1>6. QED
  BY <1>1, <1>2, <1>3, <1>4, <1>5

\* A generator that does not wait and is not the next session's.
Free(h, g) ==
    /\ g \in Generator
    /\ h.resolver # None => h.resolver # g
    /\ h.session = "spawning" => g # 1 - h.epoch

LEMMA LeaveMoves ==
    ASSUME NEW h, Good(h), NEW g, Free(h, g),
           h.promoted # None => h.promoted # h.gen[g].item
    PROVE  LET n == [h EXCEPT !.gen[g] = Gone]
           IN Moves(h, n, {}) /\ h.gen[g].item \notin Waiting(n) /\ Free(n, g)
<1> DEFINE n == [h EXCEPT !.gen[g] = Gone]
<1>1. /\ n \in HostType
      /\ n.message = h.message /\ n.pending = h.pending /\ n.boundary = h.boundary
      /\ n.ready = h.ready /\ n.epoch = h.epoch /\ n.resolver = h.resolver
      /\ n.session = h.session /\ n.ticket = h.ticket /\ n.promoted = h.promoted
      /\ n.told = h.told
  BY DEF Good, HostType, GenState, Gone, Free
<1>2. \A f \in Generator : n.gen[f] = IF f = g THEN Gone ELSE h.gen[f]
  BY DEF Good, HostType, Free
<1>3. Apart(n)
  <2>1. \A f \in Generator : n.gen[f].item = IF f = g THEN None ELSE h.gen[f].item
    BY <1>2 DEF Gone
  <2>2. None \notin Waiting(h)
    BY HostFacts, TurnQueueAssumption DEF Good
  <2>3. QED
    BY <1>1, <2>1, <2>2 DEF Good, Apart, Generator, Waiting, Active
<1>4. Held(n)
  <2>1. n.session = "spawning" => n.gen[1 - n.epoch].pc = "gone"
    BY <1>1, <1>2 DEF Good, Held, Free, HostType, Generator
  <2>2. n.promoted # None =>
          \E f \in Generator : n.gen[f] = [pc |-> "promoted", item |-> n.promoted]
    BY <1>1, <1>2 DEF Good, Held
  <2>3. n.resolver # None => n.gen[n.resolver].pc = "parked"
    BY <1>1, <1>2 DEF Good, Held, Free, HostType
  <2>4. \A f \in Generator : n.gen[f].pc = "admitted" => n.ticket # n.gen[f].item
    BY <1>1, <1>2 DEF Good, Held, Gone
  <2>5. QED
    BY <2>1, <2>2, <2>3, <2>4 DEF Held
<1>5. Active(n) \subseteq Active(h) \ {h.gen[g].item}
  BY <1>1, <1>2 DEF Good, Apart, Active, Gone, Free, Generator
<1>6. h.gen[g].item \notin Range(h.boundary)
  BY DEF Good, Apart, Free
<1>7. QED
  BY <1>1, <1>3, <1>4, <1>5, <1>6 DEF Moves, Good, Waiting, Free

LEMMA PromoteMoves ==
    ASSUME NEW h, Good(h), NEW g, Free(h, g), h.gen[g].item = None,
           NEW i \in Message, i \notin Waiting(h)
    PROVE  Moves(h, Promote(h, g, i), {i})
<1> DEFINE n == Promote(h, g, i)
           s == [pc |-> "promoted", item |-> i]
<1>1. s \in GenState /\ i \in Location
  BY DEF GenState, Location
<1>2. /\ n \in HostType
      /\ n.message = h.message /\ n.pending = h.pending /\ n.boundary = h.boundary
      /\ n.ready = h.ready /\ n.epoch = h.epoch /\ n.resolver = h.resolver
      /\ n.session = h.session /\ n.ticket = h.ticket /\ n.promoted = i
      /\ n.told = h.told
  BY <1>1 DEF Good, HostType, Promote, Free
<1>3. \A f \in Generator : n.gen[f] = IF f = g THEN s ELSE h.gen[f]
  BY DEF Good, HostType, Promote, Free
<1>4. Apart(n)
  BY <1>2, <1>3, TurnQueueAssumption DEF Good, Apart, Generator, Waiting, Active
<1>5. Held(n)
  BY <1>2, <1>3 DEF Good, Held, Free, Generator, HostType
<1>6. Active(n) \subseteq Active(h) \cup {i}
  BY <1>2, <1>3 DEF Active, Free, Generator
<1>7. QED
  BY <1>2, <1>4, <1>5, <1>6 DEF Moves, Good

\* A message at the end of the queue.
LEMMA AppendMoves ==
    ASSUME NEW h, Good(h), NEW i \in Message, i \notin Waiting(h)
    PROVE  Moves(h, [h EXCEPT !.message = Append(@, i)], {i})
<1> DEFINE n == [h EXCEPT !.message = Append(@, i)]
<1>1. /\ Append(h.message, i) \in Seq(Message)
      /\ Range(Append(h.message, i)) = Range(h.message) \cup {i}
      /\ IsInjective(Append(h.message, i))
  BY Appended DEF Good, HostType, Apart, Waiting, Active
<1>2. /\ n \in HostType /\ n.message = Append(h.message, i)
      /\ n.pending = h.pending /\ n.boundary = h.boundary /\ n.gen = h.gen
      /\ n.ready = h.ready /\ n.epoch = h.epoch /\ n.resolver = h.resolver
      /\ n.session = h.session /\ n.ticket = h.ticket /\ n.promoted = h.promoted
      /\ n.told = h.told
  BY <1>1 DEF Good, HostType
<1>3. Apart(n)
  BY <1>1, <1>2, TurnQueueAssumption DEF Good, Apart, Generator, Waiting, Active
<1>4. Held(n)
  BY <1>2 DEF Good, Held
<1>5. Active(n) \subseteq Active(h) \cup {i}
  BY <1>1, <1>2 DEF Active
<1>6. QED
  BY <1>2, <1>3, <1>4, <1>5 DEF Moves, Good

\* wakeGenerator.
LEMMA WakeMoves ==
    ASSUME NEW h, Good(h), NEW i \in Message, i \notin Waiting(h)
    PROVE  Moves(h, Wake(h, i), {i})
<1>1. CASE h.resolver = None
  BY <1>1, AppendMoves DEF Wake
<1>2. CASE h.resolver # None
  <2> DEFINE k == [h EXCEPT !.resolver = None]
             r == h.resolver
  <2>1. /\ k \in HostType
        /\ k.message = h.message /\ k.pending = h.pending /\ k.boundary = h.boundary
        /\ k.gen = h.gen /\ k.ready = h.ready /\ k.epoch = h.epoch
        /\ k.resolver = None /\ k.session = h.session /\ k.ticket = h.ticket
        /\ k.promoted = h.promoted /\ k.told = h.told
    BY DEF Good, HostType
  <2>2. Good(k) /\ Waiting(k) = Waiting(h) /\ Active(k) = Active(h)
    BY <2>1 DEF Good, Apart, Held, Waiting, Active
  <2>3. r \in Generator /\ h.gen[r].pc = "parked" /\ h.gen[r].item = None
    BY <1>2, HostFacts DEF Good, HostType, Held
  <2>4. Free(k, r)
    BY <2>1, <2>3 DEF Free, Good, Held
  <2>5. Moves(k, Promote(k, r, i), {i})
    BY <2>1, <2>2, <2>3, <2>4, PromoteMoves
  <2>6. Moves(h, Promote(k, r, i), {i})
    BY <2>1, <2>2, <2>5 DEF Moves
  <2>7. QED
    BY <1>2, <2>6 DEF Wake
<1>3. QED
  BY <1>1, <1>2

\* forceWakeGeneratorWithNull.
LEMMA WakeNullMoves ==
    ASSUME NEW h, Good(h)
    PROVE  Moves(h, WakeNull(h), {})
<1>1. CASE h.resolver = None
  BY <1>1, MovesSelf DEF WakeNull
<1>2. CASE h.resolver # None
  <2> DEFINE r == h.resolver
             n == [h EXCEPT !.gen[r] = Gone, !.resolver = None]
  <2>1. r \in Generator /\ h.gen[r].pc = "parked" /\ h.gen[r].item = None
    BY <1>2, HostFacts DEF Good, HostType, Held
  <2>2. /\ n \in HostType
        /\ n.message = h.message /\ n.pending = h.pending /\ n.boundary = h.boundary
        /\ n.ready = h.ready /\ n.epoch = h.epoch /\ n.resolver = None
        /\ n.session = h.session /\ n.ticket = h.ticket /\ n.promoted = h.promoted
        /\ n.told = h.told
    BY DEF Good, HostType, GenState, Gone
  <2>3. \A f \in Generator : n.gen[f] = IF f = r THEN Gone ELSE h.gen[f]
    BY DEF Good, HostType
  <2>4. \A f \in Generator : n.gen[f].item = h.gen[f].item
    BY <2>1, <2>3 DEF Gone
  <2>5. Apart(n) /\ Active(n) = Active(h)
    BY <2>2, <2>4 DEF Good, Apart, Active, Generator
  <2>6. Held(n)
    <3>1. n.session = "spawning" => n.gen[1 - n.epoch].pc = "gone"
      BY <2>1, <2>2, <2>3 DEF Good, Held, Gone, HostType, Generator
    <3>2. n.promoted # None =>
            \E g \in Generator : n.gen[g] = [pc |-> "promoted", item |-> n.promoted]
      BY <2>1, <2>2, <2>3 DEF Good, Held, Gone
    <3>3. \A g \in Generator : n.gen[g].pc = "admitted" => n.ticket # n.gen[g].item
      BY <2>1, <2>2, <2>3 DEF Good, Held, Gone
    <3>4. QED
      BY <2>2, <3>1, <3>2, <3>3 DEF Held
  <2>7. QED
    BY <1>2, <2>2, <2>5, <2>6 DEF Moves, Good, WakeNull
<1>3. QED
  BY <1>1, <1>2

\* rescuePendingToQueue.
LEMMA RescueMoves ==
    ASSUME NEW h, Good(h)
    PROVE  Moves(h, Rescue(h), {})
<1> DEFINE n == Rescue(h)
           q == h.pending \o h.message
<1>1. /\ q \in Seq(Message) /\ Range(q) = Range(h.pending) \cup Range(h.message)
      /\ IsInjective(q)
  BY HostFacts, Joined DEF Good, Apart
<1>2. <<>> \in Seq(Realtime) /\ Range(<<>>) = {} /\ IsInjective(<<>>)
  BY Emptied
<1> HIDE DEF q
<1>3. n = [h EXCEPT !.message = q, !.pending = <<>>]
  BY DEF Rescue, q
<1>4. /\ n \in HostType /\ n.message = q /\ n.pending = <<>>
      /\ n.boundary = h.boundary /\ n.gen = h.gen
      /\ n.ready = h.ready /\ n.epoch = h.epoch /\ n.resolver = h.resolver
      /\ n.session = h.session /\ n.ticket = h.ticket /\ n.promoted = h.promoted
      /\ n.told = h.told
  <2> DEFINE e == <<>>
  <2>1. e \in Seq(Realtime) /\ n = [h EXCEPT !.message = q, !.pending = e]
    BY <1>2, <1>3
  <2> HIDE DEF e, n
  <2>2. n \in HostType
    BY <1>1, <2>1 DEF Good, HostType
  <2>3. n.message = q /\ n.pending = e
    BY <2>1 DEF Good, HostType
  <2>4. /\ n.boundary = h.boundary /\ n.gen = h.gen
        /\ n.ready = h.ready /\ n.epoch = h.epoch /\ n.resolver = h.resolver
        /\ n.session = h.session /\ n.ticket = h.ticket /\ n.promoted = h.promoted
        /\ n.told = h.told
    BY <2>1 DEF Good, HostType
  <2>5. QED
    BY <2>2, <2>3, <2>4 DEF e
<1>5. Apart(n)
  BY <1>1, <1>2, <1>4 DEF Good, Apart
<1>6. Held(n) /\ Active(n) = Active(h)
  BY <1>1, <1>2, <1>4 DEF Good, Held, Active
<1>7. QED
  BY <1>4, <1>5, <1>6 DEF Moves, Good


\* A message at the head of a queue.
LEMMA DequeueMoves ==
    ASSUME NEW h, Good(h), h.message # <<>>
    PROVE  LET n == [h EXCEPT !.message = Tail(@)]
           IN Moves(h, n, {}) /\ Head(h.message) \in Active(h) \ Waiting(n)
<1> DEFINE n == [h EXCEPT !.message = Tail(@)]
           i == Head(h.message)
           q == Tail(h.message)
<1>1. /\ q \in Seq(Message) /\ IsInjective(q) /\ Range(q) = Range(h.message) \ {i}
      /\ i \in Range(h.message)
  BY Shortened DEF Good, HostType, Apart
<1> HIDE DEF q, i
<1>2. n = [h EXCEPT !.message = q]
  BY DEF q
<1>3. /\ n \in HostType /\ n.message = q /\ n.pending = h.pending
      /\ n.boundary = h.boundary /\ n.gen = h.gen
      /\ n.ready = h.ready /\ n.epoch = h.epoch /\ n.resolver = h.resolver
      /\ n.session = h.session /\ n.ticket = h.ticket /\ n.promoted = h.promoted
      /\ n.told = h.told
  BY <1>1, <1>2, ZenonT(30) DEF Good, HostType
<1>4. Apart(n) /\ Held(n) /\ Active(n) \subseteq Active(h)
  BY <1>1, <1>3 DEF Good, Apart, Held, Active
<1>5. i \in Active(h) /\ i \notin Waiting(n)
  BY <1>1, <1>3 DEF Good, Apart, Active, Waiting, Generator
<1>6. QED
  BY <1>3, <1>4, <1>5 DEF Moves, Good, i

LEMMA UnpendMoves ==
    ASSUME NEW h, Good(h), h.pending # <<>>
    PROVE  LET n == [h EXCEPT !.pending = Tail(@)]
           IN Moves(h, n, {}) /\ Head(h.pending) \in Active(h) \ Waiting(n)
<1> DEFINE n == [h EXCEPT !.pending = Tail(@)]
           i == Head(h.pending)
           q == Tail(h.pending)
<1>1. /\ q \in Seq(Realtime) /\ IsInjective(q) /\ Range(q) = Range(h.pending) \ {i}
      /\ i \in Range(h.pending)
  BY Shortened DEF Good, HostType, Apart
<1> HIDE DEF q, i
<1>2. n = [h EXCEPT !.pending = q]
  BY DEF q
<1>3. /\ n \in HostType /\ n.message = h.message /\ n.pending = q
      /\ n.boundary = h.boundary /\ n.gen = h.gen
      /\ n.ready = h.ready /\ n.epoch = h.epoch /\ n.resolver = h.resolver
      /\ n.session = h.session /\ n.ticket = h.ticket /\ n.promoted = h.promoted
      /\ n.told = h.told
  BY <1>1, <1>2, ZenonT(30) DEF Good, HostType
<1>4. Apart(n) /\ Held(n) /\ Active(n) \subseteq Active(h)
  BY <1>1, <1>3 DEF Good, Apart, Held, Active
<1>5. i \in Active(h) /\ i \notin Waiting(n)
  BY <1>1, <1>3 DEF Good, Apart, Active, Waiting, Generator
<1>6. QED
  BY <1>3, <1>4, <1>5 DEF Moves, Good, i

\* The reservation at the head of its queue.
LEMMA UnreserveMoves ==
    ASSUME NEW h, Good(h), h.boundary # <<>>
    PROVE  LET i == Head(h.boundary)
               n == [h EXCEPT !.boundary = Tail(@), !.ready = @ \ {i}]
           IN /\ Moves(h, n, {}) /\ Active(n) = Active(h)
              /\ i \in Range(h.boundary) \ Waiting(n)
<1> DEFINE i == Head(h.boundary)
           q == Tail(h.boundary)
           n == [h EXCEPT !.boundary = q, !.ready = @ \ {i}]
<1>1. /\ q \in Seq(Message) /\ IsInjective(q) /\ Range(q) = Range(h.boundary) \ {i}
      /\ i \in Range(h.boundary)
  BY Shortened DEF Good, HostType, Apart
<1>2. n = [h EXCEPT !.boundary = Tail(@), !.ready = @ \ {i}]
  OBVIOUS
<1> HIDE DEF q, i
<1>3. /\ n \in HostType /\ n.message = h.message /\ n.pending = h.pending
      /\ n.boundary = q /\ n.gen = h.gen
      /\ n.ready = h.ready \ {i} /\ n.epoch = h.epoch /\ n.resolver = h.resolver
      /\ n.session = h.session /\ n.ticket = h.ticket /\ n.promoted = h.promoted
      /\ n.told = h.told
  BY <1>1, ZenonT(30) DEF Good, HostType
<1> HIDE DEF n
<1>4. Apart(n) /\ Held(n) /\ Active(n) = Active(h)
  BY <1>1, <1>3 DEF Good, Apart, Held, Active
<1>5. i \notin Waiting(n)
  BY <1>1, <1>3 DEF Good, Apart, Active, Waiting, Generator
<1>6. Moves(h, n, {})
  BY <1>1, <1>3, <1>4 DEF Moves, Good
<1>7. QED
  BY <1>1, <1>2, <1>4, <1>5, <1>6 DEF i

\* waitForMessage, by a generator that has let go of its message.
LEMMA WaitMoves ==
    ASSUME NEW h, Good(h), NEW g, Free(h, g), h.gen[g] = Gone
    PROVE  Moves(h, WaitForMessage(h, g), {})
<1>1. CASE h.aborting
  <2>1. [h EXCEPT !.gen[g] = Gone] = h
    BY DEF Good, HostType, Free
  <2>2. QED
    BY <1>1, <2>1, MovesSelf DEF WaitForMessage
<1>2. CASE ~h.aborting /\ h.message # <<>>
  <2> DEFINE k == [h EXCEPT !.message = Tail(@)]
             i == Head(h.message)
  <2>1. Moves(h, k, {}) /\ i \in Active(h) \ Waiting(k)
    BY <1>2, DequeueMoves
  <2> DEFINE q == Tail(h.message)
  <2>2. /\ k.gen = h.gen /\ k.resolver = h.resolver /\ k.session = h.session
        /\ k.epoch = h.epoch
    <3> HIDE DEF q
    <3>1. k = [h EXCEPT !.message = q]
      BY DEF q
    <3>2. QED
      BY <3>1 DEF Good, HostType
  <2> HIDE DEF k
  <2>3. Good(k) /\ Free(k, g) /\ k.gen[g].item = None
    BY <2>1, <2>2 DEF Moves, Free, Gone
  <2>4. i \in Message
    BY <2>1, HostFacts DEF Good, Waiting
  <2>5. Moves(k, Promote(k, g, i), {i})
    BY <2>1, <2>3, <2>4, PromoteMoves
  <2>6. Moves(h, k, {i})
    BY <2>1, MovesMore
  <2>7. Moves(h, Promote(k, g, i), {})
    <3>1. Moves(h, Promote(k, g, i), {i})
      BY <2>5, <2>6, MovesAgain
    <3>2. QED
      BY <2>1, <3>1, MovesMore
  <2>8. QED
    BY <1>2, <2>7 DEF WaitForMessage, k
<1>3. CASE ~h.aborting /\ h.message = <<>>
  <2> DEFINE p == [pc |-> "parked", item |-> None]
             n == [h EXCEPT !.gen[g] = p, !.resolver = g]
  <2>1. /\ n \in HostType
        /\ n.message = h.message /\ n.pending = h.pending /\ n.boundary = h.boundary
        /\ n.ready = h.ready /\ n.epoch = h.epoch /\ n.resolver = g
        /\ n.session = h.session /\ n.ticket = h.ticket /\ n.promoted = h.promoted
        /\ n.told = h.told
    BY DEF Good, HostType, GenState, Free
  <2>2. \A f \in Generator : n.gen[f] = IF f = g THEN p ELSE h.gen[f]
    BY DEF Good, HostType, Free
  <2>3. \A f \in Generator : n.gen[f].item = h.gen[f].item
    BY <2>2 DEF Gone
  <2>4. Apart(n) /\ Active(n) = Active(h)
    BY <2>1, <2>3 DEF Good, Apart, Active, Generator
  <2>5. Held(n)
    <3>1. n.session = "spawning" => n.gen[1 - n.epoch].pc = "gone"
      BY <2>1, <2>2 DEF Good, Held, Free, HostType, Generator
    <3>2. n.promoted # None =>
            \E f \in Generator : n.gen[f] = [pc |-> "promoted", item |-> n.promoted]
      BY <2>1, <2>2 DEF Good, Held, Gone
    <3>3. \A f \in Generator : n.gen[f].pc = "admitted" => n.ticket # n.gen[f].item
      BY <2>1, <2>2 DEF Good, Held
    <3>4. n.resolver # None => n.gen[n.resolver].pc = "parked"
      BY <2>1, <2>2 DEF Free
    <3>5. QED
      BY <3>1, <3>2, <3>3, <3>4 DEF Held
  <2>6. n = WaitForMessage(h, g)
    BY <1>3 DEF WaitForMessage
  <2>7. QED
    BY <2>1, <2>4, <2>5, <2>6 DEF Moves, Good
<1>4. QED
  BY <1>1, <1>2, <1>3

\* A generator that asks for its next message has let go of the one before.
LEMMA NextMessageMoves ==
    ASSUME NEW h, Good(h), NEW g, Free(h, g),
           h.promoted # None => h.promoted # h.gen[g].item
    PROVE  /\ Moves(h, WaitForMessage(h, g), {})
           /\ h.gen[g].item \notin Waiting(WaitForMessage(h, g))
<1> DEFINE k == [h EXCEPT !.gen[g] = Gone]
           n == WaitForMessage(h, g)
<1>1. Moves(h, k, {}) /\ h.gen[g].item \notin Waiting(k) /\ Free(k, g)
  BY LeaveMoves
<1>2. k.gen[g] = Gone
  BY DEF Good, HostType, Free
<1>3. Moves(k, WaitForMessage(k, g), {})
  BY <1>1, <1>2, WaitMoves DEF Moves
<1>4. WaitForMessage(k, g) = n
  <2>1. k.aborting = h.aborting /\ k.message = h.message
    BY DEF Good, HostType
  <2>2. [k EXCEPT !.gen[g] = Gone] = [h EXCEPT !.gen[g] = Gone]
    BY DEF Good, HostType
  <2> DEFINE p == [pc |-> "parked", item |-> None]
             s == [pc |-> "promoted", item |-> Head(h.message)]
             q == Tail(h.message)
  <2>3. [k EXCEPT !.gen[g] = p, !.resolver = g] = [h EXCEPT !.gen[g] = p, !.resolver = g]
    <3> HIDE DEF p
    <3>1. QED
      BY ZenonT(60) DEF Good, HostType
  <2>4. Promote([k EXCEPT !.message = Tail(@)], g, Head(k.message))
          = Promote([h EXCEPT !.message = Tail(@)], g, Head(h.message))
    <3>1. Promote([k EXCEPT !.message = q], g, Head(h.message))
            = Promote([h EXCEPT !.message = q], g, Head(h.message))
      <4> HIDE DEF q
      <4>1. QED
        BY ZenonT(60) DEF Promote, Good, HostType
    <3> HIDE DEF k
    <3>2. QED
      BY <2>1, <3>1
  <2> HIDE DEF k
  <2>5. QED
    BY <2>1, <2>2, <2>3, <2>4 DEF WaitForMessage
<1>5. QED
  BY <1>1, <1>3, <1>4, MovesAgain DEF Moves, Waiting

LEMMA QuietWaiting ==
    ASSUME NEW h, NEW n, Quiet(h, n)
    PROVE  Waiting(n) = Waiting(h) /\ Active(n) = Active(h)
  BY DEF Quiet, Waiting, Active

\* A message that was taken from one of the queues and is put into another.
LEMMA MovesBack ==
    ASSUME NEW h, NEW k, NEW n, NEW i, Moves(h, k, {}), Moves(k, n, {i}),
           i \in Active(h) \cup (Range(h.boundary) \cap h.ready)
    PROVE  Moves(h, n, {})
<1>1. Moves(h, k, {i})
  BY MovesMore
<1>2. Moves(h, n, {i})
  BY <1>1, MovesAgain
<1>3. QED
  BY <1>2, MovesMore

LEMMA PendMoves ==
    ASSUME NEW h, Good(h), NEW i \in Realtime, i \notin Waiting(h)
    PROVE  Moves(h, [h EXCEPT !.pending = Append(@, i)], {i})
<1> DEFINE n == [h EXCEPT !.pending = Append(@, i)]
<1>1. /\ Append(h.pending, i) \in Seq(Realtime)
      /\ Range(Append(h.pending, i)) = Range(h.pending) \cup {i}
      /\ IsInjective(Append(h.pending, i))
  BY Appended DEF Good, HostType, Apart, Waiting, Active
<1>2. /\ n \in HostType /\ n.pending = Append(h.pending, i)
      /\ n.message = h.message /\ n.boundary = h.boundary /\ n.gen = h.gen
      /\ n.ready = h.ready /\ n.epoch = h.epoch /\ n.resolver = h.resolver
      /\ n.session = h.session /\ n.ticket = h.ticket /\ n.promoted = h.promoted
      /\ n.told = h.told
  BY <1>1 DEF Good, HostType
<1>3. Apart(n)
  <2>1. i \notin Range(h.message) /\ i \notin Range(h.boundary)
    BY DEF Waiting, Active
  <2>2. \A g \in Generator : h.gen[g].item # i
    BY TurnQueueAssumption DEF Waiting, Active, Generator, Message
  <2>3. QED
    BY <1>1, <1>2, <2>1, <2>2 DEF Good, Apart
<1>4. Held(n)
  BY <1>2 DEF Good, Held
<1>5. Active(n) \subseteq Active(h) \cup {i}
  BY <1>1, <1>2 DEF Active
<1>6. QED
  BY <1>2, <1>3, <1>4, <1>5 DEF Moves, Good

\* A message at the head of the queue.
LEMMA PrependMoves ==
    ASSUME NEW h, Good(h), NEW i \in Message, i \notin Waiting(h)
    PROVE  Moves(h, [h EXCEPT !.message = <<i>> \o @], {i})
<1> DEFINE q == <<i>> \o h.message
           n == [h EXCEPT !.message = q]
<1>1. /\ q \in Seq(Message) /\ Range(q) = Range(h.message) \cup {i} /\ IsInjective(q)
  <2>1. /\ h.message \in Seq(Message) /\ IsInjective(h.message)
        /\ i \notin Range(h.message)
    BY DEF Good, HostType, Apart, Waiting, Active
  <2> DEFINE x == <<i>>
  <2>2. x \in Seq(Message) /\ Range(x) = {i} /\ IsInjective(x)
    BY Single
  <2> HIDE DEF x
  <2>3. /\ x \o h.message \in Seq(Message)
        /\ Range(x \o h.message) = Range(x) \cup Range(h.message)
        /\ IsInjective(x \o h.message)
    BY <2>1, <2>2, Joined
  <2>4. QED
    BY <2>2, <2>3 DEF x
<1> HIDE DEF q
<1>2. /\ n \in HostType /\ n.message = q
      /\ n.pending = h.pending /\ n.boundary = h.boundary /\ n.gen = h.gen
      /\ n.ready = h.ready /\ n.epoch = h.epoch /\ n.resolver = h.resolver
      /\ n.session = h.session /\ n.ticket = h.ticket /\ n.promoted = h.promoted
      /\ n.told = h.told
  BY <1>1 DEF Good, HostType
<1>3. Apart(n)
  BY <1>1, <1>2, TurnQueueAssumption DEF Good, Apart, Generator, Waiting, Active
<1>4. Held(n)
  BY <1>2 DEF Good, Held
<1>5. Active(n) \subseteq Active(h) \cup {i}
  BY <1>1, <1>2 DEF Active
<1>6. n = [h EXCEPT !.message = <<i>> \o @]
  BY DEF q
<1>7. QED
  BY <1>2, <1>3, <1>4, <1>5, <1>6 DEF Moves, Good

\* promoteNextFromPending.
LEMMA PromoteNextMoves ==
    ASSUME NEW h, Good(h)
    PROVE  Moves(h, PromoteNext(h), {})
<1> DEFINE i == Head(h.pending)
           k == [h EXCEPT !.pending = Tail(@)]
           n == Wake(TakeSlot(k, i), i)
<1>1. CASE h.pending = <<>>
  BY <1>1, MovesSelf DEF PromoteNext
<1>2. CASE h.pending # <<>>
  <2>1. Moves(h, k, {}) /\ i \in Active(h) \ Waiting(k)
    BY <1>2, UnpendMoves
  <2>2. i \in Message
    BY <2>1, HostFacts DEF Good, Waiting
  <2> HIDE DEF k, i
  <2>3. Quiet(k, TakeSlot(k, i)) /\ Good(TakeSlot(k, i))
    BY <2>1, <2>2, TakeSlotQuiet, QuietGood DEF Moves, Good
  <2>4. i \notin Waiting(TakeSlot(k, i))
    BY <2>1, <2>3, QuietWaiting
  <2>5. Moves(TakeSlot(k, i), n, {i})
    BY <2>2, <2>3, <2>4, WakeMoves
  <2>6. Moves(k, n, {i})
    <3>1. Good(k)
      BY <2>1 DEF Moves
    <3>2. QED
      BY <2>3, <2>5, <3>1, QuietMoves
  <2>7. Moves(h, n, {})
    BY <2>1, <2>6, MovesBack
  <2>8. PromoteNext(h) \in {h, n}
    BY DEF PromoteNext, k, i
  <2>9. QED
    BY <2>7, <2>8, MovesSelf
<1>3. QED
  BY <1>1, <1>2

\* startNextTurnQueuedItem.
LEMMA StartNextMoves ==
    ASSUME NEW h, Good(h), NEW reason
    PROVE  Moves(h, StartNext(h, reason), {})
<1> DEFINE i == Head(h.boundary)
           k == [h EXCEPT !.boundary = Tail(@), !.ready = @ \ {i}]
<1>1. CASE ~MayStart(h, reason)
  BY <1>1, MovesSelf DEF StartNext
<1>2. CASE MayStart(h, reason)
  <2>1. /\ Moves(h, k, {}) /\ Active(k) = Active(h)
        /\ i \in Range(h.boundary) \ Waiting(k) /\ i \in h.ready
    BY <1>2, UnreserveMoves DEF MayStart
  <2>2. i \in Message
    BY <2>1, HostFacts DEF Good, Waiting
  <2>3. k = [h EXCEPT !.boundary = Tail(@), !.ready = @ \ {Head(h.boundary)}]
    OBVIOUS
  <2> HIDE DEF k, i
  <2>4. Good(k)
    BY <2>1 DEF Moves
  <2>5. CASE h.session = "live"
    <3>1. Moves(k, Wake(k, i), {i})
      BY <2>1, <2>2, <2>4, WakeMoves
    <3>2. StartNext(h, reason) = Wake(k, i)
      BY <1>2, <2>5, <2>3 DEF StartNext, i
    <3>3. QED
      BY <2>1, <3>1, <3>2, MovesBack
  <2>6. CASE h.session # "live"
    <3> DEFINE a == [k EXCEPT !.message = Append(@, i)]
               n == [a EXCEPT !.starts = TRUE, !.aborting = @ /\ reason # "recovery"]
    <3>1. Moves(k, a, {i})
      BY <2>1, <2>2, <2>4, AppendMoves
    <3>2. Quiet(a, n)
      <4> HIDE DEF a
      <4>1. a \in HostType
        BY <3>1 DEF Moves, Good
      <4>2. n \in HostType
        BY <4>1 DEF HostType
      <4>3. /\ n.message = a.message /\ n.pending = a.pending
            /\ n.boundary = a.boundary /\ n.ready = a.ready /\ n.gen = a.gen
            /\ n.epoch = a.epoch /\ n.resolver = a.resolver
            /\ n.session = a.session /\ n.ticket = a.ticket
            /\ n.promoted = a.promoted /\ n.told = a.told
        BY <4>1 DEF HostType
      <4>4. QED
        BY <4>2, <4>3 DEF Quiet
    <3>3. Moves(k, n, {i})
      BY <3>1, <3>2, MovesQuiet
    <3>4. StartNext(h, reason) = n
      <4>1. k \in HostType
        BY <2>4 DEF Good
      <4>2. n = [k EXCEPT !.message = Append(@, i), !.starts = TRUE,
                          !.aborting = @ /\ reason # "recovery"]
        BY <4>1 DEF HostType
      <4>3. QED
        BY <1>2, <2>6, <2>3, <4>2 DEF StartNext, i
    <3>5. QED
      BY <2>1, <3>3, <3>4, MovesBack
  <2>7. QED
    BY <2>5, <2>6
<1>3. QED
  BY <1>1, <1>2

LEMMA DropSlotQuiet ==
    ASSUME NEW h \in HostType, NEW how \in {"dropped", "failed"}
    PROVE  Quiet(h, DropSlot(h, how))
<1>1. Quiet(h, Tell(h, {h.slot}, how))
  BY TellQuiet DEF Outcome
<1>2. Tell(h, {h.slot}, how) \in HostType
  BY <1>1 DEF Quiet
<1>3. Quiet(h, ClearSlot(Tell(h, {h.slot}, how)))
  BY <1>1, <1>2, ClearSlotQuiet, QuietAgain
<1>4. QED
  BY <1>3, QuietSelf DEF DropSlot

\* stopTurn.
LEMMA StopTurnQuiet ==
    ASSUME NEW h \in HostType
    PROVE  Quiet(h, StopTurn(h))
<1> DEFINE s == Schedule(EndTurn(h, "ended"), "terminal")
<1>1. Quiet(h, s)
  <2> DEFINE e == EndTurn(h, "ended")
  <2>1. Quiet(h, e) /\ e \in HostType
    BY EndTurnQuiet DEF Quiet, Outcome
  <2> HIDE DEF e
  <2>2. Quiet(h, Schedule(e, "terminal"))
    BY <2>1, ScheduleQuiet, QuietAgain
  <2>3. QED
    BY <2>2 DEF e
<1> HIDE DEF s
<1>2. Quiet(s, AwaitAck(s)) /\ Quiet(s, DropSlot(s, "dropped"))
  BY <1>1, AwaitAckQuiet, DropSlotQuiet DEF Quiet
<1>3. StopTurn(h) \in {s, AwaitAck(s), DropSlot(s, "dropped")}
  BY DEF StopTurn, s
<1>4. QED
  BY <1>1, <1>2, <1>3, QuietAgain

LEMMA CloseMoves ==
    ASSUME NEW h, Good(h)
    PROVE  Moves(h, Close(h), {})
<1>1. Moves(h, Rescue(h), {})
  BY RescueMoves
<1> DEFINE k == Rescue(h)
<1> HIDE DEF k
<1>2. Quiet(k, [k EXCEPT !.session = "closed"])
  BY <1>1, ZenonT(30) DEF k, Moves, Good, Quiet, HostType
<1>3. Moves(h, [k EXCEPT !.session = "closed"], {})
  BY <1>1, <1>2, MovesQuiet DEF k
<1>4. QED
  BY <1>3, MovesSelf DEF Close, k

LEMMA LateReceiptMoves ==
    ASSUME NEW h, Good(h)
    PROVE  Moves(h, LateReceipt(h), {})
<1>1. Quiet(h, DropSlot(h, "dropped"))
  BY DropSlotQuiet DEF Good
<1>2. Moves(DropSlot(h, "dropped"), PromoteNext(DropSlot(h, "dropped")), {})
  BY <1>1, QuietGood, PromoteNextMoves
<1>3. Moves(h, PromoteNext(DropSlot(h, "dropped")), {})
  BY <1>1, <1>2, QuietMoves
<1>4. QED
  BY <1>3, MovesSelf DEF LateReceipt

LEMMA TakeOverQuiet ==
    ASSUME NEW h \in HostType
    PROVE  Quiet(h, TakeOver(h))
<1>1. Quiet(h, [h EXCEPT !.preWarming = FALSE, !.timer = FALSE])
  BY DEF Quiet, HostType
<1>2. QED
  BY <1>1, QuietSelf DEF TakeOver

LEMMA SafetyNetQuiet ==
    ASSUME NEW h \in HostType
    PROVE  Quiet(h, SafetyNet(h))
<1>1. Quiet(h, [h EXCEPT !.timer = TRUE])
  BY DEF Quiet, HostType
<1>2. QED
  BY <1>1, QuietSelf DEF SafetyNet

LEMMA SafetyNetMoves ==
    ASSUME NEW h, NEW k, NEW S, Moves(h, k, S)
    PROVE  Moves(h, SafetyNet(k), S)
<1>1. Quiet(k, SafetyNet(k))
  BY SafetyNetQuiet DEF Moves, Good
<1>2. QED
  BY <1>1, MovesQuiet

\* The last words of a session.
LEMMA SessionEndsMoves ==
    ASSUME NEW h, Good(h)
    PROVE  Moves(h, SessionEnds(h), {})
<1> DEFINE t == [h EXCEPT !.session = "none", !.preWarming = FALSE,
                          !.timer = @ \/ (h.preWarming = h.aborting)]
           f == [t EXCEPT !.timer = FALSE]
           s == StartNext(f, "recovery")
           n == [t EXCEPT !.timer = TRUE]
<1>1. Quiet(h, t)
  BY ZenonT(30) DEF Good, Quiet, HostType
<1>2. SessionEnds(h) \in {t, s, n}
  BY DEF SessionEnds
<1> HIDE DEF t
<1>3. Quiet(t, f) /\ Quiet(t, n)
  BY <1>1, ZenonT(30) DEF Quiet, HostType
<1>4. Quiet(h, f) /\ Quiet(h, n)
  BY <1>1, <1>3, QuietAgain
<1> HIDE DEF f, n
<1>5. Moves(h, s, {})
  BY <1>4, QuietGood, StartNextMoves, QuietMoves
<1>6. Moves(h, t, {}) /\ Moves(h, n, {})
  BY <1>1, <1>4, QuietGood
<1>7. QED
  BY <1>2, <1>5, <1>6

(***************************************************************************)
(* Steps.                                                                  *)
(***************************************************************************)
\* What every step but the beginning of a call and the yield of a message does.
LEMMA StepKeeps ==
    ASSUME QInv, NEW S, Gives(host, host', S), Types',
           \A i \in Message : caller'[i] \in {caller[i], "done"},
           \A i \in S : /\ caller'[i] = "done" /\ i \notin yielded
                        /\ host.told[i] # "cancelled",
           \A i \in Message : host'.told[i] = "cancelled" =>
              \/ host.told[i] = "cancelled"
              \/ (i \notin Waiting(host') \cup Range(cli'.commands) /\ Sent(i)'),
           yielded' = yielded,
           Range(cli'.commands) \subseteq Range(cli.commands),
           IsInjective(cli'.commands),
           \A i \in Message : cancel'[i] = "yes" =>
              \/ cancel[i] = "yes"
              \/ (i \in yielded /\ i \notin Range(cli'.commands))
    PROVE  QInv'
<1>1. Waiting(host') \subseteq Waiting(host) \cup S
  BY DEF Gives, Waiting
<1>2. None \notin yielded /\ host'.ticket \in {host.ticket, None}
  BY TurnQueueAssumption DEF QInv, Types, Gives
<1>3. Given'
  <2>1. \A i \in Message : caller'[i] # "done" =>
          /\ caller[i] # "done" /\ caller'[i] = caller[i] /\ i \notin S
    OBVIOUS
  <2>2. \A i \in Message : caller'[i] # "done" =>
          /\ i \notin Active(host') \cup host'.ready \cup yielded'
          /\ i \in Range(host'.boundary) => caller'[i] = "reserved"
    BY <2>1 DEF QInv, Given, Gives
  <2>3. Waiting(host') \cap yielded' = {}
    BY <1>1 DEF QInv, Given
  <2>4. QED
    BY <1>2, <2>2, <2>3 DEF QInv, Given
<1>4. Cancelled'
  <2>1. ASSUME NEW i \in Message, host.told[i] = "cancelled"
        PROVE  i \notin Waiting(host') \cup Range(cli'.commands) /\ Sent(i)'
    BY <1>1, <2>1 DEF QInv, Cancelled, Sent
  <2>2. \A i \in Message : cancel'[i] = "yes" =>
           i \in yielded' /\ i \notin Range(cli'.commands)
    BY DEF QInv, Cancelled
  <2>3. QED
    BY <2>1, <2>2 DEF Cancelled
<1>5. QED
  BY <1>3, <1>4 DEF QInv, Gives

\* A handler that moves messages only, and leaves the subprocess's queue alone.
LEMMA HandlerKeeps ==
    ASSUME QInv, Moves(host, host', {}), Types', caller' = caller,
           yielded' = yielded,
           \A i \in Message : cancel'[i] = "yes" => cancel[i] = "yes",
           cli'.commands \in {cli.commands, <<>>}
    PROVE  QInv'
<1>1. Gives(host, host', {})
  BY DEF Moves, Gives
<1>2. Range(cli'.commands) \subseteq Range(cli.commands) /\ IsInjective(cli'.commands)
  BY Emptied DEF QInv, Given
<1>3. \A i \in Message : host'.told[i] = "cancelled" => host.told[i] = "cancelled"
  BY DEF Moves
<1>4. QED
  BY <1>1, <1>2, <1>3, StepKeeps

\* The end of enqueueUserMessage.
LEMMA PlaceKeeps ==
    ASSUME QInv, NEW i \in Message, caller[i] \notin {"new", "done"},
           caller' = [caller EXCEPT ![i] = "done"],
           Gives(host, host', {i}), host.told[i] # "cancelled",
           \A j \in Message : host'.told[j] = "cancelled" => host.told[j] = "cancelled",
           wasQueued' \subseteq Realtime, UNCHANGED <<sdk, tasks, troubles, yielded>>
    PROVE  QInv'
<1>1. Types'
  BY DEF QInv, Types, tasks, sdk
<1>2. \A j \in Message : caller'[j] = IF j = i THEN "done" ELSE caller[j]
  BY DEF QInv, Types
<1>3. i \notin yielded
  BY DEF QInv, Given
<1>4. cli' = cli /\ cancel' = cancel /\ yielded' = yielded
  BY DEF sdk, tasks
<1>5. IsInjective(cli'.commands)
  BY <1>4 DEF QInv, Given
<1>6. QED
  BY <1>1, <1>2, <1>3, <1>4, <1>5, StepKeeps

LEMMA MovesGives ==
    ASSUME NEW h, NEW n, NEW S, Moves(h, n, S)
    PROVE  /\ Gives(h, n, S)
           /\ \A j \in Message : n.told[j] = "cancelled" => h.told[j] = "cancelled"
  BY DEF Moves, Gives

\* A message that is put at the end of the reservations.
LEMMA ReservedGood ==
    ASSUME NEW h, Good(h), NEW i \in Message, i \notin Waiting(h)
    PROVE  LET n == [h EXCEPT !.boundary = Append(@, i)]
           IN /\ Good(n) /\ n.ready = h.ready /\ n.ticket = h.ticket
              /\ n.told = h.told
              /\ Range(n.boundary) = Range(h.boundary) \cup {i}
              /\ Active(n) = Active(h) /\ Waiting(n) = Waiting(h) \cup {i}
<1> DEFINE q == Append(h.boundary, i)
           n == [h EXCEPT !.boundary = q]
<1>1. /\ q \in Seq(Message) /\ Range(q) = Range(h.boundary) \cup {i} /\ IsInjective(q)
  BY Appended DEF Good, HostType, Apart, Waiting
<1>2. n = [h EXCEPT !.boundary = Append(@, i)]
  OBVIOUS
<1> HIDE DEF q
<1>3. /\ n \in HostType /\ n.message = h.message /\ n.pending = h.pending
      /\ n.boundary = q /\ n.gen = h.gen /\ n.ready = h.ready
      /\ n.epoch = h.epoch /\ n.resolver = h.resolver
      /\ n.session = h.session /\ n.ticket = h.ticket
      /\ n.promoted = h.promoted /\ n.told = h.told
  BY <1>1 DEF Good, HostType
<1> HIDE DEF n
<1>4. Active(n) = Active(h) /\ Waiting(n) = Waiting(h) \cup {i}
  BY <1>1, <1>3 DEF Active, Waiting
<1>5. Apart(n) /\ Held(n)
  <2>1. \A g \in Generator : h.gen[g].item # i
    BY TurnQueueAssumption DEF Waiting, Active, Generator
  <2>2. QED
    BY <1>1, <1>3, <2>1 DEF Good, Apart, Held, Waiting, Active
<1>6. QED
  BY <1>1, <1>2, <1>3, <1>4, <1>5 DEF Good

\* The reservation of a message is confirmed.
LEMMA ReadyGood ==
    ASSUME NEW h, Good(h), NEW i \in Message
    PROVE  LET n == [h EXCEPT !.ready = @ \cup {i}]
           IN /\ Good(n) /\ n.ready = h.ready \cup {i} /\ n.ticket = h.ticket
              /\ n.told = h.told /\ n.boundary = h.boundary
              /\ Active(n) = Active(h)
<1> DEFINE n == [h EXCEPT !.ready = @ \cup {i}]
<1>1. /\ n \in HostType /\ n.message = h.message /\ n.pending = h.pending
      /\ n.boundary = h.boundary /\ n.gen = h.gen
      /\ n.ready = h.ready \cup {i} /\ n.epoch = h.epoch
      /\ n.resolver = h.resolver /\ n.session = h.session
      /\ n.ticket = h.ticket /\ n.promoted = h.promoted /\ n.told = h.told
  BY ZenonT(40) DEF Good, HostType
<1> HIDE DEF n
<1>2. Good(n) /\ Active(n) = Active(h)
  BY <1>1 DEF Good, Apart, Held, Active
<1>3. QED
  BY <1>1, <1>2 DEF n

\* The first of the reservations is taken up if it can be.
LEMMA TakenUpMoves ==
    ASSUME NEW h, Good(h)
    PROVE  Moves(h, SafetyNet(StartNext(h, "recovery")), {})
  BY StartNextMoves, SafetyNetMoves

LEMMA BehindGives ==
    ASSUME NEW h, Good(h), NEW i \in Message, i \notin Waiting(h)
    PROVE  LET n == SafetyNet(StartNext(
                      [h EXCEPT !.boundary = Append(@, i), !.ready = @ \cup {i}],
                      "recovery"))
           IN /\ Gives(h, n, {i})
              /\ \A j \in Message : n.told[j] = "cancelled" => h.told[j] = "cancelled"
<1> DEFINE k == [h EXCEPT !.boundary = Append(@, i)]
           r == [k EXCEPT !.ready = @ \cup {i}]
           n == SafetyNet(StartNext(r, "recovery"))
<1>1. r = [h EXCEPT !.boundary = Append(@, i), !.ready = @ \cup {i}]
  BY DEF Good, HostType
<1>2. /\ Good(k) /\ k.ready = h.ready /\ k.ticket = h.ticket /\ k.told = h.told
      /\ Range(k.boundary) = Range(h.boundary) \cup {i} /\ Active(k) = Active(h)
  BY ReservedGood
<1> HIDE DEF k
<1>3. /\ Good(r) /\ r.ready = k.ready \cup {i} /\ r.ticket = k.ticket
      /\ r.told = k.told /\ r.boundary = k.boundary /\ Active(r) = Active(k)
  BY <1>2, ReadyGood
<1> HIDE DEF r
<1>4. Moves(r, n, {})
  BY <1>3, TakenUpMoves
<1> HIDE DEF n
<1>5. /\ Gives(h, n, {i})
      /\ \A j \in Message : n.told[j] = "cancelled" => h.told[j] = "cancelled"
  BY <1>2, <1>3, <1>4 DEF Moves, Gives
<1>6. QED
  BY <1>1, <1>5 DEF n

LEMMA PlaceDirectKeeps ==
    ASSUME QInv, NEW i \in Message, PlaceDirect(i)
    PROVE  QInv'
<1> DEFINE h == TakeOver(host)
<1>1. /\ Good(host) /\ i \notin Waiting(host) /\ host.told[i] # "cancelled"
      /\ caller[i] = "direct"
  BY DEF QInv, Given, Cancelled, Sent, PlaceDirect, Waiting
<1>2. Quiet(host, h) /\ Good(h) /\ i \notin Waiting(h)
  BY <1>1, TakeOverQuiet, QuietGood, QuietWaiting DEF Good
<1>3. host' = IF h.session # "none" THEN Wake(h, i)
              ELSE ReleaseTicket([h EXCEPT !.message = Append(@, i), !.starts = TRUE], i)
  BY DEF PlaceDirect
<1> HIDE DEF h
<1>4. CASE h.session # "none"
  <2>1. Moves(h, host', {i})
    BY <1>2, <1>3, <1>4, WakeMoves
  <2>2. Moves(host, host', {i})
    BY <1>1, <1>2, <2>1, QuietMoves
  <2>3. QED
    BY <1>1, <2>2, MovesGives, PlaceKeeps DEF PlaceDirect, Goto, Keep, QInv, Types
<1>5. CASE h.session = "none"
  <2> DEFINE a == [h EXCEPT !.message = Append(@, i)]
             b == [a EXCEPT !.starts = TRUE]
             c == ReleaseTicket(b, i)
  <2>1. Moves(h, a, {i})
    BY <1>2, AppendMoves
  <2>2. host' = c
    <3>1. b = [h EXCEPT !.message = Append(@, i), !.starts = TRUE]
      BY <1>2 DEF Good, HostType
    <3>2. QED
      BY <1>3, <1>5, <3>1
  <2> HIDE DEF a
  <2>3. Quiet(a, b)
    BY <2>1 DEF Moves, Good, Quiet, HostType
  <2> HIDE DEF b
  <2>4. Moves(h, b, {i})
    BY <2>1, <2>3, MovesQuiet
  <2>5. Quiet(b, c)
    BY <2>4, ReleaseTicketQuiet DEF Moves, Good
  <2> HIDE DEF c
  <2>6. Moves(host, c, {i})
    BY <1>1, <1>2, <2>4, <2>5, MovesQuiet, QuietMoves
  <2>7. QED
    BY <1>1, <2>2, <2>6, MovesGives, PlaceKeeps, ZenonT(30) DEF PlaceDirect, Goto, Keep, QInv, Types
<1>6. QED
  BY <1>4, <1>5

\* The place of a message that has no reservation, in a record that a handler which
\* leaves the queues alone has left.
LEMMA PlaceGives ==
    ASSUME NEW h, Good(h), NEW i \in Message, i \notin Waiting(h), Place(h, i)
    PROVE  /\ Gives(h, host', {i})
           /\ \A j \in Message : host'.told[j] = "cancelled" => h.told[j] = "cancelled"
<1>1. CASE Full(h)
  <2>1. Moves(h, Tell(h, {i}, "failed"), {i})
    BY TellQuiet, QuietGood, MovesMore DEF Good, Outcome
  <2>2. host' = Tell(h, {i}, "failed")
    BY <1>1 DEF Place
  <2>3. QED
    BY <2>1, <2>2, MovesGives
<1>2. CASE ~Full(h) /\ GoesBehind(h, i)
  <2>1. host' = SafetyNet(StartNext(
                  [h EXCEPT !.boundary = Append(@, i), !.ready = @ \cup {i}],
                  "recovery"))
    BY <1>2 DEF Place
  <2>2. QED
    BY <2>1, BehindGives
<1>3. CASE ~Full(h) /\ ~GoesBehind(h, i)
  <2> DEFINE n == IF h.slot # None THEN [h EXCEPT !.pending = Append(@, i)]
                  ELSE IF h.resolver # None THEN Wake(TakeSlot(h, i), i)
                  ELSE [h EXCEPT !.message = Append(@, i)]
  <2>1. i \in Realtime
    BY <1>3 DEF GoesBehind, Message
  <2>2. Quiet(h, TakeSlot(h, i)) /\ Good(TakeSlot(h, i))
    BY TakeSlotQuiet, QuietGood DEF Good
  <2>3. i \notin Waiting(TakeSlot(h, i))
    BY <2>2, QuietWaiting
  <2>4. Moves(TakeSlot(h, i), Wake(TakeSlot(h, i), i), {i})
    BY <2>2, <2>3, WakeMoves
  <2>5. Moves(h, Wake(TakeSlot(h, i), i), {i})
    BY <2>2, <2>4, QuietMoves
  <2>6. Moves(h, n, {i})
    BY <2>1, <2>5, PendMoves, AppendMoves
  <2>7. host' = SafetyNet(n)
    BY <1>3 DEF Place
  <2> HIDE DEF n
  <2>8. QED
    BY <2>6, <2>7, SafetyNetMoves, MovesGives
<1>4. QED
  BY <1>1, <1>2, <1>3

LEMMA PlaceUnreservedKeeps ==
    ASSUME QInv, NEW i \in Message, caller[i] \in {"busy", "held"},
           NEW h, Quiet(host, h), Place(h, i)
    PROVE  QInv'
<1>1. /\ Good(host) /\ i \notin Waiting(host) /\ host.told[i] # "cancelled"
  BY DEF QInv, Given, Cancelled, Sent, Waiting
<1>2. Good(h) /\ i \notin Waiting(h)
  BY <1>1, QuietGood, QuietWaiting
<1>3. /\ Gives(h, host', {i})
      /\ \A j \in Message : host'.told[j] = "cancelled" => h.told[j] = "cancelled"
  BY <1>2, PlaceGives
<1>4. /\ Gives(host, host', {i})
      /\ \A j \in Message : host'.told[j] = "cancelled" => host.told[j] = "cancelled"
  BY <1>3, QuietWaiting DEF Quiet, Gives
<1>5. caller' = [caller EXCEPT ![i] = "done"] /\ UNCHANGED <<sdk, tasks, troubles, yielded>>
  BY DEF Place, Goto, Keep
<1>6. wasQueued' \subseteq Realtime
  <2>1. wasQueued' = wasQueued \/ (wasQueued' = wasQueued \cup {i} /\ ~GoesBehind(h, i))
    BY DEF Place
  <2>2. QED
    BY <2>1 DEF GoesBehind, Message, QInv, Types
<1>7. QED
  BY <1>1, <1>4, <1>5, <1>6, PlaceKeeps

LEMMA PlaceAtOnceKeeps ==
    ASSUME QInv, NEW i \in Message, PlaceAtOnce(i)
    PROVE  QInv'
<1>1. Quiet(host, TakeOver(host))
  BY TakeOverQuiet DEF QInv, Good
<1>2. caller[i] = "busy" /\ Place(TakeOver(host), i)
  BY DEF PlaceAtOnce
<1>3. QED
  BY <1>1, <1>2, PlaceUnreservedKeeps

LEMMA PlaceHeldKeeps ==
    ASSUME QInv, NEW i \in Message, PlaceHeld(i)
    PROVE  QInv'
<1>1. Quiet(host, host)
  BY QuietSelf DEF QInv, Good
<1>2. caller[i] = "held" /\ Place(host, i)
  BY DEF PlaceHeld
<1>3. QED
  BY <1>1, <1>2, PlaceUnreservedKeeps

LEMMA PlaceReservedKeeps ==
    ASSUME QInv, NEW i \in Message, PlaceReserved(i)
    PROVE  QInv'
<1>1. Good(host) /\ caller[i] = "reserved"
  BY DEF QInv, PlaceReserved
<1>2. CASE ~Contains(host.boundary, i)
  <2>1. host' = host
    BY <1>2 DEF PlaceReserved
  <2>2. Types'
    BY DEF PlaceReserved, Goto, Keep, QInv, Types, sdk, tasks
  <2>3. /\ \A j \in Message : caller'[j] \in {caller[j], "done"}
        /\ cli' = cli /\ cancel' = cancel /\ yielded' = yielded
    BY DEF PlaceReserved, Goto, Keep, QInv, Types, sdk, tasks
  <2>4. Gives(host, host', {})
    BY <1>1, <2>1 DEF Gives
  <2>5. IsInjective(cli'.commands)
    BY <2>3 DEF QInv, Given
  <2>6. QED
    BY <2>1, <2>2, <2>3, <2>4, <2>5, StepKeeps
<1>3. CASE Contains(host.boundary, i)
  <2> DEFINE k == [host EXCEPT !.ready = @ \cup {i}]
  <2>1. i \in Waiting(host)
    BY <1>1, <1>3, RangeIn DEF Good, HostType, Waiting
  <2>2. host.told[i] # "cancelled"
    BY <2>1 DEF QInv, Cancelled
  <2>3. /\ Good(k) /\ k.ready = host.ready \cup {i} /\ k.ticket = host.ticket
        /\ k.told = host.told /\ k.boundary = host.boundary
        /\ Active(k) = Active(host)
    BY <1>1, ReadyGood
  <2>4. host' = SafetyNet(StartNext(k, "recovery"))
    BY <1>3 DEF PlaceReserved
  <2> HIDE DEF k
  <2>5. Moves(k, host', {})
    BY <2>3, <2>4, TakenUpMoves
  <2>6. /\ Gives(host, host', {i})
        /\ \A j \in Message : host'.told[j] = "cancelled" => host.told[j] = "cancelled"
    BY <2>3, <2>5 DEF Moves, Gives
  <2>7. QED
    BY <1>1, <2>2, <2>6, PlaceKeeps DEF PlaceReserved, Goto, Keep, QInv, Types
<1>4. QED
  BY <1>2, <1>3

(***************************************************************************)
(* The generator's steps.                                                  *)
(***************************************************************************)
LEMMA HandlerStep ==
    ASSUME QInv, Moves(host, host', {}), UNCHANGED <<cli, yielded>>, KeepGen
    PROVE  QInv'
<1>1. Types' /\ caller' = caller /\ cancel' = cancel /\ yielded' = yielded /\ cli' = cli
  BY DEF KeepGen, tasks, QInv, Types
<1>2. QED
  BY <1>1, HandlerKeeps

\* A generator that has a message is not the one that waits, nor to be started.
LEMMA BusyFree ==
    ASSUME NEW h, Good(h), NEW g \in Generator,
           h.gen[g].pc \in {"promoted", "admitted"}
    PROVE  /\ Free(h, g) /\ h.gen[g].item \in Active(h) /\ h.gen[g].item \in Message
           /\ h.gen[g].pc = "admitted" /\ h.promoted # None
                => h.promoted # h.gen[g].item
<1>1. h.gen[g].item \in Message
  BY HostFacts DEF Good
<1>2. Free(h, g)
  BY DEF Free, Good, Held, HostType
<1>3. h.gen[g].item \in Active(h)
  BY <1>1, TurnQueueAssumption DEF Active, Generator
<1>4. ASSUME h.gen[g].pc = "admitted", h.promoted # None, h.promoted = h.gen[g].item
      PROVE  FALSE
  <2>1. PICK f \in Generator : h.gen[f] = [pc |-> "promoted", item |-> h.promoted]
    BY <1>4 DEF Good, Held
  <2>2. f # g /\ h.gen[f].item = h.gen[g].item
    BY <1>4, <2>1
  <2>3. QED
    BY <1>1, <2>2, TurnQueueAssumption DEF Good, Apart, Generator
<1>5. QED
  BY <1>1, <1>2, <1>3, <1>4

LEMMA RequeueKeeps ==
    ASSUME QInv, NEW g \in Generator, Requeue(g)
    PROVE  QInv'
<1> DEFINE i == host.gen[g].item
           a == ClearSlotOf(host, i)
           b == ClearPromoted(a, i)
           k == [b EXCEPT !.gen[g] = Gone]
           n == [k EXCEPT !.message = <<i>> \o @]
<1>1. Good(host) /\ GenAt(g, "promoted")
  BY DEF QInv, Requeue
<1>2. Free(host, g) /\ i \in Active(host) /\ i \in Message
  BY <1>1, BusyFree DEF GenAt
<1>3. Quiet(host, a)
  BY <1>1, ClearSlotQuiet, QuietSelf DEF Good, ClearSlotOf
<1>4. a \in HostType
  BY <1>3 DEF Quiet
<1>5. Quiet(a, b) /\ b.promoted # i
  BY <1>2, <1>4, ClearPromotedQuiet, TurnQueueAssumption, ZenonT(30) DEF ClearPromoted, HostType
<1>6. Quiet(host, b)
  BY <1>3, <1>5, QuietAgain
<1>7. host' = n
  <2> HIDE DEF i
  <2>1. b \in HostType
    BY <1>5 DEF Quiet
  <2> HIDE DEF b
  <2>2. n = [b EXCEPT !.message = <<i>> \o @, !.gen[g] = Gone]
    BY <2>1 DEF HostType
  <2>3. QED
    BY <2>2 DEF Requeue, i, b, a
<1> HIDE DEF a, b
<1>8. b.gen[g].item = i /\ Free(b, g)
  BY <1>1, <1>2, <1>6 DEF Quiet, Free, GenAt
<1>9. Moves(b, k, {}) /\ i \notin Waiting(k)
  BY <1>1, <1>5, <1>6, <1>8, QuietGood, LeaveMoves
<1> HIDE DEF i, k
<1>10. Moves(host, k, {})
  BY <1>1, <1>6, <1>9, QuietMoves
<1>11. Moves(k, n, {i})
  BY <1>2, <1>9, PrependMoves DEF Moves
<1>12. Moves(host, host', {})
  BY <1>2, <1>7, <1>10, <1>11, MovesBack
<1>13. QED
  BY <1>12, HandlerStep DEF Requeue

\* The admission of a message that has given its ticket back.
LEMMA AdmitMoves ==
    ASSUME NEW h, Good(h), NEW g \in Generator, h.gen[g].pc = "promoted",
           h.ticket # h.gen[g].item, h.promoted # h.gen[g].item
    PROVE  Moves(h, [h EXCEPT !.gen[g].pc = "admitted"], {})
<1> DEFINE n == [h EXCEPT !.gen[g].pc = "admitted"]
           s == [pc |-> "admitted", item |-> h.gen[g].item]
<1>1. h.gen[g].item \in Message /\ s \in GenState
  BY HostFacts DEF Good, GenState
<1>2. [h.gen[g] EXCEPT !.pc = "admitted"] = s
  BY SMTT(20) DEF Good, HostType, GenState
<1> DEFINE gen == [h.gen EXCEPT ![g] = s]
<1>3. gen \in [Generator -> GenState] /\ \A f \in Generator :
                                            gen[f] = IF f = g THEN s ELSE h.gen[f]
  BY <1>1 DEF Good, HostType
<1>4. n = [h EXCEPT !.gen = gen]
  BY <1>2 DEF Good, HostType
<1> HIDE DEF gen
<1>5. /\ n \in HostType
      /\ n.message = h.message /\ n.pending = h.pending /\ n.boundary = h.boundary
      /\ n.ready = h.ready /\ n.epoch = h.epoch /\ n.resolver = h.resolver
      /\ n.session = h.session /\ n.ticket = h.ticket /\ n.promoted = h.promoted
      /\ n.told = h.told /\ n.gen = gen
  BY <1>3, <1>4 DEF Good, HostType
<1> HIDE DEF n
<1>6. \A f \in Generator : n.gen[f] = IF f = g THEN s ELSE h.gen[f]
  BY <1>3, <1>5
<1>7. Apart(n) /\ Active(n) = Active(h)
  <2>1. \A f \in Generator : n.gen[f].item = h.gen[f].item
    BY <1>6
  <2>2. QED
    BY <1>5, <2>1 DEF Good, Apart, Active, Generator
<1>8. Held(n)
  <2>1. n.session = "spawning" => n.gen[1 - n.epoch].pc = "gone"
    BY <1>5, <1>6 DEF Good, Held, HostType, Generator
  <2>2. n.promoted # None =>
          \E f \in Generator : n.gen[f] = [pc |-> "promoted", item |-> n.promoted]
    BY <1>5, <1>6 DEF Good, Held
  <2>3. n.resolver # None => n.gen[n.resolver].pc = "parked"
    <3>1. h.resolver # None =>
            h.resolver \in Generator /\ h.gen[h.resolver].pc = "parked"
      BY DEF Good, Held, HostType
    <3>2. QED
      BY <1>5, <1>6, <3>1
  <2>4. \A f \in Generator : n.gen[f].pc = "admitted" => n.ticket # n.gen[f].item
    BY <1>5, <1>6 DEF Good, Held
  <2>5. QED
    BY <2>1, <2>2, <2>3, <2>4 DEF Held
<1>9. QED
  BY <1>5, <1>7, <1>8 DEF Moves, Good, n

LEMMA AdmitKeeps ==
    ASSUME QInv, NEW g \in Generator, Admit(g)
    PROVE  QInv'
<1> DEFINE i == host.gen[g].item
           a == IF i \in wasQueued /\ host.slot = None THEN TakeSlot(host, i) ELSE host
           b == ClearPromoted(a, i)
           c == ReleaseTicket(b, i)
           k == [c EXCEPT !.gen[g].pc = "admitted"]
           n == [k EXCEPT !.source = i, !.streaming = TRUE,
                          !.timer = @ /\ ~host.preWarming, !.preWarming = FALSE]
<1>1. Good(host) /\ GenAt(g, "promoted")
  BY DEF QInv, Admit
<1>2. i \in Message
  BY <1>1, BusyFree DEF GenAt
<1>3. Quiet(host, a)
  BY <1>1, <1>2, TakeSlotQuiet, QuietSelf DEF Good
<1>4. a \in HostType
  BY <1>3 DEF Quiet
<1> HIDE DEF a
<1>5. Quiet(a, b) /\ b.promoted # i
  BY <1>2, <1>4, ClearPromotedQuiet, TurnQueueAssumption, ZenonT(30) DEF ClearPromoted, HostType
<1>6. b \in HostType
  BY <1>5 DEF Quiet
<1>7. b.promoted = c.promoted /\ c.ticket # i
  BY <1>2, <1>6, TurnQueueAssumption DEF ReleaseTicket, HostType
<1> HIDE DEF b
<1>8. Quiet(b, c)
  BY <1>6, ReleaseTicketQuiet
<1>9. Quiet(host, c)
  BY <1>3, <1>5, <1>8, QuietAgain
<1>10. host' = n
  <2>1. c \in HostType
    BY <1>8 DEF Quiet
  <2>2. n = [c EXCEPT !.source = i, !.streaming = TRUE,
                      !.timer = @ /\ ~host.preWarming,
                      !.preWarming = FALSE, !.gen[g].pc = "admitted"]
    <3> HIDE DEF c, i
    <3>1. QED
      BY <2>1 DEF HostType
  <2>3. QED
    BY <2>2 DEF Admit, a, b
<1> HIDE DEF c
<1>11. Good(c) /\ c.gen = host.gen
  BY <1>1, <1>9, QuietGood DEF Quiet
<1>12. Moves(c, k, {})
  BY <1>1, <1>5, <1>7, <1>11, AdmitMoves DEF GenAt
<1> HIDE DEF k
<1>13. Quiet(k, n)
  <2>1. k \in HostType /\ i \in Location
    BY <1>2, <1>12 DEF Moves, Good, Location
  <2> HIDE DEF i
  <2>2. QED
    BY <2>1, ZenonT(30) DEF Quiet, HostType
<1>14. Moves(host, host', {})
  BY <1>1, <1>9, <1>10, <1>12, <1>13, QuietMoves, MovesQuiet
<1>15. QED
  BY <1>14, HandlerStep DEF Admit

LEMMA GiveUpKeeps ==
    ASSUME QInv, NEW g \in Generator, GiveUp(g)
    PROVE  QInv'
<1>1. Good(host) /\ GenAt(g, "admitted")
  BY DEF QInv, GiveUp
<1>2. Moves(host, host', {})
  BY <1>1, BusyFree, LeaveMoves DEF GiveUp, GenAt
<1>3. QED
  BY <1>2, HandlerStep DEF GiveUp

LEMMA YieldKeeps ==
    ASSUME QInv, NEW g \in Generator, Yield(g)
    PROVE  QInv'
<1> DEFINE i == host.gen[g].item
<1>1. Good(host) /\ GenAt(g, "admitted")
  BY DEF QInv, Yield
<1>2. /\ Free(host, g) /\ i \in Active(host) /\ i \in Message
      /\ host.promoted # None => host.promoted # i
      /\ host.ticket # i
  BY <1>1, BusyFree DEF GenAt, Good, Held
<1>3. Moves(host, host', {}) /\ i \notin Waiting(host')
  <2> DEFINE w == WaitForMessage(host, g)
             k == [host EXCEPT !.gen[g] = Gone]
  <2>1. Moves(host, w, {}) /\ i \notin Waiting(w)
    BY <1>1, <1>2, NextMessageMoves
  <2>2. Moves(host, k, {}) /\ i \notin Waiting(k)
    BY <1>1, <1>2, LeaveMoves
  <2>3. host' \in {w, k}
    BY DEF Yield
  <2> HIDE DEF w, k
  <2>4. QED
    BY <2>1, <2>2, <2>3
<1>4. i \notin yielded /\ caller[i] = "done" /\ i \in Waiting(host)
  BY <1>2 DEF QInv, Given, Waiting
<1>5. /\ yielded' = yielded \cup {i}
      /\ cli' \in {cli, [cli EXCEPT !.commands = Append(@, i)]}
      /\ caller' = caller /\ cancel' = cancel
  BY DEF Yield, tasks
<1>6. /\ Append(cli.commands, i) \in Seq(Message)
      /\ Range(Append(cli.commands, i)) = Range(cli.commands) \cup {i}
      /\ IsInjective(Append(cli.commands, i))
  BY <1>2, <1>4, Appended DEF QInv, Types, Given
<1>7. /\ cli'.commands \in {cli.commands, Append(cli.commands, i)}
      /\ cli' \in [pc : {"idle", "run", "said", "exited", "dead"},
                   commands : Seq(Message)]
  BY <1>5, <1>6 DEF QInv, Types
<1>8. Types'
  BY <1>2, <1>5, <1>7 DEF Yield, tasks, QInv, Types
<1>9. Waiting(host') \subseteq Waiting(host) \ {i}
  BY <1>3 DEF Moves, Waiting
<1>10. Given'
  <2>1. IsInjective(cli'.commands) /\ Range(cli'.commands) \subseteq yielded'
    BY <1>5, <1>6, <1>7 DEF QInv, Given
  <2>2. Waiting(host') \cap yielded' = {}
    BY <1>5, <1>9 DEF QInv, Given
  <2>3. host'.ticket \notin yielded'
    BY <1>2, <1>3, <1>5, TurnQueueAssumption DEF QInv, Given, Moves, Types
  <2>4. ASSUME NEW j \in Message, caller'[j] # "done"
        PROVE  /\ j \notin Active(host') \cup host'.ready \cup yielded'
               /\ j \in Range(host'.boundary) => caller'[j] = "reserved"
    BY <1>3, <1>4, <1>5, <2>4 DEF QInv, Given, Moves
  <2>5. QED
    BY <2>1, <2>2, <2>3, <2>4 DEF Given
<1>11. Cancelled'
  <2>1. ASSUME NEW j \in Message, host'.told[j] = "cancelled"
        PROVE  j \notin Waiting(host') \cup Range(cli'.commands) /\ Sent(j)'
    <3>1. host.told[j] = "cancelled"
      BY <1>3, <2>1 DEF Moves
    <3>2. /\ j \notin Waiting(host) /\ j \notin Range(cli.commands) /\ Sent(j)
          /\ j # i
      BY <1>4, <3>1 DEF QInv, Cancelled
    <3>3. QED
      BY <1>5, <1>6, <1>7, <1>9, <3>2 DEF Sent
  <2>2. ASSUME NEW j \in Message, cancel'[j] = "yes"
        PROVE  j \in yielded' /\ j \notin Range(cli'.commands)
    BY <1>4, <1>5, <1>6, <1>7, <2>2 DEF QInv, Cancelled
  <2>3. QED
    BY <2>1, <2>2 DEF Cancelled
<1>12. QED
  BY <1>3, <1>8, <1>10, <1>11 DEF QInv, Moves

(***************************************************************************)
(* The subprocess's steps, and those of the loop that reads it.            *)
(***************************************************************************)
\* The session's host does nothing, and the subprocess takes a command at most.
LEMMA CommandsKeep ==
    ASSUME QInv, host' = host, caller' = caller, yielded' = yielded, Types',
           Range(cli'.commands) \subseteq Range(cli.commands),
           IsInjective(cli'.commands),
           \A i \in Message : cancel'[i] = "yes" =>
              \/ cancel[i] = "yes"
              \/ (i \in yielded /\ i \notin Range(cli'.commands))
    PROVE  QInv'
<1>1. Gives(host, host', {})
  BY DEF QInv, Gives
<1>2. QED
  BY <1>1, StepKeeps

LEMMA CommandTaken ==
    ASSUME QInv, cli.commands # <<>>, NEW p \in {"idle", "run", "said"},
           cli' = [pc |-> p, commands |-> Tail(cli.commands)], KeepHost
    PROVE  QInv'
<1>1. /\ Tail(cli.commands) \in Seq(Message) /\ IsInjective(Tail(cli.commands))
      /\ Range(Tail(cli.commands)) \subseteq Range(cli.commands)
  BY Shortened DEF QInv, Types, Given
<1>2. Types'
  BY <1>1 DEF KeepHost, sending, tasks, QInv, Types
<1>3. QED
  BY <1>1, <1>2, CommandsKeep DEF KeepHost, sending, tasks

LEMMA CliKeeps ==
    ASSUME QInv, CliStarts \/ CliDrains \/ CliAnswers \/ CliEndsTurn \/ CliExits
    PROVE  QInv'
<1>0. cli \in [pc : {"idle", "run", "said", "exited", "dead"}, commands : Seq(Message)]
  BY DEF QInv, Types
<1>1. CASE CliStarts
  BY <1>1, CommandTaken DEF CliStarts
<1>2. CASE CliDrains
  <2>1. cli' = [pc |-> cli.pc, commands |-> Tail(cli.commands)]
    BY <1>0, <1>2 DEF CliDrains
  <2>2. QED
    BY <1>2, <2>1, CommandTaken DEF CliDrains, Running
<1>3. CASE CliAnswers \/ CliEndsTurn \/ CliExits
  <2>1. /\ cli'.commands = cli.commands /\ KeepHost
        /\ cli' \in [pc : {"idle", "run", "said", "exited", "dead"},
                     commands : Seq(Message)]
    BY <1>0, <1>3 DEF CliAnswers, CliEndsTurn, CliExits
  <2>2. Types'
    BY <2>1 DEF KeepHost, sending, tasks, QInv, Types
  <2>3. IsInjective(cli'.commands)
    BY <2>1 DEF QInv, Given
  <2>4. QED
    BY <2>1, <2>2, <2>3, CommandsKeep DEF KeepHost, sending, tasks
<1>4. QED
  BY <1>1, <1>2, <1>3

LEMMA CliInterruptedKeeps ==
    ASSUME QInv, CliInterrupted
    PROVE  QInv'
<1>1. /\ cli'.commands = cli.commands
      /\ cli' \in [pc : {"idle", "run", "said", "exited", "dead"},
                   commands : Seq(Message)]
  BY DEF CliInterrupted, QInv, Types
<1>2. stop' \in StopRecord
  <2>1. PICK gone \in BOOLEAN : stop' = [stop EXCEPT !.pc = "answered", !.gone = gone]
    BY DEF CliInterrupted
  <2>2. stop \in StopRecord
    BY DEF QInv, Types
  <2>3. QED
    BY <2>1, <2>2 DEF StopRecord
<1>3. Types'
  BY <1>1, <1>2 DEF CliInterrupted, KeepStop, sending, QInv, Types
<1>4. IsInjective(cli'.commands)
  BY <1>1 DEF QInv, Given
<1>5. QED
  BY <1>1, <1>3, <1>4, CommandsKeep DEF CliInterrupted, KeepStop, sending

LEMMA CliCancelsKeeps ==
    ASSUME QInv, NEW i \in Message, CliCancels(i)
    PROVE  QInv'
<1>1. /\ cli.commands \in Seq(Message) /\ IsInjective(cli.commands)
      /\ Range(cli.commands) \subseteq yielded
  BY DEF QInv, Types, Given
<1> DEFINE q == RemoveFirst(cli.commands, i)
<1>2. q \in Seq(Message) /\ IsInjective(q) /\ Range(q) = Range(cli.commands) \ {i}
  BY <1>1, Removed
<1> HIDE DEF q
<1>3. /\ cli'.commands = q
      /\ cli' \in [pc : {"idle", "run", "said", "exited", "dead"},
                   commands : Seq(Message)]
  BY <1>2 DEF CliCancels, q, QInv, Types
<1>4. Contains(cli.commands, i) => i \in yielded
  BY <1>1, RangeIn
<1>5. \A j \in Message : cancel'[j] = "yes" =>
         cancel[j] = "yes" \/ (j = i /\ i \in yielded)
  BY <1>4 DEF CliCancels, QInv, Types
<1>6. Types'
  BY <1>3 DEF CliCancels, sending, QInv, Types
<1>7. QED
  BY <1>2, <1>3, <1>5, <1>6, CommandsKeep DEF CliCancels, sending

\* A handler of the host: the subprocess, callers and cancellations stay.
LEMMA LoopStep ==
    ASSUME QInv, Moves(host, host', {}), Types',
           UNCHANGED <<cli, caller, yielded, cancel>>
    PROVE  QInv'
  BY HandlerKeeps

LEMMA ReadKeeps ==
    ASSUME QInv, ReadAssistant \/ ReadResult \/ \E i \in Message : ReadReplay(i)
    PROVE  QInv'
<1>1. Good(host) /\ host \in HostType /\ host.slot \in Location
  BY DEF QInv, Good, HostType
<1>2. CASE \E i \in Message : ReadReplay(i)
  <2>1. Types' /\ host' = host /\ UNCHANGED <<cli, caller, yielded, cancel>>
    BY <1>2 DEF ReadReplay, KeepLoop, sending, QInv, Types, Location
  <2>2. QED
    BY <1>1, <2>1, MovesSelf, LoopStep
<1>3. CASE ReadAssistant
  <2>1. Quiet(host, host')
    BY <1>1, <1>3 DEF ReadAssistant, Quiet, HostType
  <2>2. Types' /\ UNCHANGED <<cli, caller, yielded, cancel>>
    BY <1>1, <1>3 DEF ReadAssistant, KeepLoop, sending, QInv, Types, Location
  <2>3. QED
    BY <1>1, <2>1, <2>2, QuietGood, LoopStep
<1>4. CASE ReadResult
  <2> DEFINE how == IF Stopping THEN "ended" ELSE "completed"
             h == EndTurn(host, how)
  <2>1. Quiet(host, h)
    <3>1. how \in Outcome \ {"cancelled"}
      BY DEF Outcome
    <3> HIDE DEF how
    <3>2. QED
      BY <1>1, <3>1, EndTurnQuiet
  <2>2. host' \in {h, DropSlot(h, "dropped"), AwaitAck(h)}
    <3> HIDE DEF h
    <3>1. host' = IF h.slot = None THEN h
                  ELSE IF TargetIsGone /\ stop.target = h.slot THEN DropSlot(h, "dropped")
                  ELSE AwaitAck(h)
      BY <1>4 DEF ReadResult, h
    <3>2. QED
      BY <3>1
  <2>3. h \in HostType
    BY <2>1 DEF Quiet
  <2> HIDE DEF h
  <2>4. Quiet(h, DropSlot(h, "dropped")) /\ Quiet(h, AwaitAck(h))
    BY <2>3, DropSlotQuiet, AwaitAckQuiet
  <2>5. Quiet(host, host')
    BY <2>1, <2>2, <2>4, QuietAgain
  <2>6. stop' \in StopRecord
    BY <1>4 DEF ReadResult, QInv, Types, StopRecord
  <2>7. Types' /\ UNCHANGED <<cli, caller, yielded, cancel>>
    BY <1>4, <2>6 DEF ReadResult, KeepLoop, sending, QInv, Types
  <2>8. QED
    BY <1>1, <2>5, <2>7, QuietGood, LoopStep
<1>5. QED
  BY <1>2, <1>3, <1>4

LEMMA DrainKeeps ==
    ASSUME QInv, NEW reason \in {"terminal", "recovery"}, Drain(reason)
    PROVE  QInv'
<1> DEFINE k == [host EXCEPT !.drain = @ \ {reason}]
           p == PromoteNext(k)
<1>1. Good(host)
  BY DEF QInv
<1>2. Quiet(host, k)
  BY <1>1 DEF Good, Quiet, HostType
<1> HIDE DEF k
<1>3. Moves(k, p, {})
  BY <1>1, <1>2, QuietGood, PromoteNextMoves
<1>4. Moves(host, p, {})
  BY <1>1, <1>2, <1>3, QuietMoves
<1> HIDE DEF p
<1>5. Moves(p, StartNext(p, reason), {})
  BY <1>4, StartNextMoves DEF Moves
<1>6. Moves(host, StartNext(p, reason), {})
  BY <1>4, <1>5, MovesAgain
<1>7. host' = StartNext(p, reason)
  BY DEF Drain, k, p
<1>8. Types' /\ UNCHANGED <<cli, caller, yielded, cancel>>
  BY DEF Drain, sdk, sending, tasks, QInv, Types
<1>9. QED
  BY <1>6, <1>7, <1>8, LoopStep

LEMMA TurnEndPersistedKeeps ==
    ASSUME QInv, TurnEndPersisted
    PROVE  QInv'
<1>1. Moves(host, host', {})
  BY ScheduleQuiet, QuietGood DEF QInv, Good, TurnEndPersisted
<1>2. Types' /\ UNCHANGED <<cli, caller, yielded, cancel>>
  BY DEF TurnEndPersisted, sdk, sending, QInv, Types
<1>3. QED
  BY <1>1, <1>2, LoopStep

LEMMA SurfacedKeeps ==
    ASSUME QInv, NEW i \in Message, Surfaced(i)
    PROVE  QInv'
<1>1. Quiet(host, ClearSlot(host)) /\ Good(ClearSlot(host))
  BY ClearSlotQuiet, QuietGood DEF QInv, Good
<1>2. Moves(host, PromoteNext(ClearSlot(host)), {})
  BY <1>1, PromoteNextMoves, QuietMoves DEF QInv
<1>3. Types' /\ UNCHANGED <<cli, caller, yielded, cancel>>
  BY DEF Surfaced, sdk, sending, QInv, Types, Location
<1>4. QED
  BY <1>2, <1>3, LoopStep DEF Surfaced

(***************************************************************************)
(* A stop of the turn.                                                     *)
(***************************************************************************)
LEMMA StopKeeps ==
    ASSUME QInv, Stop
    PROVE  QInv'
<1>1. Good(host) /\ host.slot \in Location
  BY DEF QInv, Good, HostType
<1>2. Moves(host, StopTurn(host), {}) /\ Moves(host, host, {})
  BY <1>1, StopTurnQuiet, QuietGood, MovesSelf DEF Good
<1>3. host' \in {host, StopTurn(host)}
  BY DEF Stop
<1>4. stop' \in StopRecord
  BY <1>1, ZenonT(30) DEF Stop, NoStop, QInv, Types, StopRecord, Location
<1>5. troubles' \in 0..MaxTroubles
  BY TurnQueueAssumption DEF Stop, Trouble, QInv, Types
<1>6. Types' /\ UNCHANGED <<cli, caller, yielded, cancel>>
  BY <1>4, <1>5 DEF Stop, KeepStop, sdk, sending, QInv, Types
<1>7. QED
  BY <1>2, <1>3, <1>6, LoopStep

LEMMA ReceiptReadKeeps ==
    ASSUME QInv, ReceiptRead
    PROVE  QInv'
<1>1. \A i \in Message : cancel'[i] = "yes" => cancel[i] = "yes"
  BY DEF ReceiptRead, QInv, Types
<1>2. Types' /\ UNCHANGED <<host, cli, caller, yielded>>
  BY DEF ReceiptRead, KeepStop, sdk, sending, QInv, Types, StopRecord
<1>3. Moves(host, host', {})
  BY <1>2, MovesSelf DEF QInv
<1>4. QED
  BY <1>1, <1>2, <1>3, HandlerKeeps

LEMMA StopGoesOnKeeps ==
    ASSUME QInv, StopCancelled \/ StopEnds
    PROVE  QInv'
<1> DEFINE h == LateReceipt(host)
<1>1. Moves(host, h, {}) /\ Moves(host, host, {}) /\ Good(host)
  BY LateReceiptMoves, MovesSelf DEF QInv
<1>2. host' \in {host, h, StopTurn(h), StopTurn(host)}
  BY DEF StopCancelled, StopEnds
<1> HIDE DEF h
<1>3. Quiet(h, StopTurn(h)) /\ Quiet(host, StopTurn(host))
  BY <1>1, StopTurnQuiet DEF Moves, Good
<1>4. Moves(host, StopTurn(h), {}) /\ Moves(host, StopTurn(host), {})
  BY <1>1, <1>3, MovesQuiet
<1>5. stop' \in StopRecord
  <2>1. NoStop \in StopRecord /\ [stop EXCEPT !.pc = "waiting"] \in StopRecord
    BY DEF NoStop, QInv, Types, StopRecord, Location
  <2>2. stop' \in {NoStop, [stop EXCEPT !.pc = "waiting"]}
    BY DEF StopCancelled, StopEnds
  <2>3. QED
    BY <2>1, <2>2
<1>6. Types' /\ UNCHANGED <<cli, caller, yielded, cancel>>
  BY <1>5 DEF StopCancelled, StopEnds, KeepStop, sdk, sending, QInv, Types
<1>7. QED
  BY <1>1, <1>2, <1>4, <1>6, LoopStep

LEMMA StopTimesOutKeeps ==
    ASSUME QInv, StopTimesOut
    PROVE  QInv'
<1> DEFINE c == Close(host)
<1>1. Moves(host, c, {})
  BY CloseMoves DEF QInv
<1> HIDE DEF c
<1>2. Quiet(c, StopTurn(c))
  BY <1>1, StopTurnQuiet DEF Moves, Good
<1>3. Moves(host, host', {})
  <2>1. host' \in {c, StopTurn(c)}
    BY DEF StopTimesOut, c
  <2>2. QED
    BY <1>1, <1>2, <2>1, MovesQuiet
<1>4. /\ cli'.commands \in {cli.commands, <<>>}
      /\ cli' \in [pc : {"idle", "run", "said", "exited", "dead"},
                   commands : Seq(Message)]
  BY DEF StopTimesOut, Kill, QInv, Types
<1>5. stop' \in StopRecord /\ troubles' \in 0..MaxTroubles
  BY TurnQueueAssumption
     DEF StopTimesOut, Trouble, NoStop, QInv, Types, StopRecord, Location
<1>6. Types' /\ UNCHANGED <<caller, yielded, cancel>>
  BY <1>4, <1>5 DEF StopTimesOut, KeepStop, sending, QInv, Types
<1>7. QED
  BY <1>3, <1>4, <1>6, HandlerKeeps

(***************************************************************************)
(* Sessions.                                                               *)
(***************************************************************************)
\* An abort that nobody waits for cancels what is in the queues.
LEMMA AbortKeeps ==
    ASSUME QInv, NEW S, S = Range(host.message \o host.boundary),
           host' = [Tell(host, S, "cancelled")
                      EXCEPT !.message = <<>>, !.boundary = <<>>, !.ticket = None,
                             !.aborting = FALSE, !.starts = FALSE],
           Types', UNCHANGED <<cli, caller, yielded, cancel>>
    PROVE  QInv'
<1> DEFINE told == [i \in Message |-> IF i \in S THEN "cancelled" ELSE host.told[i]]
           n == [host EXCEPT !.told = told, !.message = <<>>, !.boundary = <<>>,
                             !.ticket = None, !.aborting = FALSE, !.starts = FALSE]
<1>1. Good(host) /\ S = Range(host.message) \cup Range(host.boundary)
  <2>1. host.message \in Seq(Message) /\ host.boundary \in Seq(Message)
    BY HostFacts DEF QInv, Good
  <2>2. QED
    BY <2>1, Joined DEF QInv
<1>2. told \in [Message -> Outcome]
      /\ \A i \in Message : told[i] = "cancelled" => host.told[i] = "cancelled" \/ i \in S
  BY <1>1 DEF Good, HostType, Outcome
<1>3. host' = n
  BY <1>1 DEF Tell, Good, HostType
<1> HIDE DEF told
<1>4. <<>> \in Seq(Message) /\ Range(<<>>) = {} /\ IsInjective(<<>>)
  BY Emptied
<1>5. /\ n \in HostType /\ n.message = <<>> /\ n.pending = host.pending
      /\ n.boundary = <<>> /\ n.gen = host.gen
      /\ n.ready = host.ready /\ n.epoch = host.epoch /\ n.resolver = host.resolver
      /\ n.session = host.session /\ n.ticket = None /\ n.promoted = host.promoted
      /\ n.told = told
  BY <1>1, <1>2, <1>4 DEF Good, HostType
<1> HIDE DEF n
<1>6. \A g \in Generator : host.gen[g].pc = "admitted" => host.gen[g].item # None
  BY <1>1, HostFacts, TurnQueueAssumption DEF Good
<1>7. Apart(n) /\ Held(n)
  BY <1>1, <1>4, <1>5, <1>6 DEF Good, Apart, Held
<1>8. Gives(host, host', {})
  BY <1>3, <1>4, <1>5, <1>7 DEF Gives, Good, Active
<1>9. \A i \in S : i \notin Waiting(host')
  BY <1>1, <1>3, <1>4, <1>5, ZenonT(30) DEF Good, Apart, Waiting, Active, Generator
<1>10. ASSUME NEW i \in S
       PROVE  i \notin Waiting(host') \cup Range(cli'.commands) /\ Sent(i)'
  <2>1. i \in Waiting(host) /\ i \in Message
    BY <1>1, HostFacts DEF Good, Waiting, Active
  <2>2. i \notin Range(cli.commands)
    BY <2>1 DEF QInv, Given
  <2>3. Sent(i)
    <3>1. CASE i \in Range(host.message)
      BY <2>1, <3>1 DEF QInv, Given, Active, Sent
    <3>2. CASE i \in Range(host.boundary)
      BY <2>1, <3>2 DEF QInv, Given, Sent
    <3>3. QED
      BY <1>1, <3>1, <3>2
  <2>4. QED
    BY <1>9, <2>2, <2>3 DEF Sent
<1>11. IsInjective(cli'.commands)
  BY DEF QInv, Given
<1>12. \A i \in Message : host'.told[i] = "cancelled" =>
         host.told[i] = "cancelled" \/ i \in S
  BY <1>2, <1>3, <1>5
<1>13. QED
  BY <1>8, <1>10, <1>11, <1>12, StepKeeps

LEMMA StartSessionKeeps ==
    ASSUME QInv, StartSession
    PROVE  QInv'
<1> DEFINE S == Range(host.message \o host.boundary)
           a == [Tell(host, S, "cancelled")
                   EXCEPT !.message = <<>>, !.boundary = <<>>, !.ticket = None,
                          !.aborting = FALSE, !.starts = FALSE]
           b == [host EXCEPT !.session = "spawning", !.starts = FALSE,
                             !.timer = FALSE, !.preWarming = FALSE]
           c == [host EXCEPT !.session = "spawning", !.timer = FALSE,
                             !.aborting = FALSE, !.preWarming = TRUE]
<1>1. Good(host) /\ host.gen[1 - host.epoch].pc = "gone"
  BY DEF StartSession, GenAt, QInv
<1>2. Types' /\ UNCHANGED <<cli, caller, yielded, cancel>>
  BY DEF StartSession, KeepSession, sdk, sending, QInv, Types
<1>3. host' \in {a, b, c}
  BY DEF StartSession
<1>4. Quiet(host, b) /\ Quiet(host, c)
  BY <1>1, ZenonT(30) DEF Good, Quiet, HostType
<1>5. CASE host' = a
  BY <1>2, <1>5, AbortKeeps
<1>6. CASE host' \in {b, c}
  <2> HIDE DEF b, c
  <2>1. Moves(host, host', {})
    BY <1>1, <1>4, <1>6, QuietGood
  <2>2. QED
    BY <1>2, <2>1, LoopStep
<1>7. QED
  BY <1>3, <1>5, <1>6

LEMMA SessionSpawnsKeeps ==
    ASSUME QInv, SessionSpawns
    PROVE  QInv'
<1> DEFINE g == 1 - host.epoch
           k == [host EXCEPT !.session = "live", !.epoch = g]
<1>1. /\ Good(host) /\ g \in Generator /\ host.gen[g].pc = "gone"
  BY DEF SessionSpawns, QInv, Good, Held, HostType, Generator
<1>2. host.gen[g] = Gone
  BY <1>1 DEF Good, HostType, GenState, Gone
<1>3. host' = WaitForMessage(k, g)
  BY DEF SessionSpawns
<1> HIDE DEF g
<1>4. /\ k \in HostType
      /\ k.message = host.message /\ k.pending = host.pending
      /\ k.boundary = host.boundary /\ k.gen = host.gen /\ k.ready = host.ready
      /\ k.resolver = host.resolver /\ k.session = "live"
      /\ k.ticket = host.ticket /\ k.promoted = host.promoted /\ k.told = host.told
  BY <1>1 DEF Good, HostType
<1> HIDE DEF k
<1>5. Good(k) /\ Active(k) = Active(host)
  BY <1>1, <1>4 DEF Good, Apart, Held, Active
<1>6. Free(k, g)
  BY <1>1, <1>4 DEF Free, Good, Held
<1>7. Moves(k, host', {})
  BY <1>2, <1>3, <1>4, <1>5, <1>6, WaitMoves
<1>8. Moves(host, host', {})
  BY <1>4, <1>5, <1>7 DEF Moves
<1>9. /\ cli' = [pc |-> "idle", commands |-> <<>>] /\ Types'
      /\ UNCHANGED <<caller, yielded, cancel>>
  BY DEF SessionSpawns, KeepSession, sending, QInv, Types
<1>10. cli'.commands \in {cli.commands, <<>>}
  BY <1>9
<1>11. QED
  BY <1>8, <1>9, <1>10, HandlerKeeps

LEMMA CrashKeeps ==
    ASSUME QInv, Crash
    PROVE  QInv'
<1>1. Moves(host, host', {})
  BY MovesSelf DEF QInv, Crash
<1>2. troubles' \in 0..MaxTroubles
  BY TurnQueueAssumption DEF Crash, Trouble, QInv, Types
<1>3. /\ cli' = [pc |-> "dead", commands |-> <<>>] /\ Types'
      /\ UNCHANGED <<caller, yielded, cancel>>
  BY <1>2 DEF Crash, KeepSession, sending, QInv, Types
<1>4. cli'.commands \in {cli.commands, <<>>}
  BY <1>3
<1>5. QED
  BY <1>1, <1>3, <1>4, HandlerKeeps

LEMMA RestartKeeps ==
    ASSUME QInv, Restart
    PROVE  QInv'
<1> DEFINE t == host.ticket
           h == IF t # None /\ caller[t] = "done" THEN ReleaseTicket(host, t) ELSE host
           r == Rescue(h)
           k == [r EXCEPT !.aborting = TRUE, !.timer = TRUE]
<1>1. Good(host) /\ Quiet(host, h)
  BY ReleaseTicketQuiet, QuietSelf DEF QInv, Good
<1>2. host' = WakeNull(k)
  BY DEF Restart
<1> HIDE DEF h
<1>3. Moves(host, r, {})
  BY <1>1, QuietGood, RescueMoves, QuietMoves
<1> HIDE DEF r
<1>4. Quiet(r, k)
  BY <1>3 DEF Moves, Good, Quiet, HostType
<1> HIDE DEF k
<1>5. Moves(host, k, {})
  BY <1>3, <1>4, MovesQuiet
<1>6. Moves(k, WakeNull(k), {})
  BY <1>5, WakeNullMoves DEF Moves
<1>7. Moves(host, host', {})
  BY <1>2, <1>5, <1>6, MovesAgain
<1>8. troubles' \in 0..MaxTroubles
  BY TurnQueueAssumption DEF Restart, Trouble, QInv, Types
<1>9. Types' /\ UNCHANGED <<cli, caller, yielded, cancel>>
  BY <1>8 DEF Restart, KeepSession, sdk, sending, QInv, Types
<1>10. QED
  BY <1>7, <1>9, LoopStep

LEMMA SessionExitKeeps ==
    ASSUME QInv, SessionExit
    PROVE  QInv'
<1> DEFINE h == IF cli.pc = "dead" /\ ~host.preWarming /\ ~host.aborting
                THEN Schedule(EndTurn(host, "ended"), "terminal") ELSE host
           f == [h EXCEPT !.streaming = FALSE]
           w == WakeNull(f)
           r == Rescue(w)
           d == DropSlot(r, "failed")
<1>1. Good(host)
  BY DEF QInv
<1>2. Quiet(host, h)
  <2> DEFINE e == EndTurn(host, "ended")
  <2>1. Quiet(host, e) /\ e \in HostType
    BY <1>1, EndTurnQuiet DEF Good, Quiet, Outcome
  <2> HIDE DEF e
  <2>2. Quiet(host, Schedule(e, "terminal"))
    BY <2>1, ScheduleQuiet, QuietAgain
  <2>3. QED
    BY <1>1, <2>2, QuietSelf DEF Good, e
<1>3. host' = SessionEnds(d)
  BY DEF SessionExit
<1> HIDE DEF h
<1>4. Quiet(h, f)
  BY <1>2, ZenonT(30) DEF Quiet, HostType
<1> HIDE DEF f
<1>5. Good(f) /\ Moves(host, f, {})
  BY <1>1, <1>2, <1>4, QuietAgain, QuietGood
<1>6. Moves(f, w, {})
  BY <1>5, WakeNullMoves
<1> HIDE DEF w
<1>7. Moves(w, r, {})
  BY <1>6, RescueMoves DEF Moves
<1> HIDE DEF r
<1>8. Quiet(r, d)
  BY <1>7, DropSlotQuiet DEF Moves, Good
<1> HIDE DEF d
<1>9. Moves(r, d, {})
  BY <1>7, <1>8, QuietGood DEF Moves
<1>10. Moves(d, SessionEnds(d), {})
  BY <1>9, SessionEndsMoves DEF Moves
<1>11. Moves(host, host', {})
  BY <1>3, <1>5, <1>6, <1>7, <1>9, <1>10, MovesAgain
<1>12. stop' \in StopRecord
  BY DEF SessionExit, QInv, Types, StopRecord
<1>13. Types' /\ UNCHANGED <<cli, caller, yielded, cancel>>
  BY <1>12 DEF SessionExit, KeepSession, sdk, sending, QInv, Types
<1>14. QED
  BY <1>11, <1>13, LoopStep


(***************************************************************************)
(* The beginning of a call.                                                *)
(***************************************************************************)
\* What a caller is told of its message, whatever it is.
LEMMA TellGood ==
    ASSUME NEW h, Good(h), NEW S, NEW how \in Outcome
    PROVE  LET n == Tell(h, S, how)
           IN /\ Gives(h, n, {}) /\ Waiting(n) = Waiting(h)
              /\ \A j \in Message : n.told[j] = IF j \in S THEN how ELSE h.told[j]
<1> DEFINE told == [j \in Message |-> IF j \in S THEN how ELSE h.told[j]]
           n == [h EXCEPT !.told = told]
<1>1. /\ told \in [Message -> Outcome]
      /\ \A j \in Message : told[j] = IF j \in S THEN how ELSE h.told[j]
  BY DEF Good, HostType
<1>2. n = Tell(h, S, how)
  BY DEF Tell, Good, HostType
<1> HIDE DEF told
<1>3. /\ n \in HostType /\ n.message = h.message /\ n.pending = h.pending
      /\ n.boundary = h.boundary /\ n.gen = h.gen
      /\ n.ready = h.ready /\ n.epoch = h.epoch /\ n.resolver = h.resolver
      /\ n.session = h.session /\ n.ticket = h.ticket /\ n.promoted = h.promoted
      /\ n.told = told
  BY <1>1 DEF Good, HostType
<1> HIDE DEF n
<1>4. Good(n) /\ Active(n) = Active(h) /\ Waiting(n) = Waiting(h)
  BY <1>3 DEF Good, Apart, Held, Active, Waiting
<1>5. QED
  BY <1>1, <1>2, <1>3, <1>4 DEF Gives

LEMMA GivesAgain ==
    ASSUME NEW h, NEW k, NEW n, Moves(h, k, {}), Gives(k, n, {})
    PROVE  Gives(h, n, {})
  BY DEF Moves, Gives

LEMMA QueuedRange ==
    ASSUME NEW h \in HostType
    PROVE  Range(h.message \o h.pending \o h.boundary) =
             Range(h.message) \cup Range(h.pending) \cup Range(h.boundary)
<1>1. /\ h.message \in Seq(Message) /\ h.pending \in Seq(Message)
      /\ h.boundary \in Seq(Message)
  BY HostFacts
<1> DEFINE q == h.message \o h.pending
<1>2. q \in Seq(Message) /\ Range(q) = Range(h.message) \cup Range(h.pending)
  BY <1>1, Joined
<1> HIDE DEF q
<1>3. Range(q \o h.boundary) = Range(q) \cup Range(h.boundary)
  BY <1>1, <1>2, Joined
<1>4. QED
  BY <1>2, <1>3 DEF q

\* The message is taken from wherever it is queued.
LEMMA TakenMoves ==
    ASSUME NEW h, Good(h), NEW i \in Message,
           i \in Range(h.message) \cup Range(h.pending) \cup Range(h.boundary)
    PROVE  LET n == [h EXCEPT !.message = RemoveFirst(@, i),
                              !.pending = RemoveFirst(@, i),
                              !.boundary = RemoveFirst(@, i)]
           IN Moves(h, n, {}) /\ i \notin Waiting(n)
<1> DEFINE m == RemoveFirst(h.message, i)
           p == RemoveFirst(h.pending, i)
           b == RemoveFirst(h.boundary, i)
           n == [h EXCEPT !.message = m, !.pending = p, !.boundary = b]
<1>1. /\ m \in Seq(Message) /\ IsInjective(m) /\ Range(m) = Range(h.message) \ {i}
      /\ p \in Seq(Realtime) /\ IsInjective(p) /\ Range(p) = Range(h.pending) \ {i}
      /\ b \in Seq(Message) /\ IsInjective(b) /\ Range(b) = Range(h.boundary) \ {i}
  BY Removed DEF Good, HostType, Apart
<1> HIDE DEF m, p, b
<1>2. /\ n \in HostType /\ n.message = m /\ n.pending = p /\ n.boundary = b
      /\ n.gen = h.gen /\ n.ready = h.ready /\ n.epoch = h.epoch
      /\ n.resolver = h.resolver /\ n.session = h.session /\ n.ticket = h.ticket
      /\ n.promoted = h.promoted /\ n.told = h.told
  BY <1>1 DEF Good, HostType
<1>3. n = [h EXCEPT !.message = RemoveFirst(@, i), !.pending = RemoveFirst(@, i),
                    !.boundary = RemoveFirst(@, i)]
  BY DEF m, p, b
<1> HIDE DEF n
<1>4. Apart(n) /\ Held(n) /\ Active(n) \subseteq Active(h)
  BY <1>1, <1>2 DEF Good, Apart, Held, Active
<1>5. i \notin Waiting(n)
  BY <1>1, <1>2 DEF Good, Apart, Waiting, Active, Generator
<1>6. QED
  BY <1>1, <1>2, <1>3, <1>4, <1>5 DEF Moves, Good

\* rejectPromotedMessageBeforeDispatch.
LEMMA RejectMoves ==
    ASSUME NEW h, Good(h), NEW i \in Message, NEW g \in Generator,
           h.gen[g].item = i, h.promoted = i
    PROVE  /\ Moves(h, Reject(h, g, i), {}) /\ i \notin Waiting(Reject(h, g, i))
           /\ i \in Active(h)
<1> DEFINE a == ReleaseTicket(h, i)
           b == ClearSlotOf(a, i)
           c == ClearPromoted(b, i)
           k == Schedule(c, "recovery")
<1>1. Reject(h, g, i) = WaitForMessage(k, g)
  BY DEF Reject
<1>2. Quiet(h, a) /\ a \in HostType
  BY ReleaseTicketQuiet DEF Good, Quiet
<1> HIDE DEF a
<1>3. Quiet(a, b) /\ b \in HostType
  BY <1>2, ClearSlotQuiet, QuietSelf DEF ClearSlotOf, Quiet
<1> HIDE DEF b
<1>4. Quiet(b, c) /\ c \in HostType /\ c.promoted # i
  <2>1. Quiet(b, c)
    BY <1>3, ClearPromotedQuiet
  <2>2. i # None
    BY TurnQueueAssumption
  <2>3. c.promoted # i
    BY <1>3, <2>2 DEF ClearPromoted, HostType
  <2>4. QED
    BY <2>1, <2>3 DEF Quiet
<1> HIDE DEF c
<1>5. Quiet(c, k) /\ k.promoted = c.promoted
  BY <1>4, ScheduleQuiet DEF Schedule, HostType
<1> HIDE DEF k
<1>6. Quiet(h, k)
  BY <1>2, <1>3, <1>4, <1>5, QuietAgain
<1>7. Good(k) /\ k.gen = h.gen /\ k.promoted # i
  BY <1>4, <1>5, <1>6, QuietGood DEF Quiet
<1>8. h.gen[g].pc \in {"promoted", "admitted"}
  BY HostFacts DEF Good
<1>9. Free(k, g) /\ i \in Active(h)
  BY <1>7, <1>8, BusyFree
<1>10. Moves(k, WaitForMessage(k, g), {}) /\ i \notin Waiting(WaitForMessage(k, g))
  BY <1>7, <1>9, NextMessageMoves
<1>11. QED
  BY <1>1, <1>6, <1>9, <1>10, QuietMoves

\* A message whose cancellation is confirmed is nowhere.
LEMMA ConfirmedKeeps ==
    ASSUME QInv, NEW i \in Message, Gives(host, host', {}), Types',
           caller' = (IF host.ticket = i THEN [caller EXCEPT ![i] = "done"] ELSE caller),
           UNCHANGED <<cli, yielded>>,
           \A j \in Message : cancel'[j] = "yes" => cancel[j] = "yes",
           \A j \in Message : host'.told[j] = "cancelled" =>
              \/ host.told[j] = "cancelled"
              \/ /\ j = i /\ i \notin Waiting(host')
                 /\ i \in Waiting(host) \/ host.ticket = i
    PROVE  QInv'
<1>1. Good(host) /\ IsInjective(cli'.commands)
  BY DEF QInv, Given
<1>2. \A j \in Message : caller'[j] = IF j = i /\ host.ticket = i THEN "done" ELSE caller[j]
  BY DEF QInv, Types
<1>3. ASSUME i \in Waiting(host) \/ host.ticket = i
      PROVE  i \notin Range(cli'.commands) /\ Sent(i)'
  <2>1. i \notin Range(cli.commands)
    BY <1>3 DEF QInv, Given
  <2>2. CASE host.ticket = i
    BY <1>2, <2>1, <2>2 DEF Sent
  <2>3. CASE host.ticket # i
    <3>1. i \in Active(host) \/ i \in Range(host.boundary)
      BY <1>3, <2>3 DEF Waiting
    <3>2. Sent(i)
      BY <3>1 DEF QInv, Given, Sent
    <3>3. QED
      BY <1>2, <2>1, <2>3, <3>2 DEF Sent
  <2>4. QED
    BY <2>2, <2>3
<1>4. \A j \in Message : host'.told[j] = "cancelled" =>
         \/ host.told[j] = "cancelled"
         \/ (j \notin Waiting(host') \cup Range(cli'.commands) /\ Sent(j)')
  BY <1>3
<1>5. \A j \in Message : caller'[j] \in {caller[j], "done"}
  BY <1>2
<1>6. QED
  BY <1>1, <1>4, <1>5, StepKeeps

LEMMA CancelQueueItemKeeps ==
    ASSUME QInv, NEW i \in Message, CancelQueueItem(i)
    PROVE  QInv'
<1> DEFINE h == ReleaseTicket(host, i)
           removed == [h EXCEPT !.message = RemoveFirst(@, i),
                                !.pending = RemoveFirst(@, i),
                                !.boundary = RemoveFirst(@, i)]
           queued == Range(h.message \o h.pending \o h.boundary)
           held == \E g \in Generator : h.gen[g].item = i
<1>1. Good(host) /\ host \in HostType
  BY DEF QInv, Good
<1>2. /\ Quiet(host, h) /\ Good(h) /\ Moves(host, h, {})
      /\ h \in HostType /\ h.slot = host.slot /\ h.promoted = host.promoted
  <2>1. h.slot = host.slot /\ h.promoted = host.promoted
    BY <1>1 DEF ReleaseTicket, HostType
  <2>2. QED
    BY <1>1, <2>1, ReleaseTicketQuiet, QuietGood DEF Good
<1>3. Waiting(h) = Waiting(host) /\ Active(h) = Active(host)
  BY <1>2, QuietWaiting
<1>4. /\ caller' = IF host.ticket = i THEN [caller EXCEPT ![i] = "done"] ELSE caller
      /\ UNCHANGED <<cli, yielded>>
      /\ cancel' \in {cancel, [cancel EXCEPT ![i] = "asked"]}
  BY DEF CancelQueueItem, sdk
<1>5. troubles' \in 0..MaxTroubles
  BY TurnQueueAssumption DEF CancelQueueItem, Trouble, QInv, Types
<1>6. Types' /\ \A j \in Message : cancel'[j] = "yes" => cancel[j] = "yes"
  <2>1. caller' \in [Message -> {"new", "direct", "busy", "reserved", "held", "done"}]
    BY <1>4 DEF QInv, Types
  <2>2. cancel' \in [Message -> {"no", "asked", "yes"}]
        /\ \A j \in Message : cancel'[j] = "yes" => cancel[j] = "yes"
    BY <1>4 DEF QInv, Types
  <2>3. QED
    BY <1>4, <1>5, <2>1, <2>2 DEF CancelQueueItem, QInv, Types
<1>7. queued = Range(h.message) \cup Range(h.pending) \cup Range(h.boundary)
  BY <1>2, QueuedRange
<1>8. \/ i \in queued /\ host' = Tell(removed, {i}, "cancelled")
      \/ host' = h
      \/ /\ i \notin queued /\ h.slot # i /\ h.promoted = i
         /\ \E g \in Generator :
              h.gen[g].item = i /\ host' = Tell(Reject(h, g, i), {i}, "cancelled")
      \/ /\ i \notin queued /\ h.slot # i /\ h.promoted # i
         /\ host' = Tell(h, {i}, IF held THEN "strayed" ELSE "cancelled")
  BY DEF CancelQueueItem
<1>9. Cancellable(i)
  BY DEF CancelQueueItem
<1>10. Range(host.message \o host.pending \o host.boundary) = queued
  BY <1>2 DEF Quiet
<1> HIDE DEF h, queued
<1>11. CASE i \in queued /\ host' = Tell(removed, {i}, "cancelled")
  <2>1. Moves(h, removed, {}) /\ i \notin Waiting(removed)
    BY <1>2, <1>7, <1>11, TakenMoves
  <2> HIDE DEF removed
  <2>2. /\ Gives(removed, host', {}) /\ Waiting(host') = Waiting(removed)
        /\ \A j \in Message : host'.told[j] = IF j = i THEN "cancelled" ELSE removed.told[j]
    BY <1>11, <2>1, TellGood DEF Moves, Outcome
  <2>3. Moves(host, removed, {})
    BY <1>2, <2>1, MovesAgain
  <2>4. Gives(host, host', {})
    BY <2>2, <2>3, GivesAgain
  <2>5. i \in Waiting(host)
    BY <1>3, <1>7, <1>11 DEF Waiting, Active
  <2>6. \A j \in Message : host'.told[j] = "cancelled" =>
           \/ host.told[j] = "cancelled"
           \/ j = i /\ i \notin Waiting(host') /\ (i \in Waiting(host) \/ host.ticket = i)
    BY <2>1, <2>2, <2>3, <2>5 DEF Moves
  <2>7. QED
    BY <1>4, <1>6, <2>4, <2>6, ConfirmedKeeps
<1>12. CASE host' = h
  <2>1. /\ Gives(host, host', {})
        /\ \A j \in Message : host'.told[j] = "cancelled" => host.told[j] = "cancelled"
    BY <1>2, <1>12, MovesGives
  <2>2. QED
    BY <1>4, <1>6, <2>1, ConfirmedKeeps
<1>13. CASE /\ i \notin queued /\ h.slot # i /\ h.promoted = i
            /\ \E g \in Generator :
                 h.gen[g].item = i /\ host' = Tell(Reject(h, g, i), {i}, "cancelled")
  <2>1. PICK g \in Generator :
          h.gen[g].item = i /\ host' = Tell(Reject(h, g, i), {i}, "cancelled")
    BY <1>13
  <2> DEFINE w == Reject(h, g, i)
  <2>2. Moves(h, w, {}) /\ i \notin Waiting(w) /\ i \in Active(h)
    BY <1>2, <1>13, <2>1, RejectMoves
  <2> HIDE DEF w
  <2>3. /\ Gives(w, host', {}) /\ Waiting(host') = Waiting(w)
        /\ \A j \in Message : host'.told[j] = IF j = i THEN "cancelled" ELSE w.told[j]
    BY <2>1, <2>2, TellGood DEF Moves, Outcome, w
  <2>4. Moves(host, w, {})
    BY <1>2, <2>2, MovesAgain
  <2>5. Gives(host, host', {})
    BY <2>3, <2>4, GivesAgain
  <2>6. i \in Waiting(host)
    BY <1>3, <2>2 DEF Waiting
  <2>7. \A j \in Message : host'.told[j] = "cancelled" =>
           \/ host.told[j] = "cancelled"
           \/ j = i /\ i \notin Waiting(host') /\ (i \in Waiting(host) \/ host.ticket = i)
    BY <2>2, <2>3, <2>4, <2>6 DEF Moves
  <2>8. QED
    BY <1>4, <1>6, <2>5, <2>7, ConfirmedKeeps
<1>14. CASE /\ i \notin queued /\ h.slot # i /\ h.promoted # i
            /\ host' = Tell(h, {i}, IF held THEN "strayed" ELSE "cancelled")
  <2>1. host.ticket = i
    BY <1>2, <1>9, <1>10, <1>14 DEF Cancellable
  <2>2. /\ Gives(h, host', {}) /\ Waiting(host') = Waiting(h)
        /\ \A j \in Message :
              host'.told[j] = IF j = i THEN (IF held THEN "strayed" ELSE "cancelled")
                              ELSE h.told[j]
    <3> HIDE DEF held
    <3>1. (IF held THEN "strayed" ELSE "cancelled")
             \in Outcome
      BY DEF Outcome
    <3>2. QED
      BY <1>2, <1>14, <3>1, TellGood
  <2>3. Gives(host, host', {})
    BY <1>2, <2>2, GivesAgain
  <2>4. ~held => i \notin Waiting(host')
    BY <1>7, <1>14, <2>2 DEF Waiting, Active, Generator
  <2> HIDE DEF held
  <2>5. \A j \in Message : host'.told[j] = "cancelled" =>
           \/ host.told[j] = "cancelled"
           \/ j = i /\ i \notin Waiting(host') /\ (i \in Waiting(host) \/ host.ticket = i)
    BY <1>2, <2>1, <2>2, <2>4 DEF Moves
  <2>6. QED
    BY <1>4, <1>6, <2>3, <2>5, ConfirmedKeeps
<1>15. QED
  BY <1>8, <1>11, <1>12, <1>13, <1>14

\* The subprocess has let go of a message, which it was given before.
LEMMA CancelSettlesKeeps ==
    ASSUME QInv, NEW i \in Message, CancelSettles(i)
    PROVE  QInv'
<1> DEFINE a == ClearSlot(host)
           b == Tell(a, {i}, "cancelled")
<1>1. Good(host) /\ host' = Schedule(b, "terminal") /\ cancel[i] = "yes"
  BY DEF QInv, CancelSettles
<1>2. i \in yielded /\ i \notin Range(cli.commands) /\ i \notin Waiting(host)
      /\ caller[i] = "done"
  BY <1>1 DEF QInv, Given, Cancelled
<1>3. Quiet(host, a) /\ Good(a) /\ Moves(host, a, {})
  BY <1>1, ClearSlotQuiet, QuietGood DEF Good
<1>4. Waiting(a) = Waiting(host)
  BY <1>3, QuietWaiting
<1> HIDE DEF a
<1>5. /\ Gives(a, b, {}) /\ Waiting(b) = Waiting(a)
      /\ \A j \in Message : b.told[j] = IF j = i THEN "cancelled" ELSE a.told[j]
  BY <1>3, TellGood DEF Outcome
<1> HIDE DEF b
<1>6. Quiet(b, host') /\ Good(b)
  BY <1>1, <1>5, ScheduleQuiet DEF Gives, Good
<1>7. Waiting(host') = Waiting(host) /\ Moves(b, host', {})
  BY <1>4, <1>5, <1>6, QuietWaiting, QuietGood
<1>8. Gives(host, host', {})
  <2>1. Gives(host, b, {})
    BY <1>3, <1>5, GivesAgain
  <2>2. QED
    BY <1>7, <2>1 DEF Gives, Moves
<1>9. \A j \in Message : host'.told[j] = "cancelled" =>
         host.told[j] = "cancelled" \/ j = i
  BY <1>3, <1>5, <1>7 DEF Moves
<1>10. /\ Types' /\ UNCHANGED <<cli, caller, yielded>>
       /\ \A j \in Message : cancel'[j] = "yes" => cancel[j] = "yes"
  BY DEF CancelSettles, sdk, sending, QInv, Types
<1>11. IsInjective(cli'.commands)
  BY <1>10 DEF QInv, Given
<1>12. Sent(i)'
  BY <1>2, <1>10 DEF Sent
<1>13. QED
  BY <1>2, <1>7, <1>8, <1>9, <1>10, <1>11, <1>12, StepKeeps

\* A call that goes on with its message where it was, or reserves its place.
LEMMA CallKeeps ==
    ASSUME QInv, NEW i \in Message, caller[i] \in {"new", "busy"},
           NEW pc \in {"direct", "busy", "held", "reserved"},
           caller' = [caller EXCEPT ![i] = pc],
           UNCHANGED <<cli, cancel, yielded, wasQueued, troubles>>, UNCHANGED tasks,
           Good(host'), host'.told = host.told, host'.ready = host.ready,
           host'.ticket \in {host.ticket, None, i},
           Active(host') = Active(host),
           \/ Range(host'.boundary) = Range(host.boundary)
           \/ pc = "reserved" /\ Range(host'.boundary) = Range(host.boundary) \cup {i}
    PROVE  QInv'
<1>1. /\ i \notin Waiting(host) \cup host.ready \cup yielded
      /\ host.told[i] # "cancelled" /\ None \notin yielded
  BY TurnQueueAssumption DEF QInv, Types, Given, Cancelled, Sent, Waiting
<1>2. \A j \in Message : caller'[j] = IF j = i THEN pc ELSE caller[j]
  BY DEF QInv, Types
<1>3. Types'
  BY DEF QInv, Types, tasks
<1>4. Waiting(host') \subseteq Waiting(host) \cup {i}
  BY DEF Waiting
<1>5. Given'
  <2>1. Waiting(host') \cap yielded' = {} /\ host'.ticket \notin yielded'
    BY <1>1, <1>4 DEF QInv, Given
  <2>2. ASSUME NEW j \in Message, caller'[j] # "done"
        PROVE  /\ j \notin Active(host') \cup host'.ready \cup yielded'
               /\ j \in Range(host'.boundary) => caller'[j] = "reserved"
    <3>1. CASE j = i
      BY <1>1, <1>2, <3>1 DEF Waiting
    <3>2. CASE j # i
      BY <1>2, <2>2, <3>2 DEF QInv, Given
    <3>3. QED
      BY <3>1, <3>2
  <2>3. IsInjective(cli'.commands) /\ Range(cli'.commands) \subseteq yielded'
    BY DEF QInv, Given
  <2>4. QED
    BY <2>1, <2>2, <2>3 DEF Given
<1>6. Cancelled'
  BY <1>1, <1>2, <1>4 DEF QInv, Cancelled, Sent
<1>7. QED
  BY <1>3, <1>5, <1>6 DEF QInv

LEMMA SendKeeps ==
    ASSUME QInv, NEW i \in Message, Send(i)
    PROVE  QInv'
<1>1. /\ Good(host) /\ host \in HostType /\ caller[i] = "new"
      /\ i \notin Waiting(host)
  BY DEF QInv, Good, Given, Send, Waiting
<1>2. UNCHANGED <<cli, cancel, yielded, wasQueued, troubles>> /\ UNCHANGED tasks
  BY DEF Send, Keep, sdk, tasks
<1>3. PICK pc \in {"direct", "busy"} : caller' = [caller EXCEPT ![i] = pc]
  BY DEF Send, Goto
<1>4. CASE host' = host
  BY <1>1, <1>2, <1>3, <1>4, CallKeeps
<1>5. CASE i \in Turn /\ host' = [host EXCEPT !.ticket = i]
  <2>1. /\ host' \in HostType /\ host'.message = host.message
        /\ host'.pending = host.pending /\ host'.boundary = host.boundary
        /\ host'.gen = host.gen /\ host'.ready = host.ready
        /\ host'.epoch = host.epoch /\ host'.resolver = host.resolver
        /\ host'.session = host.session /\ host'.ticket = i
        /\ host'.promoted = host.promoted /\ host'.told = host.told
    BY <1>1, <1>5 DEF HostType
  <2>2. Apart(host') /\ Active(host') = Active(host)
    BY <1>1, <2>1 DEF Good, Apart, Active
  <2>3. Held(host')
    <3>1. \A g \in Generator : host.gen[g].item # i
      BY <1>1, TurnQueueAssumption DEF Waiting, Active, Generator
    <3>2. QED
      BY <1>1, <2>1, <3>1 DEF Good, Held
  <2>4. QED
    BY <1>1, <1>2, <1>3, <2>1, <2>2, <2>3, CallKeeps DEF Good
<1>6. QED
  BY <1>4, <1>5 DEF Send

LEMMA ReserveKeeps ==
    ASSUME QInv, NEW i \in Message, Reserve(i)
    PROVE  QInv'
<1> DEFINE h == TakeOver(host)
<1>1. /\ Good(host) /\ caller[i] = "busy" /\ i \notin Waiting(host)
  BY DEF QInv, Given, Reserve, Waiting
<1>2. UNCHANGED <<cli, cancel, yielded, wasQueued, troubles>> /\ UNCHANGED tasks
  BY DEF Reserve, Keep, sdk, tasks
<1>3. Quiet(host, h) /\ Good(h) /\ i \notin Waiting(h) /\ Active(h) = Active(host)
  BY <1>1, TakeOverQuiet, QuietGood, QuietWaiting DEF Good
<1>4. h.told = host.told /\ h.ticket = host.ticket
  BY <1>1 DEF TakeOver, Good, HostType
<1>5. \/ caller' = [caller EXCEPT ![i] = "done"] /\ host' = Tell(h, {i}, "failed")
      \/ /\ caller' = [caller EXCEPT ![i] = "reserved"]
         /\ host' = [h EXCEPT !.boundary = Append(@, i)]
      \/ caller' = [caller EXCEPT ![i] = "held"] /\ host' = h
  BY DEF Reserve, Goto
<1> HIDE DEF h
<1>6. CASE caller' = [caller EXCEPT ![i] = "done"] /\ host' = Tell(h, {i}, "failed")
  <2>1. Quiet(h, host')
    BY <1>3, <1>6, TellQuiet DEF Good, Outcome
  <2>2. Moves(host, host', {})
    BY <1>1, <1>3, <2>1, QuietAgain, QuietGood
  <2>3. IsInjective(cli'.commands)
    BY <1>2 DEF QInv, Given
  <2>4. Types' /\ \A j \in Message : caller'[j] \in {caller[j], "done"}
    BY <1>2, <1>6 DEF QInv, Types, tasks
  <2>5. QED
    BY <1>2, <2>2, <2>3, <2>4, MovesGives, StepKeeps
<1>7. CASE /\ caller' = [caller EXCEPT ![i] = "reserved"]
           /\ host' = [h EXCEPT !.boundary = Append(@, i)]
  <2>1. /\ Good(host') /\ host'.ready = h.ready /\ host'.ticket = h.ticket
        /\ host'.told = h.told /\ Active(host') = Active(h)
        /\ Range(host'.boundary) = Range(h.boundary) \cup {i}
    BY <1>3, <1>7, ReservedGood
  <2>2. h.ready = host.ready /\ h.boundary = host.boundary
    BY <1>3 DEF Quiet
  <2>3. QED
    BY <1>1, <1>2, <1>3, <1>4, <1>7, <2>1, <2>2, CallKeeps
<1>8. CASE caller' = [caller EXCEPT ![i] = "held"] /\ host' = h
  <2>1. host'.ready = host.ready /\ host'.boundary = host.boundary
    BY <1>3, <1>8 DEF Quiet
  <2>2. QED
    BY <1>1, <1>2, <1>3, <1>4, <1>8, <2>1, CallKeeps
<1>9. QED
  BY <1>5, <1>6, <1>7, <1>8

(***************************************************************************)
(* The theorems.                                                           *)
(***************************************************************************)
LEMMA InitKeeps ==
    ASSUME Init
    PROVE  QInv
<1>1. /\ <<>> \in Seq(Message) /\ <<>> \in Seq(Realtime)
      /\ Range(<<>>) = {} /\ IsInjective(<<>>)
  BY Emptied
<1>2. /\ host \in HostType /\ host.message = <<>> /\ host.pending = <<>>
      /\ host.boundary = <<>> /\ host.ready = {} /\ host.ticket = None
      /\ host.promoted = None /\ host.resolver = None /\ host.session = "none"
      /\ \A g \in Generator : host.gen[g] = Gone
      /\ \A i \in Message : host.told[i] = "no"
  BY <1>1 DEF Init, HostType, Generator, GenState, Gone, Location, Outcome
<1>3. Active(host) = {} /\ Waiting(host) = {}
  BY <1>1, <1>2 DEF Active, Waiting, Generator, Gone
<1>4. Good(host)
  BY <1>1, <1>2 DEF Good, Apart, Held, Generator, Gone
<1>5. Types
  BY <1>1, TurnQueueAssumption DEF Init, Types, StopRecord, NoStop, Location
<1>6. Given
  BY <1>1, <1>2, <1>3 DEF Init, Given
<1>7. Cancelled
  BY <1>2 DEF Init, Cancelled
<1>8. QED
  BY <1>4, <1>5, <1>6, <1>7 DEF QInv

\* A step that changes nothing.
LEMMA StutterKeeps ==
    ASSUME QInv, UNCHANGED vars
    PROVE  QInv'
  BY DEF vars, QInv, Types, Given, Cancelled, Sent

LEMMA NextKeeps ==
    ASSUME QInv, [Next]_vars
    PROVE  QInv'
<1>1. ASSUME NEW i \in Message,
             \/ Send(i) \/ Reserve(i) \/ PlaceDirect(i) \/ PlaceAtOnce(i)
             \/ PlaceReserved(i) \/ PlaceHeld(i) \/ CancelQueueItem(i)
             \/ Surfaced(i) \/ CancelSettles(i) \/ CliCancels(i)
      PROVE  QInv'
  BY <1>1, SendKeeps, ReserveKeeps, PlaceDirectKeeps, PlaceAtOnceKeeps,
     PlaceReservedKeeps, PlaceHeldKeeps, CancelQueueItemKeeps, SurfacedKeeps,
     CancelSettlesKeeps, CliCancelsKeeps
<1>2. ASSUME NEW g \in Generator, Requeue(g) \/ Admit(g) \/ GiveUp(g) \/ Yield(g)
      PROVE  QInv'
  BY <1>2, RequeueKeeps, AdmitKeeps, GiveUpKeeps, YieldKeeps
<1>3. CASE ReadAssistant \/ ReadResult \/ \E i \in Message : ReadReplay(i)
  BY <1>3, ReadKeeps
<1>4. CASE \E reason \in {"terminal", "recovery"} : Drain(reason)
  BY <1>4, DrainKeeps
<1>5. CASE TurnEndPersisted
  BY <1>5, TurnEndPersistedKeeps
<1>6. CASE ReceiptRead \/ StopCancelled \/ StopEnds \/ StopTimesOut \/ Stop
  BY <1>6, ReceiptReadKeeps, StopGoesOnKeeps, StopTimesOutKeeps, StopKeeps
<1>7. CASE StartSession \/ SessionSpawns \/ SessionExit \/ Crash \/ Restart
  BY <1>7, StartSessionKeeps, SessionSpawnsKeeps, SessionExitKeeps, CrashKeeps,
     RestartKeeps
<1>8. CASE CliStarts \/ CliDrains \/ CliAnswers \/ CliEndsTurn \/ CliExits
  BY <1>8, CliKeeps
<1>9. CASE CliInterrupted
  BY <1>9, CliInterruptedKeeps
<1>10. CASE UNCHANGED vars
  BY <1>10, StutterKeeps
<1>11. QED
  BY <1>1, <1>2, <1>3, <1>4, <1>5, <1>6, <1>7, <1>8, <1>9, <1>10 DEF Next, Host, Cli

\* The invariant that the others follow from: wherever a handler leaves the
\* queues, a message is in one of them at most, and neither one that the SDK was
\* given nor one whose cancellation was confirmed is in any.
THEOREM QueuesInvariance == Spec => []QInv
<1>1. Init => QInv
  BY InitKeeps
<1>2. QInv /\ [Next]_vars => QInv'
  BY NextKeeps
<1>3. QED
  BY <1>1, <1>2, PTL DEF Spec

LEMMA QueuedOnce ==
    ASSUME QInv
    PROVE  QueueInv
<1> DEFINE q == host.message \o host.pending
           r == q \o host.boundary
           s == r \o cli.commands
<1>1. /\ host \in HostType /\ host.message \in Seq(Message)
      /\ host.pending \in Seq(Message) /\ host.boundary \in Seq(Message)
      /\ cli.commands \in Seq(Message)
  BY HostFacts DEF QInv, Good, Types
<1>2. Apart(host) /\ IsInjective(cli.commands)
      /\ Waiting(host) \cap Range(cli.commands) = {}
  BY DEF QInv, Good, Given
<1>3. Range(host.pending) \cap Range(host.boundary) = {}
  BY <1>2 DEF Apart
<1>4. /\ q \in Seq(Message) /\ IsInjective(q)
      /\ Range(q) = Range(host.message) \cup Range(host.pending)
  BY <1>1, <1>2, Joined DEF Apart
<1> HIDE DEF q
<1>5. /\ r \in Seq(Message) /\ IsInjective(r)
      /\ Range(r) = Range(q) \cup Range(host.boundary)
  BY <1>1, <1>2, <1>3, <1>4, Joined DEF Apart
<1> HIDE DEF r
<1>6. Range(r) \subseteq Waiting(host)
  BY <1>4, <1>5 DEF Waiting, Active
<1>7. /\ s \in Seq(Message) /\ IsInjective(s)
      /\ Range(s) = Range(r) \cup Range(cli.commands)
  BY <1>1, <1>2, <1>5, <1>6, Joined
<1>8. s = host.message \o host.pending \o host.boundary \o cli.commands
  BY DEF q, r
<1> HIDE DEF s
<1>9. ASSUME NEW i \in Message, NEW g \in Generator, host.gen[g].item = i
      PROVE  ~Contains(s, i) /\ host.gen[1 - g].item # i
  <2>1. i \notin Range(r)
    BY <1>2, <1>4, <1>5, <1>9 DEF Apart
  <2>2. i \in Waiting(host)
    BY <1>9, TurnQueueAssumption DEF Waiting, Active, Generator
  <2>3. i \notin Range(s)
    BY <1>2, <1>7, <2>1, <2>2
  <2>4. host.gen[1 - g].item # i
    BY <1>2, <1>9, TurnQueueAssumption DEF Apart, Generator
  <2>5. QED
    BY <1>7, <2>3, <2>4, RangeIn
<1>10. OnePlace
  BY <1>7, <1>8, <1>9 DEF OnePlace
<1>11. TypeOK
  <2>1. host.gen \in [Generator ->
          [pc : {"gone", "parked", "promoted", "admitted"}, item : Location]]
    <3>1. GenState \subseteq [pc : {"gone", "parked", "promoted", "admitted"},
                              item : Location]
      BY DEF GenState, Location
    <3>2. QED
      BY <1>1, <3>1, HostFacts
  <2>2. /\ host.pending \in Seq(Realtime) /\ host.boundary \in Seq(Message)
        /\ {host.ticket, host.slot, host.ack, host.promoted, host.source, blocked}
             \subseteq Location
        /\ host.resolver \in Generator \cup {None}
        /\ host.session \in {"none", "spawning", "live", "closed"}
        /\ host.told \in [Message ->
             {"no", "cancelled", "strayed", "dropped", "failed", "ended",
              "completed"}]
    BY <1>1 DEF QInv, Types, HostType, Location, Message, Outcome
  <2>3. cli.pc \in {"idle", "run", "said", "exited", "dead"}
        /\ stop.pc \in {"no", "asked", "answered", "cancelling", "waiting"}
    BY DEF QInv, Types, StopRecord
  <2>4. QED
    BY <1>1, <2>1, <2>2, <2>3 DEF TypeOK, QInv, Types
<1>12. QED
  BY <1>10, <1>11 DEF QueueInv

\* A message waits in one place, the types included: however many messages are
\* sent, however large the queues are and however often the turn is stopped, a
\* message cancelled, or the session crashed or restarted.
THEOREM QueuesAreSound == Spec => []QueueInv
  BY QueuesInvariance, QueuedOnce, PTL

\* What a step adds to the subprocess's queue was never given to the SDK.
LEMMA GivenOnce ==
    ASSUME QInv, QInv', [Next]_vars, NEW i \in Message,
           Contains(cli'.commands, i), ~Contains(cli.commands, i)
    PROVE  i \notin yielded
<1>1. /\ cli.commands \in Seq(Message) /\ cli'.commands \in Seq(Message)
      /\ IsInjective(cli.commands)
  BY DEF QInv, Types, Given
<1>2. i \in Range(cli'.commands) /\ i \notin Range(cli.commands)
  BY <1>1, RangeIn
<1>3. CASE \E g \in Generator : Yield(g)
  <2>1. PICK g \in Generator : Yield(g)
    BY <1>3
  <2>2. /\ host.gen[g].item \in Message /\ host.gen[g].item \in Waiting(host)
    BY <2>1, BusyFree DEF Yield, GenAt, QInv, Waiting
  <2>3. cli'.commands \in {cli.commands, Append(cli.commands, host.gen[g].item)}
    BY <2>1 DEF Yield, QInv, Types
  <2> DEFINE j == host.gen[g].item
  <2>4. Range(Append(cli.commands, j)) = Range(cli.commands) \cup {j}
    <3> HIDE DEF j
    <3>1. j \in Message
      BY <2>2 DEF j
    <3>2. QED
      BY <1>1, <3>1, Appended
  <2>5. i = j
    BY <1>2, <2>3, <2>4
  <2>6. QED
    BY <2>2, <2>5 DEF QInv, Given
<1>4. CASE \E j \in Message : CliCancels(j)
  <2>1. PICK j \in Message : CliCancels(j)
    BY <1>4
  <2>2. cli'.commands = RemoveFirst(cli.commands, j)
    BY <2>1 DEF CliCancels, QInv, Types
  <2>3. Range(RemoveFirst(cli.commands, j)) \subseteq Range(cli.commands)
    BY <1>1, Removed
  <2>4. QED
    BY <1>2, <2>2, <2>3
<1>5. CASE CliStarts \/ CliDrains
  <2>1. cli.commands # <<>> /\ cli'.commands = Tail(cli.commands)
    BY <1>5 DEF CliStarts, CliDrains, QInv, Types
  <2>2. Range(Tail(cli.commands)) \subseteq Range(cli.commands)
    BY <1>1, <2>1, Shortened
  <2>3. QED
    BY <1>2, <2>1, <2>2
<1>6. CASE cli'.commands \in {cli.commands, <<>>}
  BY <1>2, <1>6, Emptied
<1>7. cli' = cli => cli'.commands \in {cli.commands, <<>>}
  OBVIOUS
<1>8. ASSUME NEW j \in Message,
             \/ Send(j) \/ Reserve(j) \/ PlaceDirect(j) \/ PlaceAtOnce(j)
             \/ PlaceReserved(j) \/ PlaceHeld(j) \/ CancelQueueItem(j)
             \/ Surfaced(j) \/ CancelSettles(j) \/ ReadReplay(j)
      PROVE  cli' = cli
  BY <1>8 DEF Send, Reserve, PlaceDirect, PlaceAtOnce, PlaceReserved, PlaceHeld, Place,
              CancelQueueItem, Surfaced, CancelSettles, ReadReplay, Keep, KeepLoop, sdk
<1>9. ASSUME NEW g \in Generator, Requeue(g) \/ Admit(g) \/ GiveUp(g)
      PROVE  cli' = cli
  BY <1>9 DEF Requeue, Admit, GiveUp
<1>10. CASE \/ ReadAssistant \/ ReadResult \/ TurnEndPersisted \/ ReceiptRead
            \/ StopCancelled \/ StopEnds \/ Stop \/ StartSession \/ SessionExit
            \/ Restart \/ (\E reason \in {"terminal", "recovery"} : Drain(reason))
            \/ UNCHANGED vars
  <2>1. cli' = cli
    BY <1>10 DEF ReadAssistant, ReadResult, TurnEndPersisted, ReceiptRead,
                 StopCancelled, StopEnds, Stop, StartSession, SessionExit, Restart,
                 Drain, vars, KeepLoop, sdk
  <2>2. QED
    BY <1>6, <1>7, <2>1
<1>11. CASE CliAnswers \/ CliEndsTurn \/ CliExits \/ CliInterrupted
  <2>1. cli'.commands = cli.commands
    BY <1>11 DEF CliAnswers, CliEndsTurn, CliExits, CliInterrupted, QInv, Types
  <2>2. QED
    BY <1>6, <2>1
<1>12. CASE StopTimesOut \/ SessionSpawns \/ Crash
  <2>1. cli'.commands \in {cli.commands, <<>>}
    BY <1>12 DEF StopTimesOut, Kill, SessionSpawns, Crash
  <2>2. QED
    BY <1>6, <2>1
<1>13. QED
  BY <1>3, <1>4, <1>5, <1>6, <1>7, <1>8, <1>9, <1>10, <1>11, <1>12
     DEF Next, Host, Cli

\* No message is given to the SDK twice: what a recovery session takes up again
\* are messages that the subprocess before it cannot have consumed.
THEOREM NoMessageIsGivenTwice == Spec => NoMessageTwice
<1>1. QInv /\ QInv' /\ [Next]_vars =>
        [\A i \in Message :
           Contains(cli'.commands, i) /\ ~Contains(cli.commands, i) => i \notin yielded]_vars
  BY GivenOnce
<1>2. QED
  BY <1>1, QueuesInvariance, PTL DEF Spec, NoMessageTwice

\* The subprocess begins no message whose cancellation the user was confirmed,
\* if no later session has promoted another one while a generator had it.
THEOREM CancelledStays == Spec => CancelledIsNotRun
<1>1. QInv =>
        [\A i \in Message :
           /\ Contains(cli.commands, i) /\ ~Contains(cli'.commands, i)
           /\ cli'.pc # "dead"
           => host.told[i] # "cancelled"]_vars
  <2> SUFFICES ASSUME QInv, NEW i \in Message, Contains(cli.commands, i)
               PROVE  host.told[i] # "cancelled"
    OBVIOUS
  <2>1. cli.commands \in Seq(Message)
    BY DEF QInv, Types
  <2>2. i \in Range(cli.commands)
    BY <2>1, RangeIn
  <2>3. QED
    BY <2>2 DEF QInv, Cancelled
<1>2. QED
  BY <1>1, QueuesInvariance, PTL DEF Spec, CancelledIsNotRun
=============================================================================
