----------------------------- MODULE TurnQueue -----------------------------
(***************************************************************************)
(* The messages of one conversation on their way to the SDK's subprocess:  *)
(* the queues of server/builtin-session/queue.ts, the generator, the       *)
(* queue's handlers and the session in server/agent-session.ts, the end of *)
(* a turn in builtin-session/turn-lifecycle.ts.                            *)
(*                                                                         *)
(* The sidecar is one thread.  An action is what runs between two awaits;  *)
(* what a handler does of its state is a function from `host' to `host', so *)
(* that one handler can call another.  The continuation of a promise that  *)
(* is resolved runs before anything else does.                             *)
(***************************************************************************)
EXTENDS Naturals, FiniteSets, SequencesExt

CONSTANTS
    Realtime, Turn,     \* messages by their queueResponseMode
    Desktop,            \* those from the desktop chat (fromDesktopChatSend)
    WithImages,         \* those with images, which take time to prepare
    None,
    MaxQueueSize,       \* MAX_QUEUE_SIZE
    MaxSenders,         \* clients that send at a time
    MaxTroubles         \* stops, cancellations, crashes and restarts

Message == Realtime \cup Turn

ASSUME TurnQueueAssumption ==
    /\ Realtime \cap Turn = {} /\ None \notin Message
    /\ Turn \subseteq Desktop /\ Desktop \subseteq Message
    /\ WithImages \subseteq Message
    /\ MaxQueueSize \in Nat /\ MaxSenders \in Nat /\ MaxTroubles \in Nat

VARIABLES
    host,       \* queueState, lifecycleState and the flags of the turn
    caller,     \* enqueueUserMessage of each message
    wasQueued,  \* the waiting messages that were queued while a turn ran
    cli,        \* the subprocess: its commandQueue and its turn
    stream,     \* what it wrote and the for-await loop has not read
    blocked,    \* the replay the loop is busy with
    surfacing,  \* the messages in surfaceInFlightQueueItem
    turnEnds,   \* ended turns whose transcript is being written
    cancel,     \* cancel_async_message of each message
    stop,       \* interruptCurrentResponse
    troubles,   \* stops, cancellations, crashes and restarts so far
    yielded     \* the messages the SDK was given (not in the code)

vars == <<host, caller, wasQueued, cli, stream, blocked, surfacing, turnEnds,
          cancel, stop, troubles, yielded>>
sdk == <<cli, stream>>
tasks == <<blocked, surfacing, turnEnds, cancel, stop>>
sending == <<caller, wasQueued, yielded>>

Generator == {0, 1}
Gone == [pc |-> "gone", item |-> None]
NoStop == [pc |-> "no", target |-> None, ended |-> "no", gone |-> FALSE]
Location == Message \cup {None}

TypeOK ==
    /\ {host.message, cli.commands} \subseteq Seq(Message)
    /\ host.pending \in Seq(Realtime) /\ host.boundary \in Seq(Message)
    /\ {host.ticket, host.slot, host.ack, host.promoted, host.source, blocked}
         \subseteq Location
    /\ host.resolver \in Generator \cup {None}
    /\ host.gen \in [Generator ->
         [pc : {"gone", "parked", "promoted", "admitted"}, item : Location]]
    /\ host.session \in {"none", "spawning", "live", "closed"}
    /\ host.told \in [Message ->
         {"no", "cancelled", "strayed", "dropped", "failed", "ended",
          "completed"}]
    /\ caller \in [Message ->
         {"new", "direct", "busy", "reserved", "held", "done"}]
    /\ cli.pc \in {"idle", "run", "said", "exited", "dead"}
    /\ cancel \in [Message -> {"no", "asked", "yes"}]
    /\ stop.pc \in {"no", "asked", "answered", "cancelling", "waiting"}
    /\ wasQueued \subseteq Realtime /\ surfacing \subseteq Message
    /\ turnEnds \in Nat /\ troubles \in 0..MaxTroubles

Init ==
    /\ \E replays \in BOOLEAN :
       host = [message |-> <<>>, pending |-> <<>>, boundary |-> <<>>,
               ready |-> {}, ticket |-> None,
               slot |-> None, ack |-> None,     \* inFlightToCliId and its ack
               promoted |-> None,
               gen |-> [g \in Generator |-> Gone],
               epoch |-> 0,                     \* the session's generator
               resolver |-> None,               \* the generator that waits
               streaming |-> FALSE, source |-> None,
               session |-> "none", preWarming |-> FALSE, aborting |-> FALSE,
               starts |-> FALSE, timer |-> FALSE, drain |-> {},
               told |-> [i \in Message |-> "no"], replays |-> replays]
    /\ caller = [i \in Message |-> "new"]
    /\ cli = [pc |-> "dead", commands |-> <<>>]
    /\ stream = <<>>
    /\ blocked = None /\ surfacing = {} /\ turnEnds = 0
    /\ cancel = [i \in Message |-> "no"]
    /\ stop = NoStop
    /\ troubles = 0
    /\ wasQueued = {} /\ yielded = {}

Trouble == troubles < MaxTroubles /\ troubles' = troubles + 1
Alive == cli.pc \notin {"exited", "dead"}
Running == cli.pc \in {"run", "said"}

(***************************************************************************)
(* What the handlers are made of.                                          *)
(***************************************************************************)
ClearSlot(h) == [h EXCEPT !.slot = None, !.ack = None]
ClearSlotOf(h, i) == IF h.slot = i THEN ClearSlot(h) ELSE h
TakeSlot(h, i) == [h EXCEPT !.slot = i, !.ack = None]
ReleaseTicket(h, i) == IF h.ticket = i THEN [h EXCEPT !.ticket = None] ELSE h
ClearPromoted(h, i) == IF h.promoted = i THEN [h EXCEPT !.promoted = None] ELSE h
Tell(h, S, how) ==
    [h EXCEPT !.told = [i \in Message |-> IF i \in S THEN how ELSE @[i]]]
\* The end of the turn is reported, once, to the message that is recorded as its
\* source (notifyCurrentTurnTerminalOutcome).
Notify(h, how) ==
    IF h.source = None THEN h
    ELSE [h EXCEPT !.told[h.source] = IF @ = "no" THEN how ELSE @]
EndTurn(h, how) == Notify([h EXCEPT !.streaming = FALSE], how)
AwaitAck(h) == [h EXCEPT !.ack = h.slot]
Schedule(h, reason) == [h EXCEPT !.drain = @ \cup {reason}]

\* dropInFlightQueueItem.
DropSlot(h, how) ==
    IF h.slot = None THEN h ELSE ClearSlot(Tell(h, {h.slot}, how))

\* beginPromotedItem, which the generator does first with what it got.
Promote(h, g, i) ==
    [h EXCEPT !.gen[g] = [pc |-> "promoted", item |-> i], !.promoted = i]

\* wakeGenerator.
Wake(h, i) ==
    IF h.resolver = None THEN [h EXCEPT !.message = Append(@, i)]
    ELSE Promote([h EXCEPT !.resolver = None], h.resolver, i)
WakeNull(h) ==
    IF h.resolver = None THEN h
    ELSE [h EXCEPT !.gen[h.resolver] = Gone, !.resolver = None]

\* Variant: what the subprocess may have consumed is rescued as well.
RescueInFlight(h) ==
    [h EXCEPT !.message = (IF h.slot = None THEN <<>> ELSE <<h.slot>>)
                            \o h.pending \o @, !.pending = <<>>]

\* rescuePendingToQueue.
Rescue(h) == [h EXCEPT !.message = h.pending \o @, !.pending = <<>>]

\* Variant: the next message is promoted between turns only.
PromoteNextWhenIdle(h) ==
    IF \/ h.slot # None \/ h.pending = <<>> \/ h.aborting \/ h.resolver = None
       \/ h.streaming THEN h
    ELSE LET i == Head(h.pending)
         IN Wake(TakeSlot([h EXCEPT !.pending = Tail(@)], i), i)

\* promoteNextFromPending.
PromoteNext(h) ==
    IF h.slot # None \/ h.pending = <<>> \/ h.aborting \/ h.resolver = None THEN h
    ELSE LET i == Head(h.pending)
         IN Wake(TakeSlot([h EXCEPT !.pending = Tail(@)], i), i)

\* shouldStartTurnBoundaryItem.
MayStart(h, reason) ==
    /\ h.boundary # <<>> /\ Head(h.boundary) \in h.ready
    /\ h.ticket \in {None, Head(h.boundary)}
    /\ ~h.streaming /\ h.slot = None /\ h.promoted = None
    /\ h.pending = <<>> /\ h.message = <<>>
    /\ h.aborting => reason = "recovery" /\ h.session # "live"

\* startNextTurnQueuedItem.
StartNext(h, reason) ==
    IF ~MayStart(h, reason) THEN h
    ELSE LET i == Head(h.boundary)
             t == [h EXCEPT !.boundary = Tail(@), !.ready = @ \ {i}]
         IN IF h.session = "live" THEN Wake(t, i)
            ELSE [t EXCEPT !.message = Append(@, i), !.starts = TRUE,
                           !.aborting = @ /\ reason # "recovery"]

QueuedWork(h) == Len(h.message) + Len(h.pending) + Len(h.boundary)
                   + (IF h.slot = None THEN 0 ELSE 1)
Full(h) == QueuedWork(h) >= MaxQueueSize

(***************************************************************************)
(* enqueueUserMessage: the decision, the reservation and the placement,     *)
(* with awaits between them.                                               *)
(***************************************************************************)
Busy ==
    \/ host.streaming \/ host.aborting \/ stop.pc # "no"
    \/ QueuedWork(host) > 0 \/ host.ticket # None \/ host.promoted # None

\* What a desktop message that comes while another one waits for a turn of its own
\* goes behind, in whatever mode.
GoesBehind(h, i) ==
    \/ i \in Turn
    \/ i \in Desktop /\ (h.boundary # <<>> \/ h.ticket # None)

Goto(i, pc) == caller' = [caller EXCEPT ![i] = pc]
Keep == UNCHANGED <<sdk, tasks, troubles, yielded>>
Sending == {i \in Message : caller[i] \notin {"new", "done"}}

\* The session that was started ahead of time is the message's, and no other one is
\* started; an abort keeps its timer.
TakeOver(h) ==
    IF h.aborting THEN h ELSE [h EXCEPT !.preWarming = FALSE, !.timer = FALSE]

\* A queued message during an abort that nothing follows.
SafetyNet(h) ==
    IF h.aborting /\ h.resolver = None THEN [h EXCEPT !.timer = TRUE] ELSE h

\* Both checks: what is awaited between them is not modelled.
Send(i) ==
    /\ caller[i] = "new" /\ Cardinality(Sending) < MaxSenders
    /\ Goto(i, IF Busy THEN "busy" ELSE "direct")
    /\ host' = IF i \in Turn /\ ~Busy THEN [host EXCEPT !.ticket = i] ELSE host
    /\ UNCHANGED wasQueued /\ Keep

\* The place of a message is reserved before its images are prepared.
Reserve(i) ==
    /\ caller[i] = "busy" /\ i \in WithImages
    /\ LET h == TakeOver(host)
       IN IF Full(h) THEN Goto(i, "done") /\ host' = Tell(h, {i}, "failed")
          ELSE IF GoesBehind(h, i)
          THEN Goto(i, "reserved") /\ host' = [h EXCEPT !.boundary = Append(@, i)]
          ELSE Goto(i, "held") /\ host' = h
    /\ UNCHANGED wasQueued /\ Keep

\* A message that found the session idle.  A ticket stays with a message that
\* is handed to a session, and a cancelled one is not handed over.
PlaceDirect(i) ==
    /\ caller[i] = "direct"
    /\ Goto(i, "done")
    /\ LET h == TakeOver(host)
       IN host' = IF h.session # "none" THEN Wake(h, i)
                  ELSE ReleaseTicket(
                         [h EXCEPT !.message = Append(@, i), !.starts = TRUE], i)
    /\ UNCHANGED wasQueued /\ Keep

\* Variant: a reserved message is pushed as well.
PlaceReservedAgain(i) ==
    /\ caller[i] = "reserved"
    /\ Goto(i, "done")
    /\ host' = IF ~Contains(host.boundary, i) THEN host
               ELSE SafetyNet(StartNext([host EXCEPT !.ready = @ \cup {i},
                                                     !.boundary = Append(@, i)], "recovery"))
    /\ UNCHANGED wasQueued /\ Keep

\* A reserved place that is filled; the reservation may have been cancelled.
PlaceReserved(i) ==
    /\ caller[i] = "reserved"
    /\ Goto(i, "done")
    /\ host' = IF ~Contains(host.boundary, i) THEN host
               ELSE SafetyNet(StartNext([host EXCEPT !.ready = @ \cup {i}], "recovery"))
    /\ UNCHANGED wasQueued /\ Keep

\* A message without a reservation.
Place(h, i) ==
    /\ Goto(i, "done")
    /\ IF Full(h)
       THEN host' = Tell(h, {i}, "failed") /\ UNCHANGED wasQueued
       ELSE IF GoesBehind(h, i)
       THEN /\ host' = SafetyNet(StartNext(
                 [h EXCEPT !.boundary = Append(@, i), !.ready = @ \cup {i}], "recovery"))
            /\ UNCHANGED wasQueued
       ELSE /\ wasQueued' = wasQueued \cup {i}
            /\ host' = SafetyNet(
                 IF h.slot # None THEN [h EXCEPT !.pending = Append(@, i)]
                 ELSE IF h.resolver # None THEN Wake(TakeSlot(h, i), i)
                 ELSE [h EXCEPT !.message = Append(@, i)])
    /\ Keep

PlaceAtOnce(i) ==
    /\ caller[i] = "busy" /\ i \notin WithImages
    /\ Place(TakeOver(host), i)

\* With its images prepared it is decided about a second time.
PlaceHeld(i) ==
    /\ caller[i] = "held"
    /\ Place(host, i)

(***************************************************************************)
(* messageGenerator.                                                       *)
(***************************************************************************)
GenAt(g, pc) == host.gen[g].pc = pc
KeepGen == UNCHANGED <<caller, wasQueued, stream, tasks, troubles>>

\* waitForMessage.  The SDK asks for the next message when it has written one
\* to the subprocess's stdin, and a session's first when it is started.
WaitForMessage(h, g) ==
    IF h.aborting THEN [h EXCEPT !.gen[g] = Gone]
    ELSE IF h.message # <<>>
    THEN Promote([h EXCEPT !.message = Tail(@)], g, Head(h.message))
    ELSE [h EXCEPT !.gen[g] = [pc |-> "parked", item |-> None], !.resolver = g]

\* Variant: the wait for the MCP servers does not end with the cancellation.
RejectNothing(h, g, i) == Schedule(ReleaseTicket(h, i), "recovery")

\* rejectPromotedMessageBeforeDispatch.
Reject(h, g, i) ==
    WaitForMessage(
        Schedule(ClearPromoted(ClearSlotOf(ReleaseTicket(h, i), i), i), "recovery"), g)

\* The query is another one than when the wait for its MCP servers began.
OwnerReplaced(g) == host.aborting \/ host.session # "live" \/ g # host.epoch

Requeue(g) ==
    /\ GenAt(g, "promoted") /\ OwnerReplaced(g)
    /\ LET i == host.gen[g].item
       IN host' = [ClearPromoted(ClearSlotOf(host, i), i)
                     EXCEPT !.message = <<i>> \o @, !.gen[g] = Gone]
    /\ UNCHANGED <<cli, yielded>> /\ KeepGen

\* The irreversible admission.
Admit(g) ==
    /\ GenAt(g, "promoted") /\ ~OwnerReplaced(g)
    /\ LET i == host.gen[g].item
           h == IF i \in wasQueued /\ host.slot = None THEN TakeSlot(host, i)
                                                       ELSE host
       IN host' = [ReleaseTicket(ClearPromoted(h, i), i)
                     EXCEPT !.source = i, !.streaming = TRUE,
                            !.timer = @ /\ ~host.preWarming,
                            !.preWarming = FALSE, !.gen[g].pc = "admitted"]
    /\ UNCHANGED <<cli, yielded>> /\ KeepGen

\* The turn that was admitted is still the one that runs.
StillAdmitted(g) ==
    /\ ~host.aborting /\ stop.pc = "no"
    /\ host.streaming /\ host.source = host.gen[g].item

\* Given up: a generator that returns closes the subprocess's stdin.
GiveUp(g) ==
    /\ GenAt(g, "admitted") /\ ~StillAdmitted(g)
    /\ host' = [host EXCEPT !.gen[g] = Gone]
    /\ UNCHANGED <<cli, yielded>> /\ KeepGen

\* The yield; a query that is gone never asks for another message.
Yield(g) ==
    /\ GenAt(g, "admitted") /\ StillAdmitted(g)
    /\ LET i == host.gen[g].item
           reaches == g = host.epoch /\ host.session = "live" /\ Alive
       IN /\ host' = IF reaches THEN WaitForMessage(host, g)
                                 ELSE [host EXCEPT !.gen[g] = Gone]
          /\ cli' = IF reaches THEN [cli EXCEPT !.commands = Append(@, i)] ELSE cli
          /\ yielded' = yielded \cup {i}
          /\ wasQueued' = wasQueued \ {i}
    /\ UNCHANGED <<caller, stream, tasks, troubles>>

(***************************************************************************)
(* The subprocess.                                                         *)
(***************************************************************************)
KeepHost == UNCHANGED <<host, sending, tasks, troubles>>
Writes(event) == stream' = Append(stream, event)
Replay(i) == [type |-> "replay", item |-> i]
Assistant == [type |-> "assistant", item |-> None]
Result == [type |-> "result", item |-> None]

\* A turn on the first command, which some versions acknowledge by a replay.
CliStarts ==
    /\ cli.pc = "idle" /\ cli.commands # <<>>
    /\ cli' = [pc |-> "run", commands |-> Tail(cli.commands)]
    /\ IF host.replays THEN Writes(Replay(Head(cli.commands)))
                       ELSE UNCHANGED stream
    /\ KeepHost

\* A command is attached to the turn that runs.
CliDrains ==
    /\ Running /\ cli.commands # <<>>
    /\ cli' = [cli EXCEPT !.commands = Tail(@)]
    /\ Writes(Replay(Head(cli.commands)))
    /\ KeepHost

CliAnswers ==
    /\ cli.pc = "run"
    /\ cli' = [cli EXCEPT !.pc = "said"]
    /\ Writes(Assistant)
    /\ KeepHost

CliEndsTurn ==
    /\ cli.pc = "said"
    /\ cli' = [cli EXCEPT !.pc = "idle"]
    /\ Writes(Result)
    /\ KeepHost

\* Its stdin is closed and its work is done.
CliExits ==
    /\ cli.pc = "idle" /\ cli.commands = <<>>
    /\ host.session = "live" /\ GenAt(host.epoch, "gone")
    /\ cli' = [cli EXCEPT !.pc = "exited"]
    /\ UNCHANGED stream /\ KeepHost

(***************************************************************************)
(* The for-await loop, and what it starts.                                 *)
(***************************************************************************)
Reads(event) ==
    /\ blocked = None /\ stream # <<>> /\ Head(stream) = event
    /\ stream' = Tail(stream)
KeepLoop == UNCHANGED <<cli, sending, cancel, troubles>>
Stopping == stop.pc # "no"

\* handleQueuedCommandReplay: the loop waits for the transcript.
ReadReplay(i) ==
    /\ Reads(Replay(i))
    /\ IF host.slot = i
       THEN blocked' = i /\ surfacing' = surfacing \cup {i}
       ELSE UNCHANGED <<blocked, surfacing>>
    /\ UNCHANGED <<host, turnEnds, stop>> /\ KeepLoop

\* ensureAssistantMessage: the start of a turn nobody announced tells that the
\* message which was left in the slot is being answered.
ReadAssistant ==
    /\ Reads(Assistant)
    /\ surfacing' = IF ~host.streaming /\ host.slot # None /\ host.ack = host.slot
                    THEN surfacing \cup {host.slot} ELSE surfacing
    /\ host' = [host EXCEPT !.streaming = TRUE]
    /\ UNCHANGED <<blocked, turnEnds, stop>> /\ KeepLoop

\* The receipt of the interrupt is known, and the target is not on it.
TargetIsGone == stop.pc \in {"cancelling", "waiting"} /\ stop.gone

\* completeTurn.  A message in the slot is kept until its own turn starts,
\* unless an interrupt that was meant for it says that it is gone.  The result of
\* an interrupted turn is no completion.
ReadResult ==
    /\ Reads(Result)
    /\ LET h == EndTurn(host, IF Stopping THEN "ended" ELSE "completed")
       IN host' = IF h.slot = None THEN h
                  ELSE IF TargetIsGone /\ stop.target = h.slot
                  THEN DropSlot(h, "dropped")
                  ELSE AwaitAck(h)
    /\ turnEnds' = turnEnds + 1
    /\ stop' = IF Stopping THEN [stop EXCEPT !.ended = "result"] ELSE stop
    /\ UNCHANGED <<blocked, surfacing>> /\ KeepLoop

\* The transcript is written: commonTerminalCleanup.
TurnEndPersisted ==
    /\ turnEnds > 0
    /\ turnEnds' = turnEnds - 1
    /\ host' = Schedule(host, "terminal")
    /\ UNCHANGED <<sdk, sending, blocked, surfacing, cancel, stop, troubles>>

\* schedulePostTerminalQueueDrain.
Drain(reason) ==
    /\ reason \in host.drain
    /\ host' = StartNext(PromoteNext([host EXCEPT !.drain = @ \ {reason}]), reason)
    /\ UNCHANGED <<sdk, sending, tasks, troubles>>

\* The end of surfaceInFlightQueueItem.
Surfaced(i) ==
    /\ i \in surfacing
    /\ surfacing' = surfacing \ {i}
    /\ blocked' = IF blocked = i THEN None ELSE blocked
    /\ host' = PromoteNext(ClearSlot(host))
    /\ UNCHANGED <<sdk, sending, turnEnds, cancel, stop, troubles>>

(***************************************************************************)
(* cancelQueueItem.                                                        *)
(***************************************************************************)
Cancellable(i) ==
    \/ i \in Range(host.message \o host.pending \o host.boundary)
    \/ host.slot = i \/ host.ticket = i \/ host.promoted = i

\* A message that is promoted is rejected at once: its cancellation ends the wait
\* of the generator.  If a later session has promoted another one since, only its
\* ticket is found, and it has strayed: cancelled, though a generator has it.
CancelQueueItem(i) ==
    /\ Cancellable(i) /\ cancel[i] = "no"
    /\ host.told[i] \in {"no", "ended", "completed"}
    /\ Trouble
    /\ LET h == ReleaseTicket(host, i)
           removed == [h EXCEPT !.message = RemoveFirst(@, i),
                                !.pending = RemoveFirst(@, i),
                                !.boundary = RemoveFirst(@, i)]
       IN \/ /\ i \in Range(h.message \o h.pending \o h.boundary)
             /\ host' = Tell(removed, {i}, "cancelled") /\ UNCHANGED cancel
          \/ /\ i \notin Range(h.message \o h.pending \o h.boundary)
             /\ h.slot = i
             /\ host' = h
             /\ cancel' = IF h.session = "live" THEN [cancel EXCEPT ![i] = "asked"]
                                                ELSE cancel
          \/ /\ i \notin Range(h.message \o h.pending \o h.boundary)
             /\ h.slot # i
             /\ IF h.promoted = i
                THEN \E g \in Generator :
                        h.gen[g].item = i /\ host' = Tell(Reject(h, g, i), {i}, "cancelled")
                ELSE host' = Tell(h, {i}, IF \E g \in Generator : h.gen[g].item = i
                                          THEN "strayed" ELSE "cancelled")
             /\ UNCHANGED cancel
    /\ caller' = IF host.ticket = i THEN [caller EXCEPT ![i] = "done"] ELSE caller
    /\ UNCHANGED <<wasQueued, yielded, sdk, blocked, surfacing, turnEnds, stop>>

\* cancel_async_message takes what is still in the subprocess's queue.
CliCancels(i) ==
    /\ cancel[i] = "asked"
    /\ cancel' = [cancel EXCEPT ![i] =
                    IF Contains(cli.commands, i) THEN "yes" ELSE "no"]
    /\ cli' = [cli EXCEPT !.commands = RemoveFirst(@, i)]
    /\ UNCHANGED <<host, stream, sending, blocked, surfacing, turnEnds, stop,
                   troubles>>

\* settleInFlightQueueItemCancelled, after the message's owner was notified.
CancelSettles(i) ==
    /\ cancel[i] = "yes"
    /\ cancel' = [cancel EXCEPT ![i] = "no"]
    /\ host' = Schedule(Tell(ClearSlot(host), {i}, "cancelled"), "terminal")
    /\ UNCHANGED <<sdk, sending, blocked, surfacing, turnEnds, stop, troubles>>

(***************************************************************************)
(* interruptCurrentResponse.                                               *)
(***************************************************************************)
KeepStop == UNCHANGED <<sending, blocked, surfacing, turnEnds>>

\* stopTurn.  What the interrupt was not meant for stays.
StopTurn(h) ==
    LET s == Schedule(EndTurn(h, "ended"), "terminal")
    IN IF s.slot = None THEN s
       ELSE IF Stopping /\ stop.target # s.slot THEN AwaitAck(s)
       ELSE DropSlot(s, "dropped")

Stop ==
    /\ host.streaming /\ ~Stopping
    /\ Trouble
    /\ IF host.session = "live"
       THEN stop' = [NoStop EXCEPT !.pc = "asked", !.target = host.slot]
            /\ UNCHANGED host
       ELSE host' = StopTurn(host) /\ UNCHANGED stop
    /\ UNCHANGED <<sdk, cancel>> /\ KeepStop

\* The turn ends with a result; the receipt lists what is still queued, and says of
\* the target that it is gone.  An old subprocess gives none.
CliInterrupted ==
    /\ stop.pc = "asked" /\ Alive
    /\ cli' = [cli EXCEPT !.pc = "idle"]
    /\ stream' = IF Running THEN Append(stream, Result) ELSE stream
    /\ \E receipt \in BOOLEAN :
         stop' = [stop EXCEPT !.pc = "answered",
                    !.gone = receipt /\ stop.target # None
                               /\ ~Contains(cli.commands, stop.target)]
    /\ UNCHANGED <<host, cancel, troubles>> /\ KeepStop

\* What is left of the target is cancelled, one by one.
ReceiptRead ==
    /\ stop.pc = "answered"
    /\ stop' = [stop EXCEPT !.pc = "cancelling"]
    /\ cancel' = IF stop.target = None \/ host.session # "live" THEN cancel
                 ELSE [cancel EXCEPT ![stop.target] = "asked"]
    /\ UNCHANGED <<host, sdk, troubles>> /\ KeepStop

\* The session is closed by force.
Close(h) == IF h.session = "live" THEN [Rescue(h) EXCEPT !.session = "closed"] ELSE h
Kill == cli' = IF host.session = "live" THEN [pc |-> "dead", commands |-> <<>>]
                                        ELSE cli

\* shouldDropInFlightAfterLateInterruptReceipt.
LateReceipt(h) ==
    IF stop.ended = "result" /\ stop.gone /\ h.slot = stop.target
    THEN PromoteNext(DropSlot(h, "dropped")) ELSE h

StopCancelled ==
    /\ stop.pc = "cancelling"
    /\ stop.target # None => cancel[stop.target] = "no"
    /\ LET h == LateReceipt(host)
       IN IF stop.ended = "no" /\ host.session = "live"
          THEN stop' = [stop EXCEPT !.pc = "waiting"] /\ host' = h
          ELSE /\ stop' = NoStop
               /\ host' = IF stop.ended = "result" THEN h ELSE StopTurn(h)
    /\ UNCHANGED <<sdk, cancel, troubles>> /\ KeepStop

StopEnds ==
    /\ stop.pc = "waiting" /\ stop.ended # "no"
    /\ stop' = NoStop
    /\ host' = IF stop.ended = "result" THEN host ELSE StopTurn(host)
    /\ UNCHANGED <<sdk, cancel, troubles>> /\ KeepStop

\* No answer in 5 s, or no result within 3 s of it.
StopTimesOut ==
    /\ \/ stop.pc = "asked"
       \/ stop.pc = "waiting" /\ stop.ended = "no"
    /\ \/ Trouble
       \/ stream = <<>> /\ ~Running /\ (stop.pc = "asked" => ~Alive)
          /\ UNCHANGED troubles
    /\ host' = IF stop.ended = "result" THEN Close(host) ELSE StopTurn(Close(host))
    /\ Kill
    /\ stop' = NoStop
    /\ UNCHANGED <<stream, cancel>> /\ KeepStop

(***************************************************************************)
(* The session.                                                            *)
(***************************************************************************)
KeepSession == UNCHANGED <<sending, surfacing, turnEnds, cancel>>

\* startStreamingSession, up to the query: by a message, which an abort stops,
\* or ahead of time.  It waits for the session before it.
StartSession ==
    /\ host.session = "none" /\ GenAt(1 - host.epoch, "gone")
    /\ \/ /\ host.starts /\ host.aborting
          /\ LET dropped == Range(host.message \o host.boundary)
             IN host' = [Tell(host, dropped, "cancelled")
                           EXCEPT !.message = <<>>, !.boundary = <<>>, !.ticket = None,
                                  !.aborting = FALSE, !.starts = FALSE]
       \/ /\ host.starts /\ ~host.aborting
          /\ host' = [host EXCEPT !.session = "spawning", !.starts = FALSE,
                                  !.timer = FALSE, !.preWarming = FALSE]
       \/ /\ host.timer
          /\ host' = [host EXCEPT !.session = "spawning", !.timer = FALSE,
                                  !.aborting = FALSE, !.preWarming = TRUE]
    /\ UNCHANGED <<sdk, blocked, stop, troubles>> /\ KeepSession

SessionSpawns ==
    /\ host.session = "spawning"
    /\ host' = LET g == 1 - host.epoch
               IN WaitForMessage([host EXCEPT !.session = "live", !.epoch = g], g)
    /\ cli' = [pc |-> "idle", commands |-> <<>>]
    /\ stream' = <<>>
    /\ UNCHANGED <<blocked, stop, troubles>> /\ KeepSession

Crash ==
    /\ host.session = "live" /\ Alive
    /\ Trouble
    /\ cli' = [pc |-> "dead", commands |-> <<>>]
    /\ UNCHANGED <<host, stream, blocked, stop>> /\ KeepSession

\* applyDeferredRestartIfNeeded: a change of the configuration aborts a session
\* that is at rest; the generator's return ends it.
Restart ==
    /\ host.session = "live" /\ ~host.aborting
    /\ ~host.streaming /\ host.slot = None /\ host.promoted = None
    /\ Trouble
    /\ host' = LET t == host.ticket
                   h == IF t # None /\ caller[t] = "done" THEN ReleaseTicket(host, t)
                                                          ELSE host
               IN WakeNull([Rescue(h) EXCEPT !.aborting = TRUE, !.timer = TRUE])
    /\ UNCHANGED <<sdk, blocked, stop>> /\ KeepSession

\* The last words of startStreamingSession: messages that wait get a session.
SessionEnds(h) ==
    LET t == [h EXCEPT !.session = "none", !.preWarming = FALSE,
                       !.timer = @ \/ (h.preWarming = h.aborting)]
        s == StartNext([t EXCEPT !.timer = FALSE], "recovery")
    IN IF t.message # <<>> THEN [t EXCEPT !.timer = TRUE]
       ELSE IF t.boundary = <<>> THEN t
       ELSE IF s.boundary # t.boundary THEN s
       ELSE [t EXCEPT !.timer = TRUE]

\* Variant: the flag outlives the subprocess.
SessionExitStreaming ==
    /\ host.session \in {"live", "closed"} /\ ~Alive
    /\ stream = <<>> /\ blocked = None
    /\ host' = SessionEnds(DropSlot(Rescue(WakeNull(host)), "failed"))
    /\ stop' = IF Stopping /\ stop.ended = "no" THEN [stop EXCEPT !.ended = "session"]
                                                ELSE stop
    /\ UNCHANGED <<sdk, blocked, troubles>> /\ KeepSession

\* The `finally' of startStreamingSession, after failTurn of an unexpected end.
SessionExit ==
    /\ host.session \in {"live", "closed"} /\ ~Alive
    /\ stream = <<>> /\ blocked = None
    /\ host' = LET h == IF cli.pc = "dead" /\ ~host.preWarming /\ ~host.aborting
                        THEN Schedule(EndTurn(host, "ended"), "terminal") ELSE host
               IN SessionEnds(DropSlot(Rescue(WakeNull(
                    [h EXCEPT !.streaming = FALSE])), "failed"))
    /\ stop' = IF Stopping /\ stop.ended = "no" THEN [stop EXCEPT !.ended = "session"]
                                                ELSE stop
    /\ UNCHANGED <<sdk, blocked, troubles>> /\ KeepSession

Host ==
    \/ \E i \in Message : Reserve(i) \/ PlaceDirect(i)
                          \/ PlaceAtOnce(i) \/ PlaceReserved(i) \/ PlaceHeld(i)
                          \/ ReadReplay(i) \/ Surfaced(i) \/ CancelSettles(i)
    \/ \E g \in Generator : Requeue(g) \/ Admit(g)
                            \/ GiveUp(g) \/ Yield(g)
    \/ \E reason \in {"terminal", "recovery"} : Drain(reason)
    \/ ReadAssistant \/ ReadResult \/ TurnEndPersisted
    \/ ReceiptRead \/ StopCancelled \/ StopEnds \/ StopTimesOut
    \/ StartSession \/ SessionSpawns \/ SessionExit

Cli ==
    \/ CliStarts \/ CliDrains \/ CliAnswers \/ CliEndsTurn \/ CliExits
    \/ CliInterrupted \/ \E i \in Message : CliCancels(i)

Next ==
    \/ \E i \in Message : Send(i) \/ CancelQueueItem(i)
    \/ Stop \/ Crash \/ Restart
    \/ Host \/ Cli

Spec == Init /\ [][Next]_vars
FairSpec == Spec /\ WF_vars(Host \/ Cli)

(***************************************************************************)
(* Properties.                                                             *)
(***************************************************************************)
\* A message waits in one place: the queues, the two generators that may be
\* there after a restart, and the subprocess never hold it twice, although a
\* message goes back and forth between them when a session ends.
OnePlace ==
    \A i \in Message :
        /\ IsInjective(host.message \o host.pending \o host.boundary
                         \o cli.commands)
        /\ \A g \in Generator : host.gen[g].item = i =>
              /\ ~Contains(host.message \o host.pending \o host.boundary
                             \o cli.commands, i)
              /\ host.gen[1 - g].item # i

\* The invariant of the queues: their types, and the one above.
QueueInv == TypeOK /\ OnePlace

\* The SDK is never given a message a second time: what a recovery session
\* takes up again, after a crash, a stop by force or a restart, are messages
\* that the subprocess before it cannot have consumed.
NoMessageTwice ==
    [][\A i \in Message :
         Contains(cli'.commands, i) /\ ~Contains(cli.commands, i) => i \notin yielded]_vars

\* The subprocess begins no message whose cancellation the user was confirmed,
\* wherever the message was when it was asked for: in one of the queues, on its
\* way through the generator, or with the subprocess.  What has strayed is exempt.
CancelledIsNotRun ==
    [][\A i \in Message :
         /\ Contains(cli.commands, i) /\ ~Contains(cli'.commands, i)
         /\ cli'.pc # "dead"
         => host.told[i] # "cancelled"]_vars

\* The conversation does not stay busy: isStreamingMessage becomes false again
\* after a crash or a stop too, and with it the way for new messages is free.
\* The exception is a turn whose own message was cancelled in the subprocess's
\* queue, which leaves the flag as it was.
TurnsEnd ==
    host.streaming ~> (~host.streaming \/ host.told[host.source] = "cancelled")

\* What is queued behind a running turn gets on: the one place for a message in the
\* subprocess's queue becomes free again, and so do the messages that wait for it, or
\* the next session takes them, provided the subprocess acknowledges a message with
\* which it begins a turn.
Queued == host.slot # None \/ host.pending # <<>>
QueueMovesOn == host.replays /\ Queued ~> ~Queued

(***************************************************************************)
(* What comments in the code say of it, and the code does not do.          *)
(***************************************************************************)
\* agent-session.ts, at the admission: "From here the item is an accepted active
\* turn", so that a caller "must report and stop that exact active owner".  The
\* end of a turn that is reported to a message as complete is the end of its own
\* turn: the SDK was given the message.
CompletedWasGiven ==
    \A i \in Message : host.told[i] = "completed" => i \in yielded
=============================================================================
