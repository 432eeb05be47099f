------------------------------ MODULE DreoHub ------------------------------
(***************************************************************************)
(* The Dreo hub (class Dreo, src/components/dreo/dreo.cpp) at the          *)
(* granularity of its calls: loop() reading frames and running the command *)
(* queue, the frame handlers, the callbacks that run inside them and call  *)
(* back into the hub, the heartbeat timer and the controls.                *)
(*                                                                         *)
(* The program is single threaded. What interleaves is the order in which  *)
(* the application calls the hub, the frames the MCU chooses to send, time,*)
(* and re-entry: every send runs process_command_queue_, also from inside  *)
(* the handler of a frame, and process_command_queue_ may itself hand a    *)
(* frame out of a stale buffer to a handler.                               *)
(***************************************************************************)
EXTENDS DreoSession

CONSTANTS
    Ignored,       \* ignore_mcu_update_on_datapoints_
    MaxQueue,      \* bound on the commands queued by controls, timer and MCU
    Disturbances   \* which of the rarer inputs the environment produces

ASSUME HubAssumption ==
    /\ Ignored \subseteq Dps
    /\ MaxQueue \in Nat
    /\ Disturbances \subseteq {"mcu_restart", "module_reset", "early_control", "stale_frame"}

VARIABLES
    session,   \* the protocol session, see DreoSession
    table,     \* datapoints_: what the MCU last reported
    rx,        \* rx_message_: "empty", "fresh", or "stale" (no byte for TIMEOUT)
    turn,      \* what the hub is executing
    frame      \* the frame being handled

vars == <<session, table, rx, turn, frame>>

(***************************************************************************)
(* turn is "idle" between calls into the hub, "reading" inside loop() once *)
(* bytes were read, "rejecting" inside process_command_queue_ while it     *)
(* rescans a stale buffer, and "crashed" once process_rx_buffer_ has       *)
(* erased past the end of its buffer.                                      *)
(*                                                                         *)
(* frame.kind is "report" from the head of a DATAPOINT_REPORT's handler to *)
(* its end, "other" while a callback of another handler may run, "none"    *)
(* between frames. left are the datapoints of the report not yet taken     *)
(* over; delivered and authoritative say which command the report          *)
(* completed; callbacks, that code outside the hub is being called.        *)
(***************************************************************************)
Turns == {"idle", "reading", "rejecting", "crashed"}
Frames == [kind : {"none", "report", "other"}, left : SUBSET Dps,
           delivered : BOOLEAN, authoritative : BOOLEAN, callbacks : BOOLEAN]

NoFrame == [kind |-> "none", left |-> {}, delivered |-> FALSE,
            authoritative |-> FALSE, callbacks |-> FALSE]
OtherFrame(callbacks) == [NoFrame EXCEPT !.kind = "other", !.callbacks = callbacks]

Handling == frame.kind # "none"
Known == {d \in Dps : table[d] # NoValue}

Init ==
    /\ session = InitSession
    /\ table = Nothing
    /\ rx = "empty"
    /\ turn = "idle"
    /\ frame = NoFrame

----------------------------------------------------------------------------
(* process_command_queue_ *)

\* Called with no frame under handling: from loop(), the heartbeat timer or a
\* control. A stale buffer is rescanned first, see Rescan below.
RunQueue(s) ==
    IF rx = "stale"
    THEN /\ session' = s
         /\ turn' = "rejecting"
         /\ UNCHANGED rx
    ELSE /\ session' = ProcessQueue(s, rx = "empty")
         /\ turn' = "idle"
         /\ UNCHANGED rx

\* Called from the handler of a frame, which still lies at the front of the
\* buffer r. If the buffer is stale, this nested call rejects the first byte of
\* that very frame and rescans the rest, and the handler's caller then erases a
\* frame that is no longer there: the erase runs past the end of the buffer
\* unless enough later bytes survived.
Reenter(r, t) ==
    \/ r # "stale" /\ rx' = r /\ turn' = t
    \/ r = "stale" /\ rx' = "fresh" /\ turn' = t
    \/ r = "stale" /\ rx' = "empty" /\ turn' = "crashed"

----------------------------------------------------------------------------
(* loop() *)

\* A complete valid frame is at the front of the buffer: bytes just read
\* complete one, or the rescan of a stale buffer comes across one.
FrameReady ==
    /\ ~Handling
    /\ turn # "crashed"
    /\ turn = "rejecting" => rx # "empty" /\ "stale_frame" \in Disturbances

Buffer == IF turn = "rejecting" THEN rx ELSE "fresh"
Turn   == IF turn = "rejecting" THEN turn ELSE "reading"

Accept == rx' = Buffer /\ turn' = Turn

\* Bytes that complete no frame with an effect: part of one, noise, a frame
\* rejected by length, checksum or body, or of a type that changes nothing.
ReadBytes ==
    /\ ~Handling
    /\ turn \in {"idle", "reading"}
    /\ turn' = "reading"
    /\ rx' \in {"empty", "fresh"}
    /\ UNCHANGED <<session, table, frame>>

\* The tail of loop().
EndLoop ==
    /\ ~Handling
    /\ turn \in {"idle", "reading"}
    /\ RunQueue(session)
    /\ UNCHANGED <<table, frame>>

\* The stale-buffer branch of process_command_queue_ has dropped the candidate
\* and handled what frames it found; the rest of the call follows.
Rescan ==
    /\ ~Handling
    /\ turn = "rejecting"
    /\ rx' \in IF rx = "empty" THEN {"empty"} ELSE {"empty", "fresh"}
    /\ session' = ProcessQueue(session, rx' = "empty")
    /\ turn' = "idle"
    /\ UNCHANGED <<table, frame>>

----------------------------------------------------------------------------
(* handle_command_ *)

Answered(type) == IF session.expected = type THEN Complete(session) ELSE session

\* A heartbeat; status 0 says the MCU restarted. The first heartbeat of a
\* session starts the handshake. MaxQueue bounds the restarts.
HandleHeartbeat(restarted) ==
    /\ FrameReady
    /\ restarted => "mcu_restart" \in Disturbances
    /\ LET s == Answered("HEARTBEAT")
           starts == restarted \/ s.initState = "INIT_HEARTBEAT"
           product == [s EXCEPT !.initState = "INIT_PRODUCT"]
       IN  IF starts
           THEN /\ Len(s.queue) < MaxQueue
                /\ session' = ProcessQueue(Enqueue(product, Empty("PRODUCT_QUERY")), FALSE)
                /\ Reenter(Buffer, Turn)
           ELSE session' = s /\ Accept
    /\ frame' = OtherFrame(FALSE)
    /\ UNCHANGED table

HandleProduct ==
    /\ FrameReady
    /\ LET s == Answered("PRODUCT_QUERY")
       IN  IF s.initState = "INIT_PRODUCT"
           THEN /\ session' = [ProcessQueue(Enqueue(s, Empty("DATAPOINT_QUERY")), FALSE)
                               EXCEPT !.initState = "INIT_DATAPOINT"]
                /\ Reenter(Buffer, Turn)
           ELSE session' = s /\ Accept
    /\ frame' = OtherFrame(FALSE)
    /\ UNCHANGED table

\* An empty WIFI_STATE; a non-empty one completes nothing (ReadBytes).
HandleWifiState ==
    /\ FrameReady
    /\ session' = Answered("WIFI_STATE")
    /\ Accept
    /\ frame' = OtherFrame(FALSE)
    /\ UNCHANGED table

\* An empty MODULE_RESET_REQUEST; its callback follows the reset.
HandleModuleReset ==
    /\ FrameReady
    /\ "module_reset" \in Disturbances
    /\ session' = ResetSession(session)
    /\ Accept
    /\ frame' = OtherFrame(TRUE)
    /\ UNCHANGED table

\* A BUTTON_EVENT, which answers nothing; its callback runs the automations.
HandleButtonEvent ==
    /\ FrameReady
    /\ Accept
    /\ frame' = OtherFrame(TRUE)
    /\ UNCHANGED <<session, table>>

\* MUTANT: any report during a reconciliation speaks for the readback.
MutHandleReport(ids) ==
    /\ FrameReady
    /\ LET head == Head(session.queue)
           completes == session.expected = "DATAPOINT_REPORT"
           s == IF completes THEN Complete(session) ELSE session
       IN  /\ session' = s
           /\ frame' = [kind |-> "report", left |-> ids,
                        delivered |-> completes /\ head.cmd = "DATAPOINT_DELIVER",
                        authoritative |-> s.route = "TRANSITION", callbacks |-> FALSE]
    /\ Accept
    /\ UNCHANGED table

\* MUTANT: a query too waits for a report of the whole table.
MutPartialReport(ids) ==
    /\ FrameReady
    /\ LET head == Head(session.queue)
           partial == head.cmd # "DATAPOINT_DELIVER" /\ ~(Known # {} /\ Known \subseteq ids)
           completes == session.expected = "DATAPOINT_REPORT" /\ ~partial
           s == IF completes THEN Complete(session) ELSE session
       IN  /\ session' = s
           /\ frame' = [kind |-> "report", left |-> ids,
                        delivered |-> completes /\ head.cmd = "DATAPOINT_DELIVER",
                        authoritative |-> completes /\ IsReadback(head), callbacks |-> FALSE]
    /\ Accept
    /\ UNCHANGED table

\* The head of the handler of a valid report of the datapoints ids. A diagnostic
\* request is only completed by a report of the whole table.
HandleReport(ids) ==
    /\ FrameReady
    /\ LET head == Head(session.queue)
           partial == head.cmd = "DATAPOINT_REPORT" /\ ~(Known # {} /\ Known \subseteq ids)
           completes == session.expected = "DATAPOINT_REPORT" /\ ~partial
           s == IF completes THEN Complete(session) ELSE session
           initialized == s.initState = "INIT_DATAPOINT"
       IN  /\ session' = IF initialized THEN [s EXCEPT !.initState = "INIT_DONE"] ELSE s
           /\ frame' = [kind |-> "report", left |-> ids,
                        delivered |-> completes /\ head.cmd = "DATAPOINT_DELIVER",
                        authoritative |-> completes /\ IsReadback(head),
                        callbacks |-> initialized]
    /\ Accept
    /\ UNCHANGED table

\* handle_datapoints_ takes over one datapoint and calls its listeners; after
\* the last one the report callback runs.
TakeDatapoint(d, v) ==
    /\ d \in frame.left
    /\ turn # "crashed"
    /\ session' = ClearConfirmed(session, d, v, frame.authoritative)
    /\ table' = IF d \in Ignored THEN table ELSE [table EXCEPT ![d] = v]
    /\ frame' = [frame EXCEPT !.left = @ \ {d},
                              !.callbacks = d \notin Ignored \/ frame.left = {d}]
    /\ UNCHANGED <<rx, turn>>

\* The end of the handler, and the erase of its frame from the buffer.
FinishFrame ==
    /\ Handling
    /\ turn # "crashed"
    /\ frame.left = {}
    /\ session' = IF frame.kind = "report" THEN Settle(session, frame) ELSE session
    /\ frame' = NoFrame
    /\ rx' \in {"empty", rx}
    /\ UNCHANGED <<table, turn>>

----------------------------------------------------------------------------
(* Calls from the rest of the program *)

\* A control, a timer or an automation runs between calls into the hub, or in a
\* callback of the handler of a frame.
Callable == IF Handling THEN frame.callbacks /\ turn # "crashed" ELSE turn = "idle"

Send(s) ==
    /\ Len(session.queue) < MaxQueue
    /\ IF Handling
       THEN session' = ProcessQueue(s, FALSE) /\ Reenter(rx, turn)
       ELSE RunQueue(s)
    /\ UNCHANGED <<table, frame>>

MayControl == Callable /\ (session.initState = "INIT_DONE" \/ "early_control" \in Disturbances)

\* set_datapoint_values, for a batch the authorizer lets through. A batch that
\* changes nothing is not sent.
SetDatapoints(batch, forced) ==
    /\ MayControl
    /\ NeedsSend(session, table, batch, forced)
    /\ Send(Enqueue(Record(session, batch), Deliver(batch)))

SendWifiStatus ==
    /\ MayControl
    /\ Send(Enqueue(session, Empty("WIFI_STATE")))

RequestFullReport ==
    /\ Callable
    /\ session.initState = "INIT_DONE"
    /\ Known # {}
    /\ session.queue = <<>>
    /\ ~InFlight(session)
    /\ ~HasPending(session)
    /\ session.route = "NONE"
    /\ Send(Enqueue(session, Empty("DATAPOINT_REPORT")))

\* The interval timer of setup().
Heartbeat ==
    /\ turn = "idle" /\ ~Handling
    /\ Send(Enqueue(session, Empty("HEARTBEAT")))

----------------------------------------------------------------------------
(* Time, and the end of it *)

Tick ==
    /\ turn = "idle" /\ ~Handling
    /\ session.age < MaxAge
    /\ session' = [session EXCEPT !.age = @ + 1]
    /\ UNCHANGED <<table, rx, turn, frame>>

\* No byte for longer than TIMEOUT. Nothing is transmitted while the buffer holds
\* anything, so the last command is older still.
BufferGoesStale ==
    /\ turn = "idle" /\ ~Handling
    /\ rx = "fresh"
    /\ session.age > TIMEOUT
    /\ rx' = "stale"
    /\ UNCHANGED <<session, table, turn, frame>>

\* The device restarts after a memory error.
Reboot ==
    /\ turn = "crashed"
    /\ session' = InitSession
    /\ table' = Nothing
    /\ rx' = "empty"
    /\ turn' = "idle"
    /\ frame' = NoFrame

----------------------------------------------------------------------------
Receive ==
    \/ \E restarted \in BOOLEAN : HandleHeartbeat(restarted)
    \/ HandleProduct
    \/ HandleWifiState
    \/ HandleModuleReset
    \/ HandleButtonEvent
    \/ \E ids \in SUBSET Dps : HandleReport(ids)
    \/ \E d \in Dps, v \in Values : TakeDatapoint(d, v)
    \/ FinishFrame

Control ==
    \/ \E batch \in Batches, forced \in BOOLEAN : SetDatapoints(batch, forced)
    \/ SendWifiStatus
    \/ RequestFullReport
    \/ Heartbeat

Next ==
    \/ ReadBytes
    \/ EndLoop
    \/ Rescan
    \/ Receive
    \/ Control
    \/ Tick
    \/ BufferGoesStale
    \/ Reboot

Spec == Init /\ [][Next]_vars

----------------------------------------------------------------------------
(* Fairness. loop() is called for ever, every few milliseconds, and reads the  *)
(* bytes available when it starts, a finite number, so every pass ends; a      *)
(* handler runs to its end; time passes. The MCU pauses for longer than        *)
(* TIMEOUT again and again: then bytes left in the buffer go stale, loop()     *)
(* meets the stale buffer before the next byte, and since each rescan drops a  *)
(* byte the buffer empties. None of it says that the MCU ever answers.         *)

LoopMeets(buffer) == EndLoop /\ rx = buffer
LastRescan == Rescan /\ rx' = "empty"
TakeSomeDatapoint == \E d \in Dps, v \in Values : TakeDatapoint(d, v)

Fairness ==
    /\ SF_vars(EndLoop) /\ SF_vars(LoopMeets("empty")) /\ SF_vars(LoopMeets("stale"))
    /\ SF_vars(LastRescan)
    /\ SF_vars(BufferGoesStale)
    /\ SF_vars(Tick)
    /\ WF_vars(TakeSomeDatapoint)
    /\ WF_vars(FinishFrame)

FairSpec == Spec /\ Fairness

----------------------------------------------------------------------------
(* Type invariant *)

\* Every variable has its type: the state of class Dreo.
TypeOK ==
    /\ session \in Sessions
    /\ table \in Batches
    /\ rx \in {"empty", "fresh", "stale"}
    /\ turn \in Turns
    /\ frame \in Frames

(* Safety *)

\* A response is awaited only from the command at the head of the queue, and it
\* is the response to that command. handle_command_ and process_command_queue_
\* take front() of the queue on that ground (dreo.cpp:205, 529) without a check.
InFlightIsHead == HeadIsAwaited(session)

\* At most one readback is queued, and nothing but the command in flight is ever
\* ahead of it (queue_reconciliation_request_): cancellation and the attempt
\* counter, one for the whole session, rely on it.
OneReadbackNext == ReadbackIsNext(session)

\* A queued readback belongs to the reconciliation the session is in, and that
\* one has a reason: a transition still pending, or the report that settled it
\* is still being handled. cancel_reconciliation_ misses none.
ReadbackHasReason ==
    HasReadback(session) =>
        /\ session.route = "TRANSITION"
        /\ HasPending(session) \/ frame.kind = "report"

\* Outside a reconciliation its attempt counter is clear, so that the next one
\* (schedule_transition_reconciliation_) has its full budget.
AttemptsClear == AttemptsAreClear(session)

\* While the handshake waits for an answer and has not failed, the request for
\* it is still in the queue: no timeout, interleaved report or repeated heartbeat
\* leaves the hub waiting for what it no longer asks.
HandshakeHasRequest == HandshakeAsks(session)

\* A report may contradict a pending transition only if a readback was put on
\* the wire for it in this reconciliation.
AuthorityFromReadback ==
    frame.authoritative => session.route = "TRANSITION" /\ session.attempts > 0

\* What a report under handling allows: only a DATAPOINT_REPORT has datapoints,
\* the readback that an authoritative one answered has left the queue, and no
\* readback is in flight, since every report completes it and nothing is sent
\* while the report lies in the buffer.
FrameInv ==
    /\ frame.left # {} => frame.kind = "report"
    /\ frame.authoritative =>
          /\ frame.kind = "report"
          /\ session.route = "TRANSITION"
          /\ session.attempts > 0
          /\ ~HasReadback(session)
          /\ ~InFlight(session)
    /\ frame.kind = "report" => ~ReadbackInFlight(session)
    /\ HasReadback(session) => HasPending(session) \/ frame.kind = "report"

\* The inductive invariant of DreoHubProofs.
IInv ==
    /\ TypeOK
    /\ SessionInv(session)
    /\ HandshakeAsks(session)
    /\ FrameInv

\* The readbacks of a reconciliation stay within their budget.
AttemptsBounded == session.attempts <= MAX_RECONCILIATION_ATTEMPTS

\* A reconciliation that is under way has its readback queued, except while the
\* report that decides about the next one is handled: it cannot be stranded.
RouteHasReadback ==
    session.route = "TRANSITION" => HasReadback(session) \/ frame.authoritative

(* Action properties *)

Restarting == turn' # "crashed" /\ session'.queue = <<>> /\ session'.pending = Nothing
                /\ session'.initState = "INIT_HEARTBEAT"

\* Commands other than readbacks leave the queue in the order they came, each
\* only from the head and while in flight: none is dropped unsent, overtaken or
\* duplicated. A reset of the session drops them all.
LeavesInOrder ==
    LET before == Ordinary(session.queue)
        after  == Ordinary(session'.queue)
        headLeft == /\ InFlight(session)
                    /\ ~IsReadback(Head(session.queue))
                    /\ \/ after = Tail(before)
                       \/ Len(after) > 0 /\ Front(after) = Tail(before)
    IN  \/ after = before
        \/ Len(after) > 0 /\ Front(after) = before
        \/ headLeft
        \/ Restarting

\* Every step keeps the order of the queue (process_command_queue_, queue_command_).
QueueIsFifo == [][LeavesInOrder]_vars

\* A pending transition is given up only when a report confirms it, or a readback
\* answers with its datapoint, or the session is reset; never by a timeout and
\* never because the readbacks are exhausted.
GivenUp(d) == session.pending[d] # NoValue /\ session'.pending[d] = NoValue
SettledBy(d) ==
    \/ /\ frame.kind = "report"
       /\ d \in frame.left /\ d \notin frame'.left
       /\ \/ frame.authoritative
          \/ d \in Ignored
          \/ table'[d] = session.pending[d]
    \/ Restarting
PendingIsKept == [][\A d \in Dps : GivenUp(d) => SettledBy(d)]_vars

\* A Wi-Fi status or a diagnostic request that times out is not sent again.
OneShotNotRetried ==
    [][/\ EndLoop /\ rx # "stale"
       /\ InFlight(session) /\ session.age > TIMEOUT
       /\ Head(session.queue).cmd \in {"WIFI_STATE", "DATAPOINT_REPORT"}
       => session'.queue = Tail(session.queue)]_vars

(* Refinement *)

Transitions == INSTANCE DreoTransitions WITH
    wanted <- session.pending,
    known <- table,
    asking <- ReadbackInFlight(session),
    unread <- frame.left,
    authority <- frame.authoritative

\* The hub keeps the promise of DreoTransitions: whatever is queued, lost,
\* expired, restarted or sent from within a handler, a target lasts until a
\* report agrees with it or the one report that answers a readback does not.
KeepsTransitions == Transitions!Spec

(* Liveness *)

\* Every reconciliation ends, whatever the MCU answers or does not.
ReconciliationEnds == (session.route = "TRANSITION") ~> (session.route = "NONE")

\* The handshake never hangs: each stage is passed, or given up.
HandshakeEnds ==
    (session.initState \in {"INIT_PRODUCT", "INIT_DATAPOINT"}) ~>
        (session.initState = "INIT_DONE" \/ session.initFailed)

\* The queue never blocks: a command waiting at its head is sent, and a command
\* in flight is answered, or is dropped or sent again, since its age starts over.
QueueMoves ==
    /\ []<>(session.queue = <<>> \/ InFlight(session))
    /\ []<>~(InFlight(session) /\ session.age > TIMEOUT)

(* What the tests and the documentation say and the code does not always do,   *)
(* see the README.                                                             *)

\* The receive buffer survives whatever is recovered from it: a frame is erased
\* from it by nobody but the one who handles it.
BufferSurvives == turn # "crashed"

\* A delivery whose report never came, with a transition pending, is followed by
\* a readback.
LostReportIsReadBack ==
    [][/\ EndLoop /\ rx # "stale"
       /\ InFlight(session) /\ session.age > TIMEOUT
       /\ session.initState = "INIT_DONE"
       /\ Head(session.queue).cmd = "DATAPOINT_DELIVER"
       /\ HasPending(session)
       => HasReadback(session')]_vars
==============================================================================
