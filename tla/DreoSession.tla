---------------------------- MODULE DreoSession ----------------------------
(***************************************************************************)
(* The protocol session of the Dreo hub (class Dreo,                       *)
(* src/components/dreo/dreo.cpp): the queue of commands waiting for the    *)
(* UART, the response the command in flight waits for, the handshake and   *)
(* its retries, the transitions whose outcome the MCU has not confirmed,   *)
(* and the readbacks that reconcile them.                                  *)
(*                                                                         *)
(* The methods of the class call one another on the same object: sending a *)
(* command runs the queue, which may expire another command, which may     *)
(* queue a readback.  Each method is an operator from a session to a       *)
(* session, and DreoHub composes them into the handlers of the program.    *)
(*                                                                         *)
(* Time is counted in ticks.  age is "now - last_command_timestamp_",      *)
(* capped just above the largest limit it is compared with.                *)
(***************************************************************************)
EXTENDS Integers, Sequences, SequencesExt

CONSTANTS
    Dps,          \* datapoint ids
    Transition,   \* those registered with add_transition_datapoint
    Values,       \* values a datapoint can take
    NoValue,      \* no value: unknown to the table, not pending, not written
    SPACING,      \* command_spacing_, in ticks
    TIMEOUT,      \* RECEIVE_TIMEOUT, in ticks
    MAX_RETRIES,
    MAX_RECONCILIATION_ATTEMPTS

ASSUME DatapointsAssumption ==
    /\ Transition \subseteq Dps
    /\ NoValue \notin Values

ASSUME LimitsAssumption ==
    /\ SPACING \in Nat
    /\ TIMEOUT \in Nat
    /\ MAX_RETRIES \in Nat \ {0}
    /\ MAX_RECONCILIATION_ATTEMPTS \in Nat \ {0}

----------------------------------------------------------------------------
(* Data *)

MaxAge == (IF SPACING > TIMEOUT THEN SPACING ELSE TIMEOUT) + 1

InitStates == {"INIT_HEARTBEAT", "INIT_PRODUCT", "INIT_DATAPOINT", "INIT_DONE"}

CommandTypes == {"HEARTBEAT", "PRODUCT_QUERY", "WIFI_STATE",
                 "DATAPOINT_DELIVER", "DATAPOINT_QUERY", "DATAPOINT_REPORT"}

Routes == {"NONE", "TRANSITION"}

\* A value for each datapoint, or none: the table, the pending targets and the
\* content of a DATAPOINT_DELIVER.
Batches == [Dps -> Values \cup {NoValue}]
Nothing == [d \in Dps |-> NoValue]

\* DreoCommand. Only request_full_datapoint_report_once queues a
\* DATAPOINT_REPORT, so that type stands for diagnostic_full_report; a readback
\* is a DATAPOINT_QUERY with a route. Only a DATAPOINT_DELIVER writes.
Commands == {c \in [cmd : CommandTypes, route : Routes, writes : Batches] :
                /\ c.route = "TRANSITION" => c.cmd = "DATAPOINT_QUERY"
                /\ c.cmd # "DATAPOINT_DELIVER" => c.writes = Nothing}

Empty(type)    == [cmd |-> type, route |-> "NONE", writes |-> Nothing]
Deliver(batch) == [cmd |-> "DATAPOINT_DELIVER", route |-> "NONE", writes |-> batch]
Readback       == [cmd |-> "DATAPOINT_QUERY", route |-> "TRANSITION", writes |-> Nothing]

\* The type of the frame that answers a command.
ResponseOf(type) ==
    IF type \in {"DATAPOINT_DELIVER", "DATAPOINT_QUERY", "DATAPOINT_REPORT"}
    THEN "DATAPOINT_REPORT" ELSE type

Responses == {"HEARTBEAT", "PRODUCT_QUERY", "WIFI_STATE", "DATAPOINT_REPORT"}

Sessions == [initState   : InitStates,
             initFailed  : BOOLEAN,
             initRetries : 0..(MAX_RETRIES - 1),
             queue       : Seq(Commands),
             expected    : Responses \cup {"NONE"},
             pending     : Batches,
             route       : Routes,
             attempts    : Nat,
             age         : 0..MaxAge]

InitSession ==
    [initState |-> "INIT_HEARTBEAT", initFailed |-> FALSE, initRetries |-> 0,
     queue |-> <<>>, expected |-> "NONE", pending |-> Nothing,
     route |-> "NONE", attempts |-> 0, age |-> 0]

HasPending(s) == \E d \in Dps : s.pending[d] # NoValue
InFlight(s)   == s.expected # "NONE"
IsReadback(c) == c.route = "TRANSITION"
HasReadback(s) == \E i \in 1..Len(s.queue) : IsReadback(s.queue[i])

----------------------------------------------------------------------------
(* Reconciliation of transitions *)

\* MUTANT: the readback queues up behind the commands already waiting.
MutQueueReadback(s) ==
    IF HasReadback(s) THEN s ELSE [s EXCEPT !.queue = Append(@, Readback)]

\* queue_reconciliation_request_: ahead of everything but the command in flight.
QueueReadback(s) ==
    IF HasReadback(s) THEN s
    ELSE [s EXCEPT !.queue = IF InFlight(s) /\ @ # <<>>
                             THEN <<Head(@), Readback>> \o Tail(@)
                             ELSE <<Readback>> \o @]

\* schedule_transition_reconciliation_
Schedule(s) ==
    IF ~HasPending(s) \/ s.route = "TRANSITION" THEN s
    ELSE QueueReadback([s EXCEPT !.route = "TRANSITION", !.attempts = 0])

\* MUTANTS: the attempts, or the route, are not reset.
MutKeepAttempts(s) == [s EXCEPT !.route = "NONE"]
MutKeepRoute(s) == [s EXCEPT !.attempts = 0]

NoReconciliation(s) == [s EXCEPT !.route = "NONE", !.attempts = 0]

\* cancel_reconciliation_. The loop erases every readback that is not in flight;
\* queue_reconciliation_request_ lets in one at most (OneReadback), so the first
\* is the only one. (MUTANT: erases any command.)
MutCancellable(s) == {i \in 1..Len(s.queue) : i = 1 => ~InFlight(s)}

Cancellable(s) == {i \in 1..Len(s.queue) : IsReadback(s.queue[i]) /\ (i = 1 => ~InFlight(s))}

\* MUTANT: the readback stays queued.
MutCancel(s) == IF s.route = "TRANSITION" THEN NoReconciliation(s) ELSE s

Cancel(s) ==
    LET kept == IF Cancellable(s) = {} THEN s
                ELSE [s EXCEPT !.queue = RemoveAt(@, CHOOSE i \in Cancellable(s) : TRUE)]
        active == InFlight(kept) /\ kept.queue # <<>> /\ IsReadback(Head(kept.queue))
    IN  IF s.route = "TRANSITION" /\ ~active THEN NoReconciliation(kept) ELSE kept

----------------------------------------------------------------------------
(* The command queue *)

\* The response the command in flight waits for has come.
Complete(s) ==
    [s EXCEPT !.expected = "NONE", !.queue = Tail(@), !.initRetries = 0]

\* MUTANTS: one retry too many; the request is dropped at its first timeout; it
\* is repeated for ever.
MutLateExpireInit(s) ==
    IF s.initRetries < MAX_RETRIES
    THEN [s EXCEPT !.expected = "NONE", !.initRetries = @ + 1]
    ELSE [s EXCEPT !.expected = "NONE", !.initRetries = 0,
                   !.initFailed = TRUE, !.queue = Tail(@)]
MutDropExpireInit(s) ==
    [s EXCEPT !.expected = "NONE", !.queue = Tail(@),
              !.initRetries = IF @ + 1 < MAX_RETRIES THEN @ + 1 ELSE 0]
MutEndlessExpireInit(s) == [s EXCEPT !.expected = "NONE"]

\* The command in flight got no answer within TIMEOUT, during the handshake.
ExpireInit(s) ==
    IF s.initRetries + 1 < MAX_RETRIES
    THEN [s EXCEPT !.expected = "NONE", !.initRetries = @ + 1]
    ELSE [s EXCEPT !.expected = "NONE", !.initRetries = 0,
                   !.initFailed = TRUE, !.queue = Tail(@)]

\* MUTANTS of what follows: one readback too many; the attempts start over at each
\* timeout; the route kept, or the pending targets given up, when readbacks are
\* exhausted; a status repeated.
MutLongExpireDone(s) ==
    LET freed == [s EXCEPT !.expected = "NONE"]
        dropped == [freed EXCEPT !.queue = Tail(@)]
    IN  IF ~IsReadback(Head(s.queue))
        THEN IF Head(s.queue).cmd = "DATAPOINT_DELIVER" THEN Schedule(dropped) ELSE dropped
        ELSE IF s.attempts > MAX_RECONCILIATION_ATTEMPTS THEN NoReconciliation(dropped) ELSE freed
MutEndlessExpireDone(s) ==
    LET freed == [s EXCEPT !.expected = "NONE"]
        dropped == [freed EXCEPT !.queue = Tail(@)]
    IN  IF IsReadback(Head(s.queue)) THEN [freed EXCEPT !.attempts = 0]
        ELSE IF Head(s.queue).cmd = "DATAPOINT_DELIVER" THEN Schedule(dropped) ELSE dropped
MutDropExpireDone(s) ==
    LET dropped == [s EXCEPT !.expected = "NONE", !.queue = Tail(@)]
    IN  IF Head(s.queue).cmd = "DATAPOINT_DELIVER" THEN Schedule(dropped) ELSE dropped
MutForgetExpireDone(s) ==
    LET dropped == [s EXCEPT !.expected = "NONE", !.queue = Tail(@)]
    IN  IF IsReadback(Head(s.queue))
        THEN NoReconciliation([dropped EXCEPT !.pending = Nothing])
        ELSE IF Head(s.queue).cmd = "DATAPOINT_DELIVER" THEN Schedule(dropped) ELSE dropped
MutRepeatExpireDone(s) ==
    IF Head(s.queue).cmd = "DATAPOINT_DELIVER"
    THEN Schedule([s EXCEPT !.expected = "NONE", !.queue = Tail(@)])
    ELSE [s EXCEPT !.expected = "NONE"]

\* The same once the handshake is done.
ExpireDone(s) ==
    LET timedOut == Head(s.queue)
        freed    == [s EXCEPT !.expected = "NONE"]
        dropped  == [freed EXCEPT !.queue = Tail(@)]
    IN  CASE timedOut.cmd \in {"WIFI_STATE", "DATAPOINT_REPORT"} -> dropped
          [] IsReadback(timedOut) /\ s.attempts >= MAX_RECONCILIATION_ATTEMPTS ->
                NoReconciliation(dropped)
          [] IsReadback(timedOut) /\ s.attempts < MAX_RECONCILIATION_ATTEMPTS -> freed
          [] timedOut.cmd = "DATAPOINT_DELIVER" -> Schedule(dropped)
          [] OTHER -> dropped

\* MUTANT: only the handshake has a timeout.
MutExpire(s) ==
    IF ~InFlight(s) \/ s.age <= TIMEOUT \/ s.initState = "INIT_DONE" THEN s ELSE ExpireInit(s)

Expire(s) ==
    IF ~InFlight(s) \/ s.age <= TIMEOUT THEN s
    ELSE IF s.initState = "INIT_DONE" THEN ExpireDone(s) ELSE ExpireInit(s)

\* send_raw_command_ on the head of the queue. Every type that is ever queued
\* waits for a response, so the head stays until it is answered or expires.
CanTransmit(s, rxEmpty) ==
    /\ s.age > SPACING
    /\ s.queue # <<>>
    /\ rxEmpty
    /\ ~InFlight(s)

Transmit(s, rxEmpty) ==
    IF ~CanTransmit(s, rxEmpty) THEN s
    ELSE [s EXCEPT !.expected = ResponseOf(Head(s.queue).cmd),
                   !.attempts = IF IsReadback(Head(s.queue)) THEN @ + 1 ELSE @,
                   !.age = 0]

\* process_command_queue_ after its receive-timeout branch.
ProcessQueue(s, rxEmpty) == Transmit(Expire(s), rxEmpty)

\* The push_back of send_command_.
Enqueue(s, c) == [s EXCEPT !.queue = Append(@, c)]

\* MUTANT: the response stays awaited.
MutResetSession(s) == [InitSession EXCEPT !.age = s.age, !.expected = s.expected]

\* reset_protocol_session_. The last transmission keeps its time.
ResetSession(s) == [InitSession EXCEPT !.age = s.age]

----------------------------------------------------------------------------
(* Writes *)

Written(batch) == {d \in Dps : batch[d] # NoValue}

\* get_boolean_datapoint_target: what a datapoint is meant to become.
Target(s, table, d) == IF s.pending[d] # NoValue THEN s.pending[d] ELSE table[d]

\* pending_transition_differs_
PendingDiffers(s, d, v) ==
    d \in Transition /\ s.pending[d] # NoValue /\ s.pending[d] # v

\* prepare_datapoint_command_, over the batch: is there anything to send?
NeedsSend(s, table, batch, forced) ==
    \E d \in Written(batch) :
        forced \/ table[d] # batch[d] \/ PendingDiffers(s, d, batch[d])

\* record_pending_transition_ for every item of the batch.
Record(s, batch) ==
    [s EXCEPT !.pending = [d \in Dps |-> IF d \in Transition /\ batch[d] # NoValue
                                         THEN batch[d] ELSE @[d]]]

\* clear_confirmed_transition_
ClearConfirmed(s, d, v, authoritative) ==
    IF s.pending[d] # NoValue /\ (authoritative \/ s.pending[d] = v)
    THEN [s EXCEPT !.pending[d] = NoValue] ELSE s

\* What a report settles, after its datapoints and callbacks.
Settle(s, f) ==
    CASE ~HasPending(s) -> Cancel(s)
      [] HasPending(s) /\ f.delivered -> Schedule(s)
      [] HasPending(s) /\ ~f.delivered /\ f.authoritative ->
            IF s.attempts >= MAX_RECONCILIATION_ATTEMPTS
            THEN NoReconciliation(s) ELSE QueueReadback(s)
      [] OTHER -> s

----------------------------------------------------------------------------
(* What holds of a session between any two calls. *)

\* A response is awaited only from the command at the head, and it is the
\* response to that command.
HeadIsAwaited(s) ==
    InFlight(s) =>
        /\ s.queue # <<>>
        /\ s.expected = ResponseOf(Head(s.queue).cmd)

\* A readback is queued at most once, and nothing but the head is ahead of it.
ReadbackIsNext(s) ==
    \A i \in 1..Len(s.queue) : IsReadback(s.queue[i]) =>
        /\ i \in {1, 2}
        /\ \A j \in 1..Len(s.queue) : IsReadback(s.queue[j]) => i = j

\* The queue without its readback.
Ordinary(queue) ==
    LET readbacks == {i \in 1..Len(queue) : IsReadback(queue[i])}
    IN  IF readbacks = {} THEN queue ELSE RemoveAt(queue, CHOOSE i \in readbacks : TRUE)

\* A queued readback belongs to the reconciliation under way.
ReadbackHasRoute(s) == HasReadback(s) => s.route = "TRANSITION"

\* Outside a reconciliation its attempt counter is clear.
AttemptsAreClear(s) == s.route = "NONE" => s.attempts = 0

\* A readback on the wire has been counted.
ReadbackInFlight(s) == InFlight(s) /\ IsReadback(Head(s.queue))
FlightIsCounted(s)  == ReadbackInFlight(s) => s.attempts > 0

\* While the handshake waits for an answer and has not failed, its request is
\* still queued.
Asks(s, type) == \E i \in 1..Len(s.queue) : s.queue[i] = Empty(type)
HandshakeAsks(s) ==
    ~s.initFailed =>
        /\ s.initState = "INIT_PRODUCT" => Asks(s, "PRODUCT_QUERY")
        /\ s.initState = "INIT_DATAPOINT" => Asks(s, "DATAPOINT_QUERY")

SessionInv(s) ==
    /\ HeadIsAwaited(s)
    /\ ReadbackIsNext(s)
    /\ ReadbackHasRoute(s)
    /\ AttemptsAreClear(s)
    /\ FlightIsCounted(s)
============================================================================
