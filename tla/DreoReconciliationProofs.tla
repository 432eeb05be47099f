---------------------- MODULE DreoReconciliationProofs ----------------------
(***************************************************************************)
(* The reconciliation of an MCU that does not restart: its readbacks stay  *)
(* within their budget, it is never stranded without one, a lost delivery  *)
(* is followed by one, and a one-shot command is not repeated. All of it   *)
(* fails when the MCU restarts under way, or a control is sent before the  *)
(* handshake is done (see the README, Findings).                           *)
(***************************************************************************)
EXTENDS DreoHubProofs

\* The environment neither restarts the MCU in mid-session nor sends a control
\* before the handshake. Module resets and stale buffers it may produce.
Undisturbed == Disturbances \cap {"mcu_restart", "early_control"} = {}

HandshakeTypes == {"HEARTBEAT", "PRODUCT_QUERY", "DATAPOINT_QUERY"}

\* During the handshake nothing is pending or read back, and only its requests are
\* queued.
Handshaking(s) ==
    s.initState # "INIT_DONE" =>
        /\ s.route = "NONE"
        /\ s.pending = Nothing
        /\ \A i \in 1..Len(s.queue) : s.queue[i].cmd \in HandshakeTypes

\* A reconciliation under way has its readback queued, or its answer is being
\* handled; a readback still to be sent is within the budget, and so are those sent.
Budget(s, answered) ==
    /\ s.route = "TRANSITION" => HasReadback(s) \/ answered
    /\ HasReadback(s) /\ ~ReadbackInFlight(s) => s.attempts < MAX_RECONCILIATION_ATTEMPTS
    /\ s.attempts <= MAX_RECONCILIATION_ATTEMPTS

Provided(s, answered) == Handshaking(s) /\ Budget(s, answered)

\* The strengthening of IInv.
BudgetInv ==
    /\ Provided(session, frame.authoritative)
    /\ ~(frame.delivered /\ frame.authoritative)

----------------------------------------------------------------------------
(* The queue *)

\* The tail of a queue keeps a readback that is not the head, and adds no command.
LEMMA TailKeeps ==
    ASSUME NEW q \in Seq(Commands), q # <<>>
    PROVE  /\ ~IsReadback(Head(q)) /\ ~Clean(q) => ~Clean(Tail(q))
           /\ \A T : (\A i \in 1..Len(q) : q[i].cmd \in T) =>
                        \A i \in 1..Len(Tail(q)) : Tail(q)[i].cmd \in T
           /\ Head(q) \in Commands
           /\ IsReadback(Head(q)) => Head(q).cmd = "DATAPOINT_QUERY"
           /\ \A T : (\A i \in 1..Len(q) : q[i].cmd \in T) => Head(q).cmd \in T
<1>1. /\ \A i \in 1..Len(Tail(q)) : Tail(q)[i] = q[i + 1]
      /\ Len(Tail(q)) = Len(q) - 1
      /\ Len(q) \in Nat \ {0}
      /\ Head(q) \in Commands
      /\ Head(q) = q[1]
    BY HeadTailProperties, EmptySeq
<1>2. \A i \in 1..Len(Tail(q)) : i + 1 \in 1..Len(q)
    BY <1>1
<1>3. ASSUME ~IsReadback(Head(q)), ~Clean(q) PROVE ~Clean(Tail(q))
    <2>1. PICK i \in 1..Len(q) : IsReadback(q[i])
        BY <1>3 DEF Clean
    <2>2. q[i] # Head(q)
        BY <1>3, <2>1
    <2> QED BY <2>1, <2>2, TailOfQueue DEF Clean
<1>4. IsReadback(Head(q)) => Head(q).cmd = "DATAPOINT_QUERY"
    BY <1>1 DEF IsReadback, Commands
<1>5. 1 \in 1..Len(q)
    BY <1>1
<1> QED BY <1>1, <1>2, <1>3, <1>4, <1>5

----------------------------------------------------------------------------
(* The methods of the session *)

\* What Provided looks at, but for the queue and its answer.
Alike(s, t) ==
    /\ t.initState = s.initState /\ t.pending = s.pending
    /\ t.route = s.route /\ t.attempts = s.attempts

\* A session without a reconciliation has no readback.
LEMMA NoRoute ==
    ASSUME NEW s \in Sessions, SessionInv(s)
    PROVE  s.initState # "INIT_DONE" /\ Handshaking(s) => ~HasReadback(s)
BY DEF SessionInv, ReadbackHasRoute, Handshaking

\* schedule_transition_reconciliation_ starts with the full budget.
LEMMA ScheduleProvides ==
    ASSUME NEW s \in Sessions, SessionInv(s), NEW answered \in BOOLEAN,
           Budget(s, answered), s.initState = "INIT_DONE"
    PROVE  /\ Provided(Schedule(s), answered)
           /\ HasPending(s) /\ s.route # "TRANSITION" => HasReadback(Schedule(s))
<1> DEFINE t == Schedule(s)
<1>1. t \in Sessions /\ SessionInv(t) /\ Keeps(s, t)
    BY ScheduleLemma
<1>2. CASE ~HasPending(s) \/ s.route = "TRANSITION"
    <2>1. t = s
        BY <1>2 DEF Schedule
    <2> QED BY <1>2, <2>1 DEF Provided, Handshaking
<1>3. CASE HasPending(s) /\ s.route # "TRANSITION"
    <2> DEFINE r == [s EXCEPT !.route = "TRANSITION", !.attempts = 0]
    <2>1. t = QueueReadback(r)
        BY <1>3 DEF Schedule
    <2>2. r \in Sessions
        BY DEF Sessions, Routes
    <2>3. /\ r.route = "TRANSITION" /\ r.queue = s.queue /\ r.expected = s.expected /\ r.attempts = 0
        BY DEF Sessions
    <2>4. ~HasReadback(s) /\ ~ReadbackInFlight(s)
        BY <1>3, QueueParts DEF SessionInv, ReadbackHasRoute, ReadbackInFlight, HeadIsAwaited
    <2> HIDE DEF r
    <2>5. SessionInv(r)
        BY <2>2, <2>3, <2>4
        DEF SessionInv, HeadIsAwaited, InFlight, ReadbackIsNext, ReadbackHasRoute, AttemptsAreClear,
            FlightIsCounted, ReadbackInFlight
    <2>6. HasReadback(t) /\ t = [r EXCEPT !.queue = t.queue]
        BY <2>1, <2>2, <2>3, <2>5, QueueReadbackQueues, QueueReadbackLemma
    <2>7. t.attempts = 0
        BY <2>2, <2>3, <2>6 DEF Sessions
    <2> HIDE DEF t
    <2>8. Budget(t, answered)
        BY <2>6, <2>7, LimitsAssumption DEF Budget
    <2> QED BY <1>1, <2>6, <2>8 DEF Provided, Handshaking, Keeps, t
<1> QED BY <1>2, <1>3

\* A session without a reconciliation needs nothing.
LEMMA NoReconciliationProvides ==
    ASSUME NEW s \in Sessions, SessionInv(s), ~HasReadback(s), Handshaking(s), NEW answered \in BOOLEAN
    PROVE  Provided(NoReconciliation(s), answered)
<1> DEFINE t == NoReconciliation(s)
<1>1. /\ t.queue = s.queue /\ t.route = "NONE" /\ t.attempts = 0
      /\ t.initState = s.initState /\ t.pending = s.pending
    BY DEF NoReconciliation, Sessions
<1> HIDE DEF t
<1>2. ~HasReadback(t)
    BY <1>1 DEF HasReadback
<1> QED BY <1>1, <1>2, LimitsAssumption DEF Provided, Handshaking, Budget, t

\* A command other than a readback leaves the queue: the readback stays. The answer
\* to a readback may end the need for one.
LEMMA DropProvides ==
    ASSUME NEW s \in Sessions, SessionInv(s), s.queue # <<>>, NEW answered \in BOOLEAN,
           Provided(s, answered),
           NEW t \in Sessions, t.queue = Tail(s.queue), t.expected = "NONE", Alike(s, t)
    PROVE  /\ Handshaking(t)
           /\ ~IsReadback(Head(s.queue)) => Provided(t, answered)
           /\ ~IsReadback(Head(s.queue)) /\ HasReadback(s) => HasReadback(t)
           /\ IsReadback(Head(s.queue)) => Provided(t, TRUE)
<1>1. s.queue \in Seq(Commands)
    BY QueueParts
<1>2. Handshaking(t)
    BY <1>1, TailKeeps DEF Provided, Handshaking, Alike
<1>3. /\ HasReadback(t) => HasReadback(s)
      /\ IsReadback(Head(s.queue)) => ~HasReadback(t)
    BY DropLemma DEF Alike
<1>4. ~IsReadback(Head(s.queue)) /\ HasReadback(s) => HasReadback(t)
    BY <1>1, TailKeeps, QueueParts
<1>5. ~IsReadback(Head(s.queue)) => ~ReadbackInFlight(s)
    BY DEF ReadbackInFlight
<1> QED BY <1>2, <1>3, <1>4, <1>5 DEF Provided, Budget, Alike

\* A readback is sent again only within the budget.
LEMMA ExpireProvides ==
    ASSUME NEW s \in Sessions, SessionInv(s), NEW answered \in BOOLEAN, Provided(s, answered)
    PROVE  Provided(Expire(s), answered)
<1> DEFINE freed   == [s EXCEPT !.expected = "NONE"]
           dropped == [freed EXCEPT !.queue = Tail(@)]
           head    == Head(s.queue)
<1>1. CASE ~InFlight(s) \/ s.age <= TIMEOUT
    BY <1>1 DEF Expire
<1>2. CASE InFlight(s) /\ ~(s.age <= TIMEOUT) /\ s.initState # "INIT_DONE"
    <2> DEFINE t == ExpireInit(s)
    <2>1. Expire(s) = t
        BY <1>2 DEF Expire
    <2>2. t \in Sessions /\ SessionInv(t) /\ ~InFlight(t) /\ (HasReadback(t) => HasReadback(s))
        BY <1>2, ExpireInitLemma
    <2>3. Alike(s, t) /\ (t.queue = s.queue \/ t.queue = Tail(s.queue))
        BY DEF ExpireInit, Sessions, Alike
    <2>4. s.queue \in Seq(Commands) /\ s.queue # <<>>
        BY <1>2, QueueParts DEF SessionInv, HeadIsAwaited
    <2>5. ~HasReadback(s)
        BY <1>2, NoRoute DEF Provided
    <2> HIDE DEF t
    <2>6. Handshaking(t)
        BY <2>3, <2>4, TailKeeps DEF Provided, Handshaking, Alike
    <2> QED BY <1>2, <2>1, <2>2, <2>3, <2>5, <2>6 DEF Provided, Handshaking, Budget, Alike
<1>3. CASE InFlight(s) /\ ~(s.age <= TIMEOUT) /\ s.initState = "INIT_DONE"
    <2> DEFINE t == Expire(s)
    <2>1. s.queue # <<>> /\ s.queue \in Seq(Commands) /\ Tail(s.queue) \in Seq(Commands)
        BY <1>3, QueueParts, TailOfQueue DEF SessionInv, HeadIsAwaited
    <2>2. /\ freed.queue = s.queue /\ freed.expected = "NONE" /\ Alike(s, freed)
        BY DEF Sessions, Alike
    <2>3. /\ dropped \in Sessions /\ dropped.queue = Tail(s.queue) /\ dropped.expected = "NONE"
          /\ Alike(s, dropped)
        BY <2>1 DEF Sessions, Alike
    <2>4. IsReadback(head) => head.cmd = "DATAPOINT_QUERY"
        BY <2>1, TailKeeps
    <2>5. s.attempts \in Nat
        BY DEF Sessions
    <2>6. \/ IsReadback(head) /\ t = NoReconciliation(dropped)
          \/ IsReadback(head) /\ s.attempts < MAX_RECONCILIATION_ATTEMPTS /\ t = freed
          \/ ~IsReadback(head) /\ t \in {dropped, Schedule(dropped)}
        BY <1>3, <2>4, <2>5, LimitsAssumption DEF Expire, ExpireDone
    <2> HIDE DEF freed, dropped, head, t
    <2>7. /\ SessionInv(dropped)
          /\ IsReadback(head) => ~HasReadback(dropped)
        BY <2>1, <2>3, DropLemma DEF Alike, head
    <2>8. /\ Handshaking(dropped)
          /\ ~IsReadback(head) => Provided(dropped, answered)
        BY <2>1, <2>3, DropProvides DEF head
    <2>9. CASE IsReadback(head) /\ t = NoReconciliation(dropped)
        BY <2>3, <2>7, <2>8, <2>9, NoReconciliationProvides DEF t
    <2>10. CASE IsReadback(head) /\ s.attempts < MAX_RECONCILIATION_ATTEMPTS /\ t = freed
        <3>1. HasReadback(freed) <=> HasReadback(s)
            BY <2>2 DEF HasReadback
        <3> QED BY <1>3, <2>2, <2>10, <3>1 DEF Provided, Handshaking, Budget, Alike, t
    <2>11. CASE ~IsReadback(head) /\ t \in {dropped, Schedule(dropped)}
        BY <1>3, <2>3, <2>7, <2>8, <2>11, ScheduleProvides DEF Provided, Alike, t
    <2> QED BY <2>6, <2>9, <2>10, <2>11
<1> QED BY <1>1, <1>2, <1>3

\* process_command_queue_ without its stale-buffer branch: a readback that is sent was
\* queued within the budget, so that it is the last one at most.
LEMMA ProcessQueueProvides ==
    ASSUME NEW s \in Sessions, SessionInv(s), NEW answered \in BOOLEAN, Provided(s, answered),
           NEW rxEmpty \in BOOLEAN
    PROVE  Provided(ProcessQueue(s, rxEmpty), answered)
<1> DEFINE e == Expire(s)
           t == Transmit(e, rxEmpty)
<1>1. e \in Sessions /\ SessionInv(e) /\ Provided(e, answered)
    BY ExpireLemma, ExpireProvides
<1> HIDE DEF e
<1>2. CASE ~CanTransmit(e, rxEmpty)
    BY <1>1, <1>2 DEF Transmit, ProcessQueue, e
<1>3. CASE CanTransmit(e, rxEmpty)
    <2>1. /\ t.queue = e.queue /\ t.expected = ResponseOf(Head(e.queue).cmd) /\ t.route = e.route
          /\ t.attempts = (IF IsReadback(Head(e.queue)) THEN e.attempts + 1 ELSE e.attempts)
          /\ t.initState = e.initState /\ t.pending = e.pending
        BY <1>1, <1>3 DEF Transmit, Sessions
    <2>2. ~InFlight(e) /\ e.queue # <<>> /\ e.queue \in Seq(Commands)
        BY <1>1, <1>3, QueueParts DEF CanTransmit
    <2>3. Head(e.queue) \in Commands
        BY <2>2, TailKeeps
    <2>4. t.expected # "NONE"
        BY <2>1, <2>3, ResponseType DEF Commands
    <2>5. IsReadback(Head(e.queue)) => HasReadback(e)
        BY <1>1, <2>2, QueueParts
    <2> HIDE DEF t
    <2>6. HasReadback(t) <=> HasReadback(e)
        BY <2>1 DEF HasReadback
    <2>7. IsReadback(Head(e.queue)) => ReadbackInFlight(t)
        BY <2>1, <2>4 DEF ReadbackInFlight, InFlight
    <2>8. Handshaking(t)
        BY <1>1, <2>1 DEF Provided, Handshaking
    <2>9. e.attempts \in Nat
        BY <1>1 DEF Sessions
    <2>10. Budget(t, answered)
        BY <1>1, <2>1, <2>2, <2>5, <2>6, <2>7, <2>9, LimitsAssumption
        DEF Provided, Budget, ReadbackInFlight
    <2> QED BY <2>8, <2>10 DEF Provided, ProcessQueue, t, e
<1> QED BY <1>2, <1>3

\* send_command_ before it runs the queue.
LEMMA EnqueueProvides ==
    ASSUME NEW s \in Sessions, SessionInv(s), NEW answered \in BOOLEAN, Provided(s, answered),
           NEW c \in Commands, ~IsReadback(c), s.initState = "INIT_DONE" \/ c.cmd \in HandshakeTypes
    PROVE  Provided(Enqueue(s, c), answered)
<1> DEFINE t == Enqueue(s, c)
<1>1. /\ Keeps(s, t) /\ t.route = s.route /\ t.attempts = s.attempts
      /\ HasReadback(t) <=> HasReadback(s)
      /\ ReadbackInFlight(t) <=> ReadbackInFlight(s)
    BY EnqueueLemma
<1>2. t.queue = Append(s.queue, c) /\ s.queue \in Seq(Commands)
    BY QueueParts DEF Enqueue, Sessions
<1>3. /\ Len(t.queue) = Len(s.queue) + 1 /\ Len(s.queue) \in Nat
      /\ \A i \in 1..Len(s.queue) : t.queue[i] = s.queue[i]
      /\ t.queue[Len(s.queue) + 1] = c
    BY <1>2, AppendProperties, LenProperties
<1> HIDE DEF t
<1>4. \A i \in 1..Len(t.queue) : i \in 1..Len(s.queue) \/ i = Len(s.queue) + 1
    BY <1>3
<1>5. Handshaking(t)
    BY <1>1, <1>3, <1>4 DEF Provided, Handshaking, Keeps
<1> QED BY <1>1, <1>5 DEF Provided, Budget, t

\* The end of a report decides about the next readback.
LEMMA SettleProvides ==
    ASSUME NEW s \in Sessions, SessionInv(s), NEW f \in Frames, f.kind = "report", FrameOK(s, f),
           Provided(s, f.authoritative), ~(f.delivered /\ f.authoritative)
    PROVE  Provided(Settle(s, f), FALSE)
<1>0. ~ReadbackInFlight(s) /\ f.authoritative \in BOOLEAN /\ f.delivered \in BOOLEAN
    BY DEF FrameOK, Frames
<1>1. HasPending(s) => s.initState = "INIT_DONE"
    BY DEF HasPending, Provided, Handshaking, Nothing
<1>2. CASE ~HasPending(s)
    <2> DEFINE t == Cancel(s)
    <2>1. /\ t \in Sessions /\ SessionInv(t) /\ Keeps(s, t) /\ t.route = "NONE" /\ ~HasReadback(t)
        BY <1>0, CancelLemma
    <2>2. ~HasReadback(s) => t.queue = s.queue
        BY DEF Cancel, Cancellable, HasReadback, NoReconciliation, Sessions
    <2> HIDE DEF t
    <2>3. Handshaking(t)
        BY <2>1, <2>2, NoRoute DEF Provided, Handshaking, Keeps
    <2>4. t.attempts = 0
        BY <2>1 DEF SessionInv, AttemptsAreClear
    <2>5. Provided(t, FALSE)
        BY <2>1, <2>3, <2>4, LimitsAssumption DEF Provided, Budget
    <2> QED BY <1>2, <2>5 DEF Settle, t
<1>3. CASE HasPending(s) /\ f.delivered
    <2>1. Budget(s, FALSE)
        BY <1>0, <1>3 DEF Provided, Budget
    <2> QED BY <1>1, <1>3, <2>1, ScheduleProvides DEF Settle
<1>4. CASE HasPending(s) /\ ~f.delivered /\ f.authoritative
    <2>1. s.route = "TRANSITION" /\ ~HasReadback(s) /\ s.attempts \in Nat
        BY <1>4 DEF FrameOK, Sessions
    <2>2. CASE s.attempts >= MAX_RECONCILIATION_ATTEMPTS
        BY <1>4, <2>1, <2>2, NoReconciliationProvides DEF Settle, Provided
    <2>3. CASE ~(s.attempts >= MAX_RECONCILIATION_ATTEMPTS)
        <3> DEFINE t == QueueReadback(s)
        <3>1. HasReadback(t) /\ t = [s EXCEPT !.queue = t.queue]
            BY <2>1, QueueReadbackQueues, QueueReadbackLemma
        <3>2. t.attempts = s.attempts /\ t.initState = s.initState
            BY <3>1 DEF Sessions
        <3> HIDE DEF t
        <3>3. Provided(t, FALSE)
            BY <1>1, <1>4, <2>1, <2>3, <3>1, <3>2, LimitsAssumption DEF Provided, Handshaking, Budget
        <3> QED BY <1>4, <2>3, <3>3 DEF Settle, t
    <2> QED BY <2>2, <2>3
<1>5. CASE HasPending(s) /\ ~f.delivered /\ ~f.authoritative
    <2>1. Settle(s, f) = s
        BY <1>5 DEF Settle
    <2> QED BY <1>0, <1>5, <2>1 DEF Provided, Budget
<1> QED BY <1>2, <1>3, <1>4, <1>5
----------------------------------------------------------------------------
(* The handlers *)

\* BudgetInv, of the state after a step.
LEMMA BudgetInvNext ==
    BudgetInv' <=> /\ Provided(session', frame'.authoritative)
                   /\ ~(frame'.delivered /\ frame'.authoritative)
BY DEF BudgetInv, Provided, Handshaking, Budget, HasReadback, ReadbackInFlight, InFlight, IsReadback

\* What both invariants say of the session.
LEMMA Unfolded ==
    ASSUME IInv, BudgetInv
    PROVE  /\ session \in Sessions /\ SessionInv(session) /\ FrameOK(session, frame)
           /\ frame \in Frames /\ frame.authoritative \in BOOLEAN
           /\ Provided(session, frame.authoritative)
           /\ ~Handling => Provided(session, FALSE)
<1>1. /\ session \in Sessions /\ SessionInv(session) /\ FrameOK(session, frame)
      /\ frame \in Frames /\ frame.authoritative \in BOOLEAN
    BY Unfold DEF Sound, Frames
<1>2. ~Handling => frame.authoritative = FALSE
    BY <1>1 DEF FrameOK, Handling
<1> QED BY <1>1, <1>2 DEF BudgetInv

\* A step that leaves the frame alone.
LEMMA SameFrame ==
    ASSUME BudgetInv, frame' = frame, Provided(session', frame.authoritative)
    PROVE  BudgetInv'
BY BudgetInvNext DEF BudgetInv

\* A frame that is no report.
LEMMA OtherFrameProvides ==
    ASSUME NEW callbacks \in BOOLEAN, frame' \in {NoFrame, OtherFrame(callbacks)}, Provided(session', FALSE)
    PROVE  BudgetInv'
<1>1. NoFrame.authoritative = FALSE /\ OtherFrame(callbacks).authoritative = FALSE
    BY DEF NoFrame, OtherFrame
<1>2. frame'.authoritative = FALSE
    BY <1>1
<1> QED BY <1>2, BudgetInvNext

\* A new session needs nothing.
LEMMA NewSessionProvides ==
    ASSUME NEW t, NewSession(t)
    PROVE  Provided(t, FALSE)
<1>1. Len(t.queue) = 0
    BY DEF NewSession
<1> QED BY <1>1, LimitsAssumption DEF NewSession, Provided, Handshaking, Budget, HasReadback

\* A step that changes only what Provided does not look at.
LEMMA SameProvides ==
    ASSUME IInv, BudgetInv, frame' = frame, NEW n, session' = [session EXCEPT !.age = n]
    PROVE  BudgetInv'
<1>1. /\ session'.queue = session.queue /\ session'.expected = session.expected
      /\ Alike(session, session')
    BY Unfolded DEF Alike, Sessions
<1>2. /\ HasReadback(session') <=> HasReadback(session)
      /\ ReadbackInFlight(session') <=> ReadbackInFlight(session)
    BY <1>1 DEF HasReadback, ReadbackInFlight, InFlight
<1>3. Provided(session', frame.authoritative)
    BY <1>1, <1>2 DEF BudgetInv, Provided, Handshaking, Budget, Alike
<1> QED BY <1>3, SameFrame

\* process_command_queue_ from loop(), or after a stale buffer was rescanned.
LEMMA QueueRunProvides == IInv /\ BudgetInv /\ (EndLoop \/ Rescan) => BudgetInv'
<1> SUFFICES ASSUME IInv, BudgetInv, EndLoop \/ Rescan PROVE BudgetInv'
    OBVIOUS
<1>1. \/ session' = session
      \/ \E empty \in BOOLEAN : session' = ProcessQueue(session, empty)
    BY DEF EndLoop, Rescan, RunQueue
<1>2. frame' = frame
    BY DEF EndLoop, Rescan
<1> QED BY <1>1, <1>2, Unfolded, ProcessQueueProvides, SameFrame

\* send_command_ from between the calls or from inside a callback.
LEMMA SendProvides ==
    ASSUME IInv, BudgetInv, NEW s \in Sessions, SessionInv(s), Provided(s, frame.authoritative),
           NEW c \in Commands, ~IsReadback(c), s.initState = "INIT_DONE" \/ c.cmd \in HandshakeTypes,
           Send(Enqueue(s, c))
    PROVE  BudgetInv'
<1> DEFINE e == Enqueue(s, c)
<1>1. session' = e \/ \E empty \in BOOLEAN : session' = ProcessQueue(e, empty)
    BY DEF Send, RunQueue
<1>2. frame' = frame
    BY DEF Send
<1>3. e \in Sessions /\ SessionInv(e) /\ Provided(e, frame.authoritative)
    BY Unfolded, EnqueueLemma, EnqueueProvides
<1> HIDE DEF e
<1> QED BY <1>1, <1>2, <1>3, Unfolded, ProcessQueueProvides, SameFrame

\* Everything the rest of the program sends; only the heartbeat goes out before the
\* handshake is done.
LEMMA ControlProvides ==
    ASSUME Undisturbed, IInv, BudgetInv, Control
    PROVE  BudgetInv'
<1>1. ASSUME NEW batch \in Batches, NEW forced \in BOOLEAN, SetDatapoints(batch, forced)
      PROVE  BudgetInv'
    <2> DEFINE s == Record(session, batch)
    <2>1. session.initState = "INIT_DONE"
        BY <1>1 DEF SetDatapoints, MayControl, Undisturbed
    <2>2. s \in Sessions /\ SessionInv(s)
        BY Unfold, RecordStep DEF Sound
    <2>3. /\ s.queue = session.queue /\ s.expected = session.expected /\ s.route = session.route
          /\ s.attempts = session.attempts /\ s.initState = session.initState
        BY Unfolded DEF Record, Sessions
    <2>4. Send(Enqueue(s, Deliver(batch)))
        BY <1>1 DEF SetDatapoints
    <2> HIDE DEF s
    <2>5. /\ HasReadback(s) <=> HasReadback(session)
          /\ ReadbackInFlight(s) <=> ReadbackInFlight(session)
        BY <2>3 DEF HasReadback, ReadbackInFlight, InFlight
    <2>6. Provided(s, frame.authoritative)
        BY <2>1, <2>3, <2>5, Unfolded DEF Provided, Handshaking, Budget
    <2> QED BY <2>1, <2>2, <2>3, <2>4, <2>6, DeliverIsCommand, SendProvides
<1>2. ASSUME NEW type \in CommandTypes, Send(Enqueue(session, Empty(type))),
             session.initState = "INIT_DONE" \/ type \in HandshakeTypes
      PROVE  BudgetInv'
    <2>1. Empty(type) \in Commands /\ ~IsReadback(Empty(type)) /\ Empty(type).cmd = type
        BY EmptyIsCommand DEF Empty
    <2> QED BY <1>2, <2>1, Unfolded, SendProvides
<1>3. CASE SendWifiStatus
    <2>1. session.initState = "INIT_DONE"
        BY <1>3 DEF SendWifiStatus, MayControl, Undisturbed
    <2> QED BY <1>2, <1>3, <2>1 DEF SendWifiStatus, CommandTypes
<1>4. CASE RequestFullReport
    BY <1>2, <1>4 DEF RequestFullReport, CommandTypes
<1>5. CASE Heartbeat
    BY <1>2, <1>5 DEF Heartbeat, CommandTypes, HandshakeTypes
<1> QED BY <1>1, <1>3, <1>4, <1>5 DEF Control

\* A frame that is no report answers no readback.
LEMMA AnsweredProvides ==
    ASSUME IInv, BudgetInv, ~Handling, NEW type \in {"HEARTBEAT", "PRODUCT_QUERY", "WIFI_STATE"}
    PROVE  LET s == Answered(type)
           IN  s \in Sessions /\ SessionInv(s) /\ Provided(s, FALSE) /\ s.initState = session.initState
<1> DEFINE s == Answered(type)
<1>1. CASE session.expected = type
    <2>1. s = Complete(session) /\ InFlight(session)
        BY <1>1 DEF Answered, InFlight
    <2>2. session.queue # <<>> /\ session.queue \in Seq(Commands) /\ type = ResponseOf(Head(session.queue).cmd)
        BY <1>1, <2>1, Unfolded, QueueParts DEF SessionInv, HeadIsAwaited
    <2>3. ~IsReadback(Head(session.queue))
        BY <2>2, TailKeeps DEF ResponseOf
    <2>4. s \in Sessions /\ SessionInv(s)
        BY <2>1, Unfolded, CompleteLemma
    <2>5. s.queue = Tail(session.queue) /\ s.expected = "NONE" /\ Alike(session, s)
        BY <2>1, Unfolded DEF Complete, Sessions, Alike
    <2> HIDE DEF s
    <2>6. Provided(s, FALSE)
        BY <2>2, <2>3, <2>4, <2>5, Unfolded, DropProvides
    <2> QED BY <2>4, <2>5, <2>6 DEF Alike, s
<1>2. CASE session.expected # type
    BY <1>2, Unfolded DEF Answered
<1> QED BY <1>1, <1>2

\* The initialisation state changes between two stages of the handshake, or to the
\* last.
LEMMA StageProvides ==
    ASSUME NEW s \in Sessions, SessionInv(s), NEW answered, Provided(s, answered), NEW x \in InitStates,
           x = "INIT_DONE" \/ s.initState # "INIT_DONE"
    PROVE  Provided([s EXCEPT !.initState = x], answered)
<1> DEFINE t == [s EXCEPT !.initState = x]
<1>1. /\ t.initState = x /\ t.queue = s.queue /\ t.expected = s.expected /\ t.route = s.route
      /\ t.attempts = s.attempts /\ t.pending = s.pending
    BY DEF Sessions
<1> HIDE DEF t
<1>2. /\ HasReadback(t) <=> HasReadback(s)
      /\ ReadbackInFlight(t) <=> ReadbackInFlight(s)
    BY <1>1 DEF HasReadback, ReadbackInFlight, InFlight
<1> QED BY <1>1, <1>2 DEF Provided, Handshaking, Budget, t

\* handle_command_, HEARTBEAT, of an MCU that did not restart.
LEMMA HeartbeatProvides ==
    ASSUME Undisturbed, IInv, BudgetInv, NEW restarted \in BOOLEAN, HandleHeartbeat(restarted)
    PROVE  BudgetInv'
<1> DEFINE s       == Answered("HEARTBEAT")
           product == [s EXCEPT !.initState = "INIT_PRODUCT"]
           e       == Enqueue(product, Empty("PRODUCT_QUERY"))
<1>1. s \in Sessions /\ SessionInv(s) /\ Provided(s, FALSE)
    BY AnsweredProvides DEF HandleHeartbeat, FrameReady
<1>2. \/ session' = s
      \/ s.initState = "INIT_HEARTBEAT" /\ session' = ProcessQueue(e, FALSE)
    BY DEF HandleHeartbeat, Undisturbed
<1>3. frame' = OtherFrame(FALSE)
    BY DEF HandleHeartbeat
<1> HIDE DEF s
<1>4. ASSUME s.initState = "INIT_HEARTBEAT" PROVE Provided(ProcessQueue(e, FALSE), FALSE)
    <2>1. product \in Sessions /\ SessionInv(product) /\ Provided(product, FALSE)
        BY <1>1, <1>4, InitStateChange, StageProvides DEF InitStates
    <2>2. /\ Empty("PRODUCT_QUERY") \in Commands /\ ~IsReadback(Empty("PRODUCT_QUERY"))
          /\ Empty("PRODUCT_QUERY").cmd \in HandshakeTypes
        BY EmptyIsCommand DEF CommandTypes, HandshakeTypes, Empty
    <2> HIDE DEF product
    <2>3. e \in Sessions /\ SessionInv(e) /\ Provided(e, FALSE)
        BY <2>1, <2>2, EnqueueLemma, EnqueueProvides
    <2> HIDE DEF e
    <2> QED BY <2>3, ProcessQueueProvides
<1> HIDE DEF e
<1>5. Provided(session', FALSE)
    BY <1>1, <1>2, <1>4
<1> QED BY <1>3, <1>5, OtherFrameProvides

\* handle_command_, PRODUCT_QUERY.
LEMMA ProductProvides == IInv /\ BudgetInv /\ HandleProduct => BudgetInv'
<1> SUFFICES ASSUME IInv, BudgetInv, HandleProduct PROVE BudgetInv'
    OBVIOUS
<1> DEFINE s == Answered("PRODUCT_QUERY")
           e == Enqueue(s, Empty("DATAPOINT_QUERY"))
           q == ProcessQueue(e, FALSE)
<1>1. s \in Sessions /\ SessionInv(s) /\ Provided(s, FALSE)
    BY AnsweredProvides DEF HandleProduct, FrameReady
<1>2. \/ session' = s
      \/ s.initState = "INIT_PRODUCT" /\ session' = [q EXCEPT !.initState = "INIT_DATAPOINT"]
    BY DEF HandleProduct
<1>3. frame' = OtherFrame(FALSE)
    BY DEF HandleProduct
<1> HIDE DEF s
<1>4. ASSUME s.initState = "INIT_PRODUCT" PROVE Provided([q EXCEPT !.initState = "INIT_DATAPOINT"], FALSE)
    <2>1. /\ Empty("DATAPOINT_QUERY") \in Commands /\ ~IsReadback(Empty("DATAPOINT_QUERY"))
          /\ Empty("DATAPOINT_QUERY").cmd \in HandshakeTypes
        BY EmptyIsCommand DEF CommandTypes, HandshakeTypes, Empty
    <2>2. e \in Sessions /\ SessionInv(e) /\ Provided(e, FALSE) /\ e.initState = "INIT_PRODUCT"
        BY <1>1, <1>4, <2>1, EnqueueLemma, EnqueueProvides DEF Keeps
    <2> HIDE DEF e
    <2>3. q \in Sessions /\ SessionInv(q) /\ Provided(q, FALSE) /\ q.initState = "INIT_PRODUCT"
        BY <2>2, ProcessQueueLemma, ProcessQueueProvides
    <2> HIDE DEF q
    <2> QED BY <2>3, StageProvides DEF InitStates
<1> HIDE DEF q
<1>5. Provided(session', FALSE)
    BY <1>1, <1>2, <1>4
<1> QED BY <1>3, <1>5, OtherFrameProvides

\* handle_command_, DATAPOINT_REPORT, up to handle_datapoints_: the answer to a
\* readback takes the readback's place.
LEMMA ReportProvides ==
    ASSUME IInv, BudgetInv, NEW ids \in SUBSET Dps, HandleReport(ids)
    PROVE  BudgetInv'
<1> DEFINE head      == Head(session.queue)
           partial   == head.cmd = "DATAPOINT_REPORT" /\ ~(Known # {} /\ Known \subseteq ids)
           completes == session.expected = "DATAPOINT_REPORT" /\ ~partial
           s         == IF completes THEN Complete(session) ELSE session
           authority == completes /\ IsReadback(head)
<1>1. Provided(session, FALSE) /\ session \in Sessions /\ SessionInv(session)
    BY Unfolded DEF HandleReport, FrameReady
<1>2. /\ session' = s \/ session' = [s EXCEPT !.initState = "INIT_DONE"]
      /\ frame'.authoritative = authority
      /\ frame'.delivered = (completes /\ head.cmd = "DATAPOINT_DELIVER")
    BY DEF HandleReport
<1>3. completes => /\ InFlight(session) /\ session.queue # <<>> /\ session.queue \in Seq(Commands)
    BY <1>1, QueueParts DEF InFlight, SessionInv, HeadIsAwaited
<1>4. completes /\ IsReadback(head) => head.cmd = "DATAPOINT_QUERY"
    BY <1>3, TailKeeps
<1>5. s \in Sessions /\ SessionInv(s) /\ Provided(s, authority)
    <2>1. CASE completes
        <3>1. s = Complete(session)
            BY <2>1
        <3>2. s \in Sessions /\ SessionInv(s)
            BY <1>1, <1>3, <2>1, <3>1, CompleteLemma
        <3>3. s.queue = Tail(session.queue) /\ s.expected = "NONE" /\ Alike(session, s)
            BY <1>1, <3>1 DEF Complete, Sessions, Alike
        <3> HIDE DEF s
        <3>4. /\ ~IsReadback(head) => Provided(s, FALSE)
              /\ IsReadback(head) => Provided(s, TRUE)
            BY <1>1, <1>3, <2>1, <3>2, <3>3, DropProvides
        <3> QED BY <2>1, <3>2, <3>4 DEF Provided, Budget
    <2>2. CASE ~completes
        BY <1>1, <2>2 DEF Provided, Budget
    <2> QED BY <2>1, <2>2
<1> HIDE DEF s, authority
<1>6. Provided(session', authority)
    BY <1>2, <1>5, StageProvides DEF InitStates
<1>7. ~(frame'.delivered /\ authority)
    BY <1>2, <1>4 DEF authority
<1> QED BY <1>2, <1>6, <1>7, BudgetInvNext

\* handle_datapoints_, one datapoint: during the handshake there is no target to clear.
LEMMA TakeDatapointProvides ==
    ASSUME IInv, BudgetInv, NEW d \in Dps, NEW v \in Values, TakeDatapoint(d, v)
    PROVE  BudgetInv'
<1>1. /\ frame'.authoritative = frame.authoritative /\ frame'.delivered = frame.delivered
      /\ session' = ClearConfirmed(session, d, v, frame.authoritative)
    BY Unfolded DEF TakeDatapoint, Frames
<1>2. /\ session'.queue = session.queue /\ session'.expected = session.expected
      /\ session'.route = session.route /\ session'.attempts = session.attempts
      /\ session'.initState = session.initState
    BY <1>1, Unfolded DEF ClearConfirmed, Sessions
<1>3. session.pending = Nothing => session' = session
    BY <1>1 DEF ClearConfirmed, Nothing
<1>4. /\ HasReadback(session') <=> HasReadback(session)
      /\ ReadbackInFlight(session') <=> ReadbackInFlight(session)
    BY <1>2 DEF HasReadback, ReadbackInFlight, InFlight
<1>5. Provided(session', frame.authoritative)
    BY <1>2, <1>3, <1>4 DEF BudgetInv, Provided, Handshaking, Budget
<1> QED BY <1>1, <1>5, BudgetInvNext DEF BudgetInv

\* The end of a handler.
LEMMA FinishFrameProvides == IInv /\ BudgetInv /\ FinishFrame => BudgetInv'
<1> SUFFICES ASSUME IInv, BudgetInv, FinishFrame PROVE BudgetInv'
    OBVIOUS
<1>1. Provided(session', FALSE)
    <2>1. CASE frame.kind = "report"
        BY <2>1, Unfolded, SettleProvides DEF FinishFrame, BudgetInv
    <2>2. CASE frame.kind # "report"
        <3>1. session' = session /\ frame.authoritative = FALSE
            BY <2>2, Unfolded DEF FinishFrame, FrameOK
        <3> QED BY <3>1, Unfolded
    <2> QED BY <2>1, <2>2
<1> QED BY <1>1, OtherFrameProvides DEF FinishFrame

\* Every step of the hub.
LEMMA NextProvides ==
    ASSUME Undisturbed, IInv, BudgetInv, [Next]_vars
    PROVE  BudgetInv'
<1>1. ASSUME session' = session, frame' = frame PROVE BudgetInv'
    BY <1>1, SameFrame DEF BudgetInv
<1>2. CASE Tick
    BY <1>2, SameProvides DEF Tick
<1>3. CASE HandleWifiState
    BY <1>3, AnsweredProvides, OtherFrameProvides DEF HandleWifiState, FrameReady
<1>4. CASE HandleModuleReset \/ Reboot
    <2>1. NewSession(session')
        BY <1>4, Unfolded, ResetSessionLemma, InitSessionLemma DEF HandleModuleReset, Reboot
    <2> QED BY <1>4, <2>1, NewSessionProvides, OtherFrameProvides DEF HandleModuleReset, Reboot
<1>5. CASE HandleButtonEvent
    BY <1>5, Unfolded, OtherFrameProvides DEF HandleButtonEvent, FrameReady
<1> QED BY <1>1, <1>2, <1>3, <1>4, <1>5, QueueRunProvides, ControlProvides, HeartbeatProvides, ProductProvides,
           ReportProvides, TakeDatapointProvides, FinishFrameProvides
        DEF Next, Receive, ReadBytes, BufferGoesStale, vars

----------------------------------------------------------------------------
(* The theorems *)

\* The strengthened invariant holds of every run in which the MCU does not restart.
THEOREM BudgetIsKept ==
    ASSUME Undisturbed
    PROVE  Spec => [](IInv /\ BudgetInv)
<1>1. Init => BudgetInv
    <2> SUFFICES ASSUME Init PROVE BudgetInv
        OBVIOUS
    <2>1. Provided(InitSession, FALSE) /\ NoFrame.authoritative = FALSE
        BY InitSessionLemma, NewSessionProvides DEF NoFrame
    <2> QED BY <2>1 DEF Init, BudgetInv
<1>2. IInv /\ BudgetInv /\ [Next]_vars => BudgetInv'
    BY NextProvides
<1> QED BY <1>1, <1>2, Invariance, PTL DEF Spec

\* reconciliation_attempts_ never exceeds MAX_RECONCILIATION_ATTEMPTS, whatever is lost,
\* late or answered in between.
THEOREM AttemptsStayBounded ==
    ASSUME Undisturbed
    PROVE  Spec => []AttemptsBounded
<1>1. IInv /\ BudgetInv => AttemptsBounded
    BY DEF BudgetInv, Provided, Budget, AttemptsBounded
<1> QED BY <1>1, BudgetIsKept, PTL

\* A reconciliation is never stranded: its readback is queued or in flight, or the
\* report that answers it is being handled.
THEOREM RouteIsServed ==
    ASSUME Undisturbed
    PROVE  Spec => []RouteHasReadback
<1>1. IInv /\ BudgetInv => RouteHasReadback
    BY DEF BudgetInv, Provided, Budget, RouteHasReadback
<1> QED BY <1>1, BudgetIsKept, PTL

\* At the tail of loop(), a command that timed out after the handshake.
LEMMA ExpiresInLoop ==
    ASSUME IInv, EndLoop, rx # "stale", InFlight(session), session.age > TIMEOUT,
           session.initState = "INIT_DONE"
    PROVE  /\ session'.queue = ExpireDone(session).queue
           /\ session \in Sessions /\ SessionInv(session)
           /\ session.queue # <<>> /\ session.queue \in Seq(Commands)
           /\ IsReadback(Head(session.queue)) => Head(session.queue).cmd = "DATAPOINT_QUERY"
<1>1. session \in Sessions /\ SessionInv(session)
    BY Unfold DEF Sound
<1>2. session.queue # <<>> /\ session.queue \in Seq(Commands)
    BY <1>1, QueueParts DEF SessionInv, HeadIsAwaited
<1>3. session' = Transmit(Expire(session), rx = "empty") /\ (rx = "empty") \in BOOLEAN
    BY DEF EndLoop, RunQueue, ProcessQueue
<1>4. ~(session.age <= TIMEOUT)
    <2>1. session.age \in Nat /\ TIMEOUT \in Nat
        <3>1. MaxAge \in Nat
            BY LimitsAssumption DEF MaxAge
        <3> QED BY <1>1, <3>1, LimitsAssumption DEF Sessions
    <2> QED BY <2>1
<1>5. Expire(session) = ExpireDone(session)
    BY <1>4 DEF Expire
<1>6. Expire(session) \in Sessions /\ SessionInv(Expire(session))
    BY <1>1, ExpireLemma
<1>7. session'.queue = Expire(session).queue
    BY <1>3, <1>6, TransmitLemma
<1> QED BY <1>1, <1>2, <1>5, <1>7, TailKeeps

\* A Wi-Fi status or a diagnostic request that times out is dropped: none is queued
\* during the handshake, whose timeouts repeat the command.
THEOREM OneShotIsDropped ==
    ASSUME Undisturbed
    PROVE  Spec => OneShotNotRetried
<1> DEFINE lost == /\ EndLoop /\ rx # "stale"
                   /\ InFlight(session) /\ session.age > TIMEOUT
                   /\ Head(session.queue).cmd \in {"WIFI_STATE", "DATAPOINT_REPORT"}
<1>1. IInv /\ BudgetInv => (lost => session'.queue = Tail(session.queue))
    <2> SUFFICES ASSUME IInv, BudgetInv, lost PROVE session'.queue = Tail(session.queue)
        OBVIOUS
    <2>1. session.queue # <<>> /\ session.queue \in Seq(Commands)
        BY Unfolded, QueueParts DEF SessionInv, HeadIsAwaited
    <2>2. Head(session.queue).cmd \notin HandshakeTypes
        BY DEF HandshakeTypes
    <2>3. session.initState = "INIT_DONE"
        BY <2>1, <2>2, TailKeeps DEF BudgetInv, Provided, Handshaking
    <2>4. /\ session'.queue = ExpireDone(session).queue /\ session \in Sessions
          /\ ~IsReadback(Head(session.queue))
        BY <2>3, ExpiresInLoop
    <2> DEFINE freed   == [session EXCEPT !.expected = "NONE"]
               dropped == [freed EXCEPT !.queue = Tail(@)]
    <2>5. ExpireDone(session) = dropped
        BY <2>4 DEF ExpireDone
    <2>6. dropped.queue = Tail(session.queue)
        BY <2>4 DEF Sessions
    <2> QED BY <2>4, <2>5, <2>6
<1>2. IInv /\ BudgetInv /\ [Next]_vars => [lost => session'.queue = Tail(session.queue)]_vars
    BY <1>1
<1> QED BY <1>2, BudgetIsKept, PTL DEF Spec, OneShotNotRetried

\* A delivery of a transition whose report never came is followed by a readback: the
\* one that is scheduled, or that of the reconciliation under way.
THEOREM LostDeliveryIsReadBack ==
    ASSUME Undisturbed
    PROVE  Spec => LostReportIsReadBack
<1> DEFINE lost == /\ EndLoop /\ rx # "stale"
                   /\ InFlight(session) /\ session.age > TIMEOUT
                   /\ session.initState = "INIT_DONE"
                   /\ Head(session.queue).cmd = "DATAPOINT_DELIVER"
                   /\ HasPending(session)
           dropped == [session EXCEPT !.expected = "NONE", !.queue = Tail(@)]
<1>1. IInv /\ BudgetInv => (lost => HasReadback(session'))
    <2> SUFFICES ASSUME IInv, BudgetInv, lost PROVE HasReadback(session')
        OBVIOUS
    <2>1. /\ session'.queue = ExpireDone(session).queue
          /\ session \in Sessions /\ SessionInv(session)
          /\ session.queue # <<>> /\ session.queue \in Seq(Commands)
          /\ ~IsReadback(Head(session.queue))
        BY ExpiresInLoop
    <2>2. ExpireDone(session) = Schedule(dropped)
        BY <2>1 DEF ExpireDone, Sessions
    <2>3. Provided(session, FALSE)
        BY Unfolded DEF EndLoop
    <2>4. Tail(session.queue) \in Seq(Commands)
        BY <2>1, TailOfQueue
    <2>5. /\ dropped \in Sessions /\ dropped.queue = Tail(session.queue) /\ dropped.expected = "NONE"
          /\ Alike(session, dropped)
        BY <2>1, <2>4 DEF Sessions, Alike
    <2> HIDE DEF dropped
    <2>6. /\ SessionInv(dropped) /\ Provided(dropped, FALSE)
          /\ HasReadback(session) => HasReadback(dropped)
        BY <2>1, <2>3, <2>5, DropLemma, DropProvides DEF Alike
    <2>7. HasPending(dropped) /\ dropped.initState = "INIT_DONE"
        BY <2>5 DEF HasPending, Alike
    <2>8. HasReadback(Schedule(dropped))
        <3>1. CASE dropped.route = "TRANSITION"
            BY <2>6, <3>1 DEF Provided, Budget, Schedule
        <3>2. CASE dropped.route # "TRANSITION"
            BY <2>5, <2>6, <2>7, <3>2, ScheduleProvides DEF Provided
        <3> QED BY <3>1, <3>2
    <2> QED BY <2>1, <2>2, <2>8 DEF HasReadback
<1>2. IInv /\ BudgetInv /\ [Next]_vars => [lost => HasReadback(session')]_vars
    BY <1>1
<1>3. HasReadback(session') <=> HasReadback(session)'
    BY DEF HasReadback
<1> QED BY <1>2, <1>3, BudgetIsKept, PTL DEF Spec, LostReportIsReadBack
=============================================================================
