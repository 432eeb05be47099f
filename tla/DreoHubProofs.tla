--------------------------- MODULE DreoHubProofs ---------------------------
(***************************************************************************)
(* The inductive invariant IInv of DreoHub, proved action by action, and   *)
(* the safety properties that follow from it. Each lemma ...Step says that *)
(* one action preserves IInv and gives no pending transition up without a  *)
(* reason (Kept, the body of PendingIsKept). The order of the queue       *)
(* follows, with what each operator of the session does to it, and that    *)
(* DreoHub implements DreoTransitions.                                     *)
(***************************************************************************)
EXTENDS DreoHub, DreoSessionProofs

FrameOK(s, f) ==
    /\ f.left # {} => f.kind = "report"
    /\ f.authoritative =>
          /\ f.kind = "report"
          /\ s.route = "TRANSITION"
          /\ s.attempts > 0
          /\ ~HasReadback(s)
          /\ ~InFlight(s)
    /\ f.kind = "report" => ~ReadbackInFlight(s)
    /\ HasReadback(s) => HasPending(s) \/ f.kind = "report"

\* FrameInv, of the state before and after a step.
LEMMA FrameInvIsFrameOK ==
    /\ FrameInv <=> FrameOK(session, frame)
    /\ FrameInv' <=> FrameOK(session', frame')
BY DEF FrameInv, FrameOK, HasReadback, HasPending, InFlight, ReadbackInFlight

\* What the invariant says of the session and the frame under handling.
Sound(s, f) ==
    /\ s \in Sessions
    /\ SessionInv(s)
    /\ HandshakeAsks(s)
    /\ FrameOK(s, f)

\* A frame without datapoints.
Quiet(f) == f.kind # "report" /\ f.left = {} /\ ~f.authoritative

\* A frame that is no report asks only that a readback has a pending transition.
LEMMA QuietFrame ==
    ASSUME NEW s, NEW f, Quiet(f), HasReadback(s) => HasPending(s)
    PROVE  FrameOK(s, f)
BY DEF FrameOK, Quiet

\* The frames that the model uses for anything but a report are quiet.
LEMMA QuietFrames ==
    /\ Quiet(NoFrame) /\ NoFrame \in Frames
    /\ \A callbacks \in BOOLEAN : Quiet(OtherFrame(callbacks)) /\ OtherFrame(callbacks) \in Frames
BY DEF Quiet, NoFrame, OtherFrame, Frames

\* process_command_queue_ from anywhere; nothing is sent while a report is handled.
LEMMA QueueStep ==
    ASSUME NEW s, NEW f, Sound(s, f), NEW rxEmpty \in BOOLEAN, rxEmpty => f.kind # "report"
    PROVE  /\ Sound(ProcessQueue(s, rxEmpty), f)
           /\ ProcessQueue(s, rxEmpty).pending = s.pending
<1> DEFINE t == ProcessQueue(s, rxEmpty)
<1>1. /\ t \in Sessions /\ SessionInv(t) /\ KeepsAsking(s, t)
      /\ t.pending = s.pending /\ t.initState = s.initState
      /\ ~rxEmpty /\ InFlight(t) => t = s
      /\ ~rxEmpty /\ ~InFlight(s) => t = s
      /\ HasReadback(t) => HasReadback(s) \/ HasPending(s)
    BY ProcessQueueLemma DEF Sound
<1> HIDE DEF t
<1>2. HandshakeAsks(t)
    BY <1>1, StillAsks DEF Sound
<1>3. HasPending(t) <=> HasPending(s)
    BY <1>1, KeepsPending
<1>4. FrameOK(t, f)
    BY <1>1, <1>3 DEF Sound, FrameOK, ReadbackInFlight
<1> QED BY <1>1, <1>2, <1>4 DEF Sound, t

\* send_command_ before it runs the queue.
LEMMA EnqueueStep ==
    ASSUME NEW s, NEW f, Sound(s, f), NEW c \in Commands, ~IsReadback(c)
    PROVE  Sound(Enqueue(s, c), f) /\ Enqueue(s, c).pending = s.pending
<1> DEFINE t == Enqueue(s, c)
<1>1. /\ t \in Sessions /\ SessionInv(t) /\ Keeps(s, t)
      /\ t.expected = s.expected /\ t.route = s.route /\ t.attempts = s.attempts
      /\ HasReadback(t) <=> HasReadback(s)
      /\ ReadbackInFlight(t) <=> ReadbackInFlight(s)
      /\ \A type : Asks(s, type) => Asks(t, type)
    BY EnqueueLemma DEF Sound
<1> HIDE DEF t
<1>2. HandshakeAsks(t)
    BY <1>1 DEF Sound, HandshakeAsks, Keeps
<1>3. FrameOK(t, f)
    BY <1>1, KeepsPending DEF Sound, FrameOK, InFlight, Keeps
<1> QED BY <1>1, <1>2, <1>3 DEF Sound, Keeps, t

\* send_datapoint_commands_ before it sends.
LEMMA RecordStep ==
    ASSUME NEW s, NEW f, Sound(s, f), NEW batch \in Batches
    PROVE  /\ Sound(Record(s, batch), f)
           /\ \A d \in Dps : s.pending[d] # NoValue => Record(s, batch).pending[d] # NoValue
<1>1. PICK p \in Batches :
         /\ Record(s, batch) = [s EXCEPT !.pending = p]
         /\ \A d \in Dps : s.pending[d] # NoValue => p[d] # NoValue
    BY RecordLemma DEF Sound
<1> DEFINE t == [s EXCEPT !.pending = p]
<1>2. /\ t \in Sessions
      /\ SessionInv(t)
      /\ HandshakeAsks(t)
      /\ t.pending = p
      /\ t.initState = s.initState /\ t.expected = s.expected /\ t.route = s.route
      /\ t.attempts = s.attempts /\ t.queue = s.queue
      /\ HasReadback(t) <=> HasReadback(s)
      /\ ReadbackInFlight(t) <=> ReadbackInFlight(s)
    BY PendingLemma DEF Sound
<1> HIDE DEF t
<1>3. HasPending(s) => HasPending(t)
    BY <1>1, <1>2 DEF HasPending
<1>4. FrameOK(t, f)
    BY <1>2, <1>3 DEF Sound, FrameOK, InFlight
<1> QED BY <1>1, <1>2, <1>4 DEF Sound, t

----------------------------------------------------------------------------
\* The invariant taken apart.
LEMMA Unfold ==
    IInv <=> /\ Sound(session, frame)
             /\ table \in Batches
             /\ rx \in {"empty", "fresh", "stale"}
             /\ turn \in Turns
             /\ frame \in Frames
BY FrameInvIsFrameOK DEF IInv, TypeOK, Sound

\* The invariant of the next state put together.
LEMMA Fold ==
    ASSUME Sound(session', frame'), table' \in Batches, rx' \in {"empty", "fresh", "stale"},
           turn' \in Turns, frame' \in Frames
    PROVE  IInv'
BY FrameInvIsFrameOK DEF IInv, TypeOK, Sound, SessionInv, HandshakeAsks, HeadIsAwaited, InFlight,
   ReadbackIsNext, ReadbackHasRoute, HasReadback, AttemptsAreClear, FlightIsCounted, ReadbackInFlight, Asks

\* A hub as it is constructed satisfies the invariant.
LEMMA InitInvariant == Init => IInv
<1> SUFFICES ASSUME Init PROVE IInv
    OBVIOUS
<1>1. NewSession(InitSession)
    BY InitSessionLemma
<1>2. /\ InitSession \in Sessions /\ SessionInv(InitSession) /\ HandshakeAsks(InitSession)
      /\ ~HasReadback(InitSession)
    BY <1>1, NewSessionLemma DEF NewSession
<1>3. FrameOK(InitSession, NoFrame)
    BY <1>2, QuietFrame, QuietFrames
<1> QED BY <1>2, <1>3, QuietFrames, Unfold DEF Init, Sound, Turns, Batches, Nothing

Kept == \A d \in Dps : GivenUp(d) => SettledBy(d)

SameTargets == session'.pending = session.pending

\* A step that leaves the pending transitions alone gives none up.
LEMMA SamePending ==
    ASSUME session'.pending = session.pending
    PROVE  Kept /\ SameTargets
BY DEF Kept, GivenUp, SameTargets

\* loop() reads bytes that complete no frame with an effect.
LEMMA ReadBytesStep == IInv /\ ReadBytes => IInv' /\ Kept /\ SameTargets
<1> SUFFICES ASSUME IInv, ReadBytes PROVE IInv' /\ Kept /\ SameTargets
    OBVIOUS
<1> QED BY Unfold, Fold, SamePending DEF ReadBytes, Turns

\* A call of process_command_queue_ with no frame under handling.
LEMMA RunQueueStep ==
    ASSUME IInv, NEW s, Sound(s, frame), ~Handling, RunQueue(s), UNCHANGED <<table, frame>>
    PROVE  IInv' /\ session'.pending = s.pending
<1>1. CASE rx = "stale"
    BY <1>1, Unfold, Fold DEF RunQueue, Turns
<1>2. CASE rx # "stale"
    <2>1. session' = ProcessQueue(s, rx = "empty")
        BY <1>2 DEF RunQueue
    <2>2. (rx = "empty") \in BOOLEAN /\ frame.kind # "report"
        BY DEF Handling
    <2>3. Sound(session', frame) /\ session'.pending = s.pending
        BY <2>1, <2>2, QueueStep
    <2> QED BY <1>2, <2>3, Unfold, Fold DEF RunQueue, Turns
<1> QED BY <1>1, <1>2

\* The tail of loop().
LEMMA EndLoopStep == IInv /\ EndLoop => IInv' /\ Kept /\ SameTargets
BY Unfold, RunQueueStep, SamePending DEF EndLoop

\* The stale-buffer branch of process_command_queue_ ends and the rest follows.
LEMMA RescanStep == IInv /\ Rescan => IInv' /\ Kept /\ SameTargets
<1> SUFFICES ASSUME IInv, Rescan PROVE IInv' /\ Kept /\ SameTargets
    OBVIOUS
<1>1. (rx' = "empty") \in BOOLEAN /\ frame.kind # "report" /\ rx' \in {"empty", "fresh", "stale"}
    BY DEF Rescan, Handling
<1>2. Sound(session', frame) /\ session'.pending = session.pending
    BY <1>1, Unfold, QueueStep DEF Rescan
<1> QED BY <1>1, <1>2, Unfold, Fold, SamePending DEF Rescan, Turns

\* send_command_ from between the calls or from inside a callback.
LEMMA SendStep ==
    ASSUME IInv, NEW s, Sound(s, frame), Send(s)
    PROVE  IInv' /\ session'.pending = s.pending
<1>1. CASE Handling
    <2>1. Sound(session', frame) /\ session'.pending = s.pending
        BY <1>1, QueueStep DEF Send
    <2>2. rx' \in {"empty", "fresh", "stale"} /\ turn' \in Turns
        BY <1>1, Unfold DEF Send, Reenter, Turns
    <2> QED BY <2>1, <2>2, Unfold, Fold DEF Send
<1>2. CASE ~Handling
    BY <1>2, RunQueueStep DEF Send
<1> QED BY <1>1, <1>2

\* set_datapoint_values_ records the targets and sends.
LEMMA SetDatapointsStep ==
    ASSUME IInv, NEW batch \in Batches, NEW forced, SetDatapoints(batch, forced)
    PROVE  IInv' /\ Kept
<1>1. /\ Sound(Record(session, batch), frame)
      /\ \A d \in Dps : session.pending[d] # NoValue => Record(session, batch).pending[d] # NoValue
    BY Unfold, RecordStep
<1>2. /\ Sound(Enqueue(Record(session, batch), Deliver(batch)), frame)
      /\ Enqueue(Record(session, batch), Deliver(batch)).pending = Record(session, batch).pending
    BY <1>1, DeliverIsCommand, EnqueueStep
<1>3. IInv' /\ session'.pending = Record(session, batch).pending
    BY <1>2, SendStep DEF SetDatapoints
<1> QED BY <1>1, <1>3 DEF Kept, GivenUp

\* send_empty_command_ and the commands modelled like it.
LEMMA SendEmptyStep ==
    ASSUME IInv, NEW type \in CommandTypes, Send(Enqueue(session, Empty(type)))
    PROVE  IInv' /\ Kept /\ SameTargets
<1>1. Sound(Enqueue(session, Empty(type)), frame) /\ Enqueue(session, Empty(type)).pending = session.pending
    BY Unfold, EmptyIsCommand, EnqueueStep
<1> QED BY <1>1, SendStep, SamePending

\* Everything the rest of the program sends.
LEMMA ControlStep == IInv /\ Control => IInv' /\ Kept
<1> SUFFICES ASSUME IInv, Control PROVE IInv' /\ Kept
    OBVIOUS
<1>1. ASSUME NEW batch \in Batches, NEW forced \in BOOLEAN, SetDatapoints(batch, forced) PROVE IInv' /\ Kept
    BY <1>1, SetDatapointsStep
<1>2. CASE SendWifiStatus
    BY <1>2, SendEmptyStep DEF SendWifiStatus, CommandTypes
<1>3. CASE RequestFullReport
    BY <1>3, SendEmptyStep DEF RequestFullReport, CommandTypes
<1>4. CASE Heartbeat
    BY <1>4, SendEmptyStep DEF Heartbeat, CommandTypes
<1> QED BY <1>1, <1>2, <1>3, <1>4 DEF Control

\* Time passes.
LEMMA TickStep == IInv /\ Tick => IInv' /\ Kept /\ SameTargets
<1> SUFFICES ASSUME IInv, Tick PROVE IInv' /\ Kept /\ SameTargets
    OBVIOUS
<1> DEFINE t == [session EXCEPT !.age = @ + 1]
<1>1. session' = t /\ session \in Sessions
    BY Unfold DEF Tick, Sound
<1>2. session.age + 1 \in 0..MaxAge
    <2>1. MaxAge \in Nat
        BY LimitsAssumption DEF MaxAge
    <2> QED BY <1>1, <2>1 DEF Tick, Sessions
<1>3. t \in Sessions
    BY <1>1, <1>2 DEF Sessions
<1>4. /\ t.queue = session.queue /\ t.expected = session.expected /\ t.route = session.route
      /\ t.attempts = session.attempts /\ t.pending = session.pending
      /\ t.initState = session.initState /\ t.initFailed = session.initFailed
    BY <1>1 DEF Sessions
<1> HIDE DEF t
<1>5. Sound(t, frame)
    BY <1>3, <1>4, Unfold
    DEF Sound, SessionInv, HandshakeAsks, HeadIsAwaited, InFlight, ReadbackIsNext, ReadbackHasRoute, HasReadback,
        AttemptsAreClear, FlightIsCounted, ReadbackInFlight, Asks, FrameOK, HasPending
<1> QED BY <1>1, <1>4, <1>5, Unfold, Fold, SamePending DEF Tick

\* The buffer goes stale.
LEMMA BufferGoesStaleStep == IInv /\ BufferGoesStale => IInv' /\ Kept /\ SameTargets
BY Unfold, Fold, SamePending DEF BufferGoesStale

\* A device that restarts has a new session.
LEMMA RebootStep == IInv /\ Reboot => IInv' /\ Kept
<1> SUFFICES ASSUME IInv, Reboot PROVE IInv' /\ Kept
    OBVIOUS
<1>1. NewSession(InitSession)
    BY InitSessionLemma
<1>2. /\ InitSession \in Sessions /\ SessionInv(InitSession) /\ HandshakeAsks(InitSession)
      /\ ~HasReadback(InitSession)
    BY <1>1, NewSessionLemma DEF NewSession
<1>3. Sound(session', frame')
    BY <1>2, QuietFrame, QuietFrames DEF Reboot, Sound
<1>4. Restarting
    BY DEF Reboot, Restarting, InitSession
<1> QED BY <1>3, <1>4, QuietFrames, Fold DEF Reboot, Turns, Batches, Nothing, Kept, SettledBy

\* A step that changes nothing.
LEMMA UnchangedStep == IInv /\ UNCHANGED vars => IInv' /\ Kept /\ SameTargets
BY Unfold, Fold, SamePending DEF vars

----------------------------------------------------------------------------
(* The handlers of frames *)

\* The initialisation state changes and nothing else does.
LEMMA InitStateChange ==
    ASSUME NEW s \in Sessions, SessionInv(s), NEW x \in InitStates
    PROVE  LET t == [s EXCEPT !.initState = x]
           IN  /\ t \in Sessions
               /\ SessionInv(t)
               /\ t.initState = x /\ t.initFailed = s.initFailed /\ t.pending = s.pending
               /\ HasReadback(t) <=> HasReadback(s)
               /\ ReadbackInFlight(t) <=> ReadbackInFlight(s)
               /\ t.expected = s.expected /\ t.route = s.route /\ t.attempts = s.attempts
               /\ \A type : Asks(t, type) <=> Asks(s, type)
<1> DEFINE t == [s EXCEPT !.initState = x]
<1>1. t \in Sessions
    BY DEF Sessions
<1>2. /\ t.queue = s.queue /\ t.expected = s.expected /\ t.route = s.route /\ t.attempts = s.attempts
      /\ t.pending = s.pending /\ t.initState = x /\ t.initFailed = s.initFailed
    BY DEF Sessions
<1> HIDE DEF t
<1> QED BY <1>1, <1>2
        DEF SessionInv, Asks, HeadIsAwaited, InFlight, ReadbackIsNext, ReadbackHasRoute, HasReadback,
            AttemptsAreClear, FlightIsCounted, ReadbackInFlight, t

\* The bytes of a frame, when its handler sends nothing.
LEMMA AcceptStep ==
    ASSUME IInv, Accept
    PROVE  rx' \in {"empty", "fresh", "stale"} /\ turn' \in Turns
BY Unfold DEF Accept, Buffer, Turn, Turns

\* The bytes of a frame, when its handler sends.
LEMMA ReenterStep ==
    ASSUME IInv, Reenter(Buffer, Turn)
    PROVE  rx' \in {"empty", "fresh", "stale"} /\ turn' \in Turns
BY Unfold DEF Reenter, Buffer, Turn, Turns

\* A frame that is not a report answers the command in flight, or none.
LEMMA AnsweredStep ==
    ASSUME IInv, ~Handling, NEW type \in {"HEARTBEAT", "PRODUCT_QUERY", "WIFI_STATE"}
    PROVE  LET s == Answered(type)
           IN  /\ s \in Sessions
               /\ SessionInv(s)
               /\ Keeps(session, s)
               /\ HasReadback(s) => HasPending(s)
               /\ \A c : ResponseOf(c) # type /\ Asks(session, c) => Asks(s, c)
<1> DEFINE s == Answered(type)
<1>1. session \in Sessions /\ SessionInv(session) /\ (HasReadback(session) => HasPending(session))
    BY Unfold DEF Sound, FrameOK, Handling
<1>2. CASE session.expected = type
    <2>1. s = Complete(session)
        BY <1>2 DEF Answered
    <2>2. InFlight(session) /\ type = ResponseOf(Head(session.queue).cmd)
        BY <1>1, <1>2 DEF InFlight, SessionInv, HeadIsAwaited
    <2>3. /\ s \in Sessions /\ SessionInv(s) /\ Keeps(session, s)
          /\ HasReadback(s) => HasReadback(session)
          /\ \A c : Asks(session, c) /\ Empty(c) # Head(session.queue) => Asks(s, c)
        BY <1>1, <2>1, <2>2, CompleteLemma
    <2> HIDE DEF s
    <2>4. \A c : Empty(c) = Head(session.queue) => ResponseOf(c) = type
        BY <2>2 DEF Empty
    <2>5. HasPending(s) <=> HasPending(session)
        BY <2>3, KeepsPending DEF Keeps
    <2> QED BY <1>1, <2>3, <2>4, <2>5 DEF s
<1>3. CASE session.expected # type
    <2>1. s = session
        BY <1>3 DEF Answered
    <2> QED BY <1>1, <2>1 DEF Keeps
<1> QED BY <1>2, <1>3

\* handle_command_, HEARTBEAT: the product query is queued whenever the handshake
\* starts again.
LEMMA HandleHeartbeatStep ==
    ASSUME IInv, NEW restarted \in BOOLEAN, HandleHeartbeat(restarted)
    PROVE  IInv' /\ Kept /\ SameTargets
<1> DEFINE s       == Answered("HEARTBEAT")
           starts  == restarted \/ s.initState = "INIT_HEARTBEAT"
           product == [s EXCEPT !.initState = "INIT_PRODUCT"]
           e       == Enqueue(product, Empty("PRODUCT_QUERY"))
           f       == OtherFrame(FALSE)
<1>1. /\ s \in Sessions /\ SessionInv(s) /\ Keeps(session, s)
      /\ HasReadback(s) => HasPending(s)
      /\ \A c : ResponseOf(c) # "HEARTBEAT" /\ Asks(session, c) => Asks(s, c)
    BY AnsweredStep DEF HandleHeartbeat, FrameReady
<1>2. frame' = f /\ table' = table /\ f \in Frames /\ Quiet(f)
    BY QuietFrames DEF HandleHeartbeat
<1>3. CASE ~starts
    <2>1. session' = s /\ Accept
        BY <1>3 DEF HandleHeartbeat
    <2>2. HandshakeAsks(s)
        BY <1>1, Unfold DEF Sound, HandshakeAsks, Keeps, ResponseOf
    <2>3. Sound(s, f)
        BY <1>1, <1>2, <2>2, QuietFrame DEF Sound
    <2> HIDE DEF s, f
    <2> QED BY <1>1, <1>2, <2>1, <2>3, AcceptStep, Unfold, Fold, SamePending DEF Keeps
<1>4. CASE starts
    <2>1. session' = ProcessQueue(e, FALSE) /\ Reenter(Buffer, Turn)
        BY <1>4 DEF HandleHeartbeat
    <2> HIDE DEF s, f
    <2>2. /\ product \in Sessions /\ SessionInv(product)
          /\ product.initState = "INIT_PRODUCT" /\ product.pending = s.pending
          /\ HasReadback(product) => HasReadback(s)
        BY <1>1, InitStateChange DEF InitStates
    <2> HIDE DEF product
    <2>3. Empty("PRODUCT_QUERY") \in Commands /\ ~IsReadback(Empty("PRODUCT_QUERY"))
        BY EmptyIsCommand DEF CommandTypes
    <2>4. /\ e \in Sessions /\ SessionInv(e) /\ Keeps(product, e)
          /\ HasReadback(e) => HasReadback(product)
          /\ Asks(e, "PRODUCT_QUERY")
        BY <2>2, <2>3, EnqueueLemma
    <2> HIDE DEF e
    <2>5. HandshakeAsks(e)
        BY <2>2, <2>4 DEF HandshakeAsks, Keeps
    <2>6. HasReadback(e) => HasPending(e)
        BY <1>1, <2>2, <2>4 DEF HasPending, Keeps
    <2>7. Sound(e, f)
        BY <1>2, <2>4, <2>5, <2>6, QuietFrame DEF Sound
    <2>8. Sound(session', f) /\ session'.pending = e.pending
        BY <2>1, <2>7, QueueStep
    <2>9. session'.pending = session.pending
        BY <1>1, <2>2, <2>4, <2>8 DEF Keeps
    <2> QED BY <1>2, <2>1, <2>8, <2>9, ReenterStep, Unfold, Fold, SamePending
<1> QED BY <1>3, <1>4

\* handle_command_, PRODUCT_QUERY: the state advances after the queue ran, so the
\* queue may expire a command in between.
LEMMA HandleProductStep == IInv /\ HandleProduct => IInv' /\ Kept /\ SameTargets
<1> SUFFICES ASSUME IInv, HandleProduct PROVE IInv' /\ Kept /\ SameTargets
    OBVIOUS
<1> DEFINE s == Answered("PRODUCT_QUERY")
           e == Enqueue(s, Empty("DATAPOINT_QUERY"))
           q == ProcessQueue(e, FALSE)
           t == [q EXCEPT !.initState = "INIT_DATAPOINT"]
           f == OtherFrame(FALSE)
<1>1. /\ s \in Sessions /\ SessionInv(s) /\ Keeps(session, s)
      /\ HasReadback(s) => HasPending(s)
      /\ \A c : ResponseOf(c) # "PRODUCT_QUERY" /\ Asks(session, c) => Asks(s, c)
    BY AnsweredStep DEF HandleProduct, FrameReady
<1>2. frame' = f /\ table' = table /\ f \in Frames /\ Quiet(f)
    BY QuietFrames DEF HandleProduct
<1>3. CASE s.initState # "INIT_PRODUCT"
    <2>1. session' = s /\ Accept
        BY <1>3 DEF HandleProduct
    <2>2. HandshakeAsks(s)
        BY <1>1, <1>3, Unfold DEF Sound, HandshakeAsks, Keeps, ResponseOf
    <2>3. Sound(s, f)
        BY <1>1, <1>2, <2>2, QuietFrame DEF Sound
    <2> HIDE DEF s, f
    <2> QED BY <1>1, <1>2, <2>1, <2>3, AcceptStep, Unfold, Fold, SamePending DEF Keeps
<1>4. CASE s.initState = "INIT_PRODUCT"
    <2>1. session' = t /\ Reenter(Buffer, Turn)
        BY <1>4 DEF HandleProduct
    <2> HIDE DEF s, f
    <2>2. Empty("DATAPOINT_QUERY") \in Commands /\ ~IsReadback(Empty("DATAPOINT_QUERY"))
        BY EmptyIsCommand DEF CommandTypes
    <2>3. /\ e \in Sessions /\ SessionInv(e) /\ Keeps(s, e)
          /\ HasReadback(e) => HasReadback(s)
          /\ Asks(e, "DATAPOINT_QUERY")
        BY <1>1, <2>2, EnqueueLemma
    <2> HIDE DEF e
    <2>4. /\ q \in Sessions /\ SessionInv(q) /\ KeepsAsking(e, q)
          /\ q.pending = e.pending
          /\ HasReadback(q) => HasReadback(e) \/ HasPending(e)
        BY <2>3, ProcessQueueLemma
    <2> HIDE DEF q
    <2>5. q.initFailed \/ Asks(q, "DATAPOINT_QUERY")
        BY <1>4, <2>3, <2>4 DEF KeepsAsking, Keeps
    <2>6. /\ t \in Sessions /\ SessionInv(t)
          /\ t.initState = "INIT_DATAPOINT" /\ t.initFailed = q.initFailed /\ t.pending = q.pending
          /\ HasReadback(t) <=> HasReadback(q)
          /\ \A type : Asks(t, type) <=> Asks(q, type)
        BY <2>4, InitStateChange DEF InitStates
    <2> HIDE DEF t
    <2>7. HandshakeAsks(t)
        BY <2>5, <2>6 DEF HandshakeAsks
    <2>8. HasReadback(t) => HasPending(t)
        BY <1>1, <2>3, <2>4, <2>6 DEF HasPending, Keeps
    <2>9. Sound(t, f) /\ t.pending = session.pending
        BY <1>1, <1>2, <2>3, <2>4, <2>6, <2>7, <2>8, QuietFrame DEF Sound, Keeps
    <2> QED BY <1>2, <2>1, <2>9, ReenterStep, Unfold, Fold, SamePending
<1> QED BY <1>3, <1>4

\* handle_command_, WIFI_STATE.
LEMMA HandleWifiStateStep == IInv /\ HandleWifiState => IInv' /\ Kept /\ SameTargets
<1> SUFFICES ASSUME IInv, HandleWifiState PROVE IInv' /\ Kept /\ SameTargets
    OBVIOUS
<1> DEFINE s == Answered("WIFI_STATE")
           f == OtherFrame(FALSE)
<1>1. /\ s \in Sessions /\ SessionInv(s) /\ Keeps(session, s)
      /\ HasReadback(s) => HasPending(s)
      /\ \A c : ResponseOf(c) # "WIFI_STATE" /\ Asks(session, c) => Asks(s, c)
    BY AnsweredStep DEF HandleWifiState, FrameReady
<1>2. frame' = f /\ table' = table /\ f \in Frames /\ Quiet(f) /\ session' = s /\ Accept
    BY QuietFrames DEF HandleWifiState
<1>3. HandshakeAsks(s)
    BY <1>1, Unfold DEF Sound, HandshakeAsks, Keeps, ResponseOf
<1> HIDE DEF s, f
<1>4. Sound(s, f)
    BY <1>1, <1>2, <1>3, QuietFrame DEF Sound
<1> QED BY <1>1, <1>2, <1>4, AcceptStep, Unfold, Fold, SamePending DEF Keeps

\* handle_command_, MODULE_RESET_REQUEST: all pending transitions go with the session.
LEMMA HandleModuleResetStep == IInv /\ HandleModuleReset => IInv' /\ Kept
<1> SUFFICES ASSUME IInv, HandleModuleReset PROVE IInv' /\ Kept
    OBVIOUS
<1>1. NewSession(session')
    BY Unfold, ResetSessionLemma DEF HandleModuleReset, Sound
<1>2. Quiet(frame') /\ frame' \in Frames
    BY QuietFrames DEF HandleModuleReset
<1>3. Sound(session', frame')
    BY <1>1, <1>2, NewSessionLemma, QuietFrame DEF Sound, NewSession
<1>4. turn' # "crashed"
    BY DEF HandleModuleReset, FrameReady, Accept, Turn
<1>5. Restarting
    BY <1>1, <1>4 DEF NewSession, Restarting
<1> QED BY <1>2, <1>3, <1>5, AcceptStep, Unfold, Fold DEF HandleModuleReset, Kept, SettledBy

\* handle_command_, BUTTON_EVENT: the session is left alone.
LEMMA HandleButtonEventStep == IInv /\ HandleButtonEvent => IInv' /\ Kept /\ SameTargets
<1> SUFFICES ASSUME IInv, HandleButtonEvent PROVE IInv' /\ Kept /\ SameTargets
    OBVIOUS
<1>1. /\ frame' = OtherFrame(TRUE) /\ table' = table /\ session' = session /\ Accept
      /\ Quiet(frame') /\ frame' \in Frames
    BY QuietFrames DEF HandleButtonEvent
<1>2. HasReadback(session) => HasPending(session)
    BY Unfold DEF HandleButtonEvent, FrameReady, Handling, Sound, FrameOK
<1>3. Sound(session', frame')
    BY <1>1, <1>2, Unfold, QuietFrame DEF Sound
<1> QED BY <1>1, <1>3, AcceptStep, Unfold, Fold, SamePending

\* handle_command_, DATAPOINT_REPORT, up to handle_datapoints_: a report always
\* completes a readback in flight, so none is in flight while it is handled.
LEMMA HandleReportStep ==
    ASSUME IInv, NEW ids \in SUBSET Dps, HandleReport(ids)
    PROVE  IInv' /\ Kept /\ SameTargets
<1> DEFINE head        == Head(session.queue)
           partial     == head.cmd = "DATAPOINT_REPORT" /\ ~(Known # {} /\ Known \subseteq ids)
           completes   == session.expected = "DATAPOINT_REPORT" /\ ~partial
           s           == IF completes THEN Complete(session) ELSE session
           initialized == s.initState = "INIT_DATAPOINT"
           t           == IF initialized THEN [s EXCEPT !.initState = "INIT_DONE"] ELSE s
           f           == [kind |-> "report", left |-> ids,
                           delivered |-> completes /\ head.cmd = "DATAPOINT_DELIVER",
                           authoritative |-> completes /\ IsReadback(head),
                           callbacks |-> initialized]
<1>1. session' = t /\ frame' = f /\ Accept /\ table' = table /\ ~Handling
    BY DEF HandleReport, FrameReady
<1>2. session \in Sessions /\ SessionInv(session) /\ HandshakeAsks(session)
    BY Unfold DEF Sound
<1>3. f \in Frames
    BY DEF Frames
<1>4. /\ f.kind = "report"
      /\ f.authoritative <=> completes /\ IsReadback(head)
    OBVIOUS
<1> HIDE DEF f
<1>5. completes => InFlight(session) /\ ResponseOf(head.cmd) = "DATAPOINT_REPORT"
    BY <1>2 DEF InFlight, SessionInv, HeadIsAwaited
<1>6. ReadbackInFlight(session) => completes
    <2> SUFFICES ASSUME ReadbackInFlight(session) PROVE completes
        OBVIOUS
    <2>1. session.queue # <<>> /\ session.expected = ResponseOf(head.cmd) /\ head \in Commands
        BY <1>2, QueueParts, HeadTailProperties DEF ReadbackInFlight, SessionInv, HeadIsAwaited
    <2>2. head.cmd = "DATAPOINT_QUERY"
        BY <2>1 DEF ReadbackInFlight, IsReadback, Commands
    <2> QED BY <2>1, <2>2 DEF ResponseOf
<1>7. /\ s \in Sessions /\ SessionInv(s) /\ Keeps(session, s)
      /\ ~ReadbackInFlight(s)
      /\ f.authoritative => /\ s.route = "TRANSITION"
                            /\ s.attempts > 0
                            /\ ~HasReadback(s)
                            /\ ~InFlight(s)
      /\ \A c : ResponseOf(c) # "DATAPOINT_REPORT" /\ Asks(session, c) => Asks(s, c)
    <2>1. CASE completes
        <3>1. /\ s \in Sessions /\ SessionInv(s) /\ Keeps(session, s)
              /\ ~InFlight(s)
              /\ s.route = session.route /\ s.attempts = session.attempts
              /\ IsReadback(head) => ~HasReadback(s)
              /\ \A c : Asks(session, c) /\ Empty(c) # head => Asks(s, c)
            BY <1>2, <1>5, <2>1, CompleteLemma
        <3> HIDE DEF s
        <3>2. \A c : Empty(c) = head => ResponseOf(c) = "DATAPOINT_REPORT"
            BY <1>5, <2>1 DEF Empty
        <3>3. IsReadback(head) => session.route = "TRANSITION" /\ session.attempts > 0
            BY <1>2, <1>5, <2>1, QueueParts
            DEF SessionInv, ReadbackHasRoute, FlightIsCounted, ReadbackInFlight, HeadIsAwaited
        <3> QED BY <1>4, <3>1, <3>2, <3>3 DEF ReadbackInFlight
    <2>2. CASE ~completes
        <3>1. s = session
            BY <2>2
        <3> QED BY <1>2, <1>4, <1>6, <2>2, <3>1 DEF Keeps
    <2> QED BY <2>1, <2>2
<1> HIDE DEF s
<1>8. /\ t \in Sessions /\ SessionInv(t) /\ t.pending = s.pending
      /\ HasReadback(t) <=> HasReadback(s)
      /\ ReadbackInFlight(t) <=> ReadbackInFlight(s)
      /\ t.expected = s.expected /\ t.route = s.route /\ t.attempts = s.attempts
    BY <1>7, InitStateChange DEF InitStates
<1>9. HandshakeAsks(t)
    <2>1. CASE initialized
        <3>1. t.initState = "INIT_DONE"
            BY <1>7, <2>1, InitStateChange DEF InitStates
        <3> QED BY <3>1 DEF HandshakeAsks
    <2>2. CASE ~initialized
        BY <1>2, <1>7, <2>2 DEF HandshakeAsks, Keeps, ResponseOf
    <2> QED BY <2>1, <2>2
<1> HIDE DEF t
<1>10. FrameOK(t, f)
    BY <1>4, <1>7, <1>8 DEF FrameOK, InFlight
<1>11. Sound(t, f) /\ t.pending = session.pending
    BY <1>7, <1>8, <1>9, <1>10 DEF Sound, Keeps
<1> QED BY <1>1, <1>3, <1>11, AcceptStep, Unfold, Fold, SamePending

\* handle_datapoints_, one datapoint.
LEMMA TakeDatapointStep ==
    ASSUME IInv, NEW d \in Dps, NEW v \in Values, TakeDatapoint(d, v)
    PROVE  IInv' /\ Kept
<1>1. /\ session \in Sessions /\ SessionInv(session) /\ HandshakeAsks(session) /\ FrameOK(session, frame)
      /\ frame \in Frames /\ table \in Batches
    BY Unfold DEF Sound
<1>2. d \in frame.left /\ frame.kind = "report" /\ frame.authoritative \in BOOLEAN
    BY <1>1 DEF TakeDatapoint, FrameOK, Frames
<1>3. PICK p \in Batches :
         /\ ClearConfirmed(session, d, v, frame.authoritative) = [session EXCEPT !.pending = p]
         /\ \A e \in Dps : session.pending[e] # NoValue /\ p[e] = NoValue =>
               e = d /\ (frame.authoritative \/ session.pending[e] = v)
    <2>1. session \in Sessions
        BY <1>1
    <2>2. frame.authoritative \in BOOLEAN
        BY <1>2
    <2> QED BY ONLY <2>1, <2>2, d \in Dps, v \in Values, ClearConfirmedLemma
<1> DEFINE t == [session EXCEPT !.pending = p]
<1>4. session' = t
    BY <1>3 DEF TakeDatapoint
<1>5. /\ t \in Sessions /\ SessionInv(t) /\ HandshakeAsks(t)
      /\ t.pending = p
      /\ t.expected = session.expected /\ t.route = session.route /\ t.attempts = session.attempts
      /\ HasReadback(t) <=> HasReadback(session)
      /\ ReadbackInFlight(t) <=> ReadbackInFlight(session)
    BY <1>1, PendingLemma
<1> HIDE DEF t
<1>6. /\ frame' \in Frames /\ frame'.kind = frame.kind /\ frame'.authoritative = frame.authoritative
      /\ frame'.left = frame.left \ {d}
    BY <1>1 DEF TakeDatapoint, Frames
<1>7. FrameOK(t, frame')
    BY <1>1, <1>2, <1>5, <1>6 DEF FrameOK, InFlight
<1>8. table' \in Batches /\ (d \notin Ignored => table'[d] = v)
    BY <1>1 DEF TakeDatapoint, Batches
<1>9. IInv'
    BY <1>4, <1>5, <1>6, <1>7, <1>8, Unfold, Fold DEF Sound, TakeDatapoint
<1>10. Kept
    BY <1>2, <1>3, <1>4, <1>5, <1>6, <1>8 DEF Kept, GivenUp, SettledBy
<1> QED BY <1>9, <1>10

\* handle_command_, DATAPOINT_REPORT, after handle_datapoints_: each branch leaves a
\* readback queued only with a transition pending.
LEMMA FinishFrameStep == IInv /\ FinishFrame => IInv' /\ Kept /\ SameTargets
<1> SUFFICES ASSUME IInv, FinishFrame PROVE IInv' /\ Kept /\ SameTargets
    OBVIOUS
<1>1. /\ session \in Sessions /\ SessionInv(session) /\ HandshakeAsks(session) /\ FrameOK(session, frame)
    BY Unfold DEF Sound
<1>2. frame' = NoFrame /\ table' = table /\ turn' = turn /\ rx' \in {"empty", rx}
    BY DEF FinishFrame
<1>3. /\ session' \in Sessions /\ SessionInv(session') /\ HandshakeAsks(session')
      /\ session'.pending = session.pending
      /\ HasReadback(session') => HasPending(session')
    <2>1. CASE frame.kind # "report"
        BY <1>1, <2>1 DEF FinishFrame, FrameOK
    <2>2. CASE frame.kind = "report"
        <3>1. session' = Settle(session, frame) /\ ~ReadbackInFlight(session)
            BY <1>1, <2>2 DEF FinishFrame, FrameOK
        <3>2. CASE ~HasPending(session)
            <4>1. session' = Cancel(session)
                BY <3>1, <3>2 DEF Settle
            <4>2. /\ session' \in Sessions /\ SessionInv(session') /\ Keeps(session, session')
                  /\ ~HasReadback(session')
                  /\ \A type : Asks(session, type) => Asks(session', type)
                BY <1>1, <3>1, <4>1, CancelLemma
            <4> QED BY <1>1, <4>2 DEF Keeps, HandshakeAsks
        <3>3. CASE HasPending(session) /\ frame.delivered
            <4>1. session' = Schedule(session)
                BY <3>1, <3>3 DEF Settle
            <4>2. /\ session' \in Sessions /\ SessionInv(session') /\ Keeps(session, session')
                  /\ \A type : Asks(session, type) => Asks(session', type)
                BY <1>1, <4>1, ScheduleLemma
            <4> QED BY <1>1, <3>3, <4>2, KeepsPending DEF Keeps, HandshakeAsks
        <3>4. CASE HasPending(session) /\ ~frame.delivered /\ frame.authoritative
            <4>1. session.route = "TRANSITION" /\ ~HasReadback(session)
                BY <1>1, <3>4 DEF FrameOK
            <4>2. session' = NoReconciliation(session) \/ session' = QueueReadback(session)
                BY <3>1, <3>4 DEF Settle
            <4>3. CASE session' = NoReconciliation(session)
                <5>1. /\ session' \in Sessions /\ SessionInv(session') /\ Keeps(session, session')
                      /\ ~HasReadback(session')
                      /\ \A type : Asks(session, type) => Asks(session', type)
                    BY <1>1, <4>1, <4>3, NoReconciliationLemma
                <5> QED BY <1>1, <5>1 DEF Keeps, HandshakeAsks
            <4>4. CASE session' = QueueReadback(session)
                <5>1. /\ session' \in Sessions /\ SessionInv(session')
                      /\ session' = [session EXCEPT !.queue = session'.queue]
                      /\ \A type : Asks(session, type) => Asks(session', type)
                    BY <1>1, <4>1, <4>4, QueueReadbackLemma
                <5>2. Keeps(session, session')
                    BY <1>1, <5>1 DEF Sessions, Keeps
                <5> QED BY <1>1, <3>4, <5>1, <5>2, KeepsPending DEF Keeps, HandshakeAsks
            <4> QED BY <4>2, <4>3, <4>4
        <3>5. CASE HasPending(session) /\ ~frame.delivered /\ ~frame.authoritative
            <4>1. session' = session
                BY <3>1, <3>5 DEF Settle
            <4> QED BY <1>1, <3>5, <4>1
        <3> QED BY <3>2, <3>3, <3>4, <3>5
    <2> QED BY <2>1, <2>2
<1>4. Sound(session', NoFrame)
    BY <1>3, QuietFrame, QuietFrames DEF Sound
<1> QED BY <1>2, <1>3, <1>4, QuietFrames, Unfold, Fold, SamePending

\* Every step of a frame.
LEMMA ReceiveStep == IInv /\ Receive => IInv' /\ Kept
BY HandleHeartbeatStep, HandleProductStep, HandleWifiStateStep, HandleModuleResetStep,
   HandleButtonEventStep, HandleReportStep,
   TakeDatapointStep, FinishFrameStep DEF Receive

\* Every step of the hub.
LEMMA NextStep == IInv /\ [Next]_vars => IInv' /\ Kept
BY ReadBytesStep, EndLoopStep, RescanStep, ReceiveStep, ControlStep, TickStep, BufferGoesStaleStep, RebootStep,
   UnchangedStep DEF Next

----------------------------------------------------------------------------
(* The theorems *)

\* The inductive invariant holds of every run of the hub, for any datapoints,
\* values, limits, queue bound and disturbances.
THEOREM Invariance == Spec => []IInv
<1>1. Init => IInv
    BY InitInvariant
<1>2. IInv /\ [Next]_vars => IInv'
    BY NextStep
<1> QED BY <1>1, <1>2, PTL DEF Spec

\* Every variable keeps its type, initRetries its bound below MAX_RETRIES among them.
THEOREM TypeCorrect == Spec => []TypeOK
<1>1. IInv => TypeOK
    BY DEF IInv
<1> QED BY <1>1, Invariance, PTL

\* handle_command_ (dreo.cpp:205) and process_command_queue_ (dreo.cpp:529) never take
\* front() of an empty queue, and what they take is the command answered or expired.
THEOREM FrontIsInFlight == Spec => []InFlightIsHead
<1>1. IInv => InFlightIsHead
    BY DEF IInv, SessionInv, InFlightIsHead
<1> QED BY <1>1, Invariance, PTL

\* queue_reconciliation_request_ keeps one readback at most, next to be sent.
THEOREM ReadbackIsSoleAndNext == Spec => []OneReadbackNext
<1>1. IInv => OneReadbackNext
    BY DEF IInv, SessionInv, OneReadbackNext
<1> QED BY <1>1, Invariance, PTL

\* cancel_reconciliation_ and the exhaustion branches leave no readback behind that
\* has no reconciliation or no pending transition.
THEOREM ReadbackIsJustified == Spec => []ReadbackHasReason
<1>1. IInv => ReadbackHasReason
    BY DEF IInv, SessionInv, ReadbackHasRoute, FrameInv, ReadbackHasReason
<1> QED BY <1>1, Invariance, PTL

\* schedule_transition_reconciliation_ finds the full budget of attempts, whichever
\* branch ended the reconciliation before.
THEOREM AttemptsStartClear == Spec => []AttemptsClear
<1>1. IInv => AttemptsClear
    BY DEF IInv, SessionInv, AttemptsClear
<1> QED BY <1>1, Invariance, PTL

\* While init_state_ waits for the product or the datapoints and init_failed_ is not
\* set, the query is queued.
THEOREM HandshakeIsAsked == Spec => []HandshakeHasRequest
<1>1. IInv => HandshakeHasRequest
    BY DEF IInv, HandshakeHasRequest
<1> QED BY <1>1, Invariance, PTL

\* handle_command_ treats a report as authoritative only after a readback of the
\* reconciliation under way was sent and counted.
THEOREM AuthorityIsEarned == Spec => []AuthorityFromReadback
<1>1. IInv => AuthorityFromReadback
    BY DEF IInv, FrameInv, AuthorityFromReadback
<1> QED BY <1>1, Invariance, PTL

\* Only a confirmation, the answer to a readback or a reset gives a pending transition
\* up: no timeout does, and no exhausted reconciliation.
THEOREM PendingSurvives == Spec => PendingIsKept
<1>1. IInv /\ [Next]_vars => [Kept]_vars
    BY NextStep
<1>2. Kept => \A d \in Dps : GivenUp(d) => SettledBy(d)
    BY DEF Kept
<1>3. IInv /\ [Next]_vars => [\A d \in Dps : GivenUp(d) => SettledBy(d)]_vars
    BY <1>1, <1>2
<1> QED BY <1>3, Invariance, PTL DEF Spec, PendingIsKept
----------------------------------------------------------------------------
(* The order of the queue: every step takes a command that is no readback from
   its head, while it is in flight, or appends one, or does neither. *)

\* What a step of the hub does in order is what the property allows.
LEMMA OrderedLeaves ==
    ASSUME Ordered(session, session')
    PROVE  LeavesInOrder
BY DEF Ordered, Served, LeavesInOrder

\* A step that leaves the queue alone.
LEMMA SameQueue ==
    ASSUME session'.queue = session.queue
    PROVE  LeavesInOrder
BY DEF LeavesInOrder

\* The session of the invariant.
LEMMA SessionOfIInv == IInv => session \in Sessions /\ SessionInv(session)
BY Unfold DEF Sound

\* process_command_queue_ from loop(), or after a stale buffer was rescanned.
LEMMA QueueRunsInOrder == IInv /\ (EndLoop \/ Rescan) => LeavesInOrder
<1> SUFFICES ASSUME IInv, EndLoop \/ Rescan PROVE LeavesInOrder
    OBVIOUS
<1>1. \/ session' = session
      \/ \E empty \in BOOLEAN : session' = ProcessQueue(session, empty)
    BY DEF EndLoop, Rescan, RunQueue
<1>2. CASE session' = session
    BY <1>2, SameQueue
<1>3. ASSUME NEW empty \in BOOLEAN, session' = ProcessQueue(session, empty) PROVE LeavesInOrder
    BY <1>3, SessionOfIInv, ProcessQueueServes, OrderedLeaves DEF Ordered
<1> QED BY <1>1, <1>2, <1>3

\* send_command_ from between the calls or from inside a callback, with the session
\* s that set_datapoint_values_ left.
LEMMA SendsInOrder ==
    ASSUME IInv, NEW s \in Sessions, SessionInv(s),
           s.queue = session.queue, s.expected = session.expected,
           NEW c \in Commands, ~IsReadback(c), Send(Enqueue(s, c))
    PROVE  LeavesInOrder
<1>1. \/ session' = Enqueue(s, c)
      \/ \E empty \in BOOLEAN : session' = ProcessQueue(Enqueue(s, c), empty)
    BY DEF Send, RunQueue
<1>2. Ordered(s, session')
    BY <1>1, SentInOrder
<1> QED BY <1>2, OrderedLeaves DEF Ordered, Served, InFlight

\* Everything the rest of the program sends.
LEMMA ControlInOrder == IInv /\ Control => LeavesInOrder
<1> SUFFICES ASSUME IInv, Control PROVE LeavesInOrder
    OBVIOUS
<1>1. ASSUME NEW batch \in Batches, NEW forced \in BOOLEAN, SetDatapoints(batch, forced)
      PROVE  LeavesInOrder
    <2> DEFINE s == Record(session, batch)
    <2>1. s \in Sessions /\ SessionInv(s)
        BY Unfold, RecordStep DEF Sound
    <2>2. s.queue = session.queue /\ s.expected = session.expected
        BY SessionOfIInv DEF Record, Sessions
    <2> HIDE DEF s
    <2> QED BY <1>1, <2>1, <2>2, DeliverIsCommand, SendsInOrder DEF SetDatapoints, s
<1>2. ASSUME NEW type \in CommandTypes, Send(Enqueue(session, Empty(type))) PROVE LeavesInOrder
    BY <1>2, SessionOfIInv, EmptyIsCommand, SendsInOrder
<1> QED BY <1>1, <1>2 DEF Control, SendWifiStatus, RequestFullReport, Heartbeat, CommandTypes

\* A frame that is no report serves the command in flight, or none.
LEMMA AnsweredServes ==
    ASSUME IInv, NEW type \in {"HEARTBEAT", "PRODUCT_QUERY", "WIFI_STATE"}
    PROVE  LET s == Answered(type)
           IN  /\ Served(session, s)
               /\ s = session \/ ~InFlight(s)
<1>1. CASE session.expected = type
    <2>1. Answered(type) = Complete(session) /\ InFlight(session)
        BY <1>1 DEF Answered, InFlight
    <2> QED BY <2>1, SessionOfIInv, CompleteServes, CompleteLemma
<1>2. CASE session.expected # type
    BY <1>2 DEF Answered, Served
<1> QED BY <1>1, <1>2

\* A handler that has an answer to send: s is the session once the frame served the
\* command in flight, p the same with another init_state_.
LEMMA AnswersInOrder ==
    ASSUME IInv, NEW s \in Sessions, Served(session, s), s = session \/ ~InFlight(s),
           NEW p \in Sessions, SessionInv(p), p.queue = s.queue, p.expected = s.expected,
           NEW c \in Commands, ~IsReadback(c),
           session'.queue = ProcessQueue(Enqueue(p, c), FALSE).queue
    PROVE  LeavesInOrder
<1> DEFINE e == Enqueue(p, c)
           t == ProcessQueue(e, FALSE)
<1>1. Ordered(p, t) /\ Ordered(p, e)
    BY SentInOrder
<1>2. CASE s = session
    BY <1>1, <1>2, OrderedLeaves DEF Ordered, Served, InFlight
<1>3. CASE ~InFlight(s)
    <2>1. e \in Sessions /\ SessionInv(e) /\ ~InFlight(e) /\ ~InFlight(p)
        BY <1>3, EnqueueLemma DEF InFlight
    <2>2. t = e
        BY <2>1, ProcessQueueLemma
    <2>3. e.queue = Append(s.queue, c)
        BY DEF Enqueue, Sessions
    <2>4. s.queue \in Seq(Commands) /\ Placed(s.queue)
        BY SessionQueue
    <2>5. Ordinary(e.queue) = Append(Ordinary(s.queue), c) /\ Ordinary(s.queue) \in Seq(Commands)
        BY <2>3, <2>4, OrdinaryOfAppend, OrdinaryIsQueue
    <2>6. session'.queue = e.queue
        BY <2>2
    <2> HIDE DEF e, t
    <2>7. Len(Ordinary(e.queue)) > 0 /\ Front(Ordinary(e.queue)) = Ordinary(s.queue)
        BY <2>5, FrontOfAppend
    <2>8. Len(Ordinary(session'.queue)) > 0 /\ Front(Ordinary(session'.queue)) = Ordinary(s.queue)
        BY <2>6, <2>7
    <2> QED BY <2>8, OrderedLeaves DEF Ordered, Served
<1> QED BY <1>2, <1>3

\* handle_command_, HEARTBEAT.
LEMMA HeartbeatInOrder ==
    ASSUME IInv, NEW restarted \in BOOLEAN, HandleHeartbeat(restarted)
    PROVE  LeavesInOrder
<1> DEFINE s       == Answered("HEARTBEAT")
           product == [s EXCEPT !.initState = "INIT_PRODUCT"]
<1>1. \/ session' = s
      \/ session' = ProcessQueue(Enqueue(product, Empty("PRODUCT_QUERY")), FALSE)
    BY DEF HandleHeartbeat
<1>2. s \in Sessions /\ SessionInv(s) /\ Served(session, s) /\ (s = session \/ ~InFlight(s))
    BY AnsweredStep, AnsweredServes DEF HandleHeartbeat, FrameReady
<1> HIDE DEF s
<1>3. /\ product \in Sessions /\ SessionInv(product)
      /\ product.queue = s.queue /\ product.expected = s.expected
    BY <1>2, InitStateChange DEF InitStates, Sessions
<1> HIDE DEF product
<1>4. Empty("PRODUCT_QUERY") \in Commands /\ ~IsReadback(Empty("PRODUCT_QUERY"))
    BY EmptyIsCommand DEF CommandTypes
<1>5. CASE session' = s
    BY <1>2, <1>5, OrderedLeaves DEF Ordered
<1> QED BY <1>1, <1>2, <1>3, <1>4, <1>5, AnswersInOrder

\* handle_command_, PRODUCT_QUERY.
LEMMA ProductInOrder == IInv /\ HandleProduct => LeavesInOrder
<1> SUFFICES ASSUME IInv, HandleProduct PROVE LeavesInOrder
    OBVIOUS
<1> DEFINE s == Answered("PRODUCT_QUERY")
           t == ProcessQueue(Enqueue(s, Empty("DATAPOINT_QUERY")), FALSE)
<1>1. session' = s \/ session' = [t EXCEPT !.initState = "INIT_DATAPOINT"]
    BY DEF HandleProduct
<1>2. s \in Sessions /\ SessionInv(s) /\ Served(session, s) /\ (s = session \/ ~InFlight(s))
    BY AnsweredStep, AnsweredServes DEF HandleProduct, FrameReady
<1> HIDE DEF s
<1>3. Empty("DATAPOINT_QUERY") \in Commands /\ ~IsReadback(Empty("DATAPOINT_QUERY"))
    BY EmptyIsCommand DEF CommandTypes
<1>4. t \in Sessions
    BY <1>2, <1>3, EnqueueLemma, ProcessQueueLemma
<1>5. session' = s \/ session'.queue = t.queue
    BY <1>1, <1>4 DEF Sessions
<1>6. CASE session' = s
    BY <1>2, <1>6, OrderedLeaves DEF Ordered
<1>7. CASE session'.queue = t.queue
    BY <1>2, <1>3, <1>7, AnswersInOrder
<1> QED BY <1>5, <1>6, <1>7

\* handle_command_, DATAPOINT_REPORT, up to handle_datapoints_.
LEMMA ReportInOrder ==
    ASSUME IInv, NEW ids \in SUBSET Dps, HandleReport(ids)
    PROVE  LeavesInOrder
<1>1. session \in Sessions /\ SessionInv(session)
    BY SessionOfIInv
<1>2. PICK s \in {session, Complete(session)} :
         /\ s = Complete(session) => session.expected = "DATAPOINT_REPORT" \/ s = session
         /\ session' = s \/ session' = [s EXCEPT !.initState = "INIT_DONE"]
    BY DEF HandleReport
<1>3. s \in Sessions /\ Served(session, s)
    BY <1>1, <1>2, CompleteServes, CompleteLemma DEF Served, InFlight
<1>4. session'.queue = s.queue
    BY <1>2, <1>3 DEF Sessions
<1> QED BY <1>3, <1>4, OrderedLeaves DEF Ordered, Served

\* Every step of a frame.
LEMMA ReceiveInOrder == IInv /\ Receive => LeavesInOrder
<1> SUFFICES ASSUME IInv, Receive PROVE LeavesInOrder
    OBVIOUS
<1>1. session \in Sessions /\ SessionInv(session)
    BY SessionOfIInv
<1>2. CASE HandleWifiState
    BY <1>2, AnsweredServes, OrderedLeaves DEF HandleWifiState, Ordered
<1>3. CASE HandleModuleReset
    <2>1. NewSession(session') /\ turn' # "crashed"
        BY <1>1, <1>3, ResetSessionLemma DEF HandleModuleReset, FrameReady, Accept, Turn
    <2> QED BY <2>1 DEF NewSession, Restarting, LeavesInOrder
<1>4. ASSUME NEW d \in Dps, NEW v \in Values, TakeDatapoint(d, v) PROVE LeavesInOrder
    <2>1. session'.queue = session.queue
        BY <1>1, <1>4 DEF TakeDatapoint, ClearConfirmed, Sessions
    <2> QED BY <2>1, SameQueue
<1>5. CASE FinishFrame
    <2>1. session' = session \/ session' = Settle(session, frame)
        BY <1>5 DEF FinishFrame
    <2> QED BY <1>1, <2>1, SettleKeepsOrder, OrderedLeaves DEF Ordered, Served
<1>6. CASE HandleButtonEvent
    BY <1>6, SameQueue DEF HandleButtonEvent
<1> QED BY <1>2, <1>3, <1>4, <1>5, <1>6, HeartbeatInOrder, ProductInOrder, ReportInOrder DEF Receive

\* Every step of the hub.
LEMMA NextInOrder == IInv /\ [Next]_vars => [LeavesInOrder]_vars
<1> SUFFICES ASSUME IInv, Next PROVE LeavesInOrder
    OBVIOUS
<1>1. CASE ReadBytes
    BY <1>1, SameQueue DEF ReadBytes
<1>2. CASE Tick
    BY <1>2, SessionOfIInv, SameQueue DEF Tick, Sessions
<1>3. CASE BufferGoesStale
    BY <1>3, SameQueue DEF BufferGoesStale
<1>4. CASE Reboot
    BY <1>4 DEF Reboot, Restarting, LeavesInOrder, InitSession
<1> QED BY <1>1, <1>2, <1>3, <1>4, QueueRunsInOrder, ReceiveInOrder, ControlInOrder DEF Next

\* Commands leave the queue in the order send_command_ put them in, each from the
\* head while in flight; readbacks inserted ahead of them change nothing of that.
THEOREM QueueKeepsOrder == Spec => QueueIsFifo
BY NextInOrder, Invariance, PTL DEF Spec, QueueIsFifo
----------------------------------------------------------------------------
(* DreoHub implements DreoTransitions: its initial state maps to the initial
   state, and every step of the hub to one of the abstract steps, or to none.
   The readback in flight is the question, and IInv says that it is only asked
   for a pending transition and never while a report is being read. *)

\* What IInv says of the mapped variables.
LEMMA Mapped ==
    /\ IInv => /\ frame.left # {} => frame.kind = "report"
               /\ frame.authoritative => frame.kind = "report"
               /\ frame.kind = "report" => ~ReadbackInFlight(session)
               /\ ReadbackInFlight(session) => \E d \in Dps : session.pending[d] # NoValue
    /\ IInv' => /\ frame'.kind = "report" => ~ReadbackInFlight(session')
                /\ ReadbackInFlight(session') => \E d \in Dps : session'.pending[d] # NoValue
<1>1. ASSUME NEW s, NEW f, Sound(s, f)
      PROVE  /\ f.left # {} => f.kind = "report"
             /\ f.authoritative => f.kind = "report"
             /\ f.kind = "report" => ~ReadbackInFlight(s)
             /\ ReadbackInFlight(s) => \E d \in Dps : s.pending[d] # NoValue
    <2>1. ReadbackInFlight(s) => HasReadback(s)
        <3> SUFFICES ASSUME ReadbackInFlight(s) PROVE HasReadback(s)
            OBVIOUS
        <3>1. s \in Sessions /\ s.queue # <<>> /\ IsReadback(Head(s.queue))
            BY <1>1 DEF Sound, SessionInv, HeadIsAwaited, ReadbackInFlight
        <3>2. s.queue \in Seq(Commands)
            BY <3>1 DEF Sessions
        <3>3. 1 \in 1..Len(s.queue) /\ Head(s.queue) = s.queue[1]
            BY <3>1, <3>2
        <3> QED BY <3>1, <3>3 DEF HasReadback
    <2> QED BY <1>1, <2>1 DEF Sound, FrameOK, HasPending
<1>2. IInv => Sound(session, frame)
    BY Unfold
<1>3. IInv' => Sound(session', frame')
    BY FrameInvIsFrameOK
    DEF IInv, TypeOK, Sound, SessionInv, HandshakeAsks, HeadIsAwaited, InFlight, ReadbackIsNext,
        ReadbackHasRoute, HasReadback, AttemptsAreClear, FlightIsCounted, ReadbackInFlight, Asks
<1> QED BY <1>1, <1>2, <1>3

\* Whether a readback is in flight is a truth value.
LEMMA AskingIsBoolean == ReadbackInFlight(session) \in BOOLEAN /\ ReadbackInFlight(session)' \in BOOLEAN
BY DEF ReadbackInFlight, InFlight, IsReadback

\* Whatever the queue does with the readback, the MCU is asked for a wanted value.
LEMMA MayAskStep == IInv' => Transitions!MayAsk
BY Mapped, AskingIsBoolean DEF Transitions!MayAsk, ReadbackInFlight, InFlight, IsReadback

\* A step that changes neither target nor report asks or stops asking.
LEMMA AskStep ==
    ASSUME IInv', session'.pending = session.pending, table' = table,
           frame'.left = frame.left, frame'.authoritative = frame.authoritative
    PROVE  Transitions!Next
BY MayAskStep DEF Transitions!Ask, Transitions!Next

\* A frame that is no report leaves the mapped report as it is, which is none.
LEMMA OtherFrameStep ==
    ASSUME IInv, ~Handling, NEW callbacks \in BOOLEAN, frame' = OtherFrame(callbacks)
    PROVE  frame'.left = frame.left /\ frame'.authoritative = frame.authoritative
<1>1. frame.kind = "none" /\ frame \in Frames
    BY Unfold DEF Handling
<1>2. frame.left = {} /\ frame.authoritative = FALSE
    BY <1>1, Mapped DEF Frames
<1> QED BY <1>2 DEF OtherFrame, NoFrame

\* The hub as it is constructed has made no promise.
LEMMA InitMaps == Init => Transitions!Init
BY DEF Init, InitSession, NoFrame, Transitions!Init, ReadbackInFlight, InFlight, Nothing, Transitions!Nothing

\* set_datapoint_values_ is a request of its batch.
LEMMA SetDatapointsMaps ==
    ASSUME IInv, NEW batch \in Batches, NEW forced \in BOOLEAN, SetDatapoints(batch, forced)
    PROVE  Transitions!Next
<1>1. /\ Sound(Enqueue(Record(session, batch), Deliver(batch)), frame)
      /\ Enqueue(Record(session, batch), Deliver(batch)).pending = Record(session, batch).pending
    BY Unfold, RecordStep, DeliverIsCommand, EnqueueStep
<1>2. IInv' /\ session'.pending = Record(session, batch).pending
    BY <1>1, SendStep DEF SetDatapoints
<1>3. Record(session, batch).pending =
         [d \in Dps |-> IF d \in Transition /\ batch[d] # NoValue THEN batch[d] ELSE session.pending[d]]
    BY Unfold DEF Sound, Sessions, Record
<1>4. table' = table /\ frame' = frame
    BY DEF SetDatapoints, Send
<1>5. Transitions!Request(batch)
    BY <1>2, <1>3, <1>4, MayAskStep DEF Transitions!Request
<1> QED BY <1>5 DEF Transitions!Next, Transitions!Batches, Batches

\* The head of a report's handler hears the report: it is the answer exactly if a
\* readback is in flight, since no other command of that response type is one.
LEMMA HandleReportMaps ==
    ASSUME IInv, NEW ids \in SUBSET Dps, HandleReport(ids)
    PROVE  Transitions!Next
<1>1. IInv' /\ session'.pending = session.pending /\ table' = table
    BY HandleReportStep DEF SameTargets, HandleReport
<1>2. frame'.left = ids /\ frame'.kind = "report"
    BY DEF HandleReport
<1>3. frame.left = {} /\ ~frame.authoritative
    BY Mapped DEF HandleReport, FrameReady, Handling
<1>4. frame'.authoritative = ReadbackInFlight(session)
    <2> DEFINE head      == Head(session.queue)
               partial   == head.cmd = "DATAPOINT_REPORT" /\ ~(Known # {} /\ Known \subseteq ids)
               completes == session.expected = "DATAPOINT_REPORT" /\ ~partial
    <2>1. frame'.authoritative = (completes /\ IsReadback(head))
        BY DEF HandleReport
    <2>2. session \in Sessions /\ SessionInv(session)
        BY Unfold DEF Sound
    <2>3. InFlight(session) => head \in Commands /\ session.expected = ResponseOf(head.cmd)
        BY <2>2, QueueParts, HeadTailProperties DEF SessionInv, HeadIsAwaited
    <2>4. IsReadback(head) /\ head \in Commands => head.cmd = "DATAPOINT_QUERY"
        BY DEF IsReadback, Commands
    <2>5. ReadbackInFlight(session) => completes /\ IsReadback(head)
        BY <2>3, <2>4 DEF ReadbackInFlight, ResponseOf
    <2>6. completes /\ IsReadback(head) => ReadbackInFlight(session)
        BY DEF ReadbackInFlight, InFlight
    <2>7. ReadbackInFlight(session) \in BOOLEAN /\ (completes /\ IsReadback(head)) \in BOOLEAN
        BY DEF ReadbackInFlight, InFlight, IsReadback
    <2> QED BY <2>1, <2>5, <2>6, <2>7
<1>5. ReadbackInFlight(session)' = FALSE
    BY <1>1, <1>2, Mapped, AskingIsBoolean DEF ReadbackInFlight, InFlight, IsReadback
<1>6. Transitions!Hear(ids)
    BY <1>1, <1>2, <1>3, <1>4, <1>5 DEF Transitions!Hear
<1> QED BY <1>6 DEF Transitions!Next

\* handle_datapoints_ learns one datapoint.
LEMMA TakeDatapointMaps ==
    ASSUME IInv, NEW d \in Dps, NEW v \in Values, TakeDatapoint(d, v)
    PROVE  Transitions!Next
<1>1. IInv'
    BY TakeDatapointStep
<1>2. d \in frame.left /\ frame \in Frames /\ frame.kind = "report"
    BY Unfold, Mapped DEF TakeDatapoint
<1>3. /\ frame'.left = frame.left \ {d} /\ frame'.authoritative = frame.authoritative
      /\ frame'.kind = "report"
    BY <1>2 DEF TakeDatapoint, Frames
<1>4. ReadbackInFlight(session)' = ReadbackInFlight(session)
    BY <1>1, <1>2, <1>3, Mapped, AskingIsBoolean DEF ReadbackInFlight, InFlight, IsReadback
<1>5. session \in Sessions /\ session.pending \in Batches /\ v # NoValue
    BY Unfold, DatapointsAssumption DEF Sound, Sessions
<1>6. session'.pending = IF frame.authoritative \/ session.pending[d] = v
                         THEN [session.pending EXCEPT ![d] = NoValue] ELSE session.pending
    <2>1. CASE session.pending[d] = NoValue
        <3>1. session' = session
            BY <2>1 DEF TakeDatapoint, ClearConfirmed
        <3>2. [session.pending EXCEPT ![d] = NoValue] = session.pending
            BY <1>5, <2>1 DEF Batches
        <3> QED BY <3>1, <3>2
    <2>2. CASE session.pending[d] # NoValue
        BY <1>5, <2>2 DEF TakeDatapoint, ClearConfirmed, Sessions
    <2> QED BY <2>1, <2>2
<1>7. table' \in {table, [table EXCEPT ![d] = v]}
    BY DEF TakeDatapoint
<1>8. Transitions!Learn(d, v)
    BY <1>2, <1>3, <1>4, <1>6, <1>7 DEF Transitions!Learn
<1> QED BY <1>8 DEF Transitions!Next

\* The end of a handler ends the report.
LEMMA FinishFrameMaps == IInv /\ FinishFrame => Transitions!Next
<1> SUFFICES ASSUME IInv, FinishFrame PROVE Transitions!Next
    OBVIOUS
<1>1. IInv' /\ session'.pending = session.pending
    BY FinishFrameStep DEF SameTargets
<1>2. frame' = NoFrame /\ frame.left = {} /\ table' = table
    BY DEF FinishFrame
<1>3. Transitions!Finish
    BY <1>1, <1>2, MayAskStep DEF Transitions!Finish, NoFrame
<1> QED BY <1>3 DEF Transitions!Next

\* A reset of the session and a restart of the device forget what was wanted.
LEMMA ForgetMaps == IInv /\ (HandleModuleReset \/ Reboot) => Transitions!Next
<1> SUFFICES ASSUME IInv, HandleModuleReset \/ Reboot PROVE Transitions!Next
    OBVIOUS
<1>1. session' = [InitSession EXCEPT !.age = session.age] \/ session' = InitSession
    BY DEF HandleModuleReset, ResetSession, Reboot
<1>2. session'.pending = Nothing /\ session'.expected = "NONE"
    BY <1>1 DEF InitSession
<1>3. ReadbackInFlight(session)' = FALSE
    BY <1>2 DEF ReadbackInFlight, InFlight
<1>4. frame'.left = {} /\ frame'.authoritative = FALSE /\ table' \in {table, Nothing}
    <2>1. Quiet(frame') /\ frame' \in Frames
        BY QuietFrames DEF HandleModuleReset, Reboot
    <2>2. table' \in {table, Nothing}
        BY DEF HandleModuleReset, Reboot
    <2> QED BY <2>1, <2>2 DEF Quiet, Frames
<1>5. Transitions!Forget
    BY <1>2, <1>3, <1>4 DEF Transitions!Forget, Transitions!Nothing, Nothing
<1> QED BY <1>5 DEF Transitions!Next

\* Every step of the hub is a step of DreoTransitions, or changes nothing there.
LEMMA StepMaps == IInv /\ [Next]_vars => [Transitions!Next]_(Transitions!vars)
<1> SUFFICES ASSUME IInv, [Next]_vars PROVE [Transitions!Next]_(Transitions!vars)
    OBVIOUS
<1>1. CASE ReadBytes
    BY <1>1, ReadBytesStep, AskStep DEF ReadBytes, SameTargets
<1>2. CASE EndLoop
    BY <1>2, EndLoopStep, AskStep DEF EndLoop, SameTargets
<1>3. CASE Rescan
    BY <1>3, RescanStep, AskStep DEF Rescan, SameTargets
<1>4. ASSUME NEW restarted \in BOOLEAN, HandleHeartbeat(restarted) PROVE Transitions!Next
    BY <1>4, HandleHeartbeatStep, OtherFrameStep, AskStep DEF HandleHeartbeat, FrameReady, SameTargets
<1>5. CASE HandleProduct
    BY <1>5, HandleProductStep, OtherFrameStep, AskStep DEF HandleProduct, FrameReady, SameTargets
<1>6. CASE HandleWifiState
    BY <1>6, HandleWifiStateStep, OtherFrameStep, AskStep DEF HandleWifiState, FrameReady, SameTargets
<1>7. ASSUME NEW ids \in SUBSET Dps, HandleReport(ids) PROVE Transitions!Next
    BY <1>7, HandleReportMaps
<1>8. ASSUME NEW d \in Dps, NEW v \in Values, TakeDatapoint(d, v) PROVE Transitions!Next
    BY <1>8, TakeDatapointMaps
<1>9. CASE FinishFrame
    BY <1>9, FinishFrameMaps
<1>10. CASE HandleModuleReset \/ Reboot
    BY <1>10, ForgetMaps
<1>11. ASSUME NEW batch \in Batches, NEW forced \in BOOLEAN, SetDatapoints(batch, forced) PROVE Transitions!Next
    BY <1>11, SetDatapointsMaps
<1>12. ASSUME NEW type \in CommandTypes, Send(Enqueue(session, Empty(type))) PROVE Transitions!Next
    <2>1. table' = table /\ frame' = frame
        BY <1>12 DEF Send
    <2> QED BY <1>12, <2>1, SendEmptyStep, AskStep DEF SameTargets
<1>13. CASE SendWifiStatus \/ RequestFullReport \/ Heartbeat
    BY <1>12, <1>13 DEF SendWifiStatus, RequestFullReport, Heartbeat, CommandTypes
<1>14. CASE Tick
    BY <1>14, TickStep, AskStep DEF Tick, SameTargets
<1>15. CASE BufferGoesStale
    BY <1>15, BufferGoesStaleStep, AskStep DEF BufferGoesStale, SameTargets
<1>16. CASE UNCHANGED vars
    BY <1>16 DEF vars, Transitions!vars, ReadbackInFlight, InFlight
<1>17. CASE HandleButtonEvent
    BY <1>17, HandleButtonEventStep, OtherFrameStep, AskStep DEF HandleButtonEvent, FrameReady, SameTargets
<1> QED BY <1>1, <1>2, <1>3, <1>4, <1>5, <1>6, <1>7, <1>8, <1>9, <1>10, <1>11, <1>13, <1>14, <1>15, <1>16, <1>17
        DEF Next, Receive, Control

\* The hub implements DreoTransitions, whatever the datapoints, limits and
\* disturbances: what dreo.cpp does with queue, timeouts and readbacks never shows
\* in a target but as a request, a report that agrees, an answer, or a reset.
THEOREM TransitionsImplemented == Spec => KeepsTransitions
<1>1. Init => Transitions!Init
    BY InitMaps
<1>2. IInv /\ [Next]_vars => [Transitions!Next]_(Transitions!vars)
    BY StepMaps
<1> QED BY <1>1, <1>2, Invariance, PTL DEF Spec, KeepsTransitions, Transitions!Spec
=============================================================================
