-------------------------- MODULE DreoLightProofs --------------------------
(***************************************************************************)
(* That the platform light writes what each call asks, nothing else, and   *)
(* shows in the end what the MCU has.                                      *)
(*                                                                         *)
(* All is proved from one invariant, Inv.  Unlike the coordinators' it is  *)
(* about a wire that may be out of step: the light is used, and power      *)
(* switched, while reports that no command asked for are on their way.     *)
(***************************************************************************)
EXTENDS DreoLight, DreoLinkProofs

(* Commands ahead: those on the wire, and those queued behind them *)

\* What commands make of a datapoint, in two parts.
LEMMA WillOfParts ==
    ASSUME NEW w \in Seq(Commands), NEW q \in Seq(Commands), NEW state, NEW d \in Dps
    PROVE  LET between == [e \in Dps |-> Will(state, w, e)]
           IN  Will(state, w \o q, d) = Will(between, q, d)
<1> DEFINE between == [e \in Dps |-> Will(state, w, e)]
           all == w \o q
<1>1. PICK a \in Nat, b \in Nat : a = Len(w) /\ b = Len(q)
    BY LenProperties
<1>2. /\ Len(all) = a + b
      /\ \A i \in 1..a : all[i] = w[i]
      /\ \A i \in 1..b : all[a + i] = q[i]
    BY <1>1, ConcatProperties
<1>3. a + b \in Nat
    BY <1>1
<1> HIDE DEF all
<1>4. between[d] = Becomes(state, w, a, d)
    BY <1>1 DEF Will
<1> HIDE DEF between
<1>5. CASE Unwritten(q, b, d)
    <2>1. Becomes(between, q, b, d) = between[d]
        BY <1>5, BecomesLast
    <2>2. \A i \in 1..(a + b) : i \in 1..a \/ (i - a \in 1..b /\ all[i] = q[i - a])
        <3> SUFFICES ASSUME NEW i \in 1..(a + b), i \notin 1..a PROVE i - a \in 1..b /\ all[i] = q[i - a]
            OBVIOUS
        <3>1. i - a \in 1..b /\ a + (i - a) = i
            BY <1>1
        <3> QED BY <1>2, <3>1
    <2>3. CASE Unwritten(w, a, d)
        <3>1. Unwritten(all, a + b, d)
            <4> SUFFICES ASSUME NEW i \in 1..(a + b) PROVE all[i].writes[d] = NoValue
                BY DEF Unwritten
            <4>1. CASE i \in 1..a
                BY <1>2, <2>3, <4>1 DEF Unwritten
            <4>2. CASE i - a \in 1..b /\ all[i] = q[i - a]
                BY <1>5, <4>2 DEF Unwritten
            <4> QED BY <2>2, <4>1, <4>2
        <3>2. Becomes(state, all, a + b, d) = state[d] /\ Becomes(state, w, a, d) = state[d]
            BY <1>3, <2>3, <3>1, BecomesLast
        <3> QED BY <1>1, <1>2, <1>4, <2>1, <3>2 DEF Will, all, between
    <2>4. CASE ~Unwritten(w, a, d)
        <3>1. PICK i : LastWrite(w, a, d, i)
            BY <2>4, BecomesLast
        <3>2. LastWrite(all, a + b, d, i)
            <4>1. i \in 1..(a + b) /\ all[i] = w[i]
                BY <1>1, <1>2, <3>1 DEF LastWrite
            <4>2. ASSUME NEW j \in 1..(a + b), all[j].writes[d] # NoValue PROVE j <= i
                <5>1. j \in 1..a
                    BY <1>5, <2>2, <4>2 DEF Unwritten
                <5> QED BY <1>2, <3>1, <4>2, <5>1 DEF LastWrite
            <4> QED BY <3>1, <4>1, <4>2 DEF LastWrite
        <3>3. all[i] = w[i]
            BY <1>2, <3>1 DEF LastWrite
        <3>4. Becomes(state, all, a + b, d) = w[i].writes[d] /\ Becomes(state, w, a, d) = w[i].writes[d]
            BY <1>3, <3>1, <3>2, <3>3, BecomesLast
        <3> QED BY <1>1, <1>2, <1>4, <2>1, <3>4 DEF Will, all, between
    <2> QED BY <2>3, <2>4
<1>6. CASE ~Unwritten(q, b, d)
    <2>1. PICK i : LastWrite(q, b, d, i)
        BY <1>6, BecomesLast
    <2>2. i \in 1..b /\ all[a + i] = q[i]
        BY <1>2, <2>1 DEF LastWrite
    <2>3. LastWrite(all, a + b, d, a + i)
        <3>1. a + i \in 1..(a + b)
            BY <1>1, <2>2
        <3>2. ASSUME NEW j \in 1..(a + b), all[j].writes[d] # NoValue PROVE j <= a + i
            <4>1. CASE j <= a
                BY <1>1, <2>2, <4>1
            <4>2. CASE ~(j <= a)
                <5>1. j - a \in 1..b /\ a + (j - a) = j
                    BY <1>1, <4>2
                <5>2. j - a <= i
                    BY <1>2, <2>1, <3>2, <5>1 DEF LastWrite
                <5> QED BY <1>1, <2>2, <5>2
            <4> QED BY <4>1, <4>2
        <3> QED BY <2>1, <2>2, <3>1, <3>2 DEF LastWrite
    <2>4. Becomes(state, all, a + b, d) = q[i].writes[d]
        BY <1>3, <2>2, <2>3, BecomesLast
    <2>5. Becomes(between, q, b, d) = q[i].writes[d]
        BY <2>1, BecomesLast
    <2> QED BY <1>1, <1>2, <2>4, <2>5 DEF Will, all, between
<1> QED BY <1>5, <1>6

\* Readbacks come and go without a difference to what datapoints will be.
LEMMA WillOfSame ==
    ASSUME NEW w \in Seq(Commands), NEW q \in Seq(Commands), Placed(q),
           NEW o \in Seq(Commands), Placed(o), Ordinary(q) = Ordinary(o),
           NEW state, NEW d \in Dps
    PROVE  Will(state, w \o q, d) = Will(state, w \o o, d)
<1> DEFINE between == [e \in Dps |-> Will(state, w, e)]
<1>1. Will(state, w \o q, d) = Will(between, q, d) /\ Will(state, w \o o, d) = Will(between, o, d)
    BY WillOfParts
<1> HIDE DEF between
<1>2. Will(between, q, d) = Will(between, Ordinary(q), d) /\ Will(between, o, d) = Will(between, Ordinary(o), d)
    BY WillOfOrdinary
<1> QED BY <1>1, <1>2

\* Sent, carried out, and joined by another.
LEMMA Parts ==
    ASSUME NEW w \in Seq(Commands), NEW q \in Seq(Commands)
    PROVE  /\ w \o q \in Seq(Commands)
           /\ q # <<>> => Append(w, Head(q)) \o Tail(q) = w \o q
           /\ w # <<>> => /\ w \o q # <<>>
                          /\ Head(w \o q) = Head(w) /\ Tail(w \o q) = Tail(w) \o q
           /\ \A c \in Commands : w \o Append(q, c) = Append(w \o q, c)
<1>1. w \o q \in Seq(Commands)
    OBVIOUS
<1>2. ASSUME q # <<>> PROVE Append(w, Head(q)) \o Tail(q) = w \o q
    BY <1>2
<1>3. ASSUME w # <<>> PROVE w \o q # <<>> /\ Head(w \o q) = Head(w) /\ Tail(w \o q) = Tail(w) \o q
    BY <1>3
<1>4. ASSUME NEW c \in Commands PROVE w \o Append(q, c) = Append(w \o q, c)
    OBVIOUS
<1> QED BY <1>1, <1>2, <1>3, <1>4
----------------------------------------------------------------------------
(* The invariant *)

\* The light is switched off or on.
Proper(m) == m[SWITCH] \in {0, 1, NoValue}
States == {m \in [Dps -> Values] : Proper(m)}
Tables == {m \in Batches : Proper(m)}

\* What is sent: one datapoint at a time.
Requests == {Deliver(batch) : batch \in Tables}

Programs == [session   : Sessions,
             table     : Batches,
             wire      : {w \in [Settings -> Values \cup {NoValue}] : Proper(w)},
             shown     : {w \in [Settings -> Values \cup {NoValue}] : w[SWITCH] \in {0, 1}},
             requested : Values \cup {NoValue},
             suppress  : BOOLEAN,
             scheduled : BOOLEAN]

\* The commands behind those on the wire, and all that the MCU has yet to carry out.
Later(s) == IF InFlight(s) THEN Tail(s.queue) ELSE s.queue
AllAhead(s, w) == w \o Later(s)

\* A report of everything is on its way, or a command that has one sent.
Owed(s, w, r) ==
    \/ w # <<>> \/ Ordinary(Later(s)) # <<>>
    \/ \E j \in 1..Len(r) : \A d \in Settings : r[j][d] # NoValue

Wire(p, m, w, r) ==
    /\ p \in Programs /\ Linked(p.session, Requests)
    /\ m \in States
    /\ w \in Seq(Commands) /\ \A i \in 1..Len(w) : Proper(w[i].writes)
    /\ r \in Seq(Tables)

\* The light knows what is on the wire once the first report has come.
Knows(p) == \A d \in Settings : p.wire[d] # NoValue
Known(p, r) ==
    \/ Knows(p)
    \/ p.table = Nothing /\ r # <<>> /\ \A d \in Settings : Head(r)[d] # NoValue

\* The last report of a datapoint is what the MCU has.
IsLast(r, d, j) == r[j][d] # NoValue /\ \A k \in 1..Len(r) : k > j => r[k][d] = NoValue
Latest(m, r, d) == \A j \in 1..Len(r) : IsLast(r, d, j) => r[j][d] = m[d]

\* The cached wire value is what the MCU has, or a report of it will come.
Followed(p, m, w, r, d) ==
    \/ w # <<>> \/ Ordinary(Later(p.session)) # <<>>
    \/ \E j \in 1..Len(r) : r[j][d] # NoValue
    \/ p.wire[d] = m[d]

\* The light shows what is on the wire but for a colour; no effect while off.
Shows(p) ==
    /\ \A d \in {SWITCH, BRIGHTNESS} : p.wire[d] \in {NoValue, p.shown[d]}
    /\ p.shown[EFFECT] \in {NoValue, p.wire[EFFECT]}
    /\ p.shown[SWITCH] = 0 => p.shown[EFFECT] = NoValue

\* A colour that was not written is shown until the report of everything that the
\* effect in its place has sent.
Faded(p, w, r) ==
    p.wire[RGB] \in {NoValue, p.shown[RGB]} \/ Owed(p.session, w, r)

\* No call waits to be written.
Rests(p, m, w, r) ==
    /\ Shows(p) /\ Faded(p, w, r)
    /\ p.requested = NoValue
    /\ p.scheduled => p.suppress

\* A call waits: the light shows what it asks, over what is on the wire but for a
\* colour it leaves alone.
Carries(p, call) ==
    /\ \A d \in {SWITCH, BRIGHTNESS, RGB} :
          \/ p.shown[d] = IF call[d] # NoValue THEN call[d] ELSE p.wire[d]
          \/ d = RGB /\ call[RGB] = NoValue /\ Uncoloured(call)
    /\ p.shown[EFFECT] \in IF call[EFFECT] # NoValue THEN {call[EFFECT]} ELSE {NoValue, p.wire[EFFECT]}
    /\ p.requested = call[EFFECT]
    /\ p.shown[SWITCH] = 0 => /\ p.shown[EFFECT] = NoValue
                              /\ Written(call) = {SWITCH} /\ call[SWITCH] = 0
Waits(p, m, w, r, call) ==
    /\ p.scheduled /\ ~p.suppress
    /\ Knows(p)
    /\ Carries(p, call)
    /\ \A d \in GoesBy(call) : p.wire[d] = Will(m, AllAhead(p.session, w), d)
    /\ call[RGB] = NoValue => Faded(p, w, r)

Holds(p, m, w, r, call, meant) ==
    /\ Wire(p, m, w, r)
    /\ Known(p, r)
    /\ \A d \in Settings : Latest(m, r, d) /\ Followed(p, m, w, r, d)
    /\ call \in Tables /\ meant \in [Dps -> Values]
    /\ IF call = Nothing THEN Rests(p, m, w, r) ELSE Waits(p, m, w, r, call)
    /\ \A d \in Settings : Will(m, AllAhead(p.session, w), d) = meant[d]

Inv == Holds(program, mcu, toMcu, reports, request, wanted)

----------------------------------------------------------------------------
(* Sessions *)

LEMMA LightDatapoints ==
    /\ Settings \subseteq Dps /\ POWER \in Dps /\ POWER \notin Settings
    /\ SWITCH \in Settings /\ EFFECT \in Settings /\ BRIGHTNESS \in Settings /\ RGB \in Settings
    /\ SWITCH # EFFECT /\ SWITCH # BRIGHTNESS /\ SWITCH # RGB
    /\ EFFECT # BRIGHTNESS /\ EFFECT # RGB /\ BRIGHTNESS # RGB
    /\ {SWITCH, EFFECT, BRIGHTNESS, RGB} = Settings
    /\ 0 \in Values /\ 1 \in Values /\ NoValue \notin Values /\ NoValue # 0 /\ NoValue # 1
    /\ CONSTANT_EFFECT \in Values /\ CONSTANT_EFFECT # NoValue
BY LightAssumption, DatapointsAssumption DEF Settings, POWER, SWITCH, EFFECT, BRIGHTNESS, RGB

LEMMA RequestsAreDelivers == Requests \subseteq Delivers
BY DEF Requests, Delivers, Tables

\* A value a datapoint can be told.
Tellable(d, v) == d \in Dps /\ v \in Values /\ (d = SWITCH => v \in {0, 1})

LEMMA TellOne ==
    ASSUME NEW d, NEW v, Tellable(d, v)
    PROVE  /\ One(d, v) \in Tables /\ Deliver(One(d, v)) \in Requests
           /\ Deliver(One(d, v)) \in Commands
           /\ Deliver(One(d, v)).writes = One(d, v)
           /\ ~IsReadback(Deliver(One(d, v)))
           /\ One(d, v)[d] = v /\ \A e \in Dps : e # d => One(d, v)[e] = NoValue
<1>1. One(d, v)[d] = v /\ \A e \in Dps : e # d => One(d, v)[e] = NoValue
    BY DEF Tellable, One, Nothing
<1>2. One(d, v) \in Batches
    BY DEF Tellable, One, Nothing, Batches
<1>3. Proper(One(d, v))
    BY <1>1, LightDatapoints DEF Proper, Tellable
<1>4. One(d, v) \in Tables
    BY <1>2, <1>3 DEF Tables
<1>5. Deliver(One(d, v)) \in Commands /\ ~IsReadback(Deliver(One(d, v)))
    BY <1>2, DeliverIsCommand
<1> HIDE DEF Tables
<1> QED BY <1>1, <1>4, <1>5 DEF Requests, Deliver

\* What the light or the fan sends comes last.
ComesLast(s, t, d, v) ==
    /\ Linked(t, Requests)
    /\ Len(t.queue) = Len(s.queue) + 1 /\ Len(s.queue) \in Nat
    /\ t.queue[Len(s.queue) + 1] = Deliver(One(d, v))
    /\ \A i \in 1..Len(s.queue) : t.queue[i] = s.queue[i]
    /\ Ordinary(Later(t)) # <<>>
    /\ \A m : \A w \in Seq(Commands), e \in Dps :
          Will(m, AllAhead(t, w), e) = IF e = d THEN v ELSE Will(m, AllAhead(s, w), e)

\* The commands that wait make a queue.
LEMMA LaterIsQueue ==
    ASSUME NEW s, Linked(s, Requests)
    PROVE  /\ Later(s) \in Seq(Commands) /\ Placed(Later(s))
           /\ s.queue \in Seq(Commands) /\ Placed(s.queue)
           /\ InFlight(s) => s.queue # <<>>
<1>1. InFlight(s) => s.queue # <<>>
    BY DEF Linked, SessionInv, HeadIsAwaited
<1>2. s.queue \in Seq(Commands) /\ Placed(s.queue)
    BY SessionQueue DEF Linked
<1> QED BY <1>1, <1>2, LinkedQueue, RequestsAreDelivers DEF Later

LEMMA SentComes ==
    ASSUME NEW s, Linked(s, Requests), NEW d, NEW v, Tellable(d, v)
    PROVE  ComesLast(s, Enqueue(Record(s, One(d, v)), Deliver(One(d, v))), d, v)
<1> DEFINE c == Deliver(One(d, v))
           t == Enqueue(Record(s, One(d, v)), c)
<1>1. c \in Requests /\ c \in Commands /\ ~IsReadback(c) /\ c.writes = One(d, v)
    BY TellOne
<1>2. Linked(t, Requests) /\ Sends(s, t, d, v)
    BY <1>1, LinkedSend, RequestsAreDelivers DEF Tellable
<1>3. t.queue = Append(s.queue, c) /\ t.expected = s.expected
    BY <1>2 DEF Sends
<1> HIDE DEF t
<1>4. /\ s.queue \in Seq(Commands) /\ Later(s) \in Seq(Commands) /\ Placed(Later(s))
      /\ InFlight(s) => s.queue # <<>>
    BY LaterIsQueue
<1>5. One(d, v)[d] = v /\ \A e \in Dps : e # d => One(d, v)[e] = NoValue
    BY TellOne
<1> HIDE DEF c
<1>6. /\ Len(t.queue) = Len(s.queue) + 1 /\ Len(s.queue) \in Nat
      /\ t.queue[Len(s.queue) + 1] = c
      /\ \A i \in 1..Len(s.queue) : t.queue[i] = s.queue[i]
    BY <1>1, <1>3, <1>4, AppendProperties, LenProperties
<1>7. Later(t) = Append(Later(s), c)
    <2>1. CASE InFlight(s)
        <3>1. Later(t) = Tail(t.queue) /\ Later(s) = Tail(s.queue)
            BY <1>3, <2>1 DEF Later, InFlight
        <3> QED BY <1>1, <1>3, <1>4, <2>1, <3>1
    <2>2. CASE ~InFlight(s)
        BY <1>3, <2>2 DEF Later, InFlight
    <2> QED BY <2>1, <2>2
<1>8. Ordinary(Later(t)) # <<>>
    <2>1. Ordinary(Later(t)) = Append(Ordinary(Later(s)), c)
        BY <1>1, <1>4, <1>7, OrdinaryOfAppend
    <2>2. Ordinary(Later(s)) \in Seq(Commands)
        BY <1>4, OrdinaryIsQueue
    <2> QED BY <1>1, <2>1, <2>2
<1>9. ASSUME NEW w \in Seq(Commands), NEW m, NEW e \in Dps
      PROVE  Will(m, AllAhead(t, w), e) = IF e = d THEN v ELSE Will(m, AllAhead(s, w), e)
    <2>1. AllAhead(s, w) \in Seq(Commands) /\ AllAhead(t, w) = Append(AllAhead(s, w), c)
        <3>1. AllAhead(s, w) = w \o Later(s) /\ AllAhead(t, w) = w \o Append(Later(s), c)
            BY <1>7 DEF AllAhead
        <3>2. w \o Later(s) \in Seq(Commands) /\ w \o Append(Later(s), c) = Append(w \o Later(s), c)
            BY <1>1, <1>4, Parts
        <3> QED BY <3>1, <3>2
    <2>2. Will(m, AllAhead(t, w), e) =
              IF c.writes[e] # NoValue THEN c.writes[e] ELSE Will(m, AllAhead(s, w), e)
        BY <1>1, <2>1, WillOfAppend
    <2>3. v # NoValue
        BY LightDatapoints DEF Tellable
    <2> QED BY <1>1, <1>5, <2>2, <2>3
<1> QED BY <1>2, <1>6, <1>8, <1>9 DEF ComesLast, t, c

\* What a report completes is no longer ahead; an answer to the readback leaves none.
LEMMA AnswerLeaves ==
    ASSUME NEW s, Linked(s, Requests)
    PROVE  LET t == Answer(s)
           IN  /\ Linked(t, Requests) /\ ~InFlight(t)
               /\ t.queue = Later(s)
               /\ Outcome(s).authoritative => t.route = "TRANSITION" /\ ~HasReadback(t)
<1> DEFINE t == Answer(s)
<1>1. CASE InFlight(s)
    <2>1. s.queue # <<>> /\ s.queue \in Seq(Commands) /\ Placed(s.queue)
        BY <1>1, LaterIsQueue
    <2>2. Outcome(s).completes /\ (Outcome(s).authoritative <=> IsReadback(Head(s.queue)))
        BY <1>1, <2>1, LinkedQueue, RequestsAreDelivers
    <2>3. t = Complete(s)
        BY <2>2 DEF Answer
    <2>4. Linked(t, Requests) /\ ~InFlight(t) /\ t.queue = Tail(s.queue) /\ t.route = s.route
        BY <1>1, <2>3, LinkedComplete, RequestsAreDelivers
    <2> HIDE DEF t
    <2>5. ASSUME IsReadback(Head(s.queue)) PROVE t.route = "TRANSITION" /\ ~HasReadback(t)
        <3>1. HasReadback(s)
            <4>1. Head(s.queue) = s.queue[1] /\ 1 \in 1..Len(s.queue)
                BY <2>1, EmptySeq
            <4> QED BY <2>5, <4>1 DEF HasReadback
        <3>2. s.route = "TRANSITION"
            BY <3>1 DEF Linked, SessionInv, ReadbackHasRoute
        <3>3. Clean(Tail(s.queue))
            BY <2>1, <2>5, TailOfQueue
        <3> QED BY <2>4, <3>2, <3>3 DEF HasReadback, Clean
    <2> QED BY <1>1, <2>2, <2>4, <2>5 DEF Later, t
<1>2. CASE ~InFlight(s)
    <2>1. ~Outcome(s).completes /\ ~Outcome(s).authoritative
        BY <1>2 DEF Outcome, InFlight
    <2> QED BY <1>2, <2>1 DEF Answer, Later
<1> QED BY <1>1, <1>2

\* The end of a report inserts or removes a readback.
LEMMA SettleLeaves ==
    ASSUME NEW s, Linked(s, Requests), ~InFlight(s), NEW f,
           f.authoritative => s.route = "TRANSITION" /\ ~HasReadback(s)
    PROVE  LET t == Settle(s, f)
           IN  Linked(t, Requests) /\ ~InFlight(t) /\ Ordinary(t.queue) = Ordinary(s.queue)
<1> DEFINE t == Settle(s, f)
<1>1. s \in Sessions /\ SessionInv(s) /\ ~ReadbackInFlight(s)
    BY DEF Linked, ReadbackInFlight
<1>2. Ordinary(t.queue) = Ordinary(s.queue)
    BY <1>1, SettleKeepsOrder
<1>3. t \in Sessions /\ SessionInv(t) /\ t.pending = s.pending /\ t.expected = s.expected
    <2>1. CASE ~HasPending(s)
        <3>1. t = Cancel(s)
            BY <2>1 DEF Settle
        <3> QED BY <1>1, <3>1, CancelLemma DEF Keeps
    <2>2. CASE HasPending(s) /\ f.delivered
        <3>1. t = Schedule(s)
            BY <2>2 DEF Settle
        <3> QED BY <1>1, <3>1, ScheduleLemma DEF Keeps
    <2>3. CASE HasPending(s) /\ ~f.delivered /\ f.authoritative
        <3>1. t = NoReconciliation(s) \/ t = QueueReadback(s)
            BY <2>3 DEF Settle
        <3>2. CASE t = NoReconciliation(s)
            BY <1>1, <2>3, <3>2, NoReconciliationLemma DEF Keeps
        <3>3. CASE t = QueueReadback(s)
            <4>1. t \in Sessions /\ SessionInv(t) /\ t = [s EXCEPT !.queue = t.queue]
                BY <1>1, <2>3, <3>3, QueueReadbackLemma
            <4> HIDE DEF t
            <4>2. t.pending = s.pending /\ t.expected = s.expected
                BY <1>1, <4>1 DEF Sessions
            <4> QED BY <4>1, <4>2
        <3> QED BY <3>1, <3>2, <3>3
    <2>4. CASE HasPending(s) /\ ~f.delivered /\ ~f.authoritative
        <3>1. t = s
            BY <2>4 DEF Settle
        <3> QED BY <1>1, <3>1
    <2> QED BY <2>1, <2>2, <2>3, <2>4
<1> HIDE DEF t
<1> QED BY <1>2, <1>3 DEF Linked, InFlight, t
----------------------------------------------------------------------------
(* Writes *)

\* q is p once the settings ds are written, those of them that writes holds.
Wrote(p, q, ds, writes) ==
    /\ q \in Programs /\ Linked(q.session, Requests)
    /\ q.table = p.table /\ q.shown = p.shown /\ q.requested = p.requested
    /\ q.suppress = p.suppress /\ q.scheduled = p.scheduled
    /\ \A d \in Settings :
          q.wire[d] = IF d \in ds /\ writes[d] # NoValue THEN writes[d] ELSE p.wire[d]
    /\ \A m : \A w \in Seq(Commands), e \in Dps :
          Will(m, AllAhead(q.session, w), e) =
              IF e \in ds /\ writes[e] # NoValue THEN writes[e] ELSE Will(m, AllAhead(p.session, w), e)
    /\ \/ q.session = p.session /\ \A d \in ds : writes[d] = NoValue
       \/ Ordinary(Later(q.session)) # <<>>
    /\ Len(p.session.queue) \in Nat /\ Len(q.session.queue) \in Nat
    /\ Len(p.session.queue) <= Len(q.session.queue)
    /\ \A i \in (Len(p.session.queue) + 1)..Len(q.session.queue) :
          \E d \in ds : writes[d] # NoValue /\ q.session.queue[i] = Deliver(One(d, writes[d]))

LEMMA WroteNone ==
    ASSUME NEW p \in Programs, Linked(p.session, Requests), NEW writes
    PROVE  Wrote(p, p, {}, writes)
<1>1. Len(p.session.queue) \in Nat
    BY LaterIsQueue, LenProperties
<1>2. (Len(p.session.queue) + 1)..Len(p.session.queue) = {}
    BY <1>1
<1> QED BY <1>1, <1>2 DEF Wrote

\* force_set_..._datapoint_value
LEMMA SendWrites ==
    ASSUME NEW p \in Programs, Linked(p.session, Requests), NEW d \in Settings, NEW v, Tellable(d, v)
    PROVE  LET q == Send(p, d, v)
           IN  /\ q \in Programs /\ Linked(q.session, Requests) /\ ComesLast(p.session, q.session, d, v)
               /\ q.table = p.table /\ q.shown = p.shown /\ q.requested = p.requested
               /\ q.suppress = p.suppress /\ q.scheduled = p.scheduled
               /\ \A e \in Settings : q.wire[e] = IF e = d THEN v ELSE p.wire[e]
<1> DEFINE q == Send(p, d, v)
           t == Enqueue(Record(p.session, One(d, v)), Deliver(One(d, v)))
           after == [p.wire EXCEPT ![d] = v]
<1>1. ComesLast(p.session, t, d, v) /\ Linked(t, Requests)
    BY SentComes DEF ComesLast
<1>2. t \in Sessions
    BY <1>1 DEF Linked
<1> HIDE DEF t
<1>3. /\ after \in [Settings -> Values \cup {NoValue}]
      /\ \A e \in Settings : after[e] = IF e = d THEN v ELSE p.wire[e]
    BY DEF Programs, Tellable
<1>4. Proper(after)
    BY <1>3, LightDatapoints DEF Programs, Proper, Tellable
<1> HIDE DEF after
<1>5. q = [p EXCEPT !.wire = after, !.session = t]
    BY DEF Send, after, t, Programs
<1>6. /\ q.session = t /\ q.wire = after /\ q.table = p.table /\ q.shown = p.shown
      /\ q.requested = p.requested /\ q.suppress = p.suppress /\ q.scheduled = p.scheduled
    BY <1>5 DEF Programs
<1>7. q \in Programs
    BY <1>2, <1>3, <1>4, <1>5 DEF Programs
<1> QED BY <1>1, <1>3, <1>6, <1>7

LEMMA WriteStep ==
    ASSUME NEW p, NEW q, NEW ds, NEW writes \in Tables, Wrote(p, q, ds, writes),
           NEW d \in Settings, d \notin ds
    PROVE  Wrote(p, Write(q, d, writes[d]), ds \cup {d}, writes)
<1> DEFINE r == Write(q, d, writes[d])
<1>1. CASE writes[d] = NoValue
    <2>1. r = q
        BY <1>1 DEF Write
    <2> QED BY <1>1, <2>1 DEF Wrote
<1>2. CASE writes[d] # NoValue
    <2>1. r = Send(q, d, writes[d])
        BY <1>2 DEF Write
    <2>2. Tellable(d, writes[d])
        BY <1>2, LightDatapoints DEF Tellable, Tables, Batches, Proper
    <2>3. /\ r \in Programs /\ Linked(r.session, Requests)
          /\ ComesLast(q.session, r.session, d, writes[d])
          /\ r.table = q.table /\ r.shown = q.shown /\ r.requested = q.requested
          /\ r.suppress = q.suppress /\ r.scheduled = q.scheduled
          /\ \A e \in Settings : r.wire[e] = IF e = d THEN writes[d] ELSE q.wire[e]
        BY <2>1, <2>2, SendWrites DEF Wrote
    <2> HIDE DEF r
    <2>4. \A e \in Settings :
              r.wire[e] = IF e \in ds \cup {d} /\ writes[e] # NoValue THEN writes[e] ELSE p.wire[e]
        BY <1>2, <2>3 DEF Wrote
    <2>5. ASSUME NEW w \in Seq(Commands), NEW m, NEW e \in Dps
          PROVE  Will(m, AllAhead(r.session, w), e) =
                     IF e \in ds \cup {d} /\ writes[e] # NoValue THEN writes[e]
                     ELSE Will(m, AllAhead(p.session, w), e)
        <3>1. Will(m, AllAhead(r.session, w), e) =
                  IF e = d THEN writes[d] ELSE Will(m, AllAhead(q.session, w), e)
            BY <2>3 DEF ComesLast
        <3>2. Will(m, AllAhead(q.session, w), e) =
                  IF e \in ds /\ writes[e] # NoValue THEN writes[e] ELSE Will(m, AllAhead(p.session, w), e)
            BY DEF Wrote
        <3> QED BY <1>2, <3>1, <3>2
    <2> DEFINE a == Len(p.session.queue)
               b == Len(q.session.queue)
    <2>6. /\ a \in Nat /\ b \in Nat /\ a <= b /\ Len(r.session.queue) = b + 1
          /\ r.session.queue[b + 1] = Deliver(One(d, writes[d]))
          /\ \A i \in 1..b : r.session.queue[i] = q.session.queue[i]
        BY <2>3 DEF Wrote, ComesLast
    <2>7. \A i \in (a + 1)..b : \E e \in ds :
              writes[e] # NoValue /\ q.session.queue[i] = Deliver(One(e, writes[e]))
        BY DEF Wrote
    <2> HIDE DEF a, b
    <2>8. ASSUME NEW i \in (a + 1)..(b + 1)
          PROVE  \E e \in ds \cup {d} : writes[e] # NoValue /\ r.session.queue[i] = Deliver(One(e, writes[e]))
        <3>1. CASE i = b + 1
            BY <1>2, <2>6, <3>1
        <3>2. CASE i # b + 1
            <4>1. i \in (a + 1)..b /\ i \in 1..b
                BY <2>6, <3>2
            <4> QED BY <2>6, <2>7, <4>1
        <3> QED BY <3>1, <3>2
    <2>9. Ordinary(Later(r.session)) # <<>>
        BY <2>3 DEF ComesLast
    <2>10. /\ Len(p.session.queue) \in Nat /\ Len(r.session.queue) \in Nat
           /\ Len(p.session.queue) <= Len(r.session.queue)
           /\ \A i \in (Len(p.session.queue) + 1)..Len(r.session.queue) : \E e \in ds \cup {d} :
                 writes[e] # NoValue /\ r.session.queue[i] = Deliver(One(e, writes[e]))
        BY <2>6, <2>8 DEF a
    <2>11. /\ r.table = p.table /\ r.shown = p.shown /\ r.requested = p.requested
           /\ r.suppress = p.suppress /\ r.scheduled = p.scheduled
        BY <2>3 DEF Wrote
    <2> QED BY <2>3, <2>4, <2>5, <2>9, <2>10, <2>11 DEF Wrote, r
<1> QED BY <1>1, <1>2

\* All that is written, in whichever order.
LEMMA InOrderWrites ==
    ASSUME NEW p \in Programs, Linked(p.session, Requests), NEW writes \in Tables
    PROVE  Wrote(p, InOrder(p, writes), Settings, writes)
<1> DEFINE lit == Write(p, SWITCH, writes[SWITCH])
           changed == IF p.requested = NoValue
                      THEN Write(Write(lit, BRIGHTNESS, writes[BRIGHTNESS]), EFFECT, writes[EFFECT])
                      ELSE Write(Write(lit, EFFECT, writes[EFFECT]), BRIGHTNESS, writes[BRIGHTNESS])
<1>1. Wrote(p, lit, {SWITCH}, writes)
    <2>1. Wrote(p, lit, {} \cup {SWITCH}, writes)
        BY WroteNone, WriteStep, LightDatapoints
    <2> QED BY <2>1
<1> HIDE DEF lit
<1>2. Wrote(p, changed, {SWITCH, EFFECT, BRIGHTNESS}, writes)
    <2>1. CASE p.requested = NoValue
        <3> DEFINE bright == Write(lit, BRIGHTNESS, writes[BRIGHTNESS])
        <3>1. Wrote(p, bright, {SWITCH} \cup {BRIGHTNESS}, writes)
            BY <1>1, WriteStep, LightDatapoints
        <3> HIDE DEF bright
        <3>2. Wrote(p, Write(bright, EFFECT, writes[EFFECT]), ({SWITCH} \cup {BRIGHTNESS}) \cup {EFFECT}, writes)
            BY <3>1, WriteStep, LightDatapoints
        <3>3. ({SWITCH} \cup {BRIGHTNESS}) \cup {EFFECT} = {SWITCH, EFFECT, BRIGHTNESS}
            OBVIOUS
        <3> QED BY <2>1, <3>2, <3>3 DEF bright
    <2>2. CASE p.requested # NoValue
        <3> DEFINE started == Write(lit, EFFECT, writes[EFFECT])
        <3>1. Wrote(p, started, {SWITCH} \cup {EFFECT}, writes)
            BY <1>1, WriteStep, LightDatapoints
        <3> HIDE DEF started
        <3>2. Wrote(p, Write(started, BRIGHTNESS, writes[BRIGHTNESS]), ({SWITCH} \cup {EFFECT}) \cup {BRIGHTNESS}, writes)
            BY <3>1, WriteStep, LightDatapoints
        <3>3. ({SWITCH} \cup {EFFECT}) \cup {BRIGHTNESS} = {SWITCH, EFFECT, BRIGHTNESS}
            OBVIOUS
        <3> QED BY <2>2, <3>2, <3>3 DEF started
    <2> QED BY <2>1, <2>2
<1> HIDE DEF changed
<1>3. Wrote(p, Write(changed, RGB, writes[RGB]), {SWITCH, EFFECT, BRIGHTNESS} \cup {RGB}, writes)
    BY <1>2, WriteStep, LightDatapoints
<1>4. {SWITCH, EFFECT, BRIGHTNESS} \cup {RGB} = Settings
    BY LightDatapoints
<1>5. InOrder(p, writes) = Write(changed, RGB, writes[RGB])
    BY DEF InOrder, changed, lit
<1> QED BY <1>3, <1>4, <1>5
----------------------------------------------------------------------------
(* Steps of the wire *)

\* Only the session, the table and the wire change, and not what is commanded.
LEMMA Rewired ==
    ASSUME NEW p, NEW m, NEW w, NEW r, NEW call, NEW meant, Holds(p, m, w, r, call, meant),
           NEW q, q.wire = p.wire, q.shown = p.shown, q.requested = p.requested,
           q.suppress = p.suppress, q.scheduled = p.scheduled,
           NEW m2, NEW w2, NEW r2, Wire(q, m2, w2, r2), Known(q, r2),
           \A d \in Settings : Latest(m2, r2, d) /\ Followed(q, m2, w2, r2, d),
           \A d \in Settings : Will(m2, AllAhead(q.session, w2), d) = Will(m, AllAhead(p.session, w), d),
           Owed(p.session, w, r) => Owed(q.session, w2, r2)
    PROVE  Holds(q, m2, w2, r2, call, meant)
<1>1. /\ call \in Tables /\ meant \in [Dps -> Values]
      /\ IF call = Nothing THEN Rests(p, m, w, r) ELSE Waits(p, m, w, r, call)
      /\ \A d \in Settings : Will(m, AllAhead(p.session, w), d) = meant[d]
    BY DEF Holds
<1>2. \A d \in Settings : Will(m2, AllAhead(q.session, w2), d) = meant[d]
    BY <1>1
<1>3. ASSUME Rests(p, m, w, r) PROVE Rests(q, m2, w2, r2)
    <2>1. Shows(q)
        BY <1>3 DEF Rests, Shows
    <2>2. Faded(q, w2, r2)
        BY <1>3, LightDatapoints DEF Rests, Faded
    <2> QED BY <1>3, <2>1, <2>2 DEF Rests
<1>4. ASSUME Waits(p, m, w, r, call) PROVE Waits(q, m2, w2, r2, call)
    <2>1. Knows(q) /\ Carries(q, call)
        BY <1>4 DEF Waits, Knows, Carries
    <2>2. \A d \in GoesBy(call) : q.wire[d] = Will(m2, AllAhead(q.session, w2), d)
        BY <1>4, LightDatapoints DEF Waits, GoesBy
    <2>3. call[RGB] = NoValue => Faded(q, w2, r2)
        BY <1>4, LightDatapoints DEF Waits, Faded
    <2> QED BY <1>4, <2>1, <2>2, <2>3 DEF Waits
<1> QED BY <1>1, <1>2, <1>3, <1>4 DEF Holds

\* process_command_queue_
LEMMA TransmitHolds ==
    ASSUME NEW p, NEW m, NEW w, NEW r, NEW call, NEW meant, Holds(p, m, w, r, call, meant),
           CanTransmit([p.session EXCEPT !.age = MaxAge], TRUE)
    PROVE  LET u == [Transmit([p.session EXCEPT !.age = MaxAge], TRUE) EXCEPT !.age = 0]
           IN  Holds([p EXCEPT !.session = u], m, Append(w, Head(p.session.queue)), r, call, meant)
<1> DEFINE s == p.session
           u == [Transmit([s EXCEPT !.age = MaxAge], TRUE) EXCEPT !.age = 0]
           q == [p EXCEPT !.session = u]
           longer == Append(w, Head(s.queue))
<1>1. Wire(p, m, w, r) /\ Known(p, r) /\ \A d \in Settings : Latest(m, r, d)
    BY DEF Holds
<1>2. p \in Programs /\ Linked(s, Requests) /\ w \in Seq(Commands)
    BY <1>1 DEF Wire
<1>3. ~InFlight(s) /\ s.queue # <<>> /\ Linked(u, Requests) /\ InFlight(u) /\ u.queue = s.queue
    BY <1>2, LinkedTransmit, RequestsAreDelivers
<1> HIDE DEF u
<1>4. /\ q \in Programs /\ q.session = u /\ q.table = p.table
      /\ q.wire = p.wire /\ q.shown = p.shown /\ q.requested = p.requested
      /\ q.suppress = p.suppress /\ q.scheduled = p.scheduled
    BY <1>2, <1>3 DEF Programs, Linked
<1> HIDE DEF q
<1>5. Head(s.queue) \in Commands /\ Proper(Head(s.queue).writes)
    <2>1. /\ Head(s.queue) \in Commands
          /\ IsReadback(Head(s.queue)) \/ Head(s.queue) \in Requests
          /\ IsReadback(Head(s.queue)) => Head(s.queue).writes = Nothing
        BY <1>2, <1>3, LinkedQueue, RequestsAreDelivers
    <2>2. Proper(Nothing)
        BY LightDatapoints DEF Proper, Nothing
    <2>3. Head(s.queue) \in Requests => Proper(Head(s.queue).writes)
        BY DEF Requests, Deliver, Tables
    <2> QED BY <2>1, <2>2, <2>3
<1>6. longer \in Seq(Commands) /\ longer # <<>> /\ \A i \in 1..Len(longer) : Proper(longer[i].writes)
    <2>1. /\ longer \in Seq(Commands) /\ Len(longer) = Len(w) + 1 /\ Len(w) \in Nat
          /\ longer[Len(w) + 1] = Head(s.queue)
          /\ \A i \in 1..Len(w) : longer[i] = w[i]
        BY <1>2, <1>5, AppendProperties, LenProperties
    <2>2. longer # <<>>
        BY <2>1, EmptySeq
    <2>3. \A i \in 1..Len(w) : Proper(w[i].writes)
        BY <1>1 DEF Wire
    <2> HIDE DEF longer
    <2>4. ASSUME NEW i \in 1..Len(longer) PROVE Proper(longer[i].writes)
        <3>1. i = Len(w) + 1 \/ i \in 1..Len(w)
            BY <2>1
        <3> QED BY <1>5, <2>1, <2>3, <3>1
    <2> QED BY <2>1, <2>2, <2>4
<1>7. AllAhead(u, longer) = AllAhead(s, w)
    <2>1. Later(u) = Tail(s.queue) /\ Later(s) = s.queue /\ s.queue \in Seq(Commands)
        BY <1>2, <1>3, LaterIsQueue DEF Later
    <2>2. longer \o Tail(s.queue) = w \o s.queue
        BY <1>2, <1>3, <2>1, Parts
    <2> HIDE DEF longer
    <2> QED BY <2>1, <2>2 DEF AllAhead
<1> HIDE DEF longer
<1>8. Wire(q, m, longer, r)
    BY <1>1, <1>3, <1>4, <1>6 DEF Wire
<1>9. Known(q, r)
    BY <1>1, <1>4 DEF Known, Knows
<1>10. \A d \in Settings : Followed(q, m, longer, r, d)
    BY <1>6 DEF Followed
<1>11. Owed(u, longer, r)
    BY <1>6 DEF Owed
<1>12. Holds(q, m, longer, r, call, meant)
    BY <1>1, <1>4, <1>7, <1>8, <1>9, <1>10, <1>11, Rewired
<1> QED BY <1>12 DEF q, longer, u

\* The MCU carries out a command and reports everything.
LEMMA ExecuteHolds ==
    ASSUME NEW p, NEW m, NEW w, NEW r, NEW call, NEW meant, Holds(p, m, w, r, call, meant), w # <<>>
    PROVE  LET after == Apply(m, Head(w).writes)
           IN  Holds(p, after, Tail(w), Append(r, after), call, meant)
<1> DEFINE after == Apply(m, Head(w).writes)
           rest == Tail(w)
           more == Append(r, after)
<1>1. Wire(p, m, w, r) /\ Known(p, r)
    BY DEF Holds
<1>2. /\ p \in Programs /\ Linked(p.session, Requests) /\ w \in Seq(Commands) /\ r \in Seq(Tables)
      /\ m \in States /\ \A i \in 1..Len(w) : Proper(w[i].writes)
    BY <1>1 DEF Wire
<1>3. /\ rest \in Seq(Commands) /\ Len(rest) = Len(w) - 1 /\ Len(w) \in Nat \ {0}
      /\ \A i \in 1..Len(rest) : rest[i] = w[i + 1]
      /\ Head(w) = w[1] /\ Head(w) \in Commands
    BY <1>2, HeadTailProperties, EmptySeq
<1>4. \A i \in 1..Len(rest) : Proper(rest[i].writes)
    <2> SUFFICES ASSUME NEW i \in 1..Len(rest) PROVE Proper(rest[i].writes)
        OBVIOUS
    <2>1. i + 1 \in 1..Len(w)
        BY <1>3
    <2> QED BY <1>2, <1>3, <2>1
<1>5. after \in States /\ after \in Tables
    <2>1. Head(w).writes \in Batches /\ Proper(Head(w).writes)
        BY <1>2, <1>3 DEF Commands
    <2>2. after \in [Dps -> Values]
        BY <1>2, <2>1 DEF Apply, Batches, States
    <2>3. Proper(after)
        BY <1>2, <2>1, LightDatapoints DEF Apply, Proper, States
    <2> HIDE DEF after
    <2> QED BY <2>2, <2>3 DEF States, Tables, Batches
<1>6. \A d \in Dps : after[d] \in Values /\ after[d] # NoValue
    BY <1>5, LightDatapoints DEF States
<1>7. \A d \in Settings : Will(after, AllAhead(p.session, rest), d) = Will(m, AllAhead(p.session, w), d)
    <2>1. Later(p.session) \in Seq(Commands)
        BY <1>2, LaterIsQueue
    <2> DEFINE all == AllAhead(p.session, w)
    <2>2. /\ all \in Seq(Commands) /\ all # <<>> /\ Head(all) = Head(w)
          /\ AllAhead(p.session, rest) = Tail(all)
        BY <1>2, <2>1, Parts DEF AllAhead
    <2> HIDE DEF all
    <2>3. ASSUME NEW d \in Dps PROVE Will(Apply(m, Head(all).writes), Tail(all), d) = Will(m, all, d)
        BY <2>2, WillOfTail
    <2>4. ASSUME NEW d \in Settings PROVE Will(after, AllAhead(p.session, rest), d) = Will(m, all, d)
        BY <2>2, <2>3, LightDatapoints
    <2> QED BY <2>4 DEF all
<1> HIDE DEF after, rest
<1>8. /\ more \in Seq(Tables) /\ Len(more) = Len(r) + 1 /\ Len(r) \in Nat
      /\ more[Len(r) + 1] = after
      /\ \A i \in 1..Len(r) : more[i] = r[i]
    BY <1>2, <1>5, AppendProperties, LenProperties
<1>9. Known(p, more)
    <2>1. ASSUME r # <<>> PROVE more # <<>> /\ Head(more) = Head(r)
        BY <1>2, <1>5, <2>1
    <2> QED BY <1>1, <2>1 DEF Known
<1> HIDE DEF more
<1>10. Len(r) + 1 \in 1..Len(more)
    BY <1>8
<1>11. ASSUME NEW d \in Settings PROVE Latest(after, more, d) /\ Followed(p, after, rest, more, d)
    <2>1. d \in Dps
        BY LightDatapoints
    <2>2. ASSUME NEW j \in 1..Len(more), IsLast(more, d, j) PROVE more[j][d] = after[d]
        <3>1. j = Len(r) + 1
            BY <1>6, <1>8, <1>10, <2>1, <2>2 DEF IsLast
        <3> QED BY <1>8, <3>1
    <2>3. Latest(after, more, d)
        BY <2>2 DEF Latest
    <2>4. Followed(p, after, rest, more, d)
        BY <1>6, <1>8, <1>10, <2>1 DEF Followed
    <2> QED BY <2>3, <2>4
<1>12. Owed(p.session, rest, more)
    BY <1>6, <1>8, <1>10, LightDatapoints DEF Owed
<1>13. Wire(p, after, rest, more)
    BY <1>2, <1>3, <1>4, <1>5, <1>8 DEF Wire
<1>14. Holds(p, after, rest, more, call, meant)
    BY <1>7, <1>9, <1>11, <1>12, <1>13, Rewired
<1> QED BY <1>14 DEF after, rest, more

\* The fan is switched, which is no setting of the light.
LEMMA SwitchPowerHolds ==
    ASSUME NEW p, NEW m, NEW w, NEW r, NEW call, NEW meant, Holds(p, m, w, r, call, meant),
           NEW on \in {0, 1}
    PROVE  Holds(Set(p, POWER, on), m, w, r, call, meant)
<1> DEFINE t == Enqueue(Record(p.session, One(POWER, on)), Deliver(One(POWER, on)))
           q == [p EXCEPT !.session = t]
<1>1. Wire(p, m, w, r) /\ Known(p, r) /\ \A d \in Settings : Latest(m, r, d)
    BY DEF Holds
<1>2. p \in Programs /\ Linked(p.session, Requests) /\ w \in Seq(Commands)
    BY <1>1 DEF Wire
<1>3. Tellable(POWER, on)
    BY LightDatapoints DEF Tellable
<1>4. ComesLast(p.session, t, POWER, on)
    BY <1>2, <1>3, SentComes
<1>5. Linked(t, Requests) /\ t \in Sessions /\ Ordinary(Later(t)) # <<>>
    BY <1>4 DEF ComesLast, Linked
<1>6. \A d \in Settings : Will(m, AllAhead(t, w), d) = Will(m, AllAhead(p.session, w), d)
    <2> SUFFICES ASSUME NEW d \in Settings
                 PROVE  Will(m, AllAhead(t, w), d) = Will(m, AllAhead(p.session, w), d)
        OBVIOUS
    <2>1. d \in Dps /\ d # POWER
        BY LightDatapoints
    <2> QED BY <1>2, <1>4, <2>1 DEF ComesLast
<1>7. Set(p, POWER, on) = p \/ Set(p, POWER, on) = q
    BY DEF Set
<1> HIDE DEF t
<1>8. /\ q \in Programs /\ q.session = t /\ q.table = p.table
      /\ q.wire = p.wire /\ q.shown = p.shown /\ q.requested = p.requested
      /\ q.suppress = p.suppress /\ q.scheduled = p.scheduled
    BY <1>2, <1>5 DEF Programs
<1> HIDE DEF q
<1>9. Wire(q, m, w, r) /\ Known(q, r)
    BY <1>1, <1>5, <1>8 DEF Wire, Known, Knows
<1>10. Owed(t, w, r) /\ \A d \in Settings : Followed(q, m, w, r, d)
    BY <1>5, <1>8 DEF Owed, Followed
<1>11. Holds(q, m, w, r, call, meant)
    BY <1>1, <1>6, <1>8, <1>9, <1>10, Rewired
<1> QED BY <1>7, <1>11
----------------------------------------------------------------------------
(* ESPHome performs a call *)

\* q is p once a call is performed.
Starts(p, q, call) == q.shown[SWITCH] = 1 /\ call[EFFECT] \notin {NoValue, p.shown[EFFECT]}

Performed(p, q, call, fromMcu) ==
    /\ q \in Programs
    /\ q.session = p.session /\ q.table = p.table /\ q.wire = p.wire
    /\ q.suppress = fromMcu /\ q.scheduled
    /\ \A d \in {SWITCH, BRIGHTNESS, RGB} :
          q.shown[d] = IF call[d] # NoValue THEN call[d] ELSE p.shown[d]
    /\ q.shown[EFFECT] = IF Starts(p, q, call) THEN call[EFFECT]
                         ELSE IF call[SWITCH] = 0 /\ call[EFFECT] = NoValue THEN NoValue
                         ELSE p.shown[EFFECT]
    /\ q.requested = IF Starts(p, q, call) /\ ~fromMcu THEN call[EFFECT] ELSE p.requested

LEMMA PerformFields ==
    ASSUME NEW p \in Programs, NEW call \in Tables, NEW fromMcu \in BOOLEAN
    PROVE  Performed(p, Perform(p, call, fromMcu), call, fromMcu)
<1> DEFINE q      == Perform(p, call, fromMcu)
           on     == IF call[SWITCH] # NoValue THEN call[SWITCH] ELSE p.shown[SWITCH]
           starts == on = 1 /\ call[EFFECT] \notin {NoValue, p.shown[EFFECT]}
           ends   == call[SWITCH] = 0 /\ call[EFFECT] = NoValue
           effect == IF starts THEN call[EFFECT] ELSE IF ends THEN NoValue ELSE p.shown[EFFECT]
           look   == [d \in Settings |-> IF d = EFFECT THEN effect
                                         ELSE IF call[d] # NoValue THEN call[d] ELSE p.shown[d]]
           asked  == IF starts /\ ~fromMcu THEN call[EFFECT] ELSE p.requested
<1>1. q = [[p EXCEPT !.shown = look, !.requested = asked] EXCEPT !.suppress = fromMcu, !.scheduled = TRUE]
    BY DEF Perform, update_state
<1>2. /\ p.shown \in [Settings -> Values \cup {NoValue}] /\ p.shown[SWITCH] \in {0, 1}
      /\ p.requested \in Values \cup {NoValue}
    BY DEF Programs
<1>3. call \in [Dps -> Values \cup {NoValue}] /\ call[SWITCH] \in {0, 1, NoValue}
    BY DEF Tables, Batches, Proper
<1>4. on \in {0, 1}
    BY <1>2, <1>3
<1>5. effect \in Values \cup {NoValue} /\ asked \in Values \cup {NoValue}
    BY <1>2, <1>3, LightDatapoints
<1> HIDE DEF effect
<1>6. /\ look \in [Settings -> Values \cup {NoValue}]
      /\ look[EFFECT] = effect /\ look[SWITCH] = on
      /\ \A d \in {SWITCH, BRIGHTNESS, RGB} : look[d] = IF call[d] # NoValue THEN call[d] ELSE p.shown[d]
    BY <1>2, <1>3, <1>5, LightDatapoints
<1> HIDE DEF look, asked, q
<1>7. /\ q.session = p.session /\ q.table = p.table /\ q.wire = p.wire /\ q.shown = look
      /\ q.requested = asked /\ q.suppress = fromMcu /\ q.scheduled = TRUE
    BY <1>1 DEF Programs
<1>8. q \in Programs
    BY <1>1, <1>4, <1>5, <1>6 DEF Programs
<1>9. Starts(p, q, call) <=> starts
    BY <1>6, <1>7 DEF Starts
<1>10. q.requested = IF Starts(p, q, call) /\ ~fromMcu THEN call[EFFECT] ELSE p.requested
    BY <1>7, <1>9 DEF asked
<1>11. q.shown[EFFECT] = IF Starts(p, q, call) THEN call[EFFECT]
                         ELSE IF call[SWITCH] = 0 /\ call[EFFECT] = NoValue THEN NoValue
                         ELSE p.shown[EFFECT]
    BY <1>6, <1>7, <1>9 DEF effect
<1> HIDE DEF starts, ends, on
<1>12. Performed(p, q, call, fromMcu)
    BY <1>6, <1>7, <1>8, <1>10, <1>11 DEF Performed
<1> QED BY <1>12 DEF q
----------------------------------------------------------------------------
(* A report *)

\* One round of handle_command_ in a context: the program before the report, and
\* the report.
Round(c, q, d) ==
    IF d \in Written(c.report)
    THEN HandleDatapoint(TakeOver(q, c.report, Outcome(c.before.session).authoritative, d), d)
    ELSE q

\* The session while the report is taken over.
Serves(c, s) ==
    /\ Linked(s, Requests) /\ ~InFlight(s) /\ s.queue = Later(c.before.session)
    /\ Outcome(c.before.session).authoritative => s.route = "TRANSITION" /\ ~HasReadback(s)

\* The light once the settings up to n are taken over: a colour that is not
\* reported stays as it is.
Reported(c, n, d) == d <= n /\ c.report[d] # NoValue
Follows(c, q, n) ==
    /\ Shows(q) /\ q.requested = NoValue /\ (q.scheduled => q.suppress)
    /\ \A d \in Settings : q.wire[d] = IF Reported(c, n, d) THEN c.report[d] ELSE c.before.wire[d]
    /\ \/ q.wire[RGB] \in {NoValue, q.shown[RGB]}
       \/ q.shown[RGB] = c.before.shown[RGB] /\ ~Reported(c, n, RGB)

Took(c, q, n) == q \in Programs /\ Serves(c, q.session) /\ Follows(c, q, n)

Iteration == INSTANCE DreoIteration WITH Step <- Round, Holds <- Took

\* Taking over one datapoint, before what the light does about it.
LEMMA TakenOver ==
    ASSUME NEW c, NEW q, NEW n, Took(c, q, n), c.report \in Tables,
           NEW d \in Dps, c.report[d] # NoValue, NEW auth \in BOOLEAN
    PROVE  LET t == TakeOver(q, c.report, auth, d)
           IN  /\ t \in Programs /\ Serves(c, t.session) /\ t.table[d] = c.report[d]
               /\ t.wire = q.wire /\ t.shown = q.shown /\ t.requested = q.requested
               /\ t.suppress = q.suppress /\ t.scheduled = q.scheduled
<1> DEFINE t == TakeOver(q, c.report, auth, d)
           v == c.report[d]
           u == ClearConfirmed(q.session, d, v, auth)
           taken == [q.table EXCEPT ![d] = v]
<1>1. q \in Programs /\ Linked(q.session, Requests) /\ q.table \in Batches
    BY DEF Took, Serves, Programs
<1>2. v \in Values
    BY DEF Tables, Batches
<1>3. /\ Linked(u, Requests) /\ u \in Sessions
      /\ u.queue = q.session.queue /\ u.expected = q.session.expected /\ u.route = q.session.route
    BY <1>1, <1>2, LinkedClear DEF Linked
<1>4. taken \in Batches /\ taken[d] = v
    BY <1>1, <1>2 DEF Batches
<1>5. t = [q EXCEPT !.session = u, !.table = taken]
    BY <1>1 DEF TakeOver, Programs
<1> HIDE DEF u, v, taken, t
<1>6. /\ t \in Programs /\ t.session = u /\ t.table = taken /\ t.wire = q.wire /\ t.shown = q.shown
      /\ t.requested = q.requested /\ t.suppress = q.suppress /\ t.scheduled = q.scheduled
    BY <1>1, <1>3, <1>4, <1>5 DEF Programs
<1>7. Serves(c, u)
    BY <1>3 DEF Took, Serves, InFlight, HasReadback
<1> QED BY <1>4, <1>6, <1>7 DEF t, v

\* The listeners of setup: the light shows what is reported.
LEMMA HandleTaken ==
    ASSUME NEW c, NEW q, NEW n \in Nat, Took(c, q, n), c.report \in Tables,
           NEW d \in Dps, d = n + 1, c.report[d] # NoValue,
           NEW t \in Programs, Serves(c, t.session), t.table[d] = c.report[d],
           t.wire = q.wire, t.shown = q.shown, t.requested = q.requested,
           t.suppress = q.suppress, t.scheduled = q.scheduled
    PROVE  Took(c, HandleDatapoint(t, d), d)
<1> DEFINE v == c.report[d]
           taken == [t EXCEPT !.wire[d] = t.table[d]]
           z == publish_mcu_call(taken, One(d, v))
<1>1. \A e \in Settings : Reported(c, d, e) <=> Reported(c, n, e) \/ e = d
    <2> SUFFICES ASSUME NEW e \in Settings PROVE Reported(c, d, e) <=> Reported(c, n, e) \/ e = d
        OBVIOUS
    <2>1. e \in Nat
        BY LinkAssumption, LightDatapoints
    <2>2. e <= d <=> e <= n \/ e = d
        BY <2>1
    <2> QED BY <2>2 DEF Reported
<1>2. Shows(t) /\ t.requested = NoValue /\ (t.scheduled => t.suppress)
    BY DEF Took, Follows, Shows
<1>3. \A e \in Settings : t.wire[e] = IF Reported(c, n, e) THEN c.report[e] ELSE c.before.wire[e]
    BY DEF Took, Follows
<1>4. \/ t.wire[RGB] \in {NoValue, t.shown[RGB]}
      \/ t.shown[RGB] = c.before.shown[RGB] /\ ~Reported(c, n, RGB)
    BY DEF Took, Follows
<1>5. Tellable(d, v)
    BY LightDatapoints DEF Tellable, Tables, Batches, Proper
<1>6. CASE d \notin Settings
    <2>1. HandleDatapoint(t, d) = t
        BY <1>6, LightDatapoints DEF HandleDatapoint
    <2>2. \A e \in Settings : t.wire[e] = IF Reported(c, d, e) THEN c.report[e] ELSE c.before.wire[e]
        BY <1>1, <1>3, <1>6
    <2>3. ~Reported(c, n, RGB) => ~Reported(c, d, RGB)
        BY <1>1, <1>6, LightDatapoints
    <2> QED BY <1>2, <1>4, <2>1, <2>2, <2>3 DEF Took, Follows
<1>7. CASE d \in Settings
    <2> DEFINE wire == [t.wire EXCEPT ![d] = v]
    <2>1. /\ wire \in [Settings -> Values \cup {NoValue}]
          /\ \A e \in Settings : wire[e] = IF e = d THEN v ELSE t.wire[e]
        BY <1>5, <1>7 DEF Programs, Tellable
    <2>2. Proper(wire)
        BY <1>5, <2>1, LightDatapoints DEF Programs, Proper, Tellable
    <2> HIDE DEF wire, v
    <2>3. taken = [t EXCEPT !.wire = wire]
        BY DEF Programs, wire, v
    <2> HIDE DEF taken, z
    <2>4. /\ taken \in Programs /\ taken.wire = wire /\ taken.session = t.session
          /\ taken.shown = t.shown /\ taken.requested = t.requested
          /\ taken.suppress = t.suppress /\ taken.scheduled = t.scheduled
        BY <2>1, <2>2, <2>3 DEF Programs
    <2>5. \A e \in Settings : taken.wire[e] = IF Reported(c, d, e) THEN c.report[e] ELSE c.before.wire[e]
        BY <1>1, <1>3, <2>1, <2>4 DEF v
    <2>6. CASE d = EFFECT /\ t.wire[SWITCH] = 0
        <3>1. HandleDatapoint(t, d) = taken
            BY <1>7, <2>6 DEF HandleDatapoint, taken
        <3>2. t.shown[SWITCH] = 0 /\ t.shown[EFFECT] = NoValue
            BY <1>2, <2>6, LightDatapoints DEF Shows
        <3>3. Shows(taken)
            BY <1>2, <2>1, <2>4, <2>6, <3>2, LightDatapoints DEF Shows
        <3>4. /\ taken.wire[RGB] = t.wire[RGB]
              /\ ~Reported(c, n, RGB) => ~Reported(c, d, RGB)
            BY <1>1, <2>1, <2>4, <2>6, LightDatapoints
        <3> QED BY <1>2, <1>4, <2>4, <2>5, <3>1, <3>3, <3>4 DEF Took, Follows
    <2>7. CASE ~(d = EFFECT /\ t.wire[SWITCH] = 0)
        <3>1. HandleDatapoint(t, d) = z
            BY <1>7, <2>7 DEF HandleDatapoint, taken, v, z
        <3>2. /\ One(d, v) \in Tables /\ One(d, v)[d] = v
              /\ \A e \in Settings : e # d => One(d, v)[e] = NoValue
            <4>1. /\ One(d, v) \in Tables /\ One(d, v)[d] = v
                  /\ \A e \in Dps : e # d => One(d, v)[e] = NoValue
                BY <1>5, TellOne
            <4> QED BY <4>1, LightDatapoints
        <3> DEFINE call == One(d, v)
        <3> HIDE DEF call
        <3>3. Performed(taken, z, call, TRUE)
            BY <2>4, <3>2, PerformFields DEF publish_mcu_call, call, z
        <3>4. /\ call[d] = v /\ v \in Values /\ v # NoValue /\ (d = SWITCH => v \in {0, 1})
              /\ \A e \in Settings : e # d => call[e] = NoValue
            BY <1>5, <3>2, LightDatapoints DEF call, Tellable
        <3>5. /\ z \in Programs /\ z.session = t.session /\ z.wire = wire
              /\ z.suppress = TRUE /\ z.requested = t.requested
              /\ \A e \in {SWITCH, BRIGHTNESS, RGB} :
                    z.shown[e] = IF call[e] # NoValue THEN call[e] ELSE t.shown[e]
              /\ z.shown[EFFECT] = IF z.shown[SWITCH] = 1 /\ call[EFFECT] \notin {NoValue, t.shown[EFFECT]}
                                   THEN call[EFFECT]
                                   ELSE IF call[SWITCH] = 0 /\ call[EFFECT] = NoValue THEN NoValue
                                   ELSE t.shown[EFFECT]
            BY <2>4, <3>3 DEF Performed, Starts
        <3>6. /\ t.shown[SWITCH] \in {0, 1}
              /\ \A e \in {SWITCH, BRIGHTNESS} : t.wire[e] \in {NoValue, t.shown[e]}
              /\ t.shown[EFFECT] \in {NoValue, t.wire[EFFECT]}
              /\ t.shown[SWITCH] = 0 => t.shown[EFFECT] = NoValue
            BY <1>2 DEF Shows, Programs
        <3>7. \A e \in {SWITCH, BRIGHTNESS} : z.wire[e] \in {NoValue, z.shown[e]}
            BY <2>1, <3>4, <3>5, <3>6, LightDatapoints
        <3>8. /\ z.shown[EFFECT] \in {NoValue, z.wire[EFFECT]}
              /\ z.shown[SWITCH] = 0 => z.shown[EFFECT] = NoValue
            <4>1. CASE d = SWITCH
                <5>1. call[SWITCH] = v /\ call[EFFECT] = NoValue /\ wire[EFFECT] = t.wire[EFFECT]
                    BY <2>1, <3>4, <4>1, LightDatapoints
                <5> QED BY <3>4, <3>5, <3>6, <4>1, <5>1
            <4>2. CASE d = EFFECT
                <5>1. /\ call[SWITCH] = NoValue /\ call[EFFECT] = v /\ wire[EFFECT] = v
                      /\ z.shown[SWITCH] = t.shown[SWITCH]
                    BY <2>1, <3>4, <3>5, <4>2, LightDatapoints
                <5> QED BY <3>4, <3>5, <3>6, <5>1, LightDatapoints
            <4>3. CASE d # SWITCH /\ d # EFFECT
                <5>1. /\ call[SWITCH] = NoValue /\ call[EFFECT] = NoValue /\ wire[EFFECT] = t.wire[EFFECT]
                      /\ z.shown[SWITCH] = t.shown[SWITCH]
                    BY <2>1, <3>4, <3>5, <4>3, LightDatapoints
                <5> QED BY <3>5, <3>6, <5>1, LightDatapoints
            <4> QED BY <4>1, <4>2, <4>3
        <3>9. Shows(z)
            BY <3>7, <3>8 DEF Shows
        <3>10. \/ z.wire[RGB] \in {NoValue, z.shown[RGB]}
               \/ z.shown[RGB] = c.before.shown[RGB] /\ ~Reported(c, d, RGB)
            <4>1. CASE d = RGB
                BY <2>1, <3>4, <3>5, <4>1, LightDatapoints
            <4>2. CASE d # RGB
                <5>1. /\ z.wire[RGB] = t.wire[RGB] /\ z.shown[RGB] = t.shown[RGB]
                      /\ ~Reported(c, n, RGB) => ~Reported(c, d, RGB)
                    BY <1>1, <2>1, <3>4, <3>5, <4>2, LightDatapoints
                <5> QED BY <1>4, <5>1
            <4> QED BY <4>1, <4>2
        <3> QED BY <1>2, <2>4, <2>5, <3>1, <3>5, <3>9, <3>10 DEF Took, Follows
    <2> QED BY <2>6, <2>7
<1> QED BY <1>6, <1>7

\* Each round of the loop.
LEMMA RoundTaken ==
    ASSUME NEW c, c.report \in Tables, NEW n \in Nat, NEW q, Took(c, q, n)
    PROVE  Took(c, Round(c, q, n + 1), n + 1)
<1> DEFINE d    == n + 1
           auth == Outcome(c.before.session).authoritative
           t    == TakeOver(q, c.report, auth, d)
<1>1. CASE d \notin Written(c.report)
    <2>1. Round(c, q, d) = q
        BY <1>1 DEF Round
    <2>2. \A e \in Settings : e \in Nat /\ e \in Dps
        BY LinkAssumption, LightDatapoints
    <2>3. \A e \in Settings : Reported(c, d, e) <=> Reported(c, n, e)
        <3> SUFFICES ASSUME NEW e \in Settings PROVE Reported(c, d, e) <=> Reported(c, n, e)
            OBVIOUS
        <3>1. e <= d <=> e <= n \/ e = d
            BY <2>2
        <3>2. c.report[e] # NoValue => e # d
            BY <1>1, <2>2 DEF Written
        <3> HIDE DEF d
        <3> QED BY <3>1, <3>2 DEF Reported
    <2> HIDE DEF d
    <2>4. Follows(c, q, d)
        BY <2>3, LightDatapoints DEF Took, Follows
    <2>5. Took(c, q, d)
        BY <2>4 DEF Took
    <2> QED BY <2>1, <2>5 DEF d
<1>2. CASE d \in Written(c.report)
    <2>1. d \in Dps /\ c.report[d] # NoValue
        BY <1>2 DEF Written
    <2>2. Round(c, q, d) = HandleDatapoint(t, d)
        BY <1>2 DEF Round
    <2>3. auth \in BOOLEAN
        BY DEF Outcome, IsReadback
    <2> HIDE DEF auth, d
    <2>4. /\ t \in Programs /\ Serves(c, t.session) /\ t.table[d] = c.report[d]
          /\ t.wire = q.wire /\ t.shown = q.shown /\ t.requested = q.requested
          /\ t.suppress = q.suppress /\ t.scheduled = q.scheduled
        BY <2>1, <2>3, TakenOver
    <2> HIDE DEF t
    <2>5. Took(c, HandleDatapoint(t, d), d)
        BY <2>1, <2>4, HandleTaken DEF d
    <2> QED BY <2>2, <2>5 DEF d
<1> QED BY <1>1, <1>2

\* handle_command_ for a report.
LEMMA ReportTaken ==
    ASSUME NEW c, c.before \in Programs, Linked(c.before.session, Requests), c.report \in Tables,
           Shows(c.before), c.before.requested = NoValue,
           c.before.scheduled => c.before.suppress
    PROVE  \E q : /\ Took(c, q, MaxDp)
                  /\ TakeReport(c.before, c.report, HandleDatapoint)
                         = [q EXCEPT !.session = Settle(@, Outcome(c.before.session))]
<1> DEFINE p == c.before
           up[d \in 0..MaxDp] == IF d = 0 THEN Answered(p) ELSE Round(c, up[d - 1], d)
<1>1. MaxDp \in Nat
    BY LinkAssumption
<1>2. Took(c, Answered(p), 0)
    <2> DEFINE a == Answer(p.session)
               q == Answered(p)
    <2>1. Serves(c, a)
        BY AnswerLeaves DEF Serves
    <2>2. q = [p EXCEPT !.session = a]
        BY DEF Answered, Answer
    <2>3. a \in Sessions
        BY <2>1 DEF Serves, Linked
    <2> HIDE DEF a, q
    <2>4. /\ q \in Programs /\ q.session = a /\ q.wire = p.wire /\ q.shown = p.shown
          /\ q.requested = p.requested /\ q.suppress = p.suppress /\ q.scheduled = p.scheduled
        BY <2>2, <2>3 DEF Programs
    <2>5. \A d \in Settings : ~Reported(c, 0, d)
        <3>1. \A d \in Settings : ~(d <= 0)
            BY LinkAssumption, LightDatapoints
        <3> QED BY <3>1 DEF Reported
    <2>6. Shows(q)
        BY <2>4 DEF Shows
    <2>7. Follows(c, q, 0)
        BY <2>4, <2>5, <2>6, LightDatapoints DEF Follows
    <2> QED BY <2>1, <2>4, <2>7 DEF Took, q
<1>3. ASSUME NEW d \in 1..MaxDp, NEW q, Took(c, q, d - 1) PROVE Took(c, Round(c, q, d), d)
    <2>1. d - 1 \in Nat /\ (d - 1) + 1 = d
        BY <1>1
    <2> QED BY <1>3, <2>1, RoundTaken
<1>4. Took(c, up[MaxDp], MaxDp)
    BY <1>1, <1>2, <1>3, Iteration!LoopInvariant
<1>5. TakeReport(p, c.report, HandleDatapoint)
          = [up[MaxDp] EXCEPT !.session = Settle(@, Outcome(p.session))]
    BY DEF TakeReport, Round
<1> HIDE DEF up
<1> QED BY <1>4, <1>5

\* Once the report is taken over, what is not written is as it was, what is on its
\* way has one report less.
LEMMA ReceiveHolds ==
    ASSUME NEW p, NEW m, NEW w, NEW r, NEW meant, Holds(p, m, w, r, Nothing, meant), r # <<>>
    PROVE  Holds(TakeReport(p, Head(r), HandleDatapoint), m, w, Tail(r), Nothing, meant)
<1> DEFINE report == Head(r)
           rest == Tail(r)
           z == TakeReport(p, report, HandleDatapoint)
<1>1. /\ Wire(p, m, w, r) /\ Known(p, r) /\ Rests(p, m, w, r)
      /\ \A d \in Settings : Latest(m, r, d) /\ Followed(p, m, w, r, d)
      /\ Nothing \in Tables /\ meant \in [Dps -> Values]
      /\ \A d \in Settings : Will(m, AllAhead(p.session, w), d) = meant[d]
    BY DEF Holds
<1>2. /\ p \in Programs /\ Linked(p.session, Requests) /\ w \in Seq(Commands) /\ r \in Seq(Tables)
      /\ m \in States /\ \A i \in 1..Len(w) : Proper(w[i].writes)
    BY <1>1 DEF Wire
<1>3. /\ rest \in Seq(Tables) /\ Len(rest) = Len(r) - 1 /\ Len(r) \in Nat \ {0}
      /\ \A i \in 1..Len(rest) : rest[i] = r[i + 1]
      /\ report = r[1] /\ report \in Tables
    BY <1>2, HeadTailProperties, EmptySeq
<1> HIDE DEF report, rest
<1>4. PICK c : c.before = p /\ c.report = report
    <2> DEFINE given == [before |-> p, report |-> report]
    <2>1. given.before = p /\ given.report = report
        OBVIOUS
    <2> HIDE DEF given
    <2> QED BY <2>1
<1>5. PICK q : /\ Took(c, q, MaxDp)
               /\ z = [q EXCEPT !.session = Settle(@, Outcome(p.session))]
    BY <1>1, <1>2, <1>3, <1>4, ReportTaken DEF Rests
<1> HIDE DEF z
<1> DEFINE f == Outcome(p.session)
           u == Settle(q.session, f)
<1>6. /\ q \in Programs /\ Linked(q.session, Requests) /\ ~InFlight(q.session)
      /\ q.session.queue = Later(p.session)
      /\ f.authoritative => q.session.route = "TRANSITION" /\ ~HasReadback(q.session)
    BY <1>4, <1>5 DEF Took, Serves
<1>7. /\ Shows(q) /\ q.requested = NoValue /\ (q.scheduled => q.suppress)
      /\ \A d \in Settings : q.wire[d] = IF report[d] # NoValue THEN report[d] ELSE p.wire[d]
      /\ \/ q.wire[RGB] \in {NoValue, q.shown[RGB]}
         \/ q.shown[RGB] = p.shown[RGB] /\ report[RGB] = NoValue
    <2>1. \A d \in Settings : Reported(c, MaxDp, d) <=> report[d] # NoValue
        BY <1>4, LinkAssumption, LightDatapoints DEF Reported
    <2> QED BY <1>4, <1>5, <2>1, LightDatapoints DEF Took, Follows
<1>8. Linked(u, Requests) /\ u \in Sessions /\ ~InFlight(u) /\ Ordinary(u.queue) = Ordinary(Later(p.session))
    <2>1. Linked(u, Requests) /\ ~InFlight(u) /\ Ordinary(u.queue) = Ordinary(q.session.queue)
        <3> HIDE DEF f
        <3> QED BY <1>6, SettleLeaves
    <2> HIDE DEF u
    <2> QED BY <1>6, <2>1 DEF Linked
<1> HIDE DEF f
<1>9. z = [q EXCEPT !.session = u]
    BY <1>5 DEF f
<1> HIDE DEF u
<1>10. /\ z \in Programs /\ z.session = u /\ z.wire = q.wire /\ z.shown = q.shown
       /\ z.requested = q.requested /\ z.suppress = q.suppress /\ z.scheduled = q.scheduled
    BY <1>6, <1>8, <1>9 DEF Programs
<1>11. Later(z.session) = u.queue /\ Ordinary(Later(z.session)) = Ordinary(Later(p.session))
    BY <1>8, <1>10 DEF Later
<1>12. \A d \in Settings : Will(m, AllAhead(z.session, w), d) = Will(m, AllAhead(p.session, w), d)
    <2>1. /\ Later(z.session) \in Seq(Commands) /\ Placed(Later(z.session))
          /\ Later(p.session) \in Seq(Commands) /\ Placed(Later(p.session))
        BY <1>2, <1>8, <1>10, LaterIsQueue
    <2> QED BY <1>2, <1>11, <2>1, WillOfSame, LightDatapoints DEF AllAhead
<1>13. Wire(z, m, w, rest)
    BY <1>2, <1>3, <1>8, <1>10 DEF Wire
<1>14. Knows(z)
    BY <1>1, <1>7, <1>10 DEF Known, Knows, report
<1>15. ASSUME NEW d \in Settings PROVE Latest(m, rest, d) /\ Followed(z, m, w, rest, d)
    <2>1. ASSUME NEW j \in 1..Len(rest), IsLast(rest, d, j) PROVE rest[j][d] = m[d]
        <3>1. j + 1 \in 1..Len(r) /\ r[j + 1] = rest[j]
            BY <1>3
        <3>2. ASSUME NEW k \in 1..Len(r), k > j + 1 PROVE r[k][d] = NoValue
            <4>1. k - 1 \in 1..Len(rest) /\ k - 1 > j /\ (k - 1) + 1 = k
                BY <1>3, <3>2
            <4>2. rest[k - 1] = r[k]
                BY <1>3, <4>1
            <4> QED BY <2>1, <4>1, <4>2 DEF IsLast
        <3>3. IsLast(r, d, j + 1)
            BY <2>1, <3>1, <3>2 DEF IsLast
        <3> QED BY <1>1, <3>1, <3>3 DEF Latest
    <2>2. Latest(m, rest, d)
        BY <2>1 DEF Latest
    <2>3. CASE w # <<>> \/ Ordinary(Later(p.session)) # <<>>
        BY <1>11, <2>2, <2>3 DEF Followed
    <2>4. CASE \E j \in 1..Len(rest) : rest[j][d] # NoValue
        BY <2>2, <2>4 DEF Followed
    <2>5. CASE /\ ~(w # <<>> \/ Ordinary(Later(p.session)) # <<>>)
               /\ \A j \in 1..Len(rest) : rest[j][d] = NoValue
        <3>1. ASSUME NEW k \in 1..Len(r), k > 1 PROVE r[k][d] = NoValue
            <4>1. k - 1 \in 1..Len(rest) /\ (k - 1) + 1 = k
                BY <1>3, <3>1
            <4> QED BY <1>3, <2>5, <4>1
        <3>2. 1 \in 1..Len(r)
            BY <1>3
        <3>3. report[d] # NoValue => report[d] = m[d]
            BY <1>1, <1>3, <3>1, <3>2 DEF IsLast, Latest
        <3>4. report[d] = NoValue => p.wire[d] = m[d]
            <4> SUFFICES ASSUME report[d] = NoValue PROVE p.wire[d] = m[d]
                OBVIOUS
            <4>1. \A k \in 1..Len(r) : k = 1 \/ k > 1
                OBVIOUS
            <4>2. \A k \in 1..Len(r) : r[k][d] = NoValue
                BY <1>3, <3>1, <4>1
            <4> QED BY <1>1, <2>5, <4>2 DEF Followed
        <3>5. z.wire[d] = m[d]
            BY <1>7, <1>10, <3>3, <3>4
        <3> QED BY <2>2, <3>5 DEF Followed
    <2> QED BY <2>3, <2>4, <2>5
<1>16. Faded(z, w, rest)
    <2>1. CASE z.wire[RGB] \in {NoValue, z.shown[RGB]}
        BY <2>1 DEF Faded
    <2>2. CASE z.wire[RGB] \notin {NoValue, z.shown[RGB]}
        <3>1. z.shown[RGB] = p.shown[RGB] /\ report[RGB] = NoValue /\ z.wire[RGB] = p.wire[RGB]
            BY <1>7, <1>10, <2>2, LightDatapoints
        <3>2. Owed(p.session, w, r)
            BY <1>1, <2>2, <3>1 DEF Rests, Faded
        <3>3. Owed(z.session, w, rest)
            <4>1. CASE w # <<>> \/ Ordinary(Later(p.session)) # <<>>
                BY <1>11, <4>1 DEF Owed
            <4>2. ASSUME NEW j \in 1..Len(r), \A d \in Settings : r[j][d] # NoValue
                  PROVE  Owed(z.session, w, rest)
                <5>1. j # 1
                    BY <1>3, <3>1, <4>2, LightDatapoints
                <5>2. j - 1 \in 1..Len(rest) /\ (j - 1) + 1 = j
                    BY <1>3, <5>1
                <5>3. rest[j - 1] = r[j]
                    BY <1>3, <5>2
                <5> QED BY <4>2, <5>2, <5>3 DEF Owed
            <4> QED BY <3>2, <4>1, <4>2 DEF Owed
        <3> QED BY <1>12, <3>1, <3>2, <3>3, LightDatapoints DEF Faded
    <2> QED BY <2>1, <2>2
<1>17. Shows(z)
    BY <1>7, <1>10 DEF Shows
<1>18. Rests(z, m, w, rest)
    BY <1>7, <1>10, <1>16, <1>17 DEF Rests
<1>19. \A d \in Settings : Will(m, AllAhead(z.session, w), d) = meant[d]
    BY <1>1, <1>12
<1>20. Holds(z, m, w, rest, Nothing, meant)
    BY <1>1, <1>13, <1>14, <1>15, <1>18, <1>19 DEF Holds, Known
<1> QED BY <1>20 DEF z, report, rest
----------------------------------------------------------------------------
(* Calls *)

\* The user makes a call that goes by nothing but what will be.
LEMMA MakesHolds ==
    ASSUME NEW p, NEW m, NEW w, NEW r, NEW asked, NEW meant, Holds(p, m, w, r, asked, meant),
           p.table # Nothing, ~p.scheduled,
           NEW call \in Tables, call # Nothing,
           \A d \in GoesBy(call) : p.wire[d] = Will(m, AllAhead(p.session, w), d),
           Differs(p, RGB) => call[RGB] # NoValue \/ Uncoloured(call),
           p.shown[SWITCH] = 0 => call[SWITCH] # NoValue,
           call[SWITCH] = 0 => Written(call) = {SWITCH},
           call[EFFECT] # NoValue => call[EFFECT] # p.shown[EFFECT]
    PROVE  Holds(Perform(p, call, FALSE), m, w, r, call, meant)
<1> DEFINE q == Perform(p, call, FALSE)
<1>1. /\ Wire(p, m, w, r) /\ Known(p, r) /\ meant \in [Dps -> Values]
      /\ \A d \in Settings : Latest(m, r, d) /\ Followed(p, m, w, r, d)
      /\ \A d \in Settings : Will(m, AllAhead(p.session, w), d) = meant[d]
    BY DEF Holds
<1>2. Rests(p, m, w, r)
    BY DEF Holds, Waits
<1>3. /\ \A d \in {SWITCH, BRIGHTNESS} : p.wire[d] \in {NoValue, p.shown[d]}
      /\ p.shown[EFFECT] \in {NoValue, p.wire[EFFECT]}
      /\ p.shown[SWITCH] = 0 => p.shown[EFFECT] = NoValue
      /\ p.requested = NoValue
    BY <1>2 DEF Rests, Shows
<1>4. \A d \in Settings : p.wire[d] # NoValue
    BY <1>1 DEF Known, Knows
<1>5. p.wire[RGB] = p.shown[RGB] \/ call[RGB] # NoValue \/ Uncoloured(call)
    BY <1>4, LightDatapoints DEF Differs
<1>6. \A d \in {SWITCH, BRIGHTNESS} : p.shown[d] = p.wire[d]
    BY <1>3, <1>4, LightDatapoints
<1>7. p \in Programs /\ p.shown[SWITCH] \in {0, 1}
    BY <1>1 DEF Wire, Programs
<1>8. Performed(p, q, call, FALSE)
    BY <1>7, PerformFields
<1> HIDE DEF q
<1>9. /\ q \in Programs /\ q.session = p.session /\ q.table = p.table /\ q.wire = p.wire
      /\ ~q.suppress /\ q.scheduled
    BY <1>8 DEF Performed
<1>10. /\ \A d \in {SWITCH, BRIGHTNESS, RGB} :
             q.shown[d] = IF call[d] # NoValue THEN call[d] ELSE p.shown[d]
       /\ q.shown[EFFECT] = IF q.shown[SWITCH] = 1 /\ call[EFFECT] \notin {NoValue, p.shown[EFFECT]}
                            THEN call[EFFECT]
                            ELSE IF call[SWITCH] = 0 /\ call[EFFECT] = NoValue THEN NoValue
                            ELSE p.shown[EFFECT]
       /\ q.requested = IF q.shown[SWITCH] = 1 /\ call[EFFECT] \notin {NoValue, p.shown[EFFECT]}
                        THEN call[EFFECT] ELSE p.requested
    BY <1>8 DEF Performed, Starts
<1>11. call[SWITCH] \in {0, 1, NoValue}
    BY DEF Tables, Proper
<1>12. call[SWITCH] = 0 => call[EFFECT] = NoValue
    BY LightDatapoints DEF Written
<1>13. q.shown[SWITCH] = IF call[SWITCH] # NoValue THEN call[SWITCH] ELSE p.shown[SWITCH]
    BY <1>10
<1>14. call[EFFECT] # NoValue => q.shown[SWITCH] = 1 /\ call[EFFECT] \notin {NoValue, p.shown[EFFECT]}
    BY <1>7, <1>11, <1>12, <1>13
<1>15. Carries(q, call)
    <2>1. \A d \in {SWITCH, BRIGHTNESS, RGB} :
              \/ q.shown[d] = IF call[d] # NoValue THEN call[d] ELSE q.wire[d]
              \/ d = RGB /\ call[RGB] = NoValue /\ Uncoloured(call)
        BY <1>5, <1>6, <1>9, <1>10
    <2>2. /\ call[EFFECT] # NoValue => q.shown[EFFECT] = call[EFFECT] /\ q.requested = call[EFFECT]
          /\ call[EFFECT] = NoValue => q.shown[EFFECT] \in {NoValue, q.wire[EFFECT]} /\ q.requested = NoValue
        BY <1>3, <1>9, <1>10, <1>14
    <2>3. ASSUME q.shown[SWITCH] = 0 PROVE call[SWITCH] = 0 /\ Written(call) = {SWITCH}
        BY <1>13, <2>3, LightDatapoints
    <2>4. q.shown[SWITCH] = 0 => q.shown[EFFECT] = NoValue
        BY <1>10, <1>12, <2>3, LightDatapoints
    <2> QED BY <2>1, <2>2, <2>3, <2>4 DEF Carries
<1>16. Waits(q, m, w, r, call)
    <2>1. \A d \in GoesBy(call) : q.wire[d] = Will(m, AllAhead(q.session, w), d)
        BY <1>9
    <2>2. call[RGB] = NoValue => Faded(q, w, r)
        <3>1. Faded(p, w, r)
            BY <1>2 DEF Rests
        <3>2. call[RGB] = NoValue => q.shown[RGB] = p.shown[RGB]
            BY <1>10
        <3> QED BY <1>9, <3>1, <3>2 DEF Faded
    <2> QED BY <1>4, <1>9, <1>15, <2>1, <2>2 DEF Waits, Knows
<1>17. Wire(q, m, w, r) /\ Known(q, r)
    BY <1>1, <1>9 DEF Wire, Known, Knows
<1>18. \A d \in Settings : Followed(q, m, w, r, d)
    BY <1>1, <1>9 DEF Followed
<1>19. Holds(q, m, w, r, call, meant)
    BY <1>1, <1>9, <1>16, <1>17, <1>18 DEF Holds
<1> QED BY <1>19 DEF q

\* What write_state writes.
ToWrite(p) ==
    IF p.shown[SWITCH] = 1 THEN Writes(p) ELSE IF p.wire[SWITCH] = 0 THEN Nothing ELSE One(SWITCH, 0)

\* What is on the wire then.
New(p, writes, d) == IF writes[d] # NoValue THEN writes[d] ELSE p.wire[d]

\* What the MCU is told to be then.
Told(meant, writes, d) == IF writes[d] # NoValue THEN writes[d] ELSE meant[d]

\* What a call carries is written of it, and nothing else, so that the light is what
\* the call asks and shows it.
Fits(p, call, meant, writes) ==
    /\ writes \in Tables
    /\ \A d \in Settings : Told(meant, writes, d) = Asked(meant, call)[d]
    /\ \A d \in Settings : writes[d] # NoValue => call[d] # NoValue \/ (d = EFFECT /\ call[RGB] # NoValue)
    /\ \A d \in {SWITCH, BRIGHTNESS} : New(p, writes, d) = p.shown[d]
    /\ p.requested # NoValue \/ writes[EFFECT] = NoValue =>
           p.shown[EFFECT] \in {NoValue, New(p, writes, EFFECT)}
    /\ p.requested = NoValue /\ writes[EFFECT] # NoValue =>
           writes[EFFECT] = CONSTANT_EFFECT /\ p.shown[SWITCH] = 1
    /\ \/ New(p, writes, RGB) = p.shown[RGB]
       \/ writes[RGB] = NoValue /\ (writes[EFFECT] # NoValue \/ call[RGB] = NoValue)

LEMMA WritesFit ==
    ASSUME NEW p \in Programs, NEW call \in Tables, NEW meant \in [Dps -> Values],
           Knows(p), Carries(p, call), \A d \in GoesBy(call) : p.wire[d] = meant[d]
    PROVE  Fits(p, call, meant, ToWrite(p))
<1> DEFINE writes == ToWrite(p)
           asked == Asked(meant, call)
<1>1. /\ \A d \in {SWITCH, BRIGHTNESS} :
            p.shown[d] = IF call[d] # NoValue THEN call[d] ELSE p.wire[d]
      /\ call[RGB] # NoValue => p.shown[RGB] = call[RGB]
      /\ call[RGB] = NoValue => p.shown[RGB] = p.wire[RGB] \/ Uncoloured(call)
      /\ call[EFFECT] # NoValue => p.shown[EFFECT] = call[EFFECT]
      /\ call[EFFECT] = NoValue => p.shown[EFFECT] \in {NoValue, p.wire[EFFECT]}
      /\ p.requested = call[EFFECT]
      /\ p.shown[SWITCH] = 0 => /\ p.shown[EFFECT] = NoValue
                                /\ Written(call) = {SWITCH} /\ call[SWITCH] = 0
    BY LightDatapoints DEF Carries
<1>2. /\ p.shown \in [Settings -> Values \cup {NoValue}] /\ p.shown[SWITCH] \in {0, 1}
      /\ p.requested \in Values \cup {NoValue}
      /\ call[SWITCH] \in {0, 1, NoValue}
      /\ \A d \in Settings : p.wire[d] # NoValue
    BY DEF Programs, Tables, Proper, Knows
<1>3. Settings = {SWITCH, EFFECT, BRIGHTNESS, RGB} /\ Settings \subseteq Dps
    BY LightDatapoints
<1>7. /\ p.wire[SWITCH] = meant[SWITCH]
      /\ \A d \in Settings : call[d] # NoValue => p.wire[d] = meant[d]
      /\ call[RGB] # NoValue => p.wire[EFFECT] = meant[EFFECT]
    BY LightDatapoints DEF GoesBy, Written
<1> DEFINE coloured == call[RGB] \notin {NoValue, meant[RGB]} /\ call[EFFECT] \in {NoValue, CONSTANT_EFFECT}
<1>4. /\ asked[RGB] = IF coloured THEN call[RGB] ELSE meant[RGB]
      /\ asked[EFFECT] = IF coloured THEN CONSTANT_EFFECT
                         ELSE IF call[EFFECT] # NoValue THEN call[EFFECT] ELSE meant[EFFECT]
      /\ asked[SWITCH] = IF call[SWITCH] # NoValue THEN call[SWITCH] ELSE meant[SWITCH]
      /\ asked[BRIGHTNESS] = IF call[BRIGHTNESS] # NoValue THEN call[BRIGHTNESS] ELSE meant[BRIGHTNESS]
    BY LightDatapoints DEF Asked
<1> HIDE DEF asked
<1>5. CASE p.shown[SWITCH] = 0
    <2>1. call[SWITCH] = 0 /\ \A d \in Settings : d # SWITCH => call[d] = NoValue
        BY <1>1, <1>3, <1>5 DEF Written
    <2>2. Nothing \in Tables
        BY LightDatapoints DEF Nothing, Tables, Batches, Proper
    <2>3. Tellable(SWITCH, 0)
        BY LightDatapoints DEF Tellable
    <2>4. /\ One(SWITCH, 0) \in Tables /\ One(SWITCH, 0)[SWITCH] = 0
          /\ \A d \in Settings : d # SWITCH => One(SWITCH, 0)[d] = NoValue
        <3>1. /\ One(SWITCH, 0) \in Tables /\ One(SWITCH, 0)[SWITCH] = 0
              /\ \A d \in Dps : d # SWITCH => One(SWITCH, 0)[d] = NoValue
            BY <2>3, TellOne
        <3> QED BY <1>3, <3>1
    <2>5. /\ writes \in Tables /\ \A d \in Settings : d # SWITCH => writes[d] = NoValue
          /\ writes[SWITCH] = IF p.wire[SWITCH] = 0 THEN NoValue ELSE 0
        BY <1>3, <1>5, <2>2, <2>4, LightDatapoints DEF ToWrite, Nothing
    <2> HIDE DEF writes
    <2>6. New(p, writes, SWITCH) = 0 /\ \A d \in Settings : d # SWITCH => New(p, writes, d) = p.wire[d]
        BY <2>5, LightDatapoints DEF New
    <2>7. \A d \in Settings : Told(meant, writes, d) = asked[d]
        <3>1. ~coloured
            BY <2>1, LightDatapoints
        <3>2. \A d \in Settings : d # SWITCH => asked[d] = meant[d]
            BY <1>3, <1>4, <2>1, <3>1, LightDatapoints
        <3>3. asked[SWITCH] = 0
            BY <1>4, <2>1, LightDatapoints
        <3> QED BY <1>7, <2>5, <3>2, <3>3, LightDatapoints DEF Told
    <2>8. \A d \in {SWITCH, BRIGHTNESS} : New(p, writes, d) = p.shown[d]
        BY <1>1, <1>5, <2>1, <2>6, LightDatapoints
    <2>9. /\ p.shown[EFFECT] = NoValue /\ writes[EFFECT] = NoValue
          /\ writes[RGB] = NoValue /\ call[RGB] = NoValue
        BY <1>1, <1>5, <2>1, <2>5, <2>6, LightDatapoints
    <2>10. \A d \in Settings : writes[d] # NoValue => call[d] # NoValue
        BY <2>1, <2>5, LightDatapoints
    <2>11. Fits(p, call, meant, writes)
        BY <2>5, <2>7, <2>8, <2>9, <2>10 DEF Fits, asked
    <2> QED BY <2>11 DEF writes
<1>6. CASE p.shown[SWITCH] = 1
    <2> DEFINE tinted   == Differs(p, RGB) /\ p.requested \in {NoValue, CONSTANT_EFFECT}
               selected == tinted /\ p.wire[EFFECT] # CONSTANT_EFFECT
    <2>1. /\ writes[SWITCH] = IF p.wire[SWITCH] = 1 THEN NoValue ELSE 1
          /\ writes[EFFECT] = IF selected THEN CONSTANT_EFFECT ELSE p.requested
          /\ writes[BRIGHTNESS] = IF Differs(p, BRIGHTNESS) THEN p.shown[BRIGHTNESS] ELSE NoValue
          /\ writes[RGB] = IF tinted THEN p.shown[RGB] ELSE NoValue
          /\ \A d \in Dps : d \notin Settings => writes[d] = NoValue
          /\ writes = [d \in Dps |-> writes[d]]
        BY <1>6, LightDatapoints DEF ToWrite, Writes, Changed
    <2>2. \A d \in Settings : Differs(p, d) <=> p.wire[d] # p.shown[d]
        BY <1>2 DEF Differs
    <2> HIDE DEF writes
    <2>3. writes \in Tables
        <3>1. \A d \in Settings : writes[d] \in Values \cup {NoValue}
            BY <1>2, <1>3, <2>1, LightDatapoints
        <3>2. \A d \in Dps : writes[d] \in Values \cup {NoValue}
            BY <2>1, <3>1
        <3>3. writes \in Batches
            BY <2>1, <3>2 DEF Batches
        <3>4. Proper(writes)
            BY <2>1 DEF Proper
        <3> QED BY <3>3, <3>4 DEF Tables
    <2>4. tinted <=> coloured
        <3>1. Differs(p, RGB) <=> p.wire[RGB] # p.shown[RGB]
            BY <2>2, LightDatapoints
        <3>2. CASE call[RGB] # NoValue
            <4>1. meant[RGB] = p.wire[RGB] /\ p.shown[RGB] = call[RGB]
                BY <1>1, <1>7, <3>2, LightDatapoints
            <4> QED BY <1>1, <3>1, <3>2, <4>1
        <3>3. CASE call[RGB] = NoValue
            <4>1. call[SWITCH] # 0
                BY <1>1, <1>6, LightDatapoints
            <4>2. p.shown[RGB] = p.wire[RGB] \/ p.requested \notin {NoValue, CONSTANT_EFFECT}
                BY <1>1, <3>3, <4>1 DEF Uncoloured
            <4> QED BY <3>1, <3>3, <4>2
        <3> QED BY <3>2, <3>3
    <2>16. tinted => call[RGB] # NoValue
        BY <2>4
    <2> HIDE DEF coloured
    <2>5. call[SWITCH] \in {1, NoValue} /\ (call[SWITCH] = NoValue => p.wire[SWITCH] = 1)
        BY <1>1, <1>2, <1>6, LightDatapoints
    <2>6. New(p, writes, SWITCH) = 1 /\ Told(meant, writes, SWITCH) = asked[SWITCH]
        BY <1>4, <1>7, <2>1, <2>5, LightDatapoints DEF New, Told
    <2>7. /\ New(p, writes, BRIGHTNESS) = p.shown[BRIGHTNESS]
          /\ Told(meant, writes, BRIGHTNESS) = asked[BRIGHTNESS]
        BY <1>1, <1>2, <1>4, <1>7, <2>1, <2>2, LightDatapoints DEF New, Told
    <2>8. Told(meant, writes, RGB) = asked[RGB]
        BY <1>1, <1>4, <2>1, <2>4, <2>16, LightDatapoints DEF Told
    <2>9. Told(meant, writes, EFFECT) = asked[EFFECT]
        BY <1>1, <1>4, <1>7, <2>1, <2>4, <2>16, LightDatapoints DEF Told
    <2>10. ASSUME NEW d \in Settings, writes[d] # NoValue
           PROVE  call[d] # NoValue \/ (d = EFFECT /\ call[RGB] # NoValue)
        <3>1. tinted => call[RGB] # NoValue
            BY <2>16
        <3>2. CASE d = SWITCH
            BY <2>1, <2>5, <2>10, <3>2
        <3>3. CASE d = BRIGHTNESS
            BY <1>1, <2>1, <2>2, <2>10, <3>3
        <3>4. CASE d = EFFECT
            BY <1>1, <2>1, <2>10, <3>1, <3>4
        <3>5. CASE d = RGB
            BY <2>1, <2>10, <3>1, <3>5
        <3> QED BY <1>3, <3>2, <3>3, <3>4, <3>5
    <2>11. ASSUME p.requested # NoValue \/ writes[EFFECT] = NoValue
           PROVE  p.shown[EFFECT] \in {NoValue, New(p, writes, EFFECT)}
        <3>1. CASE p.requested = NoValue
            BY <1>1, <2>1, <2>11, <3>1, LightDatapoints DEF New
        <3>2. CASE p.requested # NoValue
            BY <1>1, <2>1, <3>2, LightDatapoints DEF New
        <3> QED BY <3>1, <3>2
    <2>12. p.requested = NoValue /\ writes[EFFECT] # NoValue => writes[EFFECT] = CONSTANT_EFFECT
        BY <2>1
    <2>13. \/ New(p, writes, RGB) = p.shown[RGB]
           \/ writes[RGB] = NoValue /\ (writes[EFFECT] # NoValue \/ call[RGB] = NoValue)
        <3>1. CASE tinted
            <4>1. p.shown[RGB] # NoValue
                BY <1>1, <2>16, <3>1
            <4> QED BY <2>1, <3>1, <4>1 DEF New
        <3>2. CASE ~tinted /\ p.wire[RGB] = p.shown[RGB]
            BY <2>1, <3>2 DEF New
        <3>3. CASE ~tinted /\ p.wire[RGB] # p.shown[RGB]
            <4>1. p.requested # NoValue
                BY <2>2, <3>3, LightDatapoints
            <4> QED BY <2>1, <3>3, <4>1
        <3> QED BY <3>1, <3>2, <3>3
    <2>14. \A d \in Settings : Told(meant, writes, d) = asked[d]
        BY <1>3, <2>6, <2>7, <2>8, <2>9
    <2>15. Fits(p, call, meant, writes)
        BY <1>6, <2>3, <2>6, <2>7, <2>10, <2>11, <2>12, <2>13, <2>14 DEF Fits, asked
    <2> QED BY <2>15 DEF writes
<1> QED BY <1>2, <1>5, <1>6

\* write_state is called for a report, and only takes note of it.
LEMMA SuppressedHolds ==
    ASSUME NEW p, NEW m, NEW w, NEW r, NEW meant, Holds(p, m, w, r, Nothing, meant), p.scheduled
    PROVE  LET q == write_state([p EXCEPT !.scheduled = FALSE])
           IN  Holds(q, m, w, r, Nothing, meant) /\ q.session = p.session
<1> DEFINE before == [p EXCEPT !.scheduled = FALSE]
           q == write_state(before)
<1>1. /\ Wire(p, m, w, r) /\ Known(p, r) /\ Rests(p, m, w, r)
      /\ \A d \in Settings : Latest(m, r, d) /\ Followed(p, m, w, r, d)
      /\ Nothing \in Tables /\ meant \in [Dps -> Values]
      /\ \A d \in Settings : Will(m, AllAhead(p.session, w), d) = meant[d]
    BY DEF Holds
<1>2. p \in Programs /\ p.suppress
    BY <1>1 DEF Wire, Rests
<1>3. before.suppress
    BY <1>2 DEF Programs
<1>4. q = [before EXCEPT !.suppress = FALSE]
    BY <1>3 DEF write_state
<1> HIDE DEF q
<1>5. q = [p EXCEPT !.scheduled = FALSE, !.suppress = FALSE]
    BY <1>4
<1>6. /\ q \in Programs /\ q.session = p.session /\ q.table = p.table /\ q.wire = p.wire
      /\ q.shown = p.shown /\ q.requested = p.requested /\ ~q.scheduled
    BY <1>2, <1>5 DEF Programs
<1>7. Wire(q, m, w, r) /\ Known(q, r) /\ \A d \in Settings : Followed(q, m, w, r, d)
    BY <1>1, <1>6 DEF Wire, Known, Knows, Followed
<1>8. Rests(q, m, w, r)
    BY <1>1, <1>6 DEF Rests, Shows, Faded
<1>9. Holds(q, m, w, r, Nothing, meant)
    BY <1>1, <1>6, <1>7, <1>8 DEF Holds
<1> QED BY <1>6, <1>9 DEF q

\* A write is refused: the light shows what is on the wire.
LEMMA RestoreHolds ==
    ASSUME NEW p, NEW m, NEW w, NEW r, NEW call, NEW meant, Holds(p, m, w, r, call, meant),
           call # Nothing, NEW before, before = [p EXCEPT !.scheduled = FALSE]
    PROVE  LET q == restore_visible_state(before)
           IN  Holds(q, m, w, r, Nothing, meant) /\ q.session = p.session
<1> DEFINE cleared == [before EXCEPT !.requested = NoValue]
           visible == [d \in Dps |-> IF d \notin Settings \/ (d = EFFECT /\ before.wire[SWITCH] = 0)
                                     THEN NoValue ELSE before.wire[d]]
           q == restore_visible_state(before)
<1>1. /\ Wire(p, m, w, r) /\ Known(p, r) /\ Waits(p, m, w, r, call)
      /\ \A d \in Settings : Latest(m, r, d) /\ Followed(p, m, w, r, d)
      /\ meant \in [Dps -> Values]
      /\ \A d \in Settings : Will(m, AllAhead(p.session, w), d) = meant[d]
    BY DEF Holds
<1>2. p \in Programs /\ \A d \in Settings : p.wire[d] # NoValue
    BY <1>1 DEF Wire, Waits, Knows
<1>3. /\ p.wire \in [Settings -> Values \cup {NoValue}] /\ p.wire[SWITCH] \in {0, 1}
      /\ p.shown[SWITCH] = 0 => p.shown[EFFECT] = NoValue
    BY <1>1, <1>2, LightDatapoints DEF Programs, Proper, Waits, Carries
<1>4. before.wire = p.wire
    BY <1>2 DEF Programs
<1>5. /\ cleared \in Programs /\ cleared.session = p.session /\ cleared.table = p.table
      /\ cleared.wire = p.wire /\ cleared.shown = p.shown /\ cleared.requested = NoValue
    BY <1>2 DEF Programs
<1>6. q = Perform(cleared, visible, TRUE)
    BY DEF restore_visible_state, publish_mcu_call
<1>7. /\ visible \in [Dps -> Values \cup {NoValue}]
      /\ \A d \in {SWITCH, BRIGHTNESS, RGB} : visible[d] = p.wire[d]
      /\ visible[EFFECT] = IF p.wire[SWITCH] = 0 THEN NoValue ELSE p.wire[EFFECT]
    BY <1>3, <1>4, LightDatapoints
<1> HIDE DEF visible, cleared, q
<1>8. visible \in Tables
    BY <1>3, <1>7, LightDatapoints DEF Tables, Batches, Proper
<1>9. Performed(cleared, q, visible, TRUE)
    BY <1>5, <1>6, <1>8, PerformFields
<1>10. /\ q \in Programs /\ q.session = p.session /\ q.table = p.table /\ q.wire = p.wire
       /\ q.suppress /\ q.requested = NoValue
       /\ \A d \in {SWITCH, BRIGHTNESS, RGB} :
             q.shown[d] = IF visible[d] # NoValue THEN visible[d] ELSE p.shown[d]
       /\ q.shown[EFFECT] = IF q.shown[SWITCH] = 1 /\ visible[EFFECT] \notin {NoValue, p.shown[EFFECT]}
                            THEN visible[EFFECT]
                            ELSE IF visible[SWITCH] = 0 /\ visible[EFFECT] = NoValue THEN NoValue
                            ELSE p.shown[EFFECT]
    BY <1>5, <1>9 DEF Performed, Starts
<1>11. \A d \in {SWITCH, BRIGHTNESS, RGB} : q.shown[d] = p.wire[d]
    BY <1>2, <1>7, <1>10, LightDatapoints
<1>12. q.shown[EFFECT] \in {NoValue, p.wire[EFFECT]} /\ (q.shown[SWITCH] = 0 => q.shown[EFFECT] = NoValue)
    <2>1. q.shown[SWITCH] = p.wire[SWITCH] /\ visible[SWITCH] = p.wire[SWITCH]
        BY <1>7, <1>11
    <2>2. CASE p.wire[SWITCH] = 0
        BY <1>7, <1>10, <2>1, <2>2, LightDatapoints
    <2>3. CASE p.wire[SWITCH] = 1
        BY <1>2, <1>7, <1>10, <2>1, <2>3, LightDatapoints
    <2> QED BY <1>3, <2>2, <2>3
<1>13. Rests(q, m, w, r)
    BY <1>10, <1>11, <1>12, LightDatapoints DEF Rests, Shows, Faded
<1>14. Wire(q, m, w, r) /\ Known(q, r) /\ \A d \in Settings : Followed(q, m, w, r, d)
    BY <1>1, <1>10 DEF Wire, Known, Knows, Followed
<1>15. Nothing \in Tables
    BY LightDatapoints DEF Nothing, Tables, Batches, Proper
<1>16. Holds(q, m, w, r, Nothing, meant)
    BY <1>1, <1>10, <1>13, <1>14, <1>15 DEF Holds
<1> QED BY <1>10, <1>16 DEF q

\* What a loop of the light has written, and for which call.
Added(s, t, call) ==
    /\ Len(s.queue) \in Nat /\ Len(t.queue) \in Nat
    /\ \A i \in (Len(s.queue) + 1)..Len(t.queue) : \A d \in Written(t.queue[i].writes) \cap Settings :
          call[d] # NoValue \/ (d = EFFECT /\ call[RGB] # NoValue)

\* Everything is written.
LEMMA WrittenHolds ==
    ASSUME NEW p, NEW m, NEW w, NEW r, NEW call, NEW meant, Holds(p, m, w, r, call, meant),
           call # Nothing, NEW before, before = [p EXCEPT !.scheduled = FALSE],
           NEW writes, writes = ToWrite(p),
           NEW done, done = [InOrder(before, writes) EXCEPT !.requested = NoValue],
           NEW q, q = IF writes[EFFECT] # NoValue /\ p.requested = NoValue
                      THEN publish_mcu_call(done, One(EFFECT, CONSTANT_EFFECT)) ELSE done
    PROVE  Holds(q, m, w, r, Nothing, Asked(meant, call)) /\ Added(p.session, q.session, call)
<1> DEFINE sent == InOrder(before, writes)
<1>1. /\ Wire(p, m, w, r) /\ Known(p, r) /\ Waits(p, m, w, r, call)
      /\ \A d \in Settings : Latest(m, r, d) /\ Followed(p, m, w, r, d)
      /\ call \in Tables /\ meant \in [Dps -> Values]
      /\ \A d \in Settings : Will(m, AllAhead(p.session, w), d) = meant[d]
    BY DEF Holds
<1>2. /\ p \in Programs /\ Linked(p.session, Requests) /\ w \in Seq(Commands)
      /\ ~p.suppress /\ Knows(p) /\ Carries(p, call)
      /\ \A d \in GoesBy(call) : p.wire[d] = meant[d]
      /\ call[RGB] = NoValue => Faded(p, w, r)
    BY <1>1, LightDatapoints DEF Wire, Waits, GoesBy
<1>3. Fits(p, call, meant, writes)
    BY <1>1, <1>2, WritesFit
<1>4. /\ before \in Programs /\ before.session = p.session /\ before.table = p.table
      /\ before.wire = p.wire /\ before.shown = p.shown /\ before.requested = p.requested
      /\ before.suppress = p.suppress /\ ~before.scheduled
    BY <1>2 DEF Programs
<1>5. Wrote(before, sent, Settings, writes)
    BY <1>2, <1>3, <1>4, InOrderWrites DEF Fits
<1> HIDE DEF sent
<1>6. /\ sent \in Programs /\ Linked(sent.session, Requests)
      /\ sent.shown = p.shown /\ ~sent.suppress /\ ~sent.scheduled
      /\ \A d \in Settings : sent.wire[d] = New(p, writes, d)
      /\ \A d \in Settings : Will(m, AllAhead(sent.session, w), d) =
              IF writes[d] # NoValue THEN writes[d] ELSE Will(m, AllAhead(p.session, w), d)
      /\ \/ sent.session = p.session /\ \A d \in Settings : writes[d] = NoValue
         \/ Ordinary(Later(sent.session)) # <<>>
    BY <1>2, <1>4, <1>5, LightDatapoints DEF Wrote, New
<1>7. done = [sent EXCEPT !.requested = NoValue]
    BY DEF sent
<1>8. /\ done \in Programs /\ done.session = sent.session
      /\ done.wire = sent.wire /\ done.shown = p.shown /\ done.requested = NoValue
      /\ ~done.suppress /\ ~done.scheduled
    BY <1>6, <1>7 DEF Programs
<1> DEFINE selected == writes[EFFECT] # NoValue /\ p.requested = NoValue
<1>9. /\ q \in Programs /\ q.session = sent.session /\ q.wire = sent.wire
      /\ q.requested = NoValue /\ (q.scheduled => q.suppress)
      /\ \A d \in {SWITCH, BRIGHTNESS, RGB} : q.shown[d] = p.shown[d]
      /\ ~selected => q.shown[EFFECT] = p.shown[EFFECT]
      /\ selected => q.shown[EFFECT] = CONSTANT_EFFECT
    <2>1. CASE ~selected
        <3>1. q = done
            BY <2>1
        <3> QED BY <1>8, <2>1, <3>1
    <2>2. CASE selected
        <3> DEFINE one == One(EFFECT, CONSTANT_EFFECT)
        <3>1. q = Perform(done, one, TRUE)
            BY <2>2 DEF publish_mcu_call
        <3>2. Tellable(EFFECT, CONSTANT_EFFECT)
            BY LightDatapoints DEF Tellable
        <3>3. one \in Tables /\ one[EFFECT] = CONSTANT_EFFECT /\ \A d \in Dps : d # EFFECT => one[d] = NoValue
            BY <3>2, TellOne
        <3> HIDE DEF one
        <3>4. Performed(done, q, one, TRUE)
            BY <1>8, <3>1, <3>3, PerformFields
        <3>5. one[SWITCH] = NoValue /\ one[BRIGHTNESS] = NoValue /\ one[RGB] = NoValue
            BY <3>3, LightDatapoints
        <3>6. /\ q \in Programs /\ q.session = done.session /\ q.wire = done.wire
              /\ q.suppress /\ q.requested = NoValue
              /\ \A d \in {SWITCH, BRIGHTNESS, RGB} : q.shown[d] = p.shown[d]
            BY <1>8, <3>4, <3>5 DEF Performed
        <3>7. q.shown[SWITCH] = 1
            BY <1>3, <2>2, <3>6 DEF Fits
        <3>8. q.shown[EFFECT] = CONSTANT_EFFECT
            BY <1>8, <3>3, <3>4, <3>5, <3>7, LightDatapoints DEF Performed, Starts
        <3> QED BY <1>8, <2>2, <3>6, <3>8
    <2> QED BY <2>1, <2>2
<1> HIDE DEF selected
<1>10. /\ \A d \in Settings : Told(meant, writes, d) = Asked(meant, call)[d]
       /\ \A d \in {SWITCH, BRIGHTNESS} : New(p, writes, d) = p.shown[d]
       /\ p.shown[SWITCH] = 0 => p.shown[EFFECT] = NoValue
       /\ \A d \in Settings : New(p, writes, d) # NoValue
    BY <1>2, <1>3 DEF Fits, Carries, Knows, New
<1>11. q.shown[EFFECT] \in {NoValue, q.wire[EFFECT]}
    <2>1. CASE ~selected
        <3>1. p.requested # NoValue \/ writes[EFFECT] = NoValue
            BY <2>1 DEF selected
        <3> QED BY <1>3, <1>6, <1>9, <2>1, <3>1, LightDatapoints DEF Fits
    <2>2. CASE selected
        <3>1. writes[EFFECT] = CONSTANT_EFFECT
            BY <1>3, <2>2 DEF Fits, selected
        <3> QED BY <1>6, <1>9, <2>2, <3>1, LightDatapoints DEF New
    <2> QED BY <2>1, <2>2
<1>12. q.shown[SWITCH] = 0 => q.shown[EFFECT] = NoValue
    <2>1. selected => p.shown[SWITCH] = 1
        BY <1>3 DEF Fits, selected
    <2> QED BY <1>9, <1>10, <2>1
<1>13. Shows(q)
    BY <1>6, <1>9, <1>10, <1>11, <1>12, LightDatapoints DEF Shows
<1>14. \A d \in Settings : Will(m, AllAhead(q.session, w), d) = Told(meant, writes, d)
    BY <1>1, <1>6, <1>9 DEF Told
<1>15. Faded(q, w, r)
    <2>1. CASE New(p, writes, RGB) = p.shown[RGB]
        BY <1>6, <1>9, <2>1, LightDatapoints DEF Faded
    <2>2. CASE writes[RGB] = NoValue /\ writes[EFFECT] # NoValue
        <3>1. Ordinary(Later(q.session)) # <<>>
            BY <1>6, <1>9, <2>2, LightDatapoints
        <3> QED BY <3>1 DEF Faded, Owed
    <2>3. CASE writes[RGB] = NoValue /\ call[RGB] = NoValue
        <3>1. q.wire[RGB] = p.wire[RGB] /\ q.shown[RGB] = p.shown[RGB] /\ Faded(p, w, r)
            BY <1>2, <1>6, <1>9, <2>3, LightDatapoints DEF New
        <3>2. q.session = p.session \/ Ordinary(Later(q.session)) # <<>>
            BY <1>6, <1>9
        <3> QED BY <3>1, <3>2 DEF Faded, Owed
    <2> QED BY <1>3, <2>1, <2>2, <2>3 DEF Fits
<1>16. Wire(q, m, w, r)
    BY <1>1, <1>6, <1>9 DEF Wire
<1>17. Known(q, r)
    BY <1>6, <1>9, <1>10 DEF Known, Knows
<1>18. \A d \in Settings : Followed(q, m, w, r, d)
    <2>1. CASE Ordinary(Later(sent.session)) # <<>>
        BY <1>9, <2>1 DEF Followed
    <2>2. CASE sent.session = p.session /\ \A d \in Settings : writes[d] = NoValue
        <3> SUFFICES ASSUME NEW d \in Settings PROVE Followed(q, m, w, r, d)
            OBVIOUS
        <3>1. q.session = p.session /\ q.wire[d] = p.wire[d]
            BY <1>6, <1>9, <2>2 DEF New
        <3>2. Followed(p, m, w, r, d)
            BY <1>1
        <3> QED BY <3>1, <3>2 DEF Followed
    <2> QED BY <1>6, <2>1, <2>2
<1>19. Asked(meant, call) \in [Dps -> Values]
    BY <1>1, LightDatapoints DEF Asked, Tables, Batches
<1>20. Nothing \in Tables
    BY LightDatapoints DEF Nothing, Tables, Batches, Proper
<1>21. \A d \in Settings : Will(m, AllAhead(q.session, w), d) = Asked(meant, call)[d]
    BY <1>10, <1>14
<1>22. Rests(q, m, w, r)
    BY <1>9, <1>13, <1>15 DEF Rests
<1>23. Holds(q, m, w, r, Nothing, Asked(meant, call))
    BY <1>1, <1>16, <1>17, <1>18, <1>19, <1>20, <1>21, <1>22 DEF Holds
<1>24. ASSUME NEW i \in (Len(p.session.queue) + 1)..Len(q.session.queue),
              NEW d \in Written(q.session.queue[i].writes) \cap Settings
       PROVE  call[d] # NoValue \/ (d = EFFECT /\ call[RGB] # NoValue)
    <2>1. PICK e \in Settings : writes[e] # NoValue /\ q.session.queue[i] = Deliver(One(e, writes[e]))
        BY <1>4, <1>5, <1>9 DEF Wrote
    <2>2. Tellable(e, writes[e])
        BY <1>3, <2>1, LightDatapoints DEF Fits, Tables, Batches, Proper, Tellable
    <2>3. /\ q.session.queue[i].writes = One(e, writes[e])
          /\ \A x \in Dps : x # e => One(e, writes[e])[x] = NoValue
        BY <2>1, <2>2, TellOne
    <2>4. d = e
        BY <2>3 DEF Written
    <2> QED BY <1>3, <2>1, <2>4 DEF Fits
<1>25. Len(p.session.queue) \in Nat /\ Len(q.session.queue) \in Nat
    BY <1>4, <1>5, <1>9 DEF Wrote
<1>26. Added(p.session, q.session, call)
    BY <1>24, <1>25 DEF Added
<1> QED BY <1>23, <1>26

\* LightState::loop
LEMMA LoopHolds ==
    ASSUME NEW p, NEW m, NEW w, NEW r, NEW call, NEW meant, Holds(p, m, w, r, call, meant),
           p.scheduled
    PROVE  LET q == write_state([p EXCEPT !.scheduled = FALSE])
           IN  /\ Holds(q, m, w, r, Nothing, IF Authorized(p) THEN Asked(meant, call) ELSE meant)
               /\ Added(p.session, q.session, call)
<1> DEFINE before == [p EXCEPT !.scheduled = FALSE]
           q == write_state(before)
           now == IF Authorized(p) THEN Asked(meant, call) ELSE meant
           writes == ToWrite(p)
<1>1. /\ Wire(p, m, w, r) /\ call \in Tables /\ meant \in [Dps -> Values]
      /\ IF call = Nothing THEN Rests(p, m, w, r) ELSE Waits(p, m, w, r, call)
    BY DEF Holds
<1>2. p \in Programs /\ Linked(p.session, Requests) /\ Len(p.session.queue) \in Nat
    BY <1>1, LaterIsQueue, LenProperties DEF Wire
<1>3. ASSUME q.session = p.session PROVE Added(p.session, q.session, call)
    <2>1. (Len(p.session.queue) + 1)..Len(p.session.queue) = {}
        BY <1>2
    <2> HIDE DEF q
    <2> QED BY <1>2, <1>3, <2>1 DEF Added
<1>4. /\ before.session = p.session /\ before.table = p.table /\ before.wire = p.wire
      /\ before.shown = p.shown /\ before.requested = p.requested /\ before.suppress = p.suppress
    BY <1>2 DEF Programs
<1>5. CASE call = Nothing
    <2>1. Holds(q, m, w, r, Nothing, meant) /\ q.session = p.session
        BY <1>5, SuppressedHolds
    <2>2. now = meant
        <3>1. \A d \in Dps : call[d] = NoValue
            BY <1>5 DEF Nothing
        <3>2. \A d \in Dps : Asked(meant, call)[d] = meant[d]
            BY <3>1, LightDatapoints DEF Asked
        <3>3. Asked(meant, call) \in [Dps -> Values]
            BY <1>1, <3>1, LightDatapoints DEF Asked
        <3> HIDE DEF q
        <3>4. Asked(meant, call) = meant
            BY <1>1, <3>2, <3>3
        <3> QED BY <3>4
    <2> HIDE DEF q, now
    <2> QED BY <1>3, <1>5, <2>1, <2>2 DEF q, now
<1>6. CASE call # Nothing
    <2>1. /\ ~p.suppress /\ Knows(p) /\ Carries(p, call)
          /\ \A d \in GoesBy(call) : p.wire[d] = meant[d]
        BY <1>1, <1>6, LightDatapoints DEF Waits, Holds, GoesBy
    <2>2. Authorized(before) <=> Authorized(p)
        BY <1>4 DEF Authorized, IsTrue, IsPending
    <2>3. ToWrite(before) = writes
        BY <1>4 DEF ToWrite, Writes, Differs, Changed
    <2> DEFINE done == [InOrder(before, writes) EXCEPT !.requested = NoValue]
               z == IF writes[EFFECT] # NoValue /\ p.requested = NoValue
                    THEN publish_mcu_call(done, One(EFFECT, CONSTANT_EFFECT)) ELSE done
    <2>4. q = IF writes # Nothing /\ ~Authorized(before) THEN restore_visible_state(before) ELSE z
        <3>1. ToWrite(before) = IF before.shown[SWITCH] = 1 THEN Writes(before)
                                ELSE IF before.wire[SWITCH] = 0 THEN Nothing ELSE One(SWITCH, 0)
            BY DEF ToWrite
        <3> HIDE DEF before, writes
        <3> QED BY <1>4, <2>1, <2>3, <3>1 DEF write_state
    <2> HIDE DEF q
    <2>5. CASE writes # Nothing /\ ~Authorized(p)
        <3>1. q = restore_visible_state(before)
            BY <2>2, <2>4, <2>5
        <3>2. Holds(q, m, w, r, Nothing, meant) /\ q.session = p.session
            BY <1>6, <3>1, RestoreHolds
        <3>3. now = meant
            BY <2>5
        <3> HIDE DEF now
        <3> QED BY <1>3, <3>2, <3>3 DEF q, now
    <2>6. CASE ~(writes # Nothing /\ ~Authorized(p))
        <3>1. q = z
            BY <2>2, <2>4, <2>6
        <3>2. Holds(q, m, w, r, Nothing, Asked(meant, call)) /\ Added(p.session, q.session, call)
            BY <1>6, <3>1, WrittenHolds
        <3>3. CASE Authorized(p)
            BY <3>2, <3>3 DEF q
        <3>4. CASE ~Authorized(p)
            <4>1. writes = Nothing
                BY <2>6, <3>4
            <4>2. Fits(p, call, meant, writes)
                BY <1>1, <1>2, <2>1, WritesFit
            <4> HIDE DEF writes
            <4>3. \A d \in Settings : writes[d] = NoValue
                BY <4>1, LightDatapoints DEF Nothing
            <4>4. \A d \in Settings : Asked(meant, call)[d] = meant[d]
                BY <4>2, <4>3 DEF Fits, Told
            <4>5. Holds(q, m, w, r, Nothing, meant)
                BY <1>1, <3>2, <4>4 DEF Holds
            <4> QED BY <3>2, <3>4, <4>5 DEF q
        <3> QED BY <3>3, <3>4
    <2> QED BY <2>5, <2>6
<1> QED BY <1>5, <1>6
----------------------------------------------------------------------------
(* The appliance is used *)

\* Its buttons change a datapoint and have it reported, or everything.
Pressed(m, meant, d, v, after, report, now) ==
    /\ Tellable(d, v)
    /\ after = [m EXCEPT ![d] = v]
    /\ report \in {after, One(d, v)}
    /\ now = IF d \in Settings THEN [meant EXCEPT ![d] = v] ELSE meant

LEMMA PressHolds ==
    ASSUME NEW p, NEW m, NEW call, NEW meant, Holds(p, m, <<>>, <<>>, call, meant),
           p.session.queue = <<>>, ~p.scheduled,
           NEW d, NEW v, NEW after, NEW report, NEW now, Pressed(m, meant, d, v, after, report, now)
    PROVE  Holds(p, after, <<>>, <<report>>, call, now)
<1>0. /\ Tellable(d, v) /\ after = [m EXCEPT ![d] = v] /\ report \in {after, One(d, v)}
      /\ now = IF d \in Settings THEN [meant EXCEPT ![d] = v] ELSE meant
    BY DEF Pressed
<1> DEFINE r == <<report>>
<1>1. /\ Wire(p, m, <<>>, <<>>) /\ Known(p, <<>>)
      /\ call \in Tables /\ meant \in [Dps -> Values]
      /\ \A e \in Settings : Followed(p, m, <<>>, <<>>, e)
      /\ \A e \in Settings : Will(m, AllAhead(p.session, <<>>), e) = meant[e]
    BY DEF Holds
<1>2. call = Nothing /\ Rests(p, m, <<>>, <<>>)
    BY DEF Holds, Waits
<1>3. p \in Programs /\ Linked(p.session, Requests) /\ m \in [Dps -> Values] /\ Proper(m)
    BY <1>1 DEF Wire, States
<1>4. Later(p.session) = <<>> /\ AllAhead(p.session, <<>>) = <<>>
    <2>1. ~InFlight(p.session)
        BY <1>3, LaterIsQueue
    <2>2. Later(p.session) = <<>>
        BY <2>1 DEF Later
    <2> QED BY <2>2 DEF AllAhead
<1>5. Ordinary(Later(p.session)) = <<>>
    <2>1. Clean(<<>>)
        BY EmptySeq DEF Clean
    <2> QED BY <1>4, <2>1, OrdinaryOfClean
<1>6. /\ d \in Dps /\ v \in Values /\ v # NoValue
      /\ after \in [Dps -> Values] /\ \A e \in Dps : after[e] = IF e = d THEN v ELSE m[e]
      /\ \A e \in Dps : after[e] # NoValue
    BY <1>0, <1>3, LightDatapoints DEF Tellable
<1>7. after \in States /\ after \in Tables
    <2>1. Proper(after)
        BY <1>0, <1>3, <1>6, LightDatapoints DEF Proper, Tellable
    <2> QED BY <1>6, <2>1 DEF States, Tables, Batches
<1>8. /\ report \in Tables /\ report[d] = v
      /\ \A e \in Dps : report[e] \in {NoValue, after[e]}
      /\ report = after \/ \A e \in Dps : e # d => report[e] = NoValue
    <2>1. CASE report = after
        BY <1>6, <1>7, <2>1
    <2>2. CASE report = One(d, v)
        <3>1. One(d, v) \in Tables /\ One(d, v)[d] = v /\ \A e \in Dps : e # d => One(d, v)[e] = NoValue
            BY <1>0, TellOne
        <3> QED BY <1>6, <2>2, <3>1
    <2> QED BY <1>0, <2>1, <2>2
<1>9. r \in Seq(Tables) /\ Len(r) = 1 /\ r[1] = report
    BY <1>8
<1> HIDE DEF r
<1>10. \A e \in Settings : Will(m, <<>>, e) = m[e] /\ Will(after, <<>>, e) = after[e]
    BY WillOfNone
<1>11. ASSUME NEW e \in Settings PROVE Latest(after, r, e) /\ Followed(p, after, <<>>, r, e)
    <2>1. e \in Dps
        BY LightDatapoints
    <2>2. Latest(after, r, e)
        BY <1>8, <1>9, <2>1 DEF Latest, IsLast
    <2>3. CASE report[e] # NoValue
        <3>1. 1 \in 1..Len(r) /\ r[1][e] # NoValue
            BY <1>9, <2>3
        <3> QED BY <2>2, <3>1 DEF Followed
    <2>4. CASE report[e] = NoValue
        <3>1. e # d
            BY <1>6, <1>8, <2>4
        <3>2. p.wire[e] = m[e]
            <4>1. Followed(p, m, <<>>, <<>>, e) /\ 1..Len(<<>>) = {}
                BY <1>1, EmptySeq
            <4> QED BY <1>5, <4>1 DEF Followed
        <3>3. p.wire[e] = after[e]
            BY <1>6, <2>1, <3>1, <3>2
        <3> QED BY <2>2, <3>3 DEF Followed
    <2> QED BY <2>3, <2>4
<1>12. ~Owed(p.session, <<>>, <<>>)
    <2>1. 1..Len(<<>>) = {}
        BY EmptySeq
    <2> QED BY <1>5, <2>1 DEF Owed
<1>13. Faded(p, <<>>, r)
    BY <1>2, <1>12 DEF Rests, Faded
<1>14. Rests(p, after, <<>>, r)
    BY <1>2, <1>13 DEF Rests
<1>15. Wire(p, after, <<>>, r)
    BY <1>1, <1>7, <1>9 DEF Wire
<1>16. Known(p, r)
    BY <1>1 DEF Known
<1>17. now \in [Dps -> Values] /\ \A e \in Settings : Will(after, AllAhead(p.session, <<>>), e) = now[e]
    <2>1. now \in [Dps -> Values] /\ \A e \in Settings : now[e] = IF e = d THEN v ELSE meant[e]
        BY <1>0, <1>1, <1>6, LightDatapoints
    <2>2. \A e \in Settings : meant[e] = m[e]
        BY <1>1, <1>4, <1>10
    <2>3. ASSUME NEW e \in Settings PROVE Will(after, AllAhead(p.session, <<>>), e) = now[e]
        <3>1. e \in Dps /\ after[e] = now[e]
            BY <1>6, <2>1, <2>2, LightDatapoints
        <3>2. Will(after, <<>>, e) = after[e]
            BY <1>10
        <3> QED BY <1>4, <3>1, <3>2
    <2> QED BY <2>1, <2>3
<1>18. Holds(p, after, <<>>, r, call, now)
    BY <1>1, <1>2, <1>11, <1>14, <1>15, <1>16, <1>17 DEF Holds
<1> QED BY <1>18 DEF r
----------------------------------------------------------------------------
(* The specification *)

LEMMA InitHolds == Init => Inv
<1> SUFFICES ASSUME Init PROVE Inv
    OBVIOUS
<1>1. PICK on \in {0, 1}, lit \in {0, 1}, e \in Effects, bright \in Levels, colour \in Colours :
          mcu = [d \in Dps |-> CASE d = POWER -> on [] d = SWITCH -> lit [] d = EFFECT -> e
                                 [] d = BRIGHTNESS -> bright [] d = RGB -> colour [] OTHER -> 0]
    BY DEF Init
<1>2. mcu \in [Dps -> Values] /\ mcu[SWITCH] \in {0, 1}
    <2>1. \A d \in Dps : mcu[d] \in {0, 1} \cup Effects \cup Levels \cup Colours
        BY <1>1, LightDatapoints
    <2>2. mcu = [d \in Dps |-> mcu[d]]
        BY <1>1
    <2>3. mcu \in [Dps -> Values]
        BY <2>1, <2>2, LightAssumption
    <2>4. mcu[SWITCH] = lit
        BY <1>1, LightDatapoints
    <2> QED BY <2>3, <2>4
<1>3. mcu \in States /\ mcu \in Tables /\ \A d \in Dps : mcu[d] # NoValue
    BY <1>2, LightDatapoints DEF States, Tables, Batches, Proper
<1>4. PICK b \in Levels, c \in Colours :
          program = [session |-> [InitSession EXCEPT !.initState = "INIT_DONE"],
                     table |-> Nothing,
                     wire |-> [d \in Settings |-> NoValue],
                     shown |-> [d \in Settings |-> CASE d = SWITCH -> 0 [] d = EFFECT -> NoValue
                                                     [] d = BRIGHTNESS -> b [] d = RGB -> c],
                     requested |-> NoValue, suppress |-> FALSE, scheduled |-> FALSE]
    BY DEF Init
<1> DEFINE s == program.session
<1>5. toMcu = <<>> /\ reports = <<mcu>> /\ request = Nothing /\ wanted = mcu
    BY DEF Init
<1>6. Nothing \in Tables /\ Nothing \in Batches
    BY LightDatapoints DEF Nothing, Tables, Batches, Proper
<1>7. Linked(s, Requests) /\ ~InFlight(s) /\ s.queue = <<>>
    BY <1>4, LinkedIdle DEF Idle
<1>8. s \in Sessions
    BY <1>7 DEF Linked
<1> DEFINE look == [d \in Settings |-> CASE d = SWITCH -> 0 [] d = EFFECT -> NoValue
                                         [] d = BRIGHTNESS -> b [] d = RGB -> c]
<1>9. /\ look[SWITCH] = 0 /\ look[EFFECT] = NoValue
      /\ look \in [Settings -> Values \cup {NoValue}]
    BY LightDatapoints, LightAssumption
<1> HIDE DEF look
<1>10. /\ program = [session |-> s, table |-> Nothing, wire |-> [d \in Settings |-> NoValue],
                     shown |-> look, requested |-> NoValue, suppress |-> FALSE, scheduled |-> FALSE]
    BY <1>4 DEF look
<1> HIDE DEF s
<1>11. /\ program.session = s /\ program.table = Nothing /\ program.shown = look
       /\ \A d \in Settings : program.wire[d] = NoValue
       /\ program.requested = NoValue /\ ~program.scheduled
    BY <1>10
<1>12. program \in Programs
    BY <1>6, <1>8, <1>9, <1>10, LightDatapoints DEF Programs, Proper
<1>13. reports \in Seq(Tables) /\ Len(reports) = 1 /\ reports[1] = mcu /\ Head(reports) = mcu /\ reports # <<>>
    BY <1>3, <1>5
<1>14. Wire(program, mcu, toMcu, reports)
    <2>1. toMcu \in Seq(Commands) /\ \A i \in 1..Len(toMcu) : Proper(toMcu[i].writes)
        BY <1>5, EmptySeq
    <2> QED BY <1>3, <1>7, <1>11, <1>12, <1>13, <2>1 DEF Wire
<1>15. Known(program, reports)
    BY <1>3, <1>11, <1>13, LightDatapoints DEF Known
<1>16. ASSUME NEW d \in Settings
       PROVE  Latest(mcu, reports, d) /\ Followed(program, mcu, toMcu, reports, d)
    <2>1. 1 \in 1..Len(reports) /\ reports[1][d] # NoValue
        BY <1>3, <1>13, LightDatapoints
    <2> QED BY <1>13, <2>1 DEF Latest, Followed
<1>17. Shows(program) /\ Faded(program, toMcu, reports)
    BY <1>9, <1>11, LightDatapoints DEF Shows, Faded
<1>18. Rests(program, mcu, toMcu, reports)
    BY <1>11, <1>17 DEF Rests
<1>19. \A d \in Settings : Will(mcu, AllAhead(program.session, toMcu), d) = wanted[d]
    <2>1. AllAhead(program.session, toMcu) = <<>>
        BY <1>5, <1>7, <1>11 DEF AllAhead, Later
    <2> QED BY <1>5, <2>1, WillOfNone
<1> QED BY <1>2, <1>5, <1>6, <1>14, <1>15, <1>16, <1>18, <1>19 DEF Inv, Holds

LEMMA CommandedIsWill ==
    ASSUME NEW d \in Settings
    PROVE  Commanded[d] = Will(mcu, AllAhead(program.session, toMcu), d)
<1>1. Ahead = AllAhead(program.session, toMcu)
    BY DEF Ahead, AllAhead, Later
<1> QED BY <1>1, LightDatapoints DEF Commanded, Will

LEMMA TransmitsHolds == ASSUME Inv, Transmits PROVE Inv'
<1> DEFINE s == [program.session EXCEPT !.age = MaxAge]
<1>1. /\ CanTransmit(s, TRUE)
      /\ program' = [program EXCEPT !.session = [Transmit(s, TRUE) EXCEPT !.age = 0]]
      /\ toMcu' = Append(toMcu, Head(s.queue))
      /\ UNCHANGED <<mcu, reports, request, wanted>>
    BY DEF Transmits, Transmission, history
<1>2. program.session \in Sessions
    BY DEF Inv, Holds, Wire, Programs
<1>3. s.queue = program.session.queue
    BY <1>2 DEF Sessions
<1>4. Holds(program, mcu, toMcu, reports, request, wanted)
    BY DEF Inv
<1>5. Holds(program', mcu, Append(toMcu, Head(program.session.queue)), reports, request, wanted)
    BY <1>1, <1>4, TransmitHolds
<1> QED BY <1>1, <1>3, <1>5 DEF Inv

LEMMA ReceivesHolds == ASSUME ~Crossing, Inv, Receives PROVE Inv'
<1>1. /\ reports # <<>> /\ request = Nothing
      /\ program' = TakeReport(program, Head(reports), HandleDatapoint)
      /\ reports' = Tail(reports)
      /\ UNCHANGED <<mcu, toMcu, request, wanted>>
    BY DEF Receives, history
<1>2. Holds(program, mcu, toMcu, reports, Nothing, wanted)
    BY <1>1 DEF Inv
<1>3. Holds(program', mcu, toMcu, Tail(reports), Nothing, wanted)
    BY <1>1, <1>2, ReceiveHolds
<1> QED BY <1>1, <1>3 DEF Inv

LEMMA MakesStep ==
    ASSUME Inv, ~Overlapping, NEW s \in {NoValue, 0, 1}, NEW e \in Effects \cup {NoValue},
           NEW b \in Levels \cup {NoValue}, NEW c \in Colours \cup {NoValue},
           Makes([Nothing EXCEPT ![SWITCH] = s, ![EFFECT] = e, ![BRIGHTNESS] = b, ![RGB] = c])
    PROVE  Inv'
<1> DEFINE call == [Nothing EXCEPT ![SWITCH] = s, ![EFFECT] = e, ![BRIGHTNESS] = b, ![RGB] = c]
<1>1. \A d \in Dps : Nothing[d] = NoValue
    BY DEF Nothing
<1>2. Nothing \in [Dps -> {NoValue}]
    BY DEF Nothing
<1>3. /\ call \in [Dps -> Values \cup {NoValue}]
      /\ call[SWITCH] = s
    BY <1>1, <1>2, LightDatapoints, LightAssumption
<1>4. call \in Tables
    BY <1>3 DEF Tables, Batches, Proper
<1> HIDE DEF call
<1>5. Makes(call)
    BY DEF call
<1>6. call # Nothing
    <2>1. Written(call) # {}
        <3>1. Written(call) \in Calls
            BY <1>5 DEF Makes
        <3> QED BY <3>1, LightAssumption
    <2>2. PICK d \in Dps : call[d] # NoValue
        BY <2>1 DEF Written
    <2> QED BY <1>1, <2>2
<1>7. /\ \A d \in GoesBy(call) : program.wire[d] = Will(mcu, AllAhead(program.session, toMcu), d)
      /\ Differs(program, RGB) => call[RGB] # NoValue \/ Uncoloured(call)
    <2>1. GoesBy(call) \subseteq Settings
        BY LightDatapoints DEF GoesBy
    <2> QED BY <1>5, <2>1, CommandedIsWill DEF Makes, Current
<1>8. /\ program.table # Nothing /\ ~program.scheduled
      /\ program.shown[SWITCH] = 0 => call[SWITCH] # NoValue
      /\ call[SWITCH] = 0 => Written(call) = {SWITCH}
      /\ call[EFFECT] # NoValue => call[EFFECT] # program.shown[EFFECT]
      /\ program' = Perform(program, call, FALSE)
      /\ request' = call
      /\ UNCHANGED <<mcu, toMcu, reports, wanted>>
    BY <1>5 DEF Makes
<1>9. Holds(program, mcu, toMcu, reports, request, wanted)
    BY DEF Inv
<1>10. Holds(program', mcu, toMcu, reports, call, wanted)
    BY <1>4, <1>6, <1>7, <1>8, <1>9, MakesHolds
<1> QED BY <1>8, <1>10 DEF Inv

LEMMA LoopStep ==
    ASSUME Inv, Loop
    PROVE  Inv' /\ Added(program.session, program'.session, request)
<1>1. /\ program.scheduled
      /\ program' = write_state([program EXCEPT !.scheduled = FALSE])
      /\ wanted' = IF Authorized(program) THEN Asked(wanted, request) ELSE wanted
      /\ request' = Nothing
      /\ UNCHANGED <<mcu, toMcu, reports>>
    BY DEF Loop
<1>2. Holds(program, mcu, toMcu, reports, request, wanted)
    BY DEF Inv
<1>3. /\ Holds(program', mcu, toMcu, reports, Nothing, wanted')
      /\ Added(program.session, program'.session, request)
    BY <1>1, <1>2, LoopHolds
<1> QED BY <1>1, <1>3 DEF Inv

LEMMA PressStep ==
    ASSUME Inv, NEW d \in {POWER} \cup Settings, NEW v \in Possible(d), NEW whole \in BOOLEAN,
           Press(d, v, whole)
    PROVE  Inv'
<1>1. /\ program.session.queue = <<>> /\ toMcu = <<>> /\ reports = <<>> /\ ~program.scheduled
      /\ mcu' = [mcu EXCEPT ![d] = v]
      /\ reports' = <<IF whole THEN mcu' ELSE One(d, v)>>
      /\ wanted' = IF d \in Settings THEN [wanted EXCEPT ![d] = v] ELSE wanted
      /\ program' = program /\ toMcu' = toMcu /\ request' = request
    BY DEF Press, Quiet
<1>2. Tellable(d, v)
    <2>1. /\ d \in Dps
          /\ \/ d \in {POWER, SWITCH} /\ v \in {0, 1}
             \/ d = EFFECT /\ v \in Effects
             \/ d = BRIGHTNESS /\ v \in Levels
             \/ d = RGB /\ v \in Colours
        BY LightDatapoints DEF Possible
    <2> QED BY <2>1, LightDatapoints, LightAssumption DEF Tellable
<1>3. Holds(program, mcu, <<>>, <<>>, request, wanted)
    BY <1>1 DEF Inv
<1> DEFINE report == IF whole THEN mcu' ELSE One(d, v)
<1>4. report \in {mcu', One(d, v)}
    OBVIOUS
<1> HIDE DEF report
<1>5. Holds(program, mcu', <<>>, <<report>>, request, wanted')
    <2>1. program.session.queue = <<>> /\ ~program.scheduled
        BY <1>1
    <2>2. mcu' = [mcu EXCEPT ![d] = v]
        BY <1>1
    <2>3. wanted' = IF d \in Settings THEN [wanted EXCEPT ![d] = v] ELSE wanted
        BY <1>1
    <2>4. Pressed(mcu, wanted, d, v, mcu', report, wanted')
        BY <1>2, <1>4, <2>2, <2>3 DEF Pressed
    <2> QED BY <1>3, <2>1, <2>4, PressHolds
<1>6. reports' = <<report>>
    BY <1>1 DEF report
<1> QED BY <1>1, <1>5, <1>6 DEF Inv

LEMMA StepHolds ==
    ASSUME ~Crossing, ~Overlapping, Inv, [Next]_vars
    PROVE  Inv'
<1>1. CASE Transmits
    BY <1>1, TransmitsHolds
<1>2. CASE Executes
    <2>1. /\ toMcu # <<>> /\ mcu' = Apply(mcu, Head(toMcu).writes)
          /\ toMcu' = Tail(toMcu) /\ reports' = Append(reports, mcu')
          /\ UNCHANGED <<program, request, wanted>>
        BY <1>2 DEF Executes, Execution, history
    <2>2. Holds(program, mcu, toMcu, reports, request, wanted)
        BY DEF Inv
    <2>3. Holds(program, mcu', Tail(toMcu), Append(reports, mcu'), request, wanted)
        BY <2>1, <2>2, ExecuteHolds
    <2> QED BY <2>1, <2>3 DEF Inv
<1>3. CASE Receives
    BY <1>3, ReceivesHolds
<1>4. ASSUME NEW s \in {NoValue, 0, 1}, NEW e \in Effects \cup {NoValue},
             NEW b \in Levels \cup {NoValue}, NEW c \in Colours \cup {NoValue},
             Makes([Nothing EXCEPT ![SWITCH] = s, ![EFFECT] = e, ![BRIGHTNESS] = b, ![RGB] = c])
      PROVE  Inv'
    BY <1>4, MakesStep
<1>5. CASE Loop
    BY <1>5, LoopStep
<1>6. ASSUME NEW on \in {0, 1}, SwitchPower(on) PROVE Inv'
    <2>1. program' = Set(program, POWER, on) /\ UNCHANGED <<mcu, toMcu, reports, request, wanted>>
        BY <1>6 DEF SwitchPower, history
    <2>2. Holds(Set(program, POWER, on), mcu, toMcu, reports, request, wanted)
        BY SwitchPowerHolds DEF Inv
    <2> QED BY <2>1, <2>2 DEF Inv
<1>7. ASSUME NEW d \in {POWER} \cup Settings, NEW whole \in BOOLEAN, NEW v \in Possible(d),
             Press(d, v, whole)
      PROVE  Inv'
    BY <1>7, PressStep
<1>8. CASE UNCHANGED vars
    BY <1>8 DEF Inv, vars, history
<1> QED BY <1>1, <1>2, <1>3, <1>4, <1>5, <1>6, <1>7, <1>8 DEF Next

\* Inv holds in every state, when no report comes between a call and its write, and
\* calls go by nothing but what will be (Current).
THEOREM InvHolds ==
    ASSUME ~Crossing, ~Overlapping
    PROVE  Spec => []Inv
<1>1. Init => Inv
    BY InitHolds
<1>2. Inv /\ [Next]_vars => Inv'
    BY StepHolds
<1> QED BY <1>1, <1>2, PTL DEF Spec

\* Once everything commanded is done, the light is as the last calls that were not
\* refused asked (write_state). A report between a call and its write drops the call
\* (Crossing), and a call made after a report has crossed a write it goes by, or while
\* a colour that was not written is shown, is lost or undoes an effect (Overlapping).
THEOREM RequestsAreSent ==
    ASSUME ~Crossing, ~Overlapping
    PROVE  Spec => []RequestsPrevail
<1>1. Inv => RequestsPrevail
    <2> SUFFICES ASSUME Inv, NEW d \in Settings PROVE Commanded[d] = wanted[d]
        BY DEF RequestsPrevail
    <2> QED BY CommandedIsWill DEF Inv, Holds
<1> QED BY <1>1, InvHolds, PTL

\* When all is quiet the light shows what the MCU has (the datapoint listeners,
\* restore_visible_state_).
THEOREM McuIsShown ==
    ASSUME ~Crossing, ~Overlapping
    PROVE  Spec => []ShownIsMcu
<1>1. Inv => ShownIsMcu
    <2> SUFFICES ASSUME Inv, Quiet, ~program.scheduled, NEW d \in Settings
                 PROVE  \/ program.shown[d] = mcu[d]
                        \/ d = EFFECT /\ (mcu[SWITCH] = 0 \/ program.shown[d] = NoValue)
        BY DEF ShownIsMcu
    <2>1. program.session.queue = <<>> /\ toMcu = <<>> /\ reports = <<>>
        BY DEF Quiet
    <2>2. /\ Wire(program, mcu, toMcu, reports) /\ Known(program, reports)
          /\ Rests(program, mcu, toMcu, reports)
          /\ \A e \in Settings : Followed(program, mcu, toMcu, reports, e)
        BY DEF Inv, Holds, Waits
    <2>3. /\ Shows(program) /\ Faded(program, toMcu, reports)
        BY <2>2 DEF Rests
    <2>4. Ordinary(Later(program.session)) = <<>>
        <3>1. Linked(program.session, Requests)
            BY <2>2 DEF Wire
        <3>2. Later(program.session) = <<>>
            BY <2>1, <3>1, LaterIsQueue DEF Later
        <3>3. Clean(<<>>)
            BY EmptySeq DEF Clean
        <3> QED BY <3>2, <3>3, OrdinaryOfClean
    <2>5. 1..Len(reports) = {}
        BY <2>1, EmptySeq
    <2>6. \A e \in Settings : program.wire[e] = mcu[e]
        BY <2>1, <2>2, <2>4, <2>5 DEF Followed
    <2>7. \A e \in Settings : program.wire[e] # NoValue
        BY <2>1, <2>2 DEF Known, Knows
    <2>8. program.wire[RGB] = program.shown[RGB]
        BY <2>1, <2>3, <2>4, <2>5, <2>7, LightDatapoints DEF Faded, Owed
    <2>9. /\ program.wire[SWITCH] = program.shown[SWITCH] /\ program.wire[BRIGHTNESS] = program.shown[BRIGHTNESS]
          /\ program.shown[EFFECT] \in {NoValue, program.wire[EFFECT]}
        BY <2>3, <2>7, LightDatapoints DEF Shows
    <2> QED BY <2>6, <2>8, <2>9, LightDatapoints
<1> QED BY <1>1, InvHolds, PTL

\* Nothing is written that no call carries (wire_, suppress_scheduled_write_).
THEOREM NothingElseIsSent ==
    ASSUME ~Crossing, ~Overlapping
    PROVE  Spec => OnlyRequestsWritten
<1> DEFINE only ==
        LET before == program.session.queue
            after  == program'.session.queue
            added  == (Len(before) + 1)..Len(after)
        IN  <<toMcu, reports>>' = <<toMcu, reports>> =>
            \A i \in added : \A d \in Written(after[i].writes) \cap Settings :
                request[d] # NoValue \/ (d = EFFECT /\ request[RGB] # NoValue)
<1>1. Inv /\ [Next]_vars => [only]_vars
    <2> SUFFICES ASSUME Inv, Next, toMcu' = toMcu, reports' = reports PROVE only
        BY DEF vars
    <2>1. /\ program \in Programs /\ Linked(program.session, Requests)
          /\ toMcu \in Seq(Commands) /\ reports \in Seq(Tables)
          /\ mcu \in States
        BY DEF Inv, Holds, Wire
    <2>2. Len(program.session.queue) \in Nat
        BY <2>1, LaterIsQueue, LenProperties
    <2>3. ASSUME program'.session.queue = program.session.queue PROVE only
        <3>1. (Len(program.session.queue) + 1)..Len(program.session.queue) = {}
            BY <2>2
        <3> QED BY <2>3, <3>1
    <2>4. CASE Transmits
        <3> DEFINE s == program.session
        <3>1. /\ CanTransmit([s EXCEPT !.age = MaxAge], TRUE)
              /\ program' = [program EXCEPT !.session = [Transmit([s EXCEPT !.age = MaxAge], TRUE) EXCEPT !.age = 0]]
            BY <2>4 DEF Transmits, Transmission
        <3>2. [Transmit([s EXCEPT !.age = MaxAge], TRUE) EXCEPT !.age = 0].queue = s.queue
            BY <2>1, <3>1, LinkedTransmit, RequestsAreDelivers
        <3>3. program'.session = [Transmit([s EXCEPT !.age = MaxAge], TRUE) EXCEPT !.age = 0]
            BY <2>1, <3>1 DEF Programs
        <3> QED BY <2>3, <3>2, <3>3
    <2>5. CASE Executes
        BY <2>3, <2>5 DEF Executes, Execution
    <2>6. CASE Receives
        <3>1. reports # <<>> /\ reports' = Tail(reports)
            BY <2>6 DEF Receives
        <3>2. Len(Tail(reports)) = Len(reports) - 1 /\ Len(reports) \in Nat
            BY <2>1, <3>1, HeadTailProperties, LenProperties
        <3> QED BY <3>1, <3>2
    <2>7. ASSUME NEW s \in {NoValue, 0, 1}, NEW e \in Effects \cup {NoValue},
                 NEW b \in Levels \cup {NoValue}, NEW c \in Colours \cup {NoValue},
                 Makes([Nothing EXCEPT ![SWITCH] = s, ![EFFECT] = e, ![BRIGHTNESS] = b, ![RGB] = c])
          PROVE  only
        <3> DEFINE call == [Nothing EXCEPT ![SWITCH] = s, ![EFFECT] = e, ![BRIGHTNESS] = b, ![RGB] = c]
        <3>1. program' = Perform(program, call, FALSE)
            BY <2>7 DEF Makes
        <3> HIDE DEF call
        <3>2. Perform(program, call, FALSE).session = program.session
            BY <2>1 DEF Perform, update_state, Programs
        <3> QED BY <2>3, <3>1, <3>2
    <2>8. CASE Loop
        <3>1. Added(program.session, program'.session, request)
            BY <2>8, LoopStep
        <3> QED BY <3>1 DEF Added
    <2>9. ASSUME NEW on \in {0, 1}, SwitchPower(on) PROVE only
        <3> DEFINE t == Enqueue(Record(program.session, One(POWER, on)), Deliver(One(POWER, on)))
        <3>1. program' = program \/ program' = [program EXCEPT !.session = t]
            BY <2>9 DEF SwitchPower, Set
        <3>2. Tellable(POWER, on)
            BY LightDatapoints DEF Tellable
        <3>3. ComesLast(program.session, t, POWER, on)
            BY <2>1, <3>2, SentComes
        <3> HIDE DEF t
        <3>4. CASE program' = program
            BY <2>3, <3>4
        <3>5. CASE program' = [program EXCEPT !.session = t]
            <4>1. program'.session = t
                BY <2>1, <3>5 DEF Programs
            <4>2. ASSUME NEW i \in (Len(program.session.queue) + 1)..Len(t.queue)
                  PROVE  Written(t.queue[i].writes) \cap Settings = {}
                <5>1. i = Len(program.session.queue) + 1
                    BY <3>3 DEF ComesLast
                <5>2. t.queue[i].writes = One(POWER, on)
                    BY <3>2, <3>3, <5>1, TellOne DEF ComesLast
                <5>3. \A d \in Dps : d # POWER => One(POWER, on)[d] = NoValue
                    BY <3>2, TellOne
                <5> QED BY <5>2, <5>3, LightDatapoints DEF Written
            <4> QED BY <4>1, <4>2
        <3> QED BY <3>1, <3>4, <3>5
    <2>10. ASSUME NEW d \in {POWER} \cup Settings, NEW whole \in BOOLEAN, NEW v \in Possible(d),
                  Press(d, v, whole)
           PROVE  only
        BY <2>3, <2>10 DEF Press
    <2> HIDE DEF only
    <2> QED BY <2>4, <2>5, <2>6, <2>7, <2>8, <2>9, <2>10 DEF Next
<1>2. [][only]_vars => OnlyRequestsWritten
    BY PTL DEF OnlyRequestsWritten
<1> HIDE DEF only
<1> QED BY <1>1, <1>2, InvHolds, PTL DEF Spec
============================================================================
