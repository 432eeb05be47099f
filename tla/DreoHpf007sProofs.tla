-------------------------- MODULE DreoHpf007sProofs --------------------------
(***************************************************************************)
(* That the coordinator of the DR-HPF007S keeps both axes as they were     *)
(* switched, runs at the speed that was chosen, and writes settings only   *)
(* to a fan that is on.                                                    *)
(*                                                                         *)
(* Both are proved from one invariant, Inv, of the program, the MCU and    *)
(* the commands that come: those the MCU has yet to carry out, without the *)
(* readbacks.  It is stated of values, so that each lemma takes one        *)
(* operation of the coordinator or one step of the wire.                   *)
(***************************************************************************)
EXTENDS DreoHpf007s, DreoLinkProofs

(* What the coordinator has sent *)

Requests == {Deliver(One(POWER, v)) : v \in {0, 1}}
            \cup {Deliver(One(SPEED, v)) : v \in Speeds}
            \cup {Deliver(One(AXES, v)) : v \in AxesValues}

\* A request of d for v.
IsRequest(d, v) ==
    \/ d = POWER /\ v \in {0, 1}
    \/ d = SPEED /\ v \in Speeds
    \/ d = AXES /\ v \in AxesValues

LEMMA RequestIs ==
    ASSUME NEW d, NEW v, IsRequest(d, v)
    PROVE  /\ d \in Dps /\ v \in Values /\ v # NoValue
           /\ Deliver(One(d, v)) \in Requests
           /\ Deliver(One(d, v)).writes[d] = v
           /\ \A e \in Dps : e # d => Deliver(One(d, v)).writes[e] = NoValue
           /\ d \in {POWER, SPEED, AXES}
<1>1. d \in Dps /\ v \in Values
    BY HpfAssumption DEF IsRequest, AxesValues
<1>2. v # NoValue
    BY <1>1, DatapointsAssumption
<1>3. Deliver(One(d, v)).writes = One(d, v)
    BY DEF Deliver
<1>4. One(d, v)[d] = v /\ \A e \in Dps : e # d => One(d, v)[e] = NoValue
    BY <1>1 DEF One, Nothing
<1>5. Deliver(One(d, v)) \in Requests
    BY DEF IsRequest, Requests
<1> QED BY <1>1, <1>2, <1>3, <1>4, <1>5 DEF IsRequest

\* Each writes one datapoint.
LEMMA RequestWrites ==
    ASSUME NEW c \in Requests
    PROVE  /\ c.writes[POWER] \in {0, 1, NoValue}
           /\ c.writes[SPEED] \in Speeds \cup {NoValue}
           /\ c.writes[AXES] \in AxesValues \cup {NoValue}
           /\ c.writes[POWER] # NoValue => c.writes[SPEED] = NoValue /\ c.writes[AXES] = NoValue
           /\ \A e \in Dps : e \notin {POWER, SPEED, AXES} => c.writes[e] = NoValue
<1>1. PICK d, v : c = Deliver(One(d, v)) /\ IsRequest(d, v)
    BY DEF Requests, IsRequest
<1>2. POWER \in Dps /\ SPEED \in Dps /\ AXES \in Dps /\ POWER # SPEED /\ POWER # AXES /\ SPEED # AXES
    BY HpfAssumption DEF POWER, SPEED, AXES
<1>3. /\ c.writes[d] = v
      /\ \A e \in Dps : e # d => c.writes[e] = NoValue
      /\ v # NoValue /\ d \in {POWER, SPEED, AXES}
    BY <1>1, RequestIs
<1> QED BY <1>1, <1>2, <1>3 DEF IsRequest

LEMMA RequestsAreDelivers == Requests \subseteq Delivers
<1> SUFFICES ASSUME NEW c \in Requests PROVE c \in Delivers
    OBVIOUS
<1>1. PICK d, v : c = Deliver(One(d, v)) /\ IsRequest(d, v)
    BY DEF Requests, IsRequest
<1>2. d \in Dps /\ v \in Values
    BY <1>1, RequestIs
<1>3. One(d, v) \in Batches
    BY <1>2 DEF One, Nothing, Batches
<1> QED BY <1>1, <1>3 DEF Delivers

----------------------------------------------------------------------------
(* What holds of the commands that come *)

\* Settings come behind the power they need.
PowerFirst(m, coming) ==
    \A i \in 1..Len(coming) :
        coming[i].writes[SPEED] # NoValue \/ coming[i].writes[AXES] # NoValue
            => Becomes(m, coming, i - 1, POWER) = 1

\* At most one speed comes, which the coordinator does not know from the table.
OneSpeed(m, table, coming) ==
    \A i \in 1..Len(coming) : coming[i].writes[SPEED] # NoValue =>
        /\ m[SPEED] = table[SPEED]
        /\ coming[i].writes[SPEED] # table[SPEED]
        /\ \A j \in 1..Len(coming) : coming[j].writes[SPEED] # NoValue => i = j

NoSpeed(coming) == \A i \in 1..Len(coming) : coming[i].writes[SPEED] = NoValue
NoOff(coming) == \A i \in 1..Len(coming) : coming[i].writes[POWER] # 0

\* One more command.
LEMMA ComingOfAppend ==
    ASSUME NEW coming \in Seq(Requests), NEW c \in Requests, NEW m, NEW table
    PROVE  LET longer == Append(coming, c)
           IN  /\ longer \in Seq(Requests)
               /\ PowerFirst(m, coming)
                    /\ (c.writes[SPEED] # NoValue \/ c.writes[AXES] # NoValue => Will(m, coming, POWER) = 1)
                  => PowerFirst(m, longer)
               /\ OneSpeed(m, table, coming)
                    /\ (c.writes[SPEED] # NoValue => /\ NoSpeed(coming) /\ m[SPEED] = table[SPEED]
                                                     /\ c.writes[SPEED] # table[SPEED])
                  => OneSpeed(m, table, longer)
               /\ NoSpeed(coming) /\ c.writes[SPEED] = NoValue => NoSpeed(longer)
               /\ NoOff(coming) /\ c.writes[POWER] # 0 => NoOff(longer)
<1> DEFINE longer == Append(coming, c)
           n == Len(coming)
<1>1. /\ longer \in Seq(Requests) /\ Len(longer) = n + 1 /\ n \in Nat
      /\ longer[n + 1] = c
      /\ \A i \in 1..n : longer[i] = coming[i]
    BY AppendProperties, LenProperties
<1>2. \A i \in 0..n : Becomes(m, longer, i, POWER) = Becomes(m, coming, i, POWER)
    <2>1. Agree(m, longer, coming, POWER)
        BY WillOfAppend
    <2> QED BY <2>1 DEF Agree
<1> HIDE DEF longer
<1>3. Will(m, coming, POWER) = Becomes(m, coming, n, POWER)
    BY DEF Will
<1> HIDE DEF n
<1>4. \A i \in 1..(n + 1) : i \in 1..n \/ i = n + 1
    BY <1>1
<1>5. ASSUME PowerFirst(m, coming),
             c.writes[SPEED] # NoValue \/ c.writes[AXES] # NoValue => Will(m, coming, POWER) = 1
      PROVE  PowerFirst(m, longer)
    <2> SUFFICES ASSUME NEW i \in 1..(n + 1),
                        longer[i].writes[SPEED] # NoValue \/ longer[i].writes[AXES] # NoValue
                 PROVE  Becomes(m, longer, i - 1, POWER) = 1
        BY <1>1 DEF PowerFirst
    <2>1. i - 1 \in 0..n
        BY <1>1
    <2>2. CASE i \in 1..n
        BY <1>1, <1>2, <1>5, <2>1, <2>2 DEF PowerFirst, n
    <2>3. CASE i = n + 1
        <3>1. i - 1 = n /\ longer[i] = c
            BY <1>1, <2>3
        <3> QED BY <1>2, <1>3, <1>5, <2>1, <3>1
    <2> QED BY <1>4, <2>2, <2>3
<1>6. ASSUME OneSpeed(m, table, coming),
             c.writes[SPEED] # NoValue => /\ NoSpeed(coming) /\ m[SPEED] = table[SPEED]
                                          /\ c.writes[SPEED] # table[SPEED]
      PROVE  OneSpeed(m, table, longer)
    <2> SUFFICES ASSUME NEW i \in 1..(n + 1), longer[i].writes[SPEED] # NoValue
                 PROVE  /\ m[SPEED] = table[SPEED]
                        /\ longer[i].writes[SPEED] # table[SPEED]
                        /\ \A j \in 1..(n + 1) : longer[j].writes[SPEED] # NoValue => i = j
        BY <1>1 DEF OneSpeed
    <2>1. CASE c.writes[SPEED] # NoValue
        <3>1. \A j \in 1..n : longer[j].writes[SPEED] = NoValue
            BY <1>1, <1>6, <2>1 DEF NoSpeed, n
        <3> QED BY <1>1, <1>4, <1>6, <2>1, <3>1
    <2>2. CASE c.writes[SPEED] = NoValue
        BY <1>1, <1>4, <1>6, <2>2 DEF OneSpeed, n
    <2> QED BY <2>1, <2>2
<1>7. NoSpeed(coming) /\ c.writes[SPEED] = NoValue => NoSpeed(longer)
    BY <1>1, <1>4 DEF NoSpeed, n
<1>8. NoOff(coming) /\ c.writes[POWER] # 0 => NoOff(longer)
    BY <1>1, <1>4 DEF NoOff, n
<1> QED BY <1>1, <1>5, <1>6, <1>7, <1>8 DEF longer

\* The first command is carried out.
CarriedOut(coming, m, table) ==
    LET rest  == Tail(coming)
        first == Head(coming).writes
        after == Apply(m, first)
    IN  /\ rest \in Seq(Requests) /\ Head(coming) \in Requests /\ after \in States
        /\ PowerFirst(m, coming) => PowerFirst(after, rest)
        /\ PowerFirst(m, coming) /\ (first[SPEED] # NoValue \/ first[AXES] # NoValue)
             => m[POWER] = 1
        /\ OneSpeed(m, table, coming) => OneSpeed(after, table, rest)
        /\ NoSpeed(coming) => NoSpeed(rest) /\ after[SPEED] = m[SPEED]
        /\ NoOff(coming) => NoOff(rest) /\ (m[POWER] = 1 => after[POWER] = 1)

LEMMA ComingOfTail ==
    ASSUME NEW coming \in Seq(Requests), coming # <<>>, NEW m \in States, NEW table
    PROVE  CarriedOut(coming, m, table)
<1> DEFINE rest  == Tail(coming)
           c     == Head(coming)
           after == Apply(m, c.writes)
           n     == Len(rest)
<1>1. /\ rest \in Seq(Requests) /\ Len(coming) = n + 1 /\ n \in Nat
      /\ \A i \in 1..n : rest[i] = coming[i + 1]
      /\ c = coming[1] /\ c \in Requests
    BY HeadTailProperties, EmptySeq, LenProperties
<1>2. Follow(after, rest, m, coming, POWER)
    BY WillOfTail, HpfAssumption
<1>3. POWER \in Dps /\ SPEED \in Dps /\ AXES \in Dps
    BY HpfAssumption
<1> HIDE DEF rest
<1>4. \A i \in 0..n : Becomes(after, rest, i, POWER) = Becomes(m, coming, i + 1, POWER)
    BY <1>2 DEF Follow
<1>5. \A d \in Dps : after[d] = IF c.writes[d] # NoValue THEN c.writes[d] ELSE m[d]
    BY DEF Apply
<1>6. /\ c.writes[POWER] \in {0, 1, NoValue}
      /\ c.writes[SPEED] \in Speeds \cup {NoValue}
      /\ c.writes[AXES] \in AxesValues \cup {NoValue}
      /\ \A e \in Dps : e \notin {POWER, SPEED, AXES} => c.writes[e] = NoValue
    BY <1>1, RequestWrites
<1>7. after \in States
    <2>1. \A d \in Dps : after[d] \in Speeds \cup AxesValues
        BY <1>5, <1>6 DEF States, AxesValues
    <2>2. after \in [Dps -> Speeds \cup AxesValues]
        BY <2>1 DEF Apply
    <2> QED BY <1>3, <1>5, <1>6, <2>2 DEF States
<1>8. Becomes(m, coming, 0, POWER) = m[POWER]
    BY BecomesLast DEF Unwritten
<1> HIDE DEF after, c, n
<1>9. \A i \in 1..n : i + 1 \in 1..(n + 1) /\ i - 1 \in 0..n /\ (i - 1) + 1 = (i + 1) - 1
    BY <1>1
<1>10. 1 \in 1..(n + 1) /\ 1 - 1 = 0
    BY <1>1
<1>11. ASSUME PowerFirst(m, coming) PROVE PowerFirst(after, rest)
    <2> SUFFICES ASSUME NEW i \in 1..n, rest[i].writes[SPEED] # NoValue \/ rest[i].writes[AXES] # NoValue
                 PROVE  Becomes(after, rest, i - 1, POWER) = 1
        BY DEF PowerFirst, n
    <2>1. Becomes(after, rest, i - 1, POWER) = Becomes(m, coming, (i + 1) - 1, POWER)
        BY <1>4, <1>9
    <2>2. rest[i] = coming[i + 1] /\ i + 1 \in 1..Len(coming)
        BY <1>1, <1>9
    <2> QED BY <1>11, <2>1, <2>2 DEF PowerFirst
<1>12. ASSUME PowerFirst(m, coming), c.writes[SPEED] # NoValue \/ c.writes[AXES] # NoValue
       PROVE  m[POWER] = 1
    <2>1. 1 \in 1..Len(coming) /\ coming[1] = c
        BY <1>1, <1>10
    <2>2. Becomes(m, coming, 1 - 1, POWER) = 1
        BY <1>12, <2>1 DEF PowerFirst
    <2> QED BY <1>8, <1>10, <2>2
<1>13. ASSUME OneSpeed(m, table, coming) PROVE OneSpeed(after, table, rest)
    <2> SUFFICES ASSUME NEW i \in 1..n, rest[i].writes[SPEED] # NoValue
                 PROVE  /\ after[SPEED] = table[SPEED]
                        /\ rest[i].writes[SPEED] # table[SPEED]
                        /\ \A j \in 1..n : rest[j].writes[SPEED] # NoValue => i = j
        BY DEF OneSpeed, n
    <2>1. rest[i] = coming[i + 1] /\ i + 1 \in 1..Len(coming) /\ 1 \in 1..Len(coming)
        BY <1>1, <1>9
    <2>2. /\ m[SPEED] = table[SPEED]
          /\ rest[i].writes[SPEED] # table[SPEED]
          /\ \A j \in 1..Len(coming) : coming[j].writes[SPEED] # NoValue => i + 1 = j
        BY <1>13, <2>1 DEF OneSpeed
    <2>3. i + 1 # 1
        BY <1>1
    <2>4. c.writes[SPEED] = NoValue
        BY <1>1, <2>1, <2>2, <2>3
    <2>5. ASSUME NEW j \in 1..n, rest[j].writes[SPEED] # NoValue PROVE i = j
        <3>1. rest[j] = coming[j + 1] /\ j + 1 \in 1..Len(coming)
            BY <1>1, <1>9
        <3>2. i + 1 = j + 1
            BY <2>2, <2>5, <3>1
        <3> QED BY <1>1, <3>2
    <2> QED BY <1>3, <1>5, <2>2, <2>4, <2>5
<1>14. ASSUME NoSpeed(coming) PROVE NoSpeed(rest) /\ after[SPEED] = m[SPEED]
    <2>1. c.writes[SPEED] = NoValue
        BY <1>1, <1>10, <1>14 DEF NoSpeed
    <2>2. \A i \in 1..n : rest[i].writes[SPEED] = NoValue
        BY <1>1, <1>9, <1>14 DEF NoSpeed
    <2> QED BY <1>3, <1>5, <2>1, <2>2 DEF NoSpeed, n
<1>15. ASSUME NoOff(coming) PROVE NoOff(rest) /\ (m[POWER] = 1 => after[POWER] = 1)
    <2>1. c.writes[POWER] # 0
        BY <1>1, <1>10, <1>15 DEF NoOff
    <2>2. \A i \in 1..n : rest[i].writes[POWER] # 0
        BY <1>1, <1>9, <1>15 DEF NoOff
    <2> QED BY <1>3, <1>5, <1>6, <2>1, <2>2 DEF NoOff, n
<1> QED BY <1>1, <1>7, <1>11, <1>12, <1>13, <1>14, <1>15 DEF CarriedOut, rest, after, c

----------------------------------------------------------------------------
(* The invariant *)

Programs == [session      : Sessions,
             table        : States,
             queued_speed : Speeds \cup {NoValue},
             axes_target  : AxesValues \cup {NoValue}]

\* The program, the wire and the MCU go in step.
Wire(p, m, w, r) ==
    /\ p \in Programs /\ m \in States
    /\ Linked(p.session, Requests)
    /\ Reconciles(p.session)
    /\ InStep(p.session, m, w, r)
    /\ r \in {<<>>, <<m>>}
    /\ r = <<>> => p.table = m

\* While a speed waits for power none is written and no "off" comes, and power is
\* not confirmed: that would have written the speed.
SpeedWaits(p, m, coming) ==
    p.queued_speed # NoValue =>
        /\ NoOff(coming) /\ NoSpeed(coming)
        /\ m[SPEED] = p.table[SPEED]
        /\ ~power_confirmed_on(p)

\* A speed that waits for a fan that is off is not lost to the answer of a command:
\* the next one is the "on".
OnIsNext(p, m, r) ==
    p.queued_speed # NoValue /\ m[POWER] = 0 /\ r = <<>> =>
        p.session.queue = <<>> \/ Head(p.session.queue).writes[POWER] = 1

\* The speed that is meant is the one that waits, unless a report comes that drops
\* it, or else the one that is commanded.
SpeedIsMeant(p, m, coming, r, speed) ==
    speed = IF p.queued_speed # NoValue /\ ~(r # <<>> /\ m[POWER] = 0)
            THEN p.queued_speed ELSE Will(m, coming, SPEED)

\* axes_target is what is pending.
TargetIsPending(p) ==
    p.session.pending[AXES] # NoValue => p.axes_target = p.session.pending[AXES]

AxesAreMeant(m, coming, axes) == Active(Will(m, coming, AXES)) = axes

Holds(p, m, w, r, speed, axes) ==
    LET coming == ComingOf(p.session, w)
    IN  /\ Wire(p, m, w, r)
        /\ PowerFirst(m, coming)
        /\ OneSpeed(m, p.table, coming)
        /\ SpeedWaits(p, m, coming)
        /\ OnIsNext(p, m, r)
        /\ SpeedIsMeant(p, m, coming, r, speed)
        /\ TargetIsPending(p)
        /\ AxesAreMeant(m, coming, axes)

Inv == Holds(program, mcu, toMcu, reports, chosen, swinging)

----------------------------------------------------------------------------
(* Controls *)

\* What Set does to the session.
Asked(s, t, table, d, v) ==
    \/ Sends(s, t, d, v) /\ (table[d] # v \/ s.pending[d] \notin {NoValue, v})
    \/ t = s /\ table[d] = v /\ s.pending[d] \in {NoValue, v}

\* What Set does to the program.
Requested(p, q, d, v) ==
    /\ q \in Programs
    /\ Linked(q.session, Requests)
    /\ q.table = p.table /\ q.queued_speed = p.queued_speed /\ q.axes_target = p.axes_target
    /\ Asked(p.session, q.session, p.table, d, v)
    /\ ~NeedsSend(p.session, p.table, One(d, v), FALSE) => q = p

LEMMA SetAsks ==
    ASSUME NEW p \in Programs, Linked(p.session, Requests), NEW d, NEW v, IsRequest(d, v)
    PROVE  Requested(p, Set(p, d, v), d, v)
<1> DEFINE q == Set(p, d, v)
           s == p.session
           t == Enqueue(Record(s, One(d, v)), Deliver(One(d, v)))
<1>1. d \in Dps /\ v \in Values /\ v # NoValue /\ Deliver(One(d, v)) \in Requests
    BY RequestIs
<1>2. Linked(t, Requests) /\ Sends(s, t, d, v)
    BY <1>1, LinkedSend, RequestsAreDelivers
<1>3. t \in Sessions
    BY <1>2 DEF Linked
<1> HIDE DEF t
<1>4. CASE NeedsSend(s, p.table, One(d, v), FALSE)
    <2>1. q = [p EXCEPT !.session = t]
        BY <1>4 DEF Set, t, Programs
    <2>2. /\ q \in Programs /\ q.session = t
          /\ q.table = p.table /\ q.queued_speed = p.queued_speed /\ q.axes_target = p.axes_target
        BY <1>3, <2>1 DEF Programs
    <2>3. p.table[d] # v \/ s.pending[d] \notin {NoValue, v}
        BY <1>4 DEF NeedsSend, PendingDiffers, Written, One, Nothing
    <2> QED BY <1>2, <1>4, <2>2, <2>3 DEF Asked, Requested
<1>5. CASE ~NeedsSend(s, p.table, One(d, v), FALSE)
    <2>1. q = p
        BY <1>5 DEF Set
    <2>2. One(d, v)[d] = v /\ d \in Written(One(d, v))
        BY <1>1 DEF One, Nothing, Written
    <2>3. p.table[d] = v /\ ~PendingDiffers(s, d, v)
        BY <1>5, <2>2 DEF NeedsSend
    <2>4. s.pending[d] \in {NoValue, v}
        BY <1>1, <2>3 DEF PendingDiffers, Linked
    <2> QED BY <1>5, <2>1, <2>3, <2>4 DEF Asked, Requested
<1> QED BY <1>4, <1>5

\* What the wire and what comes are after it, when the program is otherwise as
\* before or notes something.
Sent(s, t, w, table, d, v) ==
    \/ /\ t # s
       /\ table[d] # v \/ s.pending[d] \notin {NoValue, v}
       /\ ComingOf(t, w) = Append(ComingOf(s, w), Deliver(One(d, v)))
       /\ Head(t.queue) = IF s.queue = <<>> THEN Deliver(One(d, v)) ELSE Head(s.queue)
       /\ t.pending = [s.pending EXCEPT ![d] = IF d \in Transition THEN v ELSE @]
    \/ t = s /\ table[d] = v /\ s.pending[d] \in {NoValue, v}

LEMMA AskedWire ==
    ASSUME NEW p, NEW m, NEW w, NEW r, Wire(p, m, w, r), r # <<>> => InFlight(p.session),
           NEW q \in Programs, Linked(q.session, Requests), q.table = p.table,
           NEW d, NEW v, IsRequest(d, v), Asked(p.session, q.session, p.table, d, v)
    PROVE  Wire(q, m, w, r) /\ Sent(p.session, q.session, w, p.table, d, v)
<1>1. d \in Dps /\ v \in Values
    BY RequestIs
<1>2. ASSUME Sends(p.session, q.session, d, v),
             p.table[d] # v \/ p.session.pending[d] \notin {NoValue, v}
      PROVE  /\ Wire(q, m, w, r)
             /\ q.session # p.session
             /\ ComingOf(q.session, w) = Append(ComingOf(p.session, w), Deliver(One(d, v)))
    <2>1. /\ InStep(q.session, m, w, r)
          /\ ComingOf(q.session, w) = Append(ComingOf(p.session, w), Deliver(One(d, v)))
        <3>1. Linked(p.session, Requests) /\ InStep(p.session, m, w, r)
            BY DEF Wire
        <3>2. Joins(p.session, q.session, m, w, r, Deliver(One(d, v)))
            BY <1>1, <1>2, <3>1, InStepSend, RequestsAreDelivers
        <3> QED BY <3>2 DEF Joins
    <2>2. Reconciles(q.session)
        BY <1>2 DEF Sends, Wire
    <2>3. q.session # p.session
        <3>1. p.session.queue \in Seq(Commands)
            BY DEF Wire, Linked, Sessions
        <3>2. q.session.queue = Append(p.session.queue, Deliver(One(d, v)))
            BY <1>2 DEF Sends
        <3>3. Len(q.session.queue) = Len(p.session.queue) + 1 /\ Len(p.session.queue) \in Nat
            BY <3>1, <3>2, LenProperties
        <3> QED BY <3>3
    <2> QED BY <2>1, <2>2, <2>3 DEF Wire
<1>3. CASE /\ q.session = p.session
           /\ p.table[d] = v /\ p.session.pending[d] \in {NoValue, v}
    BY <1>3 DEF Wire, Sent
<1> QED BY <1>2, <1>3 DEF Asked, Sends, Sent

\* When the table has the speed that is commanded, none is being written.
LEMMA SpeedIsKnown ==
    ASSUME NEW coming \in Seq(Requests), NEW m, NEW table, OneSpeed(m, table, coming),
           table[SPEED] = Will(m, coming, SPEED)
    PROVE  NoSpeed(coming) /\ m[SPEED] = table[SPEED]
<1>1. Len(coming) \in Nat
    BY LenProperties
<1>2. CASE Unwritten(coming, Len(coming), SPEED)
    <2>1. Will(m, coming, SPEED) = m[SPEED]
        BY <1>1, <1>2, BecomesLast DEF Will
    <2> QED BY <1>2, <2>1 DEF Unwritten, NoSpeed
<1>3. ASSUME NEW i, LastWrite(coming, Len(coming), SPEED, i) PROVE FALSE
    <2>1. Will(m, coming, SPEED) = coming[i].writes[SPEED]
        BY <1>1, <1>3, BecomesLast DEF Will
    <2> QED BY <1>3, <2>1 DEF LastWrite, OneSpeed
<1> QED BY <1>1, <1>2, <1>3, BecomesLast

\* What is asked for is what its datapoint becomes, and the others become what they
\* did; power stays ahead of settings, and there is one speed.
Asking(s, t, w, m, table, d, v) ==
    LET coming == ComingOf(s, w)
        after  == ComingOf(t, w)
    IN  /\ PowerFirst(m, after) /\ OneSpeed(m, table, after)
        /\ Will(m, after, d) = v
        /\ \A e \in {POWER, SPEED, AXES} : e # d => Will(m, after, e) = Will(m, coming, e)
        /\ NoOff(coming) /\ (d = POWER => v = 1) => NoOff(after)
        /\ NoSpeed(coming) /\ d # SPEED => NoSpeed(after)
        /\ \A e \in {POWER, SPEED, AXES} : e # d => t.pending[e] = s.pending[e]
        /\ t.pending[d] \in {NoValue, v}
        /\ s.pending[d] # NoValue => t.pending[d] # NoValue
        /\ t.queue = s.queue \/ Head(t.queue) = IF s.queue = <<>> THEN Deliver(One(d, v)) ELSE Head(s.queue)

LEMMA AskedComes ==
    ASSUME NEW p, NEW m, NEW w, NEW r, Wire(p, m, w, r), r # <<>> => InFlight(p.session),
           PowerFirst(m, ComingOf(p.session, w)), OneSpeed(m, p.table, ComingOf(p.session, w)),
           NEW q \in Programs, Linked(q.session, Requests), q.table = p.table,
           NEW d, NEW v, IsRequest(d, v), Asked(p.session, q.session, p.table, d, v),
           d # POWER /\ q.session # p.session => Will(m, ComingOf(p.session, w), POWER) = 1,
           Target(p.session, p.table, d) = Will(m, ComingOf(p.session, w), d)
    PROVE  /\ Wire(q, m, w, r)
           /\ Asking(p.session, q.session, w, m, p.table, d, v)
<1> DEFINE coming == ComingOf(p.session, w)
           after  == ComingOf(q.session, w)
           c      == Deliver(One(d, v))
<1>1. Linked(p.session, Requests) /\ p.session \in Sessions
    BY DEF Wire, Linked
<1>2. coming \in Seq(Requests)
    BY <1>1, ComingType, RequestsAreDelivers
<1>3. /\ d \in Dps /\ c \in Requests /\ c.writes[d] = v /\ v # NoValue
      /\ \A e \in Dps : e # d => c.writes[e] = NoValue
      /\ d \in {POWER, SPEED, AXES}
    BY RequestIs
<1>4. POWER \in Dps /\ SPEED \in Dps /\ AXES \in Dps /\ POWER # SPEED /\ POWER # AXES /\ SPEED # AXES
    BY HpfAssumption DEF POWER, SPEED, AXES
<1>5. p.session.pending \in Batches
    BY <1>1 DEF Sessions
<1>6. Wire(q, m, w, r)
    BY AskedWire
<1>7. ASSUME q.session # p.session,
             p.table[d] # v \/ p.session.pending[d] \notin {NoValue, v},
             after = Append(coming, c),
             Head(q.session.queue) = IF p.session.queue = <<>> THEN c ELSE Head(p.session.queue),
             q.session.pending = [p.session.pending EXCEPT ![d] = IF d \in Transition THEN v ELSE @]
      PROVE  Asking(p.session, q.session, w, m, p.table, d, v)
    <2>1. d # POWER => Will(m, coming, POWER) = 1
        BY <1>7
    <2>2. /\ Will(m, Append(coming, c), d) = v
          /\ \A e \in {POWER, SPEED, AXES} : e # d => Will(m, Append(coming, c), e) = Will(m, coming, e)
        BY <1>2, <1>3, <1>4, WillOfAppend
    <2>3. ASSUME d = SPEED
          PROVE  NoSpeed(coming) /\ m[SPEED] = p.table[SPEED] /\ v # p.table[SPEED]
        <3>1. p.session.pending[SPEED] = NoValue
            BY <1>1, <1>4, HpfAssumption DEF Linked
        <3>2. p.table[SPEED] = Will(m, coming, SPEED) /\ p.table[SPEED] # v
            BY <1>7, <2>3, <3>1 DEF Target
        <3>3. NoSpeed(coming) /\ m[SPEED] = p.table[SPEED]
            BY <1>2, <3>2, SpeedIsKnown
        <3> QED BY <3>2, <3>3
    <2>4. c.writes[SPEED] # NoValue \/ c.writes[AXES] # NoValue => Will(m, coming, POWER) = 1
        BY <1>3, <1>4, <2>1
    <2>5. c.writes[SPEED] # NoValue => /\ NoSpeed(coming) /\ m[SPEED] = p.table[SPEED]
                                       /\ c.writes[SPEED] # p.table[SPEED]
        BY <1>3, <1>4, <2>3
    <2>6. (d = POWER /\ v = 1) \/ d # POWER => c.writes[POWER] # 0
        <3>1. NoValue # 0
            BY HpfAssumption, DatapointsAssumption DEF AxesValues
        <3> QED BY <1>3, <1>4, <3>1
    <2>7. d # SPEED => c.writes[SPEED] = NoValue
        BY <1>3, <1>4
    <2> HIDE DEF coming, c, after
    <2>8. /\ PowerFirst(m, after) /\ OneSpeed(m, p.table, after)
          /\ NoSpeed(coming) /\ c.writes[SPEED] = NoValue => NoSpeed(after)
          /\ NoOff(coming) /\ c.writes[POWER] # 0 => NoOff(after)
        <3>1. c \in Requests
            BY <1>3
        <3>2. PowerFirst(m, coming) /\ OneSpeed(m, p.table, coming)
            BY DEF coming
        <3> QED BY <1>2, <1>7, <2>4, <2>5, <3>1, <3>2, ComingOfAppend
    <2>9. /\ \A e \in {POWER, SPEED, AXES} : e # d => q.session.pending[e] = p.session.pending[e]
          /\ q.session.pending[d] \in {NoValue, v}
          /\ p.session.pending[d] # NoValue => q.session.pending[d] # NoValue
        <3>1. p.session.pending[d] # NoValue => d \in Transition
            BY <1>1, <1>3 DEF Linked
        <3> QED BY <1>3, <1>4, <1>5, <1>7, <3>1 DEF Batches
    <2> QED BY <1>7, <2>2, <2>6, <2>7, <2>8, <2>9 DEF Asking, coming, after, c
<1>8. ASSUME q.session = p.session, p.table[d] = v, p.session.pending[d] \in {NoValue, v}
      PROVE  Asking(p.session, q.session, w, m, p.table, d, v)
    <2>1. Will(m, coming, d) = v
        BY <1>8 DEF Target
    <2> QED BY <1>8, <2>1 DEF Asking
<1>9. Sent(p.session, q.session, w, p.table, d, v)
    BY AskedWire
<1>10. \/ /\ q.session # p.session
          /\ p.table[d] # v \/ p.session.pending[d] \notin {NoValue, v}
          /\ after = Append(coming, c)
          /\ Head(q.session.queue) = IF p.session.queue = <<>> THEN c ELSE Head(p.session.queue)
          /\ q.session.pending = [p.session.pending EXCEPT ![d] = IF d \in Transition THEN v ELSE @]
       \/ q.session = p.session /\ p.table[d] = v /\ p.session.pending[d] \in {NoValue, v}
    BY <1>9 DEF Sent
<1> HIDE DEF coming, after, c
<1> QED BY <1>6, <1>7, <1>8, <1>10

\* What is pending for a datapoint, or else known of it, is what it becomes.
Current(p, m, w, d) == Target(p.session, p.table, d) = Will(m, ComingOf(p.session, w), d)

LEMMA HpfDatapoints ==
    /\ POWER \in Dps /\ SPEED \in Dps /\ AXES \in Dps
    /\ POWER # SPEED /\ POWER # AXES /\ SPEED # AXES
    /\ NoValue \notin AxesValues /\ NoValue \notin Speeds
BY HpfAssumption, DatapointsAssumption DEF POWER, SPEED, AXES

\* control_fan with turn_off: no speed waits any more, and the one that is commanded
\* is the one that is meant.
LEMMA FanOffHolds ==
    ASSUME NEW p, NEW m, NEW w, NEW r, NEW speed, NEW axes, Holds(p, m, w, r, speed, axes),
           r # <<>> => InFlight(p.session), Current(p, m, w, POWER)
    PROVE  Holds(FanOff(p), m, w, r, Will(m, ComingOf(p.session, w), SPEED), axes)
<1> DEFINE p1 == [p EXCEPT !.queued_speed = NoValue]
           q  == FanOff(p)
           coming == ComingOf(p.session, w)
           after  == ComingOf(q.session, w)
<1>1. /\ Wire(p, m, w, r) /\ PowerFirst(m, coming) /\ OneSpeed(m, p.table, coming)
      /\ TargetIsPending(p) /\ AxesAreMeant(m, coming, axes)
    BY DEF Holds
<1>2. p \in Programs /\ Linked(p.session, Requests)
    BY <1>1 DEF Wire
<1>3. /\ p1 \in Programs /\ p1.session = p.session /\ p1.table = p.table
      /\ p1.queued_speed = NoValue /\ p1.axes_target = p.axes_target
    BY <1>2 DEF Programs
<1>4. IsRequest(POWER, 0)
    BY DEF IsRequest
<1>5. q = Set(p1, POWER, 0)
    BY DEF FanOff
<1> HIDE DEF p1, q
<1>6. /\ q \in Programs /\ Linked(q.session, Requests) /\ q.table = p.table
      /\ q.queued_speed = NoValue /\ q.axes_target = p.axes_target
      /\ Asked(p.session, q.session, p.table, POWER, 0)
    <2>1. Requested(p1, q, POWER, 0)
        BY <1>2, <1>3, <1>4, <1>5, SetAsks
    <2> QED BY <1>3, <2>1 DEF Requested
<1>7. Wire(q, m, w, r) /\ Asking(p.session, q.session, w, m, p.table, POWER, 0)
    BY <1>1, <1>4, <1>6, AskedComes DEF Current
<1>8. /\ PowerFirst(m, after) /\ OneSpeed(m, q.table, after)
      /\ Will(m, after, SPEED) = Will(m, coming, SPEED)
      /\ Will(m, after, AXES) = Will(m, coming, AXES)
      /\ q.session.pending[AXES] = p.session.pending[AXES]
    BY <1>6, <1>7, HpfDatapoints DEF Asking
<1> HIDE DEF coming, after
<1>9. /\ SpeedWaits(q, m, after) /\ OnIsNext(q, m, r)
      /\ SpeedIsMeant(q, m, after, r, Will(m, coming, SPEED))
    BY <1>6, <1>8 DEF SpeedWaits, OnIsNext, SpeedIsMeant
<1>10. TargetIsPending(q) /\ AxesAreMeant(m, after, axes)
    BY <1>1, <1>6, <1>8 DEF TargetIsPending, AxesAreMeant
<1> QED BY <1>7, <1>8, <1>9, <1>10 DEF Holds, coming, after, q

\* OffToCome, of a session and the MCU's power.
OffComes(s, m) ==
    \/ m[POWER] = 0 /\ s.queue # <<>> /\ Head(s.queue).writes[POWER] # 1
    \/ \E i \in 1..Len(s.queue) : s.queue[i].writes[POWER] = 0

\* A speed that is chosen while power is not confirmed waits for it.
LEMMA SpeedWaitsHolds ==
    ASSUME NEW p, NEW m, NEW w, NEW r, NEW speed, NEW axes, Holds(p, m, w, r, speed, axes),
           r # <<>> => InFlight(p.session),
           Current(p, m, w, SPEED), ~power_confirmed_on(p), ~OffComes(p.session, m),
           NEW v \in Speeds
    PROVE  Holds([p EXCEPT !.queued_speed = v], m, w, r, v, axes)
<1> DEFINE q == [p EXCEPT !.queued_speed = v]
           s == p.session
           coming == ComingOf(s, w)
<1>1. /\ Wire(p, m, w, r) /\ PowerFirst(m, coming) /\ OneSpeed(m, p.table, coming)
      /\ TargetIsPending(p) /\ AxesAreMeant(m, coming, axes)
    BY DEF Holds
<1>2. p \in Programs /\ Linked(s, Requests) /\ InStep(s, m, w, r)
    BY <1>1 DEF Wire
<1>3. /\ q \in Programs /\ q.session = s /\ q.table = p.table
      /\ q.queued_speed = v /\ q.axes_target = p.axes_target /\ v # NoValue
    BY <1>2, HpfDatapoints DEF Programs
<1>4. coming \in Seq(Requests)
    BY <1>2, ComingType, RequestsAreDelivers
<1> HIDE DEF q
<1>5. NoOff(coming)
    <2> SUFFICES ASSUME NEW i \in 1..Len(coming) PROVE coming[i].writes[POWER] # 0
        BY DEF NoOff
    <2>1. Queued(s, coming[i])
        BY <1>2, ComingIsQueued, RequestsAreDelivers
    <2> QED BY <2>1 DEF OffComes, Queued
<1>6. NoSpeed(coming) /\ m[SPEED] = p.table[SPEED]
    <2>1. s.pending[SPEED] = NoValue
        BY <1>2, HpfDatapoints, HpfAssumption DEF Linked
    <2>2. p.table[SPEED] = Will(m, coming, SPEED)
        BY <2>1 DEF Current, Target
    <2> QED BY <1>1, <1>4, <2>2, SpeedIsKnown
<1>7. ~(r # <<>> /\ m[POWER] = 0)
    <2> SUFFICES ASSUME r # <<>>, m[POWER] = 0 PROVE FALSE
        OBVIOUS
    <2>1. InFlight(s) /\ w = <<>> /\ s.queue # <<>>
        BY <1>2 DEF InStep, Linked, SessionInv, HeadIsAwaited
    <2>2. Head(s.queue).writes[POWER] \in {NoValue, 0}
        BY <1>2, <2>1, HpfDatapoints DEF InStep
    <2>3. NoValue # 1
        BY HpfDatapoints DEF AxesValues
    <2> QED BY <2>1, <2>2, <2>3 DEF OffComes
<1>8. Wire(q, m, w, r)
    BY <1>1, <1>3 DEF Wire
<1>9. SpeedWaits(q, m, coming)
    BY <1>3, <1>5, <1>6 DEF SpeedWaits, power_confirmed_on, IsTrue, IsPending
<1>10. OnIsNext(q, m, r)
    <2>1. m[POWER] # 0 \/ s.queue = <<>> \/ Head(s.queue).writes[POWER] = 1
        BY DEF OffComes
    <2> QED BY <1>3, <2>1 DEF OnIsNext
<1>11. SpeedIsMeant(q, m, coming, r, v)
    BY <1>3, <1>7 DEF SpeedIsMeant
<1>12. TargetIsPending(q)
    BY <1>1, <1>3 DEF TargetIsPending
<1> QED BY <1>1, <1>3, <1>8, <1>9, <1>10, <1>11, <1>12 DEF Holds, q

\* "on" is asked for: what waits, waits on.
LEMMA PowerHolds ==
    ASSUME NEW p, NEW m, NEW w, NEW r, NEW speed, NEW axes, Holds(p, m, w, r, speed, axes),
           r # <<>> => InFlight(p.session), Current(p, m, w, POWER), ~power_confirmed_on(p)
    PROVE  Holds(Set(p, POWER, 1), m, w, r, speed, axes)
<1> DEFINE q == Set(p, POWER, 1)
           coming == ComingOf(p.session, w)
           after  == ComingOf(q.session, w)
<1>1. /\ Wire(p, m, w, r) /\ PowerFirst(m, coming) /\ OneSpeed(m, p.table, coming)
      /\ SpeedWaits(p, m, coming) /\ OnIsNext(p, m, r) /\ SpeedIsMeant(p, m, coming, r, speed)
      /\ TargetIsPending(p) /\ AxesAreMeant(m, coming, axes)
    BY DEF Holds
<1>2. p \in Programs /\ Linked(p.session, Requests)
    BY <1>1 DEF Wire
<1>3. IsRequest(POWER, 1) /\ q = Set(p, POWER, 1)
    BY DEF IsRequest
<1> HIDE DEF q
<1>4. /\ q \in Programs /\ Linked(q.session, Requests) /\ q.table = p.table
      /\ q.queued_speed = p.queued_speed /\ q.axes_target = p.axes_target
      /\ Asked(p.session, q.session, p.table, POWER, 1)
    <2>1. Requested(p, q, POWER, 1)
        BY <1>2, <1>3, SetAsks
    <2> QED BY <2>1 DEF Requested
<1>5. Wire(q, m, w, r) /\ Asking(p.session, q.session, w, m, p.table, POWER, 1)
    BY <1>1, <1>3, <1>4, AskedComes DEF Current
<1>6. /\ PowerFirst(m, after) /\ OneSpeed(m, q.table, after)
      /\ Will(m, after, SPEED) = Will(m, coming, SPEED)
      /\ Will(m, after, AXES) = Will(m, coming, AXES)
      /\ q.session.pending[AXES] = p.session.pending[AXES]
      /\ p.session.pending[POWER] # NoValue => q.session.pending[POWER] # NoValue
      /\ NoOff(coming) => NoOff(after)
      /\ NoSpeed(coming) => NoSpeed(after)
    BY <1>4, <1>5, HpfDatapoints DEF Asking
<1>7. \/ q.session.queue = p.session.queue
      \/ /\ p.session.queue = <<>>
         /\ Head(q.session.queue).writes[POWER] = 1
      \/ /\ p.session.queue # <<>>
         /\ Head(q.session.queue) = Head(p.session.queue)
    <2>1. Deliver(One(POWER, 1)).writes[POWER] = 1
        BY <1>3, RequestIs
    <2> QED BY <1>5, <2>1 DEF Asking
<1> HIDE DEF coming, after
<1>8. SpeedWaits(q, m, after)
    BY <1>1, <1>4, <1>6 DEF SpeedWaits, power_confirmed_on, IsTrue, IsPending
<1>9. OnIsNext(q, m, r)
    BY <1>1, <1>4, <1>7 DEF OnIsNext
<1>10. SpeedIsMeant(q, m, after, r, speed)
    BY <1>1, <1>4, <1>6 DEF SpeedIsMeant
<1>11. TargetIsPending(q) /\ AxesAreMeant(m, after, axes)
    BY <1>1, <1>4, <1>6 DEF TargetIsPending, AxesAreMeant
<1> QED BY <1>5, <1>6, <1>8, <1>9, <1>10, <1>11 DEF Holds, coming, after, q

\* A speed that is chosen while power is confirmed is written.
LEMMA SpeedIsSet ==
    ASSUME NEW p, NEW m, NEW w, NEW r, NEW speed, NEW axes, Holds(p, m, w, r, speed, axes),
           r # <<>> => InFlight(p.session),
           Current(p, m, w, POWER), Current(p, m, w, SPEED), power_confirmed_on(p),
           NEW v \in Speeds
    PROVE  Holds(SetSetting(p, SPEED, v), m, w, r, v, axes)
<1> DEFINE q == SetSetting(p, SPEED, v)
           coming == ComingOf(p.session, w)
           after  == ComingOf(q.session, w)
<1>1. /\ Wire(p, m, w, r) /\ PowerFirst(m, coming) /\ OneSpeed(m, p.table, coming)
      /\ SpeedWaits(p, m, coming)
      /\ TargetIsPending(p) /\ AxesAreMeant(m, coming, axes)
    BY DEF Holds
<1>2. p \in Programs /\ Linked(p.session, Requests)
    BY <1>1 DEF Wire
<1>3. IsRequest(SPEED, v) /\ q = Set(p, SPEED, v)
    BY DEF IsRequest, SetSetting, Accepts
<1> HIDE DEF q
<1>4. /\ q \in Programs /\ Linked(q.session, Requests) /\ q.table = p.table
      /\ q.queued_speed = p.queued_speed /\ q.axes_target = p.axes_target
      /\ Asked(p.session, q.session, p.table, SPEED, v)
    BY <1>2, <1>3, SetAsks DEF Requested
<1>5. Will(m, coming, POWER) = 1
    BY DEF Current, Target, power_confirmed_on, IsTrue, IsPending
<1>6. Wire(q, m, w, r) /\ Asking(p.session, q.session, w, m, p.table, SPEED, v)
    BY <1>1, <1>3, <1>4, <1>5, AskedComes DEF Current
<1>7. /\ PowerFirst(m, after) /\ OneSpeed(m, q.table, after)
      /\ Will(m, after, SPEED) = v
      /\ Will(m, after, AXES) = Will(m, coming, AXES)
      /\ q.session.pending[AXES] = p.session.pending[AXES]
    BY <1>4, <1>6, HpfDatapoints DEF Asking
<1>8. q.queued_speed = NoValue
    BY <1>1, <1>4 DEF SpeedWaits
<1> HIDE DEF coming, after
<1>9. SpeedWaits(q, m, after) /\ OnIsNext(q, m, r) /\ SpeedIsMeant(q, m, after, r, v)
    BY <1>7, <1>8 DEF SpeedWaits, OnIsNext, SpeedIsMeant
<1>10. TargetIsPending(q) /\ AxesAreMeant(m, after, axes)
    BY <1>1, <1>4, <1>7 DEF TargetIsPending, AxesAreMeant
<1> QED BY <1>6, <1>7, <1>9, <1>10 DEF Holds, coming, after, q

\* The combined value of the axes is that in which one is switched and the other is
\* as before.
LEMMA CombinedSwitches ==
    ASSUME NEW base \in AxesValues, NEW axis \in Axes, NEW on \in BOOLEAN
    PROVE  /\ Combined(base, axis, on) \in AxesValues
           /\ Active(Combined(base, axis, on)) = IF on THEN Active(base) \cup {axis}
                                                ELSE Active(base) \ {axis}
<1> DEFINE wanted == IF on THEN (Active(base) \ {axis}) \cup {axis} ELSE Active(base) \ {axis}
<1>1. wanted \subseteq Axes
    BY DEF Active
<1>2. \E axes \in AxesValues : Active(axes) = wanted
    <2>1. axis_bit["HORIZONTAL"] = 1 /\ axis_bit["VERTICAL"] = 2
        BY DEF axis_bit
    <2>2. /\ (0 \div 1) % 2 = 0 /\ (0 \div 2) % 2 = 0
          /\ (1 \div 1) % 2 = 1 /\ (1 \div 2) % 2 = 0
          /\ (2 \div 1) % 2 = 0 /\ (2 \div 2) % 2 = 1
          /\ (3 \div 1) % 2 = 1 /\ (3 \div 2) % 2 = 1
        OBVIOUS
    <2>3. /\ Active(0) = {} /\ Active(1) = {"HORIZONTAL"}
          /\ Active(2) = {"VERTICAL"} /\ Active(3) = {"HORIZONTAL", "VERTICAL"}
        BY <2>1, <2>2 DEF Active, Axes
    <2>4. wanted \in {{}, {"HORIZONTAL"}, {"VERTICAL"}, {"HORIZONTAL", "VERTICAL"}}
        BY <1>1 DEF Axes
    <2> QED BY <2>3, <2>4 DEF AxesValues
<1>3. wanted = IF on THEN Active(base) \cup {axis} ELSE Active(base) \ {axis}
    OBVIOUS
<1>4. Combined(base, axis, on) = CHOOSE axes \in AxesValues : Active(axes) = wanted
    BY DEF Combined
<1> HIDE DEF wanted
<1> QED BY <1>2, <1>3, <1>4

\* control_axis
LEMMA AxisHolds ==
    ASSUME NEW p, NEW m, NEW w, NEW r, NEW speed, NEW axes, Holds(p, m, w, r, speed, axes),
           r # <<>> => InFlight(p.session),
           Current(p, m, w, POWER), Current(p, m, w, AXES),
           NEW axis \in Axes, NEW on \in BOOLEAN
    PROVE  Holds(control_axis(p, axis, on), m, w, r, speed,
                 IF ~power_confirmed_on(p) THEN axes
                 ELSE IF on THEN axes \cup {axis} ELSE axes \ {axis})
<1> DEFINE base     == axes_base(p)
           combined == Combined(base, axis, on)
           u        == Set(p, AXES, combined)
           q        == control_axis(p, axis, on)
           coming   == ComingOf(p.session, w)
           after    == ComingOf(q.session, w)
           wanted   == IF ~power_confirmed_on(p) THEN axes
                       ELSE IF on THEN axes \cup {axis} ELSE axes \ {axis}
<1>1. /\ Wire(p, m, w, r) /\ PowerFirst(m, coming) /\ OneSpeed(m, p.table, coming)
      /\ SpeedWaits(p, m, coming) /\ OnIsNext(p, m, r) /\ SpeedIsMeant(p, m, coming, r, speed)
      /\ TargetIsPending(p) /\ AxesAreMeant(m, coming, axes)
    BY DEF Holds
<1>2. p \in Programs /\ Linked(p.session, Requests) /\ p.table[AXES] \in AxesValues
    BY <1>1 DEF Wire, Programs, States
<1>3. base = Will(m, coming, AXES) /\ base \in AxesValues
    <2>1. CASE p.session.pending[AXES] # NoValue
        <3>1. p.axes_target = p.session.pending[AXES] /\ p.axes_target \in AxesValues
            BY <1>1, <1>2, <2>1 DEF TargetIsPending, Programs
        <3> QED BY <2>1, <3>1 DEF axes_base, IsPending, Current, Target
    <2>2. CASE p.session.pending[AXES] = NoValue
        BY <1>2, <2>2 DEF axes_base, IsPending, Current, Target
    <2> QED BY <2>1, <2>2
<1>4. /\ combined \in AxesValues
      /\ Active(combined) = IF on THEN axes \cup {axis} ELSE axes \ {axis}
    <2>1. Active(base) = axes
        BY <1>1, <1>3 DEF AxesAreMeant
    <2> HIDE DEF base
    <2> QED BY <1>3, <2>1, CombinedSwitches
<1>5. IsRequest(AXES, combined)
    BY <1>4 DEF IsRequest
<1>6. q = IF Accepts(p, AXES, combined) THEN [u EXCEPT !.axes_target = combined] ELSE p
    BY DEF control_axis
<1>7. u = Set(p, AXES, combined)
    OBVIOUS
<1> HIDE DEF base, combined, u, q
<1>8. /\ u \in Programs /\ Linked(u.session, Requests) /\ u.table = p.table
      /\ u.queued_speed = p.queued_speed
      /\ Asked(p.session, u.session, p.table, AXES, combined)
      /\ ~NeedsSend(p.session, p.table, One(AXES, combined), FALSE) => u = p
    BY <1>2, <1>5, <1>7, SetAsks DEF Requested
<1>9. CASE ~Accepts(p, AXES, combined)
    <2>1. q = p /\ wanted = axes
        BY <1>6, <1>9 DEF Accepts
    <2> QED BY <2>1 DEF q
<1>10. CASE Accepts(p, AXES, combined)
    <2>1. /\ q \in Programs /\ q.session = u.session /\ q.table = p.table
          /\ q.queued_speed = p.queued_speed /\ q.axes_target = combined
        BY <1>4, <1>6, <1>8, <1>10 DEF Programs
    <2>2. power_confirmed_on(p) \/ q.session = p.session
        BY <1>8, <1>10, <2>1 DEF Accepts
    <2>3. power_confirmed_on(p) => Will(m, coming, POWER) = 1
        BY DEF Current, Target, power_confirmed_on, IsTrue, IsPending
    <2>4. /\ Linked(q.session, Requests)
          /\ Asked(p.session, q.session, p.table, AXES, combined)
          /\ AXES # POWER /\ q.session # p.session => Will(m, coming, POWER) = 1
        BY <1>8, <2>1, <2>2, <2>3
    <2>5. Wire(q, m, w, r) /\ Asking(p.session, q.session, w, m, p.table, AXES, combined)
        BY <1>1, <1>5, <2>1, <2>4, AskedComes DEF Current
    <2>6. /\ PowerFirst(m, after) /\ OneSpeed(m, q.table, after)
          /\ Will(m, after, AXES) = combined
          /\ Will(m, after, SPEED) = Will(m, coming, SPEED)
          /\ q.session.pending[POWER] = p.session.pending[POWER]
          /\ q.session.pending[AXES] \in {NoValue, combined}
          /\ NoOff(coming) => NoOff(after)
          /\ NoSpeed(coming) => NoSpeed(after)
        BY <2>1, <2>5, HpfDatapoints DEF Asking
    <2>7. SpeedWaits(q, m, after)
        <3> HIDE DEF coming, after
        <3> QED BY <1>1, <2>1, <2>6 DEF SpeedWaits, power_confirmed_on, IsTrue, IsPending
    <2>8. OnIsNext(q, m, r)
        <3>1. CASE q.session = p.session
            BY <1>1, <2>1, <3>1 DEF OnIsNext
        <3>2. CASE power_confirmed_on(p)
            BY <1>1, <2>1, <3>2 DEF OnIsNext, SpeedWaits
        <3> QED BY <2>2, <3>1, <3>2
    <2>9. SpeedIsMeant(q, m, after, r, speed)
        <3> HIDE DEF coming, after
        <3> QED BY <1>1, <2>1, <2>6 DEF SpeedIsMeant
    <2>10. TargetIsPending(q)
        BY <2>1, <2>6 DEF TargetIsPending
    <2>11. AxesAreMeant(m, after, wanted)
        <3>1. CASE power_confirmed_on(p)
            <4> HIDE DEF coming, after
            <4> QED BY <1>4, <2>6, <3>1 DEF AxesAreMeant
        <3>2. CASE ~power_confirmed_on(p)
            BY <1>1, <2>2, <3>2 DEF AxesAreMeant
        <3> QED BY <3>1, <3>2
    <2>12. Holds(q, m, w, r, speed, wanted)
        <3> HIDE DEF coming, wanted
        <3> QED BY <2>5, <2>6, <2>7, <2>8, <2>9, <2>10, <2>11 DEF Holds
    <2> QED BY <2>12 DEF q
<1> QED BY <1>9, <1>10
----------------------------------------------------------------------------
(* A report *)

\* One round of handle_datapoints_ in a context: the program before the report, and
\* the report.
Round(c, q, d) ==
    IF d \in Written(c.report)
    THEN HandleDatapoint(TakeOver(q, c.report, Outcome(c.before.session).authoritative, d), d)
    ELSE q

\* What the report confirms of what is pending.
Confirms(c, d) ==
    Outcome(c.before.session).authoritative \/ c.before.session.pending[d] = c.report[d]

\* The first datapoint of a report is the power: it drops the speed that waits, or
\* has it written, or, while something else is pending, lets it wait.
Flushed(c, q) ==
    LET p         == c.before
        confirmed == c.report[POWER] = 1 /\ q.session.pending[POWER] = NoValue
        earlier   == Ordinary(Answer(p.session).queue)
    IN  /\ q.queued_speed = IF c.report[POWER] = 1 /\ ~confirmed THEN p.queued_speed ELSE NoValue
        /\ Ordinary(q.session.queue) =
               IF confirmed /\ p.queued_speed \notin {NoValue, p.table[SPEED]}
               THEN Append(earlier, Deliver(One(SPEED, p.queued_speed))) ELSE earlier

\* The program once the datapoints up to n are taken over.
TookOver(c, q, n) ==
    LET p == c.before
        a == Answer(p.session)
    IN  /\ q \in Programs
        /\ Linked(q.session, Requests)
        /\ ~InFlight(q.session)
        /\ q.session.route = a.route
        /\ HasReadback(a) => HasReadback(q.session)
        /\ \A d \in Dps : q.table[d] = IF d <= n THEN c.report[d] ELSE p.table[d]
        /\ \A d \in Dps : q.session.pending[d] = IF d <= n /\ Confirms(c, d) THEN NoValue
                                                ELSE p.session.pending[d]
        /\ TargetIsPending(q)

Took(c, q, n) ==
    /\ TookOver(c, q, n)
    /\ IF n = 0
       THEN /\ q.queued_speed = c.before.queued_speed
            /\ q.session.queue = Answer(c.before.session).queue
       ELSE Flushed(c, q)

Loop == INSTANCE DreoIteration WITH Step <- Round, Holds <- Took

\* Taking over one datapoint, before what the coordinator does about it.
LEMMA TakenOver ==
    ASSUME NEW c, NEW q, NEW n \in Nat, Took(c, q, n), NEW d \in Dps, d = n + 1,
           c.report \in States, NEW auth, auth = Outcome(c.before.session).authoritative
    PROVE  LET t == TakeOver(q, c.report, auth, d)
           IN  /\ TookOver(c, t, d)
               /\ t.queued_speed = q.queued_speed
               /\ t.session.queue = q.session.queue
               /\ d # POWER => t.session.pending[POWER] = q.session.pending[POWER]
<1> DEFINE t == TakeOver(q, c.report, auth, d)
           v == c.report[d]
           u == ClearConfirmed(q.session, d, v, auth)
           p == c.before
<1>1. /\ q \in Programs /\ Linked(q.session, Requests) /\ ~InFlight(q.session)
      /\ q.session.route = Answer(p.session).route
      /\ HasReadback(Answer(p.session)) => HasReadback(q.session)
      /\ \A e \in Dps : q.table[e] = IF e <= n THEN c.report[e] ELSE p.table[e]
      /\ \A e \in Dps : q.session.pending[e] = IF e <= n /\ Confirms(c, e) THEN NoValue
                                                ELSE p.session.pending[e]
      /\ TargetIsPending(q)
    BY DEF Took, TookOver
<1>2. v \in Values /\ v \in Speeds \cup AxesValues
    BY HpfAssumption DEF States
<1>3. /\ Linked(u, Requests) /\ u \in Sessions
      /\ u.queue = q.session.queue /\ u.expected = q.session.expected /\ u.route = q.session.route
      /\ u.pending[d] = IF auth \/ q.session.pending[d] = v THEN NoValue ELSE q.session.pending[d]
      /\ \A e \in Dps : e # d => u.pending[e] = q.session.pending[e]
    BY <1>1, <1>2, LinkedClear DEF Linked
<1>4. /\ t.session = u /\ t.table = [q.table EXCEPT ![d] = v]
      /\ t.queued_speed = q.queued_speed /\ t.axes_target = q.axes_target
      /\ t = [session |-> u, table |-> [q.table EXCEPT ![d] = v],
              queued_speed |-> q.queued_speed, axes_target |-> q.axes_target]
    <2>1. q = [session |-> q.session, table |-> q.table,
               queued_speed |-> q.queued_speed, axes_target |-> q.axes_target]
        BY <1>1 DEF Programs
    <2>2. t = [q EXCEPT !.session = u, !.table[d] = v]
        BY DEF TakeOver
    <2> HIDE DEF u, v, t
    <2>3. t = [session |-> u, table |-> [q.table EXCEPT ![d] = v],
               queued_speed |-> q.queued_speed, axes_target |-> q.axes_target]
        BY <2>1, <2>2
    <2> QED BY <2>3
<1>5. /\ q.table \in States /\ q.queued_speed \in Speeds \cup {NoValue}
      /\ q.axes_target \in AxesValues \cup {NoValue}
    BY <1>1 DEF Programs
<1>6. [q.table EXCEPT ![d] = v] \in States
    <2>1. /\ v \in Speeds \cup AxesValues
          /\ d = POWER => v \in {0, 1}
          /\ d = SPEED => v \in Speeds
          /\ d = AXES => v \in AxesValues
        BY DEF States
    <2> QED BY <1>5, <2>1, HpfDatapoints DEF States
<1> HIDE DEF u, t, v
<1>7. t \in Programs
    BY <1>3, <1>4, <1>5, <1>6 DEF Programs
<1>8. \A e \in Dps : t.table[e] = IF e <= d THEN c.report[e] ELSE p.table[e]
    <2> SUFFICES ASSUME NEW e \in Dps PROVE t.table[e] = IF e <= d THEN c.report[e] ELSE p.table[e]
        OBVIOUS
    <2>1. e \in Nat /\ d \in Nat
        BY LinkAssumption
    <2>2. t.table[e] = IF e = d THEN v ELSE q.table[e]
        BY <1>4, <1>5 DEF States
    <2>3. CASE e = d
        BY <2>1, <2>2, <2>3 DEF v
    <2>4. CASE e # d
        <3>1. e <= d <=> e <= n
            BY <2>1, <2>4
        <3> QED BY <1>1, <2>2, <2>4, <3>1
    <2> QED BY <2>3, <2>4
<1>9. \A e \in Dps : t.session.pending[e] = IF e <= d /\ Confirms(c, e) THEN NoValue
                                             ELSE p.session.pending[e]
    <2> SUFFICES ASSUME NEW e \in Dps
                 PROVE  t.session.pending[e] = IF e <= d /\ Confirms(c, e) THEN NoValue
                                               ELSE p.session.pending[e]
        OBVIOUS
    <2>1. e \in Nat /\ d \in Nat
        BY LinkAssumption
    <2>2. CASE e = d
        <3>1. ~(e <= n) /\ e <= d
            BY <2>1, <2>2
        <3>2. q.session.pending[d] = p.session.pending[d]
            BY <1>1, <2>2, <3>1
        <3>3. auth \/ q.session.pending[d] = v <=> Confirms(c, d)
            BY <3>2 DEF Confirms, v
        <3> QED BY <1>3, <1>4, <2>2, <3>1, <3>2, <3>3
    <2>3. CASE e # d
        <3>1. e <= d <=> e <= n
            BY <2>1, <2>3
        <3> QED BY <1>1, <1>3, <1>4, <2>3, <3>1
    <2> QED BY <2>2, <2>3
<1>10. d # POWER => t.session.pending[POWER] = q.session.pending[POWER]
    BY <1>3, <1>4, HpfDatapoints
<1>11. TargetIsPending(t)
    BY <1>1, <1>3, <1>4, HpfDatapoints DEF TargetIsPending
<1>12. /\ ~InFlight(t.session)
       /\ HasReadback(Answer(p.session)) => HasReadback(t.session)
    BY <1>1, <1>3, <1>4 DEF InFlight, HasReadback
<1> QED BY <1>1, <1>3, <1>4, <1>7, <1>8, <1>9, <1>10, <1>11, <1>12 DEF t, TookOver

\* handle_power, when the power is taken over.
LEMMA PowerTaken ==
    ASSUME NEW c, NEW t, TookOver(c, t, 1),
           t.queued_speed = c.before.queued_speed,
           t.session.queue = Answer(c.before.session).queue
    PROVE  Took(c, handle_power(t), 1)
<1> DEFINE p  == c.before
           v  == p.queued_speed
           t1 == [t EXCEPT !.queued_speed = NoValue]
           q  == handle_power(t)
           confirmed == c.report[POWER] = 1 /\ t.session.pending[POWER] = NoValue
<1>1. /\ t \in Programs /\ Linked(t.session, Requests) /\ ~InFlight(t.session)
      /\ t.session.route = Answer(p.session).route
      /\ HasReadback(Answer(p.session)) => HasReadback(t.session)
      /\ TargetIsPending(t)
    BY DEF TookOver
<1>2. t.table[POWER] = c.report[POWER] /\ t.table[SPEED] = p.table[SPEED]
    <2>1. POWER <= 1 /\ ~(SPEED <= 1)
        BY DEF POWER, SPEED
    <2> QED BY <2>1, HpfDatapoints DEF TookOver
<1>3. /\ t1 \in Programs /\ t1.session = t.session /\ t1.table = t.table
      /\ t1.queued_speed = NoValue /\ t1.axes_target = t.axes_target
    BY <1>1 DEF Programs
<1>4. v \in Speeds \cup {NoValue}
    BY <1>1 DEF Programs
<1>5. power_confirmed_on(t) <=> confirmed
    BY <1>2 DEF power_confirmed_on, IsTrue, IsPending
<1>6. power_confirmed_on(t1) <=> confirmed
    BY <1>3, <1>5 DEF power_confirmed_on, IsTrue, IsPending
<1>7. q = flush_queued_fan_settings(IF c.report[POWER] = 1 THEN t ELSE t1)
    BY <1>2 DEF handle_power, IsTrue
<1>8. TookOver(c, t1, 1)
    <2> HIDE DEF t1
    <2> QED BY <1>3 DEF TookOver, TargetIsPending
<1>9. ASSUME q = t1, ~confirmed, c.report[POWER] # 1 PROVE Took(c, q, 1)
    <2>1. Flushed(c, t1)
        <3> HIDE DEF t1
        <3> QED BY <1>3, <1>9 DEF Flushed
    <2> QED BY <1>8, <1>9, <2>1 DEF Took
<1>10. ASSUME q = t, ~confirmed, c.report[POWER] = 1 PROVE Took(c, q, 1)
    <2>1. Flushed(c, t)
        BY <1>10 DEF Flushed
    <2> QED BY <1>10, <2>1 DEF Took
<1>11. ASSUME q = t, confirmed, v = NoValue PROVE Took(c, q, 1)
    <2>1. Flushed(c, t)
        BY <1>11 DEF Flushed
    <2> QED BY <1>11, <2>1 DEF Took
<1>12. ASSUME q = Set(t1, SPEED, v), confirmed, v # NoValue PROVE Took(c, q, 1)
    <2>1. IsRequest(SPEED, v)
        BY <1>4, <1>12 DEF IsRequest
    <2> HIDE DEF q, t1, v
    <2>2. Requested(t1, q, SPEED, v)
        BY <1>1, <1>3, <1>12, <2>1, SetAsks
    <2>3. /\ q \in Programs /\ Linked(q.session, Requests) /\ q.table = t.table
          /\ q.queued_speed = NoValue /\ q.axes_target = t.axes_target
          /\ Asked(t.session, q.session, t.table, SPEED, v)
        BY <1>3, <2>2 DEF Requested
    <2>4. t.session.pending[SPEED] = NoValue
        BY <1>1, HpfDatapoints, HpfAssumption DEF Linked
    <2>5. /\ q.session.expected = t.session.expected /\ q.session.route = t.session.route
          /\ q.session.pending = t.session.pending
          /\ HasReadback(t.session) => HasReadback(q.session)
          /\ Ordinary(q.session.queue) =
                IF v # t.table[SPEED] THEN Append(Ordinary(t.session.queue), Deliver(One(SPEED, v)))
                ELSE Ordinary(t.session.queue)
        <3>1. t.session.pending \in Batches
            BY <1>1 DEF Linked, Sessions
        <3>2. [t.session.pending EXCEPT ![SPEED] = IF SPEED \in Transition THEN v ELSE @]
                  = t.session.pending
            BY <3>1, HpfAssumption DEF Batches
        <3> QED BY <2>3, <2>4, <3>2 DEF Asked, Sends
    <2>6. TookOver(c, q, 1)
        BY <1>1, <2>3, <2>5 DEF TookOver, TargetIsPending, InFlight
    <2>7. Flushed(c, q)
        <3>1. t.session.queue = Answer(p.session).queue
            OBVIOUS
        <3> QED BY <1>2, <1>12, <2>3, <2>5, <3>1 DEF Flushed, v
    <2> QED BY <2>6, <2>7 DEF Took
<1> HIDE DEF q, t1
<1>13. CASE c.report[POWER] # 1
    <2>1. ~confirmed /\ q = t1
        BY <1>6, <1>7, <1>13 DEF flush_queued_fan_settings
    <2> QED BY <1>9, <1>13, <2>1 DEF q
<1>14. CASE c.report[POWER] = 1 /\ ~confirmed
    <2>1. q = t
        BY <1>5, <1>7, <1>14 DEF flush_queued_fan_settings
    <2> QED BY <1>10, <1>14, <2>1 DEF q
<1>15. CASE confirmed /\ v = NoValue
    <2>1. q = t
        BY <1>7, <1>15 DEF flush_queued_fan_settings
    <2> QED BY <1>11, <1>15, <2>1 DEF q
<1>16. CASE confirmed /\ v # NoValue
    <2>1. q = SetSetting(t1, SPEED, v)
        BY <1>5, <1>7, <1>16 DEF flush_queued_fan_settings, t1
    <2>2. q = Set(t1, SPEED, v)
        BY <1>6, <1>16, <2>1 DEF SetSetting, Accepts
    <2> QED BY <1>12, <1>16, <2>2 DEF q
<1> QED BY <1>13, <1>14, <1>15, <1>16

\* Each round of the loop.
LEMMA RoundTaken ==
    ASSUME NEW c, c.report \in States, NEW n \in Nat, NEW q, Took(c, q, n)
    PROVE  Took(c, Round(c, q, n + 1), n + 1)
<1> DEFINE d    == n + 1
           auth == Outcome(c.before.session).authoritative
           t    == TakeOver(q, c.report, auth, d)
<1>1. \A e \in Dps : e \in Nat /\ e >= 1
    BY LinkAssumption
<1>2. CASE d \notin Dps
    <2>1. Round(c, q, d) = q
        BY <1>2 DEF Round, Written
    <2>2. d # 1
        BY <1>2, HpfDatapoints DEF POWER
    <2>3. \A e \in Dps : e <= d <=> e <= n
        BY <1>1, <1>2
    <2>4. TookOver(c, q, d)
        <3> HIDE DEF d
        <3> QED BY <2>3 DEF Took, TookOver
    <2>5. Flushed(c, q)
        BY <2>2 DEF Took
    <2> QED BY <2>1, <2>4, <2>5 DEF Took
<1>3. CASE d \in Dps
    <2>1. Round(c, q, d) = HandleDatapoint(t, d)
        <3>1. c.report[d] \in Values
            BY <1>3, HpfAssumption DEF States
        <3>2. d \in Written(c.report)
            BY <1>3, <3>1, DatapointsAssumption DEF Written
        <3> QED BY <3>2 DEF Round
    <2>2. /\ TookOver(c, t, d)
          /\ t.queued_speed = q.queued_speed
          /\ t.session.queue = q.session.queue
          /\ d # POWER => t.session.pending[POWER] = q.session.pending[POWER]
        BY <1>3, TakenOver
    <2> HIDE DEF t
    <2>3. CASE d = POWER
        <3>1. n = 0 /\ d = 1
            BY <2>3 DEF POWER
        <3>2. t.queued_speed = c.before.queued_speed /\ t.session.queue = Answer(c.before.session).queue
            BY <2>2, <3>1 DEF Took
        <3>3. Took(c, handle_power(t), 1)
            BY <2>2, <3>1, <3>2, PowerTaken
        <3>4. HandleDatapoint(t, d) = handle_power(t)
            BY <2>3, HpfDatapoints DEF HandleDatapoint
        <3> QED BY <2>1, <3>1, <3>3, <3>4
    <2>4. CASE d # POWER
        <3>1. n # 0
            BY <2>4 DEF POWER
        <3>2. Flushed(c, t)
            BY <2>2, <2>4, <3>1 DEF Took, Flushed
        <3>3. Took(c, t, d)
            BY <2>2, <3>1, <3>2 DEF Took
        <3>4. CASE HandleDatapoint(t, d) = t
            BY <2>1, <3>3, <3>4
        <3>5. CASE /\ HandleDatapoint(t, d) = [t EXCEPT !.axes_target = NoValue]
                   /\ t.session.pending[AXES] = NoValue
            <4> DEFINE u == [t EXCEPT !.axes_target = NoValue]
            <4>1. t \in Programs
                BY <2>2 DEF TookOver
            <4>2. /\ u \in Programs /\ u.session = t.session /\ u.table = t.table
                  /\ u.queued_speed = t.queued_speed
                BY <4>1 DEF Programs
            <4> HIDE DEF u
            <4>3. TargetIsPending(u)
                BY <3>5, <4>2 DEF TargetIsPending
            <4>4. TookOver(c, u, d)
                BY <2>2, <4>2, <4>3 DEF TookOver
            <4>5. Flushed(c, u)
                BY <3>2, <4>2 DEF Flushed
            <4> QED BY <2>1, <3>1, <3>5, <4>4, <4>5 DEF Took, u
        <3> QED BY <2>4, <3>4, <3>5 DEF HandleDatapoint, IsPending
    <2> QED BY <2>3, <2>4
<1> QED BY <1>2, <1>3

\* handle_command_ for a report.
LEMMA ReportTaken ==
    ASSUME NEW p, NEW m, NEW w, NEW r, Wire(p, m, w, r), r # <<>>, TargetIsPending(p)
    PROVE  LET c == [before |-> p, report |-> m]
               t == TakeReport(p, m, HandleDatapoint)
           IN  \E q : /\ Took(c, q, MaxDp)
                      /\ t = [q EXCEPT !.session = Settle(@, Outcome(p.session))]
<1> DEFINE c == [before |-> p, report |-> m]
           up[d \in 0..MaxDp] == IF d = 0 THEN Answered(p) ELSE Round(c, up[d - 1], d)
<1>1. MaxDp \in Nat /\ c.report = m /\ c.before = p /\ m \in States
    BY LinkAssumption DEF Wire
<1>2. Took(c, Answered(p), 0)
    <2> DEFINE a == Answer(p.session)
    <2>1. p \in Programs /\ Linked(p.session, Requests) /\ InStep(p.session, m, w, r)
        BY DEF Wire
    <2>2. Linked(a, Requests) /\ a \in Sessions /\ ~InFlight(a) /\ a.pending = p.session.pending
        BY <2>1, InStepAnswer, RequestsAreDelivers DEF Linked, Answers
    <2> HIDE DEF c
    <2>3. Answered(p) = [p EXCEPT !.session = a]
        BY DEF Answered, Answer
    <2> HIDE DEF a
    <2>4. /\ Answered(p) \in Programs /\ Answered(p).session = a /\ Answered(p).table = p.table
          /\ Answered(p).queued_speed = p.queued_speed /\ Answered(p).axes_target = p.axes_target
        BY <2>1, <2>2, <2>3 DEF Programs
    <2>5. \A d \in Dps : ~(d <= 0)
        BY LinkAssumption
    <2>6. TargetIsPending(Answered(p))
        BY <2>2, <2>4 DEF TargetIsPending
    <2>7. TookOver(c, Answered(p), 0)
        BY <1>1, <2>2, <2>4, <2>5, <2>6 DEF TookOver, a
    <2> QED BY <1>1, <2>4, <2>7 DEF Took, a
<1>3. ASSUME NEW d \in 1..MaxDp, NEW q, Took(c, q, d - 1) PROVE Took(c, Round(c, q, d), d)
    <2>1. d - 1 \in Nat /\ (d - 1) + 1 = d
        BY <1>1
    <2> QED BY <1>1, <1>3, <2>1, RoundTaken
<1>4. Took(c, up[MaxDp], MaxDp)
    <2> HIDE DEF c
    <2> QED BY <1>1, <1>2, <1>3, Loop!LoopInvariant
<1>5. TakeReport(p, m, HandleDatapoint) = [up[MaxDp] EXCEPT !.session = Settle(@, Outcome(p.session))]
    BY DEF TakeReport, Round
<1> HIDE DEF up
<1> QED BY <1>4, <1>5

\* The speed and the power that are commanded, when none is being written and no
\* "off" comes.
LEMMA UnlessWritten ==
    ASSUME NEW coming \in Seq(Requests), NEW m
    PROVE  /\ NoSpeed(coming) => Will(m, coming, SPEED) = m[SPEED]
           /\ NoOff(coming) /\ m[POWER] = 1 => Will(m, coming, POWER) = 1
<1> DEFINE n == Len(coming)
<1>1. n \in Nat
    BY LenProperties
<1>2. ASSUME NoSpeed(coming) PROVE Will(m, coming, SPEED) = m[SPEED]
    <2>1. Unwritten(coming, n, SPEED)
        BY <1>2 DEF Unwritten, NoSpeed
    <2> QED BY <1>1, <2>1, BecomesLast DEF Will
<1>3. ASSUME NoOff(coming), m[POWER] = 1 PROVE Will(m, coming, POWER) = 1
    <2>1. CASE Unwritten(coming, n, POWER)
        BY <1>1, <1>3, <2>1, BecomesLast DEF Will
    <2>2. ASSUME NEW i, LastWrite(coming, n, POWER, i) PROVE Will(m, coming, POWER) = 1
        <3>1. Will(m, coming, POWER) = coming[i].writes[POWER]
            BY <1>1, <2>2, BecomesLast DEF Will
        <3>2. i \in 1..n /\ coming[i].writes[POWER] # NoValue
            BY <2>2 DEF LastWrite
        <3>3. coming[i] \in Requests
            BY <3>2, ElementOfSeq
        <3> QED BY <1>3, <3>1, <3>2, <3>3, RequestWrites DEF NoOff
    <2> QED BY <1>1, <2>1, <2>2, BecomesLast
<1> QED BY <1>2, <1>3

\* What the loop and what follows it leave of the wire.
LEMMA ReportWire ==
    ASSUME NEW p, NEW m, NEW w, NEW r, Wire(p, m, w, r), r # <<>>, TargetIsPending(p),
           NEW q, Took([before |-> p, report |-> m], q, MaxDp)
    PROVE  LET t == [q EXCEPT !.session = Settle(@, Outcome(p.session))]
           IN  /\ Wire(t, m, w, <<>>)
               /\ t.table = m
               /\ t.queued_speed = q.queued_speed
               /\ t.session.pending = q.session.pending
               /\ TargetIsPending(t)
               /\ ComingOf(t.session, w) = Ordinary(q.session.queue)
               /\ ComingOf(p.session, w) = Ordinary(Answer(p.session).queue)
<1> DEFINE c == [before |-> p, report |-> m]
           s == p.session
           a == Answer(s)
           f == Outcome(s)
           u == Settle(q.session, f)
           t == [q EXCEPT !.session = Settle(@, f)]
<1>1. /\ p \in Programs /\ m \in States /\ Linked(s, Requests) /\ Reconciles(s)
      /\ InStep(s, m, w, r)
    BY DEF Wire
<1>2. c.before = p /\ c.report = m
    OBVIOUS
<1> HIDE DEF c
<1>3. /\ q \in Programs /\ Linked(q.session, Requests) /\ ~InFlight(q.session)
      /\ q.session.route = a.route
      /\ HasReadback(a) => HasReadback(q.session)
      /\ \A d \in Dps : q.table[d] = IF d <= MaxDp THEN m[d] ELSE p.table[d]
      /\ \A d \in Dps : q.session.pending[d] = IF d <= MaxDp /\ Confirms(c, d) THEN NoValue
                                                ELSE s.pending[d]
      /\ TargetIsPending(q)
    <2>1. TookOver(c, q, MaxDp)
        BY DEF Took, c
    <2> QED BY <1>2, <2>1 DEF TookOver
<1>4. \A d \in Dps : d <= MaxDp
    BY LinkAssumption
<1>5. /\ w = <<>> /\ a.queue = AheadOf(s, w) /\ a.route = s.route
      /\ ~InFlight(s) => s.queue = <<>>
      /\ HasReadback(s) /\ f.delivered => HasReadback(a)
      /\ ~f.delivered /\ ~f.authoritative => ~InFlight(s)
    <2> HIDE DEF s
    <2>1. Answers(s, Answer(s), m, w, r, Requests)
        BY <1>1, InStepAnswer, RequestsAreDelivers
    <2> QED BY <2>1 DEF Answers
<1>6. q.table = m
    <2>1. q.table \in States
        BY <1>3 DEF Programs
    <2> QED BY <1>1, <1>3, <1>4, <2>1 DEF States
<1>7. HasPending(q.session) => f.delivered /\ HasPending(s)
    <2> SUFFICES ASSUME NEW d \in Dps, q.session.pending[d] # NoValue
                 PROVE  f.delivered /\ HasPending(s)
        BY DEF HasPending
    <2>1. ~Confirms(c, d) /\ s.pending[d] # NoValue
        BY <1>3, <1>4
    <2>2. HasPending(s) /\ ~f.authoritative
        BY <1>2, <2>1 DEF HasPending, Confirms
    <2>3. s.queue # <<>>
        BY <1>1, <2>2 DEF Reconciles
    <2> QED BY <1>5, <2>2, <2>3
<1>8. HasPending(q.session) /\ q.session.route = "TRANSITION" => HasReadback(q.session)
    BY <1>1, <1>3, <1>5, <1>7 DEF Reconciles
<1>9. /\ Linked(u, Requests) /\ Reconciles(u) /\ ~InFlight(u)
      /\ u.pending = q.session.pending /\ Ordinary(u.queue) = Ordinary(q.session.queue)
    BY <1>3, <1>7, <1>8, LinkedSettle
<1>10. u \in Sessions
    BY <1>9 DEF Linked
<1> HIDE DEF u, a, f
<1>11. t = [q EXCEPT !.session = u]
    BY DEF u
<1> HIDE DEF t
<1>12. /\ t \in Programs /\ t.session = u /\ t.table = q.table
       /\ t.queued_speed = q.queued_speed /\ t.axes_target = q.axes_target
    BY <1>3, <1>10, <1>11 DEF Programs
<1>13. TargetIsPending(t)
    BY <1>3, <1>9, <1>12 DEF TargetIsPending
<1>14. InStep(u, m, w, <<>>)
    BY <1>5, <1>9 DEF InStep
<1>15. Wire(t, m, w, <<>>)
    BY <1>1, <1>6, <1>9, <1>12, <1>14 DEF Wire
<1>16. /\ ComingOf(t.session, w) = Ordinary(q.session.queue)
       /\ ComingOf(s, w) = Ordinary(a.queue)
    BY <1>5, <1>9, <1>12 DEF ComingOf, AheadOf
<1> QED BY <1>6, <1>9, <1>12, <1>13, <1>15, <1>16 DEF t, a, f

LEMMA ReportHolds ==
    ASSUME NEW p, NEW m, NEW w, NEW r, NEW speed, NEW axes, Holds(p, m, w, r, speed, axes),
           r # <<>>
    PROVE  Holds(TakeReport(p, m, HandleDatapoint), m, w, <<>>, speed, axes)
<1> DEFINE c      == [before |-> p, report |-> m]
           t      == TakeReport(p, m, HandleDatapoint)
           coming == ComingOf(p.session, w)
           after  == ComingOf(t.session, w)
           v      == p.queued_speed
           confirmed == m[POWER] = 1 /\ t.session.pending[POWER] = NoValue
           written   == confirmed /\ v \notin {NoValue, p.table[SPEED]}
<1>1. /\ Wire(p, m, w, r) /\ PowerFirst(m, coming) /\ OneSpeed(m, p.table, coming)
      /\ SpeedWaits(p, m, coming) /\ SpeedIsMeant(p, m, coming, r, speed)
      /\ TargetIsPending(p) /\ AxesAreMeant(m, coming, axes)
    BY DEF Holds
<1>2. p \in Programs /\ m \in States /\ Linked(p.session, Requests)
    BY <1>1 DEF Wire
<1>3. coming \in Seq(Requests)
    BY <1>2, ComingType, RequestsAreDelivers
<1>4. PICK q : /\ Took(c, q, MaxDp)
               /\ t = [q EXCEPT !.session = Settle(@, Outcome(p.session))]
    BY <1>1, ReportTaken
<1>5. /\ Wire(t, m, w, <<>>) /\ t.table = m /\ TargetIsPending(t)
      /\ t.queued_speed = q.queued_speed /\ t.session.pending = q.session.pending
      /\ after = Ordinary(q.session.queue) /\ coming = Ordinary(Answer(p.session).queue)
    <2> HIDE DEF t
    <2> QED BY <1>1, <1>4, ReportWire
<1>6. Flushed(c, q)
    <2>1. MaxDp # 0
        BY LinkAssumption, HpfDatapoints
    <2> QED BY <1>4, <2>1 DEF Took
<1> HIDE DEF t, coming, after
<1>7. /\ t.queued_speed = IF m[POWER] = 1 /\ ~confirmed THEN v ELSE NoValue
      /\ after = IF written THEN Append(coming, Deliver(One(SPEED, v))) ELSE coming
    BY <1>5, <1>6 DEF Flushed
<1>8. v # NoValue => NoOff(coming) /\ NoSpeed(coming) /\ m[SPEED] = p.table[SPEED]
    BY <1>1 DEF SpeedWaits
<1>9. m[POWER] \in {0, 1} /\ v \in Speeds \cup {NoValue}
    BY <1>2 DEF States, Programs
<1>10. OneSpeed(m, m, coming)
    BY <1>1 DEF OneSpeed
<1>11. SpeedWaits(t, m, after)
    BY <1>5, <1>7, <1>8 DEF SpeedWaits, power_confirmed_on, IsTrue, IsPending
<1>12. OnIsNext(t, m, <<>>)
    BY <1>7 DEF OnIsNext
<1>13. speed = IF v # NoValue /\ m[POWER] # 0 THEN v ELSE Will(m, coming, SPEED)
    BY <1>1 DEF SpeedIsMeant
<1>14. ASSUME ~written PROVE Holds(t, m, w, <<>>, speed, axes)
    <2>1. SpeedIsMeant(t, m, after, <<>>, speed)
        <3>1. CASE v # NoValue /\ confirmed
            <4>1. v = m[SPEED]
                BY <1>8, <1>14, <3>1
            <4>2. Will(m, coming, SPEED) = m[SPEED]
                BY <1>3, <1>8, <3>1, UnlessWritten
            <4> QED BY <1>7, <1>13, <1>14, <3>1, <4>1, <4>2 DEF SpeedIsMeant
        <3>2. CASE ~(v # NoValue /\ confirmed)
            BY <1>7, <1>9, <1>13, <1>14, <3>2 DEF SpeedIsMeant
        <3> QED BY <3>1, <3>2
    <2> QED BY <1>1, <1>5, <1>7, <1>10, <1>11, <1>12, <1>14, <2>1 DEF Holds, after
<1>15. ASSUME written PROVE Holds(t, m, w, <<>>, speed, axes)
    <2> DEFINE d == Deliver(One(SPEED, v))
    <2>1. v \in Speeds /\ v # m[SPEED] /\ m[POWER] = 1 /\ NoOff(coming) /\ NoSpeed(coming)
        BY <1>8, <1>9, <1>15
    <2>2. /\ d \in Requests /\ d.writes[SPEED] = v
          /\ d.writes[AXES] = NoValue
        <3>1. IsRequest(SPEED, v)
            BY <2>1 DEF IsRequest
        <3> QED BY <3>1, RequestIs, HpfDatapoints
    <2>3. Will(m, coming, POWER) = 1
        BY <1>3, <2>1, UnlessWritten
    <2> HIDE DEF d
    <2>4. after = Append(coming, d) /\ v # NoValue
        BY <1>7, <1>15 DEF d
    <2>5. PowerFirst(m, after) /\ OneSpeed(m, m, after)
        BY <1>1, <1>3, <1>10, <2>1, <2>2, <2>3, <2>4, ComingOfAppend
    <2>6. Will(m, after, SPEED) = v /\ Will(m, after, AXES) = Will(m, coming, AXES)
        BY <1>3, <2>2, <2>4, WillOfAppend
    <2>7. SpeedIsMeant(t, m, after, <<>>, speed)
        BY <1>7, <1>13, <1>15, <2>1, <2>6 DEF SpeedIsMeant
    <2>8. AxesAreMeant(m, after, axes)
        BY <1>1, <2>6 DEF AxesAreMeant
    <2> QED BY <1>5, <1>11, <1>12, <2>5, <2>7, <2>8 DEF Holds, after
<1>16. Holds(t, m, w, <<>>, speed, axes)
    BY <1>14, <1>15
<1> QED BY <1>16 DEF t
----------------------------------------------------------------------------
(* The wire and the MCU *)

LEMMA TransmitHolds ==
    ASSUME NEW p, NEW m, NEW w, NEW r, NEW speed, NEW axes, Holds(p, m, w, r, speed, axes),
           CanTransmit([p.session EXCEPT !.age = MaxAge], TRUE),
           NEW u, u = [Transmit([p.session EXCEPT !.age = MaxAge], TRUE) EXCEPT !.age = 0]
    PROVE  Holds([p EXCEPT !.session = u], m, Append(w, Head(p.session.queue)), r, speed, axes)
<1> DEFINE s  == p.session
           q  == [p EXCEPT !.session = u]
           w1 == Append(w, Head(s.queue))
           coming == ComingOf(s, w)
<1>1. /\ Wire(p, m, w, r) /\ PowerFirst(m, coming) /\ OneSpeed(m, p.table, coming)
      /\ SpeedWaits(p, m, coming) /\ OnIsNext(p, m, r) /\ SpeedIsMeant(p, m, coming, r, speed)
      /\ TargetIsPending(p) /\ AxesAreMeant(m, coming, axes)
    BY DEF Holds
<1>2. /\ p \in Programs /\ Linked(s, Requests) /\ Reconciles(s) /\ InStep(s, m, w, r)
    BY <1>1 DEF Wire
<1>3. /\ Linked(u, Requests) /\ Reconciles(u) /\ u.queue = s.queue /\ u.pending = s.pending
    BY <1>2, LinkedTransmit, RequestsAreDelivers
<1>4. InStep(u, m, w1, r) /\ ComingOf(u, w1) = coming
    BY <1>2, InStepTransmit, RequestsAreDelivers
<1>5. u \in Sessions
    BY <1>3 DEF Linked
<1>6. /\ q \in Programs /\ q.session = u /\ q.table = p.table
      /\ q.queued_speed = p.queued_speed /\ q.axes_target = p.axes_target
    BY <1>2, <1>5 DEF Programs
<1> HIDE DEF q, w1, coming
<1>7. Wire(q, m, w1, r)
    BY <1>1, <1>3, <1>4, <1>6 DEF Wire
<1>8. SpeedWaits(q, m, coming)
    BY <1>1, <1>3, <1>6 DEF SpeedWaits, power_confirmed_on, IsTrue, IsPending
<1>9. OnIsNext(q, m, r) /\ SpeedIsMeant(q, m, coming, r, speed)
    BY <1>1, <1>3, <1>6 DEF OnIsNext, SpeedIsMeant
<1>10. TargetIsPending(q)
    BY <1>1, <1>3, <1>6 DEF TargetIsPending
<1> QED BY <1>1, <1>4, <1>6, <1>7, <1>8, <1>9, <1>10 DEF Holds, q, w1, s

\* The MCU carries out what is on the wire: a setting only while it is on, and "off"
\* never while a speed waits.
LEMMA ExecuteHolds ==
    ASSUME NEW p, NEW m, NEW w, NEW r, NEW speed, NEW axes, Holds(p, m, w, r, speed, axes),
           w # <<>>, NEW after, after = Apply(m, Head(w).writes)
    PROVE  /\ Holds(p, after, Tail(w), Append(r, after), speed, axes)
           /\ Head(w).writes[SPEED] # NoValue \/ Head(w).writes[AXES] # NoValue => m[POWER] = 1
<1> DEFINE s == p.session
           coming == ComingOf(s, w)
           rest   == ComingOf(s, Tail(w))
<1>1. /\ Wire(p, m, w, r) /\ PowerFirst(m, coming) /\ OneSpeed(m, p.table, coming)
      /\ SpeedWaits(p, m, coming) /\ OnIsNext(p, m, r) /\ SpeedIsMeant(p, m, coming, r, speed)
      /\ TargetIsPending(p) /\ AxesAreMeant(m, coming, axes)
    BY DEF Holds
<1>2. /\ p \in Programs /\ m \in States /\ Linked(s, Requests) /\ Reconciles(s) /\ InStep(s, m, w, r)
    BY <1>1 DEF Wire
<1>3. coming \in Seq(Requests)
    BY <1>2, ComingType, RequestsAreDelivers
<1>4. m \in [Dps -> Values]
    BY <1>2, HpfAssumption DEF States
<1>5. /\ Head(w) = Head(s.queue) /\ Tail(w) = <<>> /\ r = <<>> /\ s.queue # <<>>
      /\ Append(r, after) = <<after>>
      /\ InStep(s, after, <<>>, <<after>>)
      /\ \/ rest = coming /\ after = m /\ IsReadback(Head(s.queue))
         \/ /\ coming # <<>> /\ Head(coming) = Head(s.queue)
            /\ rest = Tail(coming)
            /\ after = Apply(m, Head(coming).writes)
    <2>1. Executed(s, m, after, w, r, Requests)
        <3> HIDE DEF s
        <3> QED BY <1>2, <1>4, InStepExecute, RequestsAreDelivers
    <2> QED BY <2>1 DEF Executed
<1>6. p.queued_speed # NoValue /\ m[POWER] = 0 => Head(w).writes[POWER] = 1
    BY <1>1, <1>5 DEF OnIsNext
<1> HIDE DEF coming, rest
<1>7. ASSUME after \in States, PowerFirst(after, rest), OneSpeed(after, p.table, rest),
             NoSpeed(coming) => NoSpeed(rest) /\ after[SPEED] = m[SPEED],
             NoOff(coming) => NoOff(rest) /\ (m[POWER] = 1 => after[POWER] = 1),
             p.queued_speed # NoValue /\ m[POWER] = 0 => after[POWER] = 1,
             Will(after, rest, SPEED) = Will(m, coming, SPEED),
             Will(after, rest, AXES) = Will(m, coming, AXES)
      PROVE  Holds(p, after, Tail(w), Append(r, after), speed, axes)
    <2>1. Wire(p, after, <<>>, <<after>>)
        <3>1. <<after>> # <<>>
            OBVIOUS
        <3> QED BY <1>2, <1>5, <1>7, <3>1 DEF Wire
    <2>2. SpeedWaits(p, after, rest)
        BY <1>1, <1>7 DEF SpeedWaits
    <2>3. OnIsNext(p, after, <<after>>)
        BY DEF OnIsNext
    <2>4. SpeedIsMeant(p, after, rest, <<after>>, speed)
        <3>1. p.queued_speed # NoValue => after[POWER] = 1
            <4>1. m[POWER] \in {0, 1}
                BY <1>2 DEF States
            <4> QED BY <1>1, <1>7, <4>1 DEF SpeedWaits
        <3> QED BY <1>1, <1>5, <1>7, <3>1 DEF SpeedIsMeant
    <2>5. AxesAreMeant(after, rest, axes)
        BY <1>1, <1>7 DEF AxesAreMeant
    <2> QED BY <1>1, <1>5, <1>7, <2>1, <2>2, <2>3, <2>4, <2>5 DEF Holds, rest
<1>8. CASE rest = coming /\ after = m /\ IsReadback(Head(s.queue))
    <2>1. Head(w).writes = Nothing
        BY <1>2, <1>5, <1>8, LinkedQueue, RequestsAreDelivers
    <2>2. \A d \in Dps : Head(w).writes[d] = NoValue
        BY <2>1 DEF Nothing
    <2>3. Head(w).writes[POWER] # 1
        <3>1. NoValue # 1
            BY HpfDatapoints DEF AxesValues
        <3> QED BY <2>2, <3>1, HpfDatapoints
    <2> QED BY <1>1, <1>2, <1>6, <1>7, <1>8, <2>2, <2>3, HpfDatapoints
<1>9. CASE /\ coming # <<>> /\ Head(coming) = Head(s.queue)
           /\ rest = Tail(coming)
           /\ after = Apply(m, Head(coming).writes)
    <2>1. Head(coming) = Head(w)
        BY <1>5, <1>9
    <2>2. /\ after \in States
          /\ PowerFirst(m, coming) => PowerFirst(after, rest)
          /\ PowerFirst(m, coming) /\ (Head(w).writes[SPEED] # NoValue \/ Head(w).writes[AXES] # NoValue)
                => m[POWER] = 1
          /\ OneSpeed(m, p.table, coming) => OneSpeed(after, p.table, rest)
          /\ NoSpeed(coming) => NoSpeed(rest) /\ after[SPEED] = m[SPEED]
          /\ NoOff(coming) => NoOff(rest) /\ (m[POWER] = 1 => after[POWER] = 1)
        <3>1. CarriedOut(coming, m, p.table)
            BY <1>2, <1>3, <1>9, ComingOfTail
        <3> QED BY <1>9, <2>1, <3>1 DEF CarriedOut
    <2>3. \A d \in Dps : Will(after, rest, d) = Will(m, coming, d)
        BY <1>3, <1>9, WillOfTail
    <2>4. Head(w).writes[POWER] = 1 => after[POWER] = 1
        <3>1. NoValue # 1
            BY HpfDatapoints DEF AxesValues
        <3> QED BY <1>9, <2>1, <3>1, HpfDatapoints DEF Apply
    <2> QED BY <1>1, <1>6, <1>7, <2>2, <2>3, <2>4, HpfDatapoints
<1> QED BY <1>5, <1>8, <1>9

\* Someone uses the panel or the remote while nothing is left to be sent.
LEMMA PressHolds ==
    ASSUME NEW p, NEW m, NEW speed, NEW axes, Holds(p, m, <<>>, <<>>, speed, axes),
           p.session.queue = <<>>,
           NEW now \in States, p.queued_speed # NoValue => now[SPEED] = m[SPEED]
    PROVE  Holds(p, now, <<>>, <<now>>,
                 IF now[POWER] = 1 /\ p.queued_speed # NoValue THEN speed ELSE now[SPEED],
                 Active(now[AXES]))
<1> DEFINE s == p.session
<1>1. /\ Wire(p, m, <<>>, <<>>) /\ SpeedWaits(p, m, ComingOf(s, <<>>))
      /\ SpeedIsMeant(p, m, ComingOf(s, <<>>), <<>>, speed) /\ TargetIsPending(p)
    BY DEF Holds
<1>2. p \in Programs /\ Linked(s, Requests) /\ Reconciles(s)
    BY <1>1 DEF Wire
<1>3. ~InFlight(s)
    BY <1>2 DEF Linked, SessionInv, HeadIsAwaited
<1>4. ComingOf(s, <<>>) = <<>>
    BY <1>3, NothingComes
<1>5. <<now>> # <<>> /\ Len(<<>>) = 0
    OBVIOUS
<1>6. Wire(p, now, <<>>, <<now>>)
    BY <1>2, <1>3, <1>5 DEF Wire, InStep
<1>7. PowerFirst(now, <<>>) /\ OneSpeed(now, p.table, <<>>)
    BY <1>5 DEF PowerFirst, OneSpeed
<1>8. SpeedWaits(p, now, <<>>)
    BY <1>1, <1>4 DEF SpeedWaits
<1>9. OnIsNext(p, now, <<now>>)
    BY <1>5 DEF OnIsNext
<1>10. now[POWER] \in {0, 1}
    BY DEF States
<1>11. Will(now, <<>>, SPEED) = now[SPEED] /\ Will(now, <<>>, AXES) = now[AXES]
    BY WillOfNone
<1>12. SpeedIsMeant(p, now, <<>>, <<now>>,
                    IF now[POWER] = 1 /\ p.queued_speed # NoValue THEN speed ELSE now[SPEED])
    BY <1>1, <1>5, <1>10, <1>11 DEF SpeedIsMeant
<1>13. AxesAreMeant(now, <<>>, Active(now[AXES]))
    BY <1>11 DEF AxesAreMeant
<1> QED BY <1>1, <1>4, <1>6, <1>7, <1>8, <1>9, <1>12, <1>13 DEF Holds
----------------------------------------------------------------------------
(* The steps of the system *)

LEMMA InitHolds == Init => Inv
<1> SUFFICES ASSUME Init PROVE Inv
    OBVIOUS
<1> DEFINE s == [InitSession EXCEPT !.initState = "INIT_DONE"]
<1>1. Linked(s, Requests) /\ Reconciles(s) /\ Idle(s) /\ s \in Sessions
    BY LinkedIdle DEF Linked
<1>2. /\ program = [session |-> s, table |-> mcu, queued_speed |-> NoValue, axes_target |-> NoValue]
      /\ mcu \in States /\ toMcu = <<>> /\ reports = <<>>
      /\ chosen = mcu[SPEED] /\ swinging = Active(mcu[AXES])
    BY DEF Init
<1> HIDE DEF s
<1>3. /\ program \in Programs /\ program.session = s /\ program.table = mcu
      /\ program.queued_speed = NoValue /\ program.axes_target = NoValue
    BY <1>1, <1>2 DEF Programs
<1>4. ComingOf(s, toMcu) = <<>>
    BY <1>1, NothingComes DEF Idle
<1>5. Wire(program, mcu, toMcu, reports)
    BY <1>1, <1>2, <1>3 DEF Wire, InStep, Idle
<1>6. Len(<<>>) = 0
    OBVIOUS
<1>7. PowerFirst(mcu, <<>>) /\ OneSpeed(mcu, program.table, <<>>)
    BY <1>6 DEF PowerFirst, OneSpeed
<1>8. SpeedWaits(program, mcu, <<>>) /\ OnIsNext(program, mcu, reports)
    BY <1>3 DEF SpeedWaits, OnIsNext
<1>9. Will(mcu, <<>>, SPEED) = mcu[SPEED] /\ Will(mcu, <<>>, AXES) = mcu[AXES]
    BY WillOfNone
<1>10. SpeedIsMeant(program, mcu, <<>>, reports, chosen) /\ AxesAreMeant(mcu, <<>>, swinging)
    BY <1>2, <1>3, <1>9 DEF SpeedIsMeant, AxesAreMeant
<1>11. TargetIsPending(program)
    <2>1. s.pending[AXES] = NoValue
        BY <1>1, HpfDatapoints DEF Idle, Nothing
    <2> QED BY <1>3, <2>1 DEF TargetIsPending
<1> QED BY <1>3, <1>4, <1>5, <1>7, <1>8, <1>10, <1>11 DEF Inv, Holds

\* What Commanded is while Inv holds.
LEMMA CommandedIsWill ==
    ASSUME Inv, NEW d \in Dps
    PROVE  Commanded[d] = Will(mcu, ComingOf(program.session, toMcu), d)
<1>1. Linked(program.session, Requests) /\ InStep(program.session, mcu, toMcu, reports)
    BY DEF Inv, Holds, Wire
<1> QED BY <1>1, CommandedIs, RequestsAreDelivers

\* What a control is given in that goes by some datapoints.
LEMMA ControlGiven ==
    ASSUME Inv, ~AmidReadback, NEW dps \in SUBSET Dps, MayControl(dps)
    PROVE  /\ Holds(program, mcu, toMcu, reports, chosen, swinging)
           /\ reports # <<>> => InFlight(program.session)
           /\ \A d \in dps : Current(program, mcu, toMcu, d)
<1>1. \A d \in dps : Current(program, mcu, toMcu, d)
    BY CommandedIsWill DEF MayControl, TargetsCurrent, Current
<1> QED BY <1>1 DEF Inv, MayControl

\* What a speed is chosen in.
LEMMA ChoiceGiven ==
    ASSUME Inv, ~AmidReadback, MayChoose
    PROVE  /\ Current(program, mcu, toMcu, SPEED)
           /\ power_confirmed_on(program) \/ ~OffComes(program.session, mcu)
<1>1. Current(program, mcu, toMcu, SPEED)
    BY CommandedIsWill, HpfDatapoints DEF MayChoose, TargetsCurrent, Current
<1>2. OffToCome = OffComes(program.session, mcu)
    BY DEF OffToCome, OffComes
<1> QED BY <1>1, <1>2 DEF MayChoose

\* control_fan with turn_on
LEMMA TurnOnHolds ==
    ASSUME Inv, ~AmidReadback, NEW v \in Speeds \cup {NoValue}, TurnOn(v)
    PROVE  Inv'
<1> DEFINE p == program
           waiting == IF v = NoValue THEN p ELSE [p EXCEPT !.queued_speed = v]
           meant == IF v = NoValue THEN chosen ELSE v
           q == FanOn(p, v)
<1>1. /\ Holds(p, mcu, toMcu, reports, chosen, swinging)
      /\ reports # <<>> => InFlight(p.session)
      /\ Current(p, mcu, toMcu, POWER)
      /\ v # NoValue => /\ Current(p, mcu, toMcu, SPEED)
                        /\ power_confirmed_on(p) \/ ~OffComes(p.session, mcu)
    <2>1. {POWER} \in SUBSET Dps /\ MayControl({POWER}) /\ (v # NoValue => MayChoose)
        BY HpfDatapoints DEF TurnOn
    <2> QED BY <2>1, ControlGiven, ChoiceGiven
<1>2. /\ program' = q /\ chosen' = meant
      /\ mcu' = mcu /\ toMcu' = toMcu /\ reports' = reports /\ swinging' = swinging
    BY DEF TurnOn
<1>3. ASSUME power_confirmed_on(p) PROVE Holds(q, mcu, toMcu, reports, meant, swinging)
    <2>1. q = IF v = NoValue THEN p ELSE SetSetting(p, SPEED, v)
        BY <1>3 DEF FanOn
    <2> HIDE DEF q
    <2>2. CASE v = NoValue
        BY <1>1, <2>1, <2>2
    <2>3. CASE v # NoValue
        <3>1. Holds(SetSetting(p, SPEED, v), mcu, toMcu, reports, v, swinging)
            BY <1>1, <1>3, <2>3, SpeedIsSet
        <3> QED BY <2>1, <2>3, <3>1
    <2> QED BY <2>2, <2>3
<1>4. ASSUME ~power_confirmed_on(p) PROVE Holds(q, mcu, toMcu, reports, meant, swinging)
    <2>1. Holds(waiting, mcu, toMcu, reports, meant, swinging)
        <3>1. CASE v = NoValue
            BY <1>1, <3>1
        <3>2. CASE v # NoValue
            <4>1. Holds([p EXCEPT !.queued_speed = v], mcu, toMcu, reports, v, swinging)
                BY <1>1, <1>4, <3>2, SpeedWaitsHolds
            <4> QED BY <3>2, <4>1
        <3> QED BY <3>1, <3>2
    <2>2. waiting.session = p.session /\ waiting.table = p.table
        <3>1. p \in Programs
            BY <1>1 DEF Holds, Wire
        <3> QED BY <3>1 DEF Programs
    <2>3. q = IF TargetIsTrue(p, POWER) THEN waiting ELSE Set(waiting, POWER, 1)
        BY <1>4 DEF FanOn
    <2> HIDE DEF q, waiting, meant
    <2>4. ~power_confirmed_on(waiting) /\ Current(waiting, mcu, toMcu, POWER)
        BY <1>1, <1>4, <2>2 DEF power_confirmed_on, IsTrue, IsPending, Current
    <2>5. Holds(Set(waiting, POWER, 1), mcu, toMcu, reports, meant, swinging)
        BY <1>1, <2>1, <2>2, <2>4, PowerHolds
    <2> QED BY <2>1, <2>3, <2>5
<1>5. Holds(q, mcu, toMcu, reports, meant, swinging)
    BY <1>3, <1>4
<1> QED BY <1>2, <1>5 DEF Inv

\* Every step keeps the invariant.
LEMMA StepHolds ==
    ASSUME ~AmidReadback, Inv, [Next]_vars
    PROVE  Inv'
<1>1. CASE Transmits
    <2> DEFINE u == [Transmit([program.session EXCEPT !.age = MaxAge], TRUE) EXCEPT !.age = 0]
    <2>1. /\ CanTransmit([program.session EXCEPT !.age = MaxAge], TRUE)
          /\ program' = [program EXCEPT !.session = u]
          /\ mcu' = mcu /\ reports' = reports /\ chosen' = chosen /\ swinging' = swinging
        BY <1>1 DEF Transmits, Transmission, history
    <2>2. toMcu' = Append(toMcu, Head(program.session.queue))
        <3>1. program \in Programs /\ program.session \in Sessions
            BY DEF Inv, Holds, Wire, Programs
        <3>2. [program.session EXCEPT !.age = MaxAge].queue = program.session.queue
            BY <3>1 DEF Sessions
        <3> QED BY <1>1, <3>2 DEF Transmits, Transmission
    <2> HIDE DEF u
    <2>3. Holds([program EXCEPT !.session = u], mcu, Append(toMcu, Head(program.session.queue)),
                reports, chosen, swinging)
        BY <2>1, TransmitHolds DEF Inv, u
    <2> QED BY <2>1, <2>2, <2>3 DEF Inv
<1>2. CASE Executes
    <2>1. /\ toMcu # <<>> /\ mcu' = Apply(mcu, Head(toMcu).writes) /\ toMcu' = Tail(toMcu)
          /\ reports' = Append(reports, mcu') /\ program' = program
          /\ chosen' = chosen /\ swinging' = swinging
        BY <1>2 DEF Executes, Execution, history
    <2>2. Holds(program, mcu', Tail(toMcu), Append(reports, mcu'), chosen, swinging)
        BY <2>1, ExecuteHolds DEF Inv
    <2> QED BY <2>1, <2>2 DEF Inv
<1>3. CASE Receives
    <2>1. /\ reports # <<>> /\ program' = TakeReport(program, Head(reports), HandleDatapoint)
          /\ reports' = Tail(reports)
          /\ mcu' = mcu /\ toMcu' = toMcu /\ chosen' = chosen /\ swinging' = swinging
        BY <1>3 DEF Receives, history
    <2>2. reports = <<mcu>>
        BY <2>1 DEF Inv, Holds, Wire
    <2>3. Head(reports) = mcu /\ Tail(reports) = <<>>
        BY <2>2
    <2>4. Holds(TakeReport(program, mcu, HandleDatapoint), mcu, toMcu, <<>>, chosen, swinging)
        BY <2>1, ReportHolds DEF Inv
    <2> QED BY <2>1, <2>3, <2>4 DEF Inv
<1>4. CASE TurnOff
    <2>1. /\ program' = FanOff(program) /\ chosen' = Commanded[SPEED]
          /\ mcu' = mcu /\ toMcu' = toMcu /\ reports' = reports /\ swinging' = swinging
        BY <1>4 DEF TurnOff
    <2>2. Commanded[SPEED] = Will(mcu, ComingOf(program.session, toMcu), SPEED)
        BY CommandedIsWill, HpfDatapoints
    <2>3. Holds(FanOff(program), mcu, toMcu, reports,
                Will(mcu, ComingOf(program.session, toMcu), SPEED), swinging)
        <3>1. {POWER} \in SUBSET Dps /\ MayControl({POWER})
            BY <1>4, HpfDatapoints DEF TurnOff
        <3> QED BY <3>1, ControlGiven, FanOffHolds
    <2> QED BY <2>1, <2>2, <2>3 DEF Inv
<1>5. ASSUME NEW v \in Speeds \cup {NoValue}, TurnOn(v) PROVE Inv'
    BY <1>5, TurnOnHolds
<1>6. ASSUME NEW v \in Speeds, ChangeSpeed(v) PROVE Inv'
    <2>1. /\ program' = FanSpeed(program, v) /\ chosen' = v
          /\ mcu' = mcu /\ toMcu' = toMcu /\ reports' = reports /\ swinging' = swinging
        BY <1>6 DEF ChangeSpeed
    <2>2. Holds(FanSpeed(program, v), mcu, toMcu, reports, v, swinging)
        <3>1. {POWER} \in SUBSET Dps /\ MayControl({POWER}) /\ MayChoose
            BY <1>6, HpfDatapoints DEF ChangeSpeed
        <3>2. CASE power_confirmed_on(program)
            <4>1. Holds(SetSetting(program, SPEED, v), mcu, toMcu, reports, v, swinging)
                BY <3>1, <3>2, ControlGiven, ChoiceGiven, SpeedIsSet
            <4> QED BY <3>2, <4>1 DEF FanSpeed
        <3>3. CASE ~power_confirmed_on(program)
            <4>1. Holds([program EXCEPT !.queued_speed = v], mcu, toMcu, reports, v, swinging)
                BY <3>1, <3>3, ControlGiven, ChoiceGiven, SpeedWaitsHolds
            <4> QED BY <3>3, <4>1 DEF FanSpeed
        <3> QED BY <3>2, <3>3
    <2> QED BY <2>1, <2>2 DEF Inv
<1>7. ASSUME NEW axis \in Axes, NEW on \in BOOLEAN, SwitchAxis(axis, on) PROVE Inv'
    <2>1. /\ program' = control_axis(program, axis, on)
          /\ swinging' = IF ~power_confirmed_on(program) THEN swinging
                         ELSE IF on THEN swinging \cup {axis} ELSE swinging \ {axis}
          /\ mcu' = mcu /\ toMcu' = toMcu /\ reports' = reports /\ chosen' = chosen
        BY <1>7 DEF SwitchAxis
    <2>2. Holds(control_axis(program, axis, on), mcu, toMcu, reports, chosen,
                IF ~power_confirmed_on(program) THEN swinging
                ELSE IF on THEN swinging \cup {axis} ELSE swinging \ {axis})
        <3>1. {POWER, AXES} \in SUBSET Dps /\ MayControl({POWER, AXES})
            BY <1>7, HpfDatapoints DEF SwitchAxis
        <3> QED BY <3>1, ControlGiven, AxisHolds
    <2> QED BY <2>1, <2>2 DEF Inv
<1>8. CASE Press
    <2>1. /\ program.session.queue = <<>> /\ toMcu = <<>> /\ reports = <<>>
          /\ mcu' \in States
          /\ program.queued_speed # NoValue => mcu'[SPEED] = mcu[SPEED]
          /\ reports' = <<mcu'>> /\ program' = program /\ toMcu' = toMcu
          /\ chosen' = IF mcu'[POWER] = 1 /\ program.queued_speed # NoValue THEN chosen ELSE mcu'[SPEED]
          /\ swinging' = Active(mcu'[AXES])
        BY <1>8 DEF Press, Quiet
    <2>2. Holds(program, mcu, <<>>, <<>>, chosen, swinging)
        BY <2>1 DEF Inv
    <2>3. Holds(program, mcu', <<>>, <<mcu'>>,
                IF mcu'[POWER] = 1 /\ program.queued_speed # NoValue THEN chosen ELSE mcu'[SPEED],
                Active(mcu'[AXES]))
        BY <2>1, <2>2, PressHolds
    <2> QED BY <2>1, <2>3 DEF Inv
<1>9. CASE UNCHANGED vars
    BY <1>9 DEF vars, history, Inv
<1> QED BY <1>1, <1>2, <1>3, <1>4, <1>5, <1>6, <1>7, <1>8, <1>9 DEF Next
----------------------------------------------------------------------------
(* The theorems *)

THEOREM InvHolds ==
    ASSUME ~AmidReadback
    PROVE  Spec => []Inv
<1>1. Init => Inv
    BY InitHolds
<1>2. Inv /\ [Next]_vars => Inv'
    BY StepHolds
<1> QED BY <1>1, <1>2, PTL DEF Spec

\* Once everything commanded is done exactly those axes swing that were last switched
\* on, with any number of controls queued or under way (axes_base_), as long as none
\* that goes by the axes is given after a readback, answered ahead of a write of them,
\* has cleared the target of that write: NoAxisTakenBack fails there.
THEOREM AxesStayAsSwitched ==
    ASSUME ~AmidReadback
    PROVE  Spec => []AxesPrevail
<1>1. Inv => AxesPrevail
    <2> SUFFICES ASSUME Inv PROVE AxesPrevail
        OBVIOUS
    <2>1. AxesAreMeant(mcu, ComingOf(program.session, toMcu), swinging)
        BY DEF Inv, Holds
    <2> QED BY <2>1, CommandedIsWill, HpfDatapoints DEF AxesPrevail, AxesAreMeant
<1> QED BY <1>1, InvHolds, PTL

\* A fan that is on and has nothing left to do runs at the speed last chosen, and no
\* speed is left waiting (handle_power_, flush_queued_fan_settings_), under the same
\* hypothesis of what the control goes by.
THEOREM SpeedIsReached ==
    ASSUME ~AmidReadback
    PROVE  Spec => []SpeedPrevails
<1>1. Inv => SpeedPrevails
    <2> SUFFICES ASSUME Inv, Quiet, mcu[POWER] = 1
                 PROVE  program.queued_speed = NoValue /\ mcu[SPEED] = chosen
        BY DEF SpeedPrevails
    <2> DEFINE s == program.session
    <2>1. s.queue = <<>> /\ toMcu = <<>> /\ reports = <<>>
        BY DEF Quiet
    <2>2. /\ Wire(program, mcu, toMcu, reports)
          /\ SpeedWaits(program, mcu, ComingOf(s, toMcu))
          /\ SpeedIsMeant(program, mcu, ComingOf(s, toMcu), reports, chosen)
        BY DEF Inv, Holds
    <2>3. Linked(s, Requests) /\ Reconciles(s) /\ program.table = mcu
        BY <2>1, <2>2 DEF Wire
    <2>4. ~InFlight(s) /\ s.pending[POWER] = NoValue
        BY <2>1, <2>3, HpfDatapoints DEF Linked, SessionInv, HeadIsAwaited, Reconciles, HasPending
    <2>5. program.queued_speed = NoValue
        BY <2>2, <2>3, <2>4 DEF SpeedWaits, power_confirmed_on, IsTrue, IsPending
    <2>6. ComingOf(s, toMcu) = <<>>
        BY <2>1, <2>4, NothingComes
    <2>7. Will(mcu, <<>>, SPEED) = mcu[SPEED]
        BY WillOfNone
    <2> QED BY <2>2, <2>5, <2>6, <2>7 DEF SpeedIsMeant
<1> QED BY <1>1, InvHolds, PTL

\* A speed or an axis is carried out by the MCU only while it is on: it neither
\* overtakes the "on" it needs nor follows an "off" (authorize_command_), under the same
\* hypothesis: the target of an "off" that a readback cleared holds nothing back.
THEOREM SettingsFindPower ==
    ASSUME ~AmidReadback
    PROVE  Spec => SettingNeedsPower
<1> DEFINE Carries == toMcu # <<>> /\ toMcu' = Tail(toMcu)
                        /\ (Head(toMcu).writes[SPEED] # NoValue \/ Head(toMcu).writes[AXES] # NoValue)
                      => mcu[POWER] = 1
<1>1. Inv /\ [Next]_vars => [Carries]_vars
    <2> SUFFICES ASSUME Inv, toMcu # <<>>,
                        Head(toMcu).writes[SPEED] # NoValue \/ Head(toMcu).writes[AXES] # NoValue
                 PROVE  mcu[POWER] = 1
        OBVIOUS
    <2>1. PICK after : after = Apply(mcu, Head(toMcu).writes)
        OBVIOUS
    <2> QED BY <2>1, ExecuteHolds DEF Inv
<1> QED BY <1>1, InvHolds, PTL DEF Spec, SettingNeedsPower
=============================================================================
