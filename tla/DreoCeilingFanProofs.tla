------------------------ MODULE DreoCeilingFanProofs ------------------------
(***************************************************************************)
(* That the coordinator of the ceiling fan lights the outputs that were    *)
(* asked for, and no other on the way, and writes each setting that was    *)
(* chosen, while its output is lit.                                        *)
(*                                                                         *)
(* All is proved from one invariant, Inv, of the program, the MCU and the  *)
(* commands that come: those the MCU has yet to carry out, without the     *)
(* readbacks.  It is stated of values, so that each lemma takes one        *)
(* operation of the coordinator or one step of the wire.                   *)
(***************************************************************************)
EXTENDS DreoCeilingFan, DreoLinkProofs, FiniteSetTheorems

(* What the coordinator has sent *)

LEMMA Datapoints ==
    /\ MASTER \in Dps /\ Outputs \subseteq Dps /\ PowerDps \subseteq Dps
    /\ MASTER \notin Outputs /\ PowerDps = {MASTER} \cup Outputs
    /\ 0 \in Values /\ 1 \in Values /\ NoValue \notin Values
    /\ \A o \in Settable : /\ o \in Outputs /\ SettingOf[o] \in Dps
                           /\ SettingOf[o] \notin PowerDps /\ SettingOf[o] \notin Transition
                           /\ \A x \in Settable : SettingOf[o] = SettingOf[x] => o = x
<1>1. Outputs \subseteq Dps /\ MASTER \notin Outputs
    BY DEF Outputs, MASTER, FAN, LIGHT, AMBIENT
<1>2. ASSUME NEW o \in Settable
      PROVE  /\ o \in Outputs /\ SettingOf[o] \in Dps
             /\ SettingOf[o] \notin PowerDps /\ SettingOf[o] \notin Transition
             /\ \A x \in Settable : SettingOf[o] = SettingOf[x] => o = x
    <2>1. \A x \in Settable : x \in {FAN, LIGHT} /\ x \in Outputs /\ SettingOf[x] \in Dps
        BY DEF Settable, Outputs
    <2>2. SettingOf[FAN] = 7 /\ SettingOf[LIGHT] = 8 /\ FAN # LIGHT
        BY DEF SettingOf, FAN, LIGHT
    <2>3. 7 \notin PowerDps /\ 8 \notin PowerDps
        BY DEF PowerDps, Outputs, MASTER, FAN, LIGHT, AMBIENT
    <2>4. SettingOf[o] \notin Transition
        BY SettingAssumption
    <2> QED BY <2>1, <2>2, <2>3, <2>4
<1> QED BY <1>1, <1>2, PowerAssumption, DatapointsAssumption DEF PowerDps

Requests == {Deliver(One(d, v)) : d \in PowerDps, v \in {0, 1}}
            \cup {Deliver(One(SettingOf[o], v)) : o \in Settable, v \in Values}

\* A request of d for v.
IsRequest(d, v) ==
    \/ d \in PowerDps /\ v \in {0, 1}
    \/ \E o \in Settable : d = SettingOf[o] /\ v \in Values

LEMMA RequestIs ==
    ASSUME NEW d, NEW v, IsRequest(d, v)
    PROVE  /\ d \in Dps /\ v \in Values /\ v # NoValue
           /\ Deliver(One(d, v)) \in Requests
           /\ Deliver(One(d, v)).writes[d] = v
           /\ \A e \in Dps : e # d => Deliver(One(d, v)).writes[e] = NoValue
<1>1. d \in Dps /\ v \in Values /\ v # NoValue
    BY Datapoints DEF IsRequest
<1>2. Deliver(One(d, v)).writes = One(d, v)
    BY DEF Deliver
<1>3. One(d, v)[d] = v /\ \A e \in Dps : e # d => One(d, v)[e] = NoValue
    BY <1>1 DEF One, Nothing
<1>4. Deliver(One(d, v)) \in Requests
    BY DEF IsRequest, Requests
<1> QED BY <1>1, <1>2, <1>3, <1>4

LEMMA RequestsAreDelivers == Requests \subseteq Delivers
<1> SUFFICES ASSUME NEW c \in Requests PROVE c \in Delivers
    OBVIOUS
<1>1. PICK d, v : c = Deliver(One(d, v)) /\ IsRequest(d, v)
    BY DEF Requests, IsRequest
<1>2. d \in Dps /\ v \in Values
    BY <1>1, RequestIs
<1>3. One(d, v) \in Batches
    BY <1>2 DEF One, Nothing, Batches
<1> QED BY <1>1, <1>3 DEF Delivers

\* Carrying one out leaves the MCU in a state it can be in.
LEMMA RequestApplies ==
    ASSUME NEW c \in Requests, NEW m \in States
    PROVE  /\ Apply(m, c.writes) \in States
           /\ \A d \in Dps : Apply(m, c.writes)[d] = IF c.writes[d] # NoValue THEN c.writes[d] ELSE m[d]
<1> DEFINE after == Apply(m, c.writes)
<1>1. PICK d, v : c = Deliver(One(d, v)) /\ IsRequest(d, v)
    BY DEF Requests, IsRequest
<1>2. /\ c.writes[d] = v /\ v # NoValue /\ d \in Dps /\ v \in Values
      /\ \A e \in Dps : e # d => c.writes[e] = NoValue
    BY <1>1, RequestIs
<1>3. d \in PowerDps => v \in {0, 1}
    BY <1>1, Datapoints DEF IsRequest
<1>4. \A e \in Dps : after[e] = IF c.writes[e] # NoValue THEN c.writes[e] ELSE m[e]
    BY DEF Apply
<1>5. \A e \in Dps : after[e] = IF e = d THEN v ELSE m[e]
    BY <1>2, <1>4
<1>6. after \in [Dps -> Values]
    <2>1. \A e \in Dps : after[e] \in Values
        BY <1>2, <1>5 DEF States
    <2> QED BY <2>1 DEF Apply
<1> HIDE DEF after
<1>7. after \in States
    BY <1>3, <1>5, <1>6, Datapoints DEF States
<1> QED BY <1>4, <1>7 DEF after

----------------------------------------------------------------------------
(* What holds of the commands that come *)

\* The outputs that are lit once the first n of the commands are carried out, and
\* once all are.
LitAfter(m, coming, n) ==
    {o \in Outputs : Becomes(m, coming, n, MASTER) = 1 /\ Becomes(m, coming, n, o) = 1}

LitAtEnd(m, coming) == {o \in Outputs : Will(m, coming, MASTER) = 1 /\ Will(m, coming, o) = 1}

\* A setting comes while its output is lit.
Powered(m, coming) ==
    \A i \in 1..Len(coming) : \A o \in Settable :
        coming[i].writes[SettingOf[o]] # NoValue => AllowWhileOff \/ o \in LitAfter(m, coming, i - 1)

\* No output comes on that is not allowed to.
NoneFlashes(m, coming, allowed) ==
    \A n \in 0..Len(coming) : LitAfter(m, coming, n) \subseteq allowed

\* At most one value of a setting comes, which the coordinator does not know from
\* the table.
OneSetting(m, table, coming, d) ==
    \A i \in 1..Len(coming) : coming[i].writes[d] # NoValue =>
        /\ m[d] = table[d]
        /\ coming[i].writes[d] # table[d]
        /\ \A j \in 1..Len(coming) : coming[j].writes[d] # NoValue => i = j

NoSetting(coming, d) == \A i \in 1..Len(coming) : coming[i].writes[d] = NoValue

\* One more command.
Appended(m, table, coming, c) ==
    LET longer == Append(coming, c)
    IN  /\ longer \in Seq(Requests)
        /\ Powered(m, coming)
             /\ (\A o \in Settable : c.writes[SettingOf[o]] # NoValue => AllowWhileOff \/ o \in LitAtEnd(m, coming))
           => Powered(m, longer)
        /\ \A allowed : NoneFlashes(m, coming, allowed) /\ LitAtEnd(m, longer) \subseteq allowed
                           => NoneFlashes(m, longer, allowed)
        /\ \A d : /\ OneSetting(m, table, coming, d)
                  /\ c.writes[d] # NoValue => /\ NoSetting(coming, d) /\ m[d] = table[d]
                                              /\ c.writes[d] # table[d]
                  => OneSetting(m, table, longer, d)
        /\ \A d : NoSetting(coming, d) /\ c.writes[d] = NoValue => NoSetting(longer, d)

LEMMA ComingOfAppend ==
    ASSUME NEW coming \in Seq(Requests), NEW c \in Requests, NEW m, NEW table
    PROVE  Appended(m, table, coming, c)
<1> DEFINE longer == Append(coming, c)
           n == Len(coming)
<1>1. /\ longer \in Seq(Requests) /\ Len(longer) = n + 1 /\ n \in Nat
      /\ longer[n + 1] = c
      /\ \A i \in 1..n : longer[i] = coming[i]
    BY AppendProperties, LenProperties
<1>2. \A d : \A i \in 0..n : Becomes(m, longer, i, d) = Becomes(m, coming, i, d)
    <2>1. \A d : Agree(m, longer, coming, d)
        BY WillOfAppend
    <2> QED BY <2>1 DEF Agree
<1> HIDE DEF longer
<1>3. \A i \in 0..n : LitAfter(m, longer, i) = LitAfter(m, coming, i)
    BY <1>2 DEF LitAfter
<1>4. LitAtEnd(m, coming) = LitAfter(m, coming, n) /\ LitAtEnd(m, longer) = LitAfter(m, longer, n + 1)
    BY <1>1 DEF LitAtEnd, LitAfter, Will
<1> HIDE DEF n
<1>5. \A i \in 1..(n + 1) : i \in 1..n \/ i = n + 1
    BY <1>1
<1>6. ASSUME Powered(m, coming),
             \A o \in Settable : c.writes[SettingOf[o]] # NoValue => AllowWhileOff \/ o \in LitAtEnd(m, coming)
      PROVE  Powered(m, longer)
    <2> SUFFICES ASSUME NEW i \in 1..(n + 1), NEW o \in Settable, longer[i].writes[SettingOf[o]] # NoValue
                 PROVE  AllowWhileOff \/ o \in LitAfter(m, longer, i - 1)
        BY <1>1 DEF Powered
    <2>1. i - 1 \in 0..n
        BY <1>1
    <2>2. CASE i \in 1..n
        BY <1>1, <1>3, <1>6, <2>1, <2>2 DEF Powered, n
    <2>3. CASE i = n + 1
        <3>1. i - 1 = n /\ longer[i] = c
            BY <1>1, <2>3
        <3> QED BY <1>3, <1>4, <1>6, <2>1, <3>1
    <2> QED BY <1>5, <2>2, <2>3
<1>7. ASSUME NEW allowed, NoneFlashes(m, coming, allowed), LitAtEnd(m, longer) \subseteq allowed
      PROVE  NoneFlashes(m, longer, allowed)
    <2> SUFFICES ASSUME NEW i \in 0..(n + 1) PROVE LitAfter(m, longer, i) \subseteq allowed
        BY <1>1 DEF NoneFlashes
    <2>1. i \in 0..n \/ i = n + 1
        BY <1>1
    <2> QED BY <1>3, <1>4, <1>7, <2>1 DEF NoneFlashes, n
<1>8. ASSUME NEW d, OneSetting(m, table, coming, d),
             c.writes[d] # NoValue => /\ NoSetting(coming, d) /\ m[d] = table[d]
                                      /\ c.writes[d] # table[d]
      PROVE  OneSetting(m, table, longer, d)
    <2> SUFFICES ASSUME NEW i \in 1..(n + 1), longer[i].writes[d] # NoValue
                 PROVE  /\ m[d] = table[d]
                        /\ longer[i].writes[d] # table[d]
                        /\ \A j \in 1..(n + 1) : longer[j].writes[d] # NoValue => i = j
        BY <1>1 DEF OneSetting
    <2>1. CASE c.writes[d] # NoValue
        <3>1. \A j \in 1..n : longer[j].writes[d] = NoValue
            BY <1>1, <1>8, <2>1 DEF NoSetting, n
        <3> QED BY <1>1, <1>5, <1>8, <2>1, <3>1
    <2>2. CASE c.writes[d] = NoValue
        BY <1>1, <1>5, <1>8, <2>2 DEF OneSetting, n
    <2> QED BY <2>1, <2>2
<1>9. ASSUME NEW d, NoSetting(coming, d), c.writes[d] = NoValue PROVE NoSetting(longer, d)
    BY <1>1, <1>5, <1>9 DEF NoSetting, n
<1> QED BY <1>1, <1>6, <1>7, <1>8, <1>9 DEF Appended, longer

\* The first command is carried out.
CarriedOut(m, table, coming) ==
    LET rest  == Tail(coming)
        first == Head(coming).writes
        after == Apply(m, first)
    IN  /\ rest \in Seq(Requests) /\ Head(coming) \in Requests /\ after \in States
        /\ \A d \in Dps : Will(after, rest, d) = Will(m, coming, d)
        /\ Powered(m, coming) =>
              /\ Powered(after, rest)
              /\ \A o \in Settable : first[SettingOf[o]] # NoValue => AllowWhileOff \/ o \in Lit(m)
        /\ \A allowed : NoneFlashes(m, coming, allowed) => NoneFlashes(after, rest, allowed)
        /\ \A d \in Dps : OneSetting(m, table, coming, d) => OneSetting(after, table, rest, d)
        /\ \A d \in Dps : NoSetting(coming, d) => NoSetting(rest, d) /\ after[d] = m[d]

LEMMA ComingOfTail ==
    ASSUME NEW coming \in Seq(Requests), coming # <<>>, NEW m \in States, NEW table
    PROVE  CarriedOut(m, table, coming)
<1> DEFINE rest  == Tail(coming)
           c     == Head(coming)
           after == Apply(m, c.writes)
           n     == Len(rest)
<1>1. /\ rest \in Seq(Requests) /\ Len(coming) = n + 1 /\ n \in Nat
      /\ \A i \in 1..n : rest[i] = coming[i + 1]
      /\ c = coming[1] /\ c \in Requests
    BY HeadTailProperties, EmptySeq, LenProperties
<1>2. /\ after \in States
      /\ \A d \in Dps : after[d] = IF c.writes[d] # NoValue THEN c.writes[d] ELSE m[d]
    BY <1>1, RequestApplies
<1>3. \A d \in Dps : Will(after, rest, d) = Will(m, coming, d) /\ Follow(after, rest, m, coming, d)
    BY WillOfTail
<1> HIDE DEF rest, after, c, n
<1>4. \A i \in 0..n : LitAfter(after, rest, i) = LitAfter(m, coming, i + 1)
    <2>1. \A d \in Dps : \A i \in 0..n : Becomes(after, rest, i, d) = Becomes(m, coming, i + 1, d)
        BY <1>3 DEF Follow, n
    <2> QED BY <2>1, Datapoints DEF LitAfter
<1>5. LitAfter(m, coming, 0) = Lit(m)
    <2>1. \A d : Becomes(m, coming, 0, d) = m[d]
        BY BecomesLast DEF Unwritten
    <2> QED BY <2>1 DEF LitAfter, Lit
<1>6. \A i \in 1..n : i + 1 \in 1..(n + 1) /\ i - 1 \in 0..n /\ (i - 1) + 1 = (i + 1) - 1
    BY <1>1
<1>7. 1 \in 1..(n + 1) /\ 1 - 1 = 0
    BY <1>1
<1>8. ASSUME Powered(m, coming) PROVE Powered(after, rest)
    <2> SUFFICES ASSUME NEW i \in 1..n, NEW o \in Settable, rest[i].writes[SettingOf[o]] # NoValue
                 PROVE  AllowWhileOff \/ o \in LitAfter(after, rest, i - 1)
        BY DEF Powered, n
    <2>1. LitAfter(after, rest, i - 1) = LitAfter(m, coming, (i + 1) - 1)
        BY <1>4, <1>6
    <2>2. rest[i] = coming[i + 1] /\ i + 1 \in 1..Len(coming)
        BY <1>1, <1>6
    <2> QED BY <1>8, <2>1, <2>2 DEF Powered
<1>9. ASSUME Powered(m, coming), NEW o \in Settable, c.writes[SettingOf[o]] # NoValue
      PROVE  AllowWhileOff \/ o \in Lit(m)
    <2>1. 1 \in 1..Len(coming) /\ coming[1] = c
        BY <1>1, <1>7
    <2>2. AllowWhileOff \/ o \in LitAfter(m, coming, 1 - 1)
        BY <1>9, <2>1 DEF Powered
    <2> QED BY <1>5, <1>7, <2>2
<1>10. ASSUME NEW allowed, NoneFlashes(m, coming, allowed) PROVE NoneFlashes(after, rest, allowed)
    <2> SUFFICES ASSUME NEW i \in 0..n PROVE LitAfter(after, rest, i) \subseteq allowed
        BY DEF NoneFlashes, n
    <2>1. i + 1 \in 0..Len(coming)
        BY <1>1
    <2> QED BY <1>4, <1>10, <2>1 DEF NoneFlashes
<1>11. ASSUME NEW d \in Dps, OneSetting(m, table, coming, d) PROVE OneSetting(after, table, rest, d)
    <2> SUFFICES ASSUME NEW i \in 1..n, rest[i].writes[d] # NoValue
                 PROVE  /\ after[d] = table[d]
                        /\ rest[i].writes[d] # table[d]
                        /\ \A j \in 1..n : rest[j].writes[d] # NoValue => i = j
        BY DEF OneSetting, n
    <2>1. rest[i] = coming[i + 1] /\ i + 1 \in 1..Len(coming) /\ 1 \in 1..Len(coming)
        BY <1>1, <1>6
    <2>2. /\ m[d] = table[d]
          /\ rest[i].writes[d] # table[d]
          /\ \A j \in 1..Len(coming) : coming[j].writes[d] # NoValue => i + 1 = j
        BY <1>11, <2>1 DEF OneSetting
    <2>3. i + 1 # 1
        BY <1>1
    <2>4. c.writes[d] = NoValue
        BY <1>1, <2>1, <2>2, <2>3
    <2>5. ASSUME NEW j \in 1..n, rest[j].writes[d] # NoValue PROVE i = j
        <3>1. rest[j] = coming[j + 1] /\ j + 1 \in 1..Len(coming)
            BY <1>1, <1>6
        <3>2. i + 1 = j + 1
            BY <2>2, <2>5, <3>1
        <3> QED BY <1>1, <3>2
    <2> QED BY <1>2, <2>2, <2>4, <2>5
<1>12. ASSUME NEW d \in Dps, NoSetting(coming, d) PROVE NoSetting(rest, d) /\ after[d] = m[d]
    <2>1. c.writes[d] = NoValue
        BY <1>1, <1>7, <1>12 DEF NoSetting
    <2>2. \A i \in 1..n : rest[i].writes[d] = NoValue
        BY <1>1, <1>6, <1>12 DEF NoSetting
    <2> QED BY <1>2, <2>1, <2>2 DEF NoSetting, n
<1> QED BY <1>1, <1>2, <1>3, <1>8, <1>9, <1>10, <1>11, <1>12 DEF CarriedOut, rest, after, c

\* With none to come.
LEMMA ComingOfNone ==
    ASSUME NEW m, NEW table
    PROVE  /\ Powered(m, <<>>)
           /\ LitAtEnd(m, <<>>) = Lit(m)
           /\ \A allowed : Lit(m) \subseteq allowed => NoneFlashes(m, <<>>, allowed)
           /\ \A d : OneSetting(m, table, <<>>, d)
<1>1. Len(<<>>) = 0
    OBVIOUS
<1>2. \A d : Will(m, <<>>, d) = m[d] /\ Becomes(m, <<>>, 0, d) = m[d]
    <2>1. \A d : Will(m, <<>>, d) = m[d]
        BY WillOfNone
    <2> QED BY <1>1, <2>1 DEF Will
<1>3. LitAtEnd(m, <<>>) = Lit(m) /\ LitAfter(m, <<>>, 0) = Lit(m)
    BY <1>2 DEF LitAtEnd, LitAfter, Lit
<1>4. Powered(m, <<>>) /\ \A d : OneSetting(m, table, <<>>, d)
    BY <1>1 DEF Powered, OneSetting
<1>5. \A allowed : Lit(m) \subseteq allowed => NoneFlashes(m, <<>>, allowed)
    BY <1>1, <1>3 DEF NoneFlashes
<1> QED BY <1>3, <1>4, <1>5

----------------------------------------------------------------------------
(* The invariant *)

Programs == [session : Sessions,
             table   : States,
             queued  : [Settable -> Values \cup {NoValue}]]

\* The program, the wire and the MCU go in step.
Wire(p, m, w, r) ==
    /\ p \in Programs /\ m \in States
    /\ Linked(p.session, Requests)
    /\ Reconciles(p.session)
    /\ InStep(p.session, m, w, r)
    /\ r \in {<<>>, <<m>>}
    /\ r = <<>> => p.table = m

\* The setting that is meant is the one that waits, or else the one that is
\* commanded. While one waits none is written.
SettingIsMeant(p, m, coming, values, o) ==
    LET d == SettingOf[o]
    IN  /\ OneSetting(m, p.table, coming, d)
        /\ p.queued[o] = NoValue => values[o] = Will(m, coming, d)
        /\ p.queued[o] # NoValue => /\ values[o] = p.queued[o]
                                    /\ NoSetting(coming, d) /\ m[d] = p.table[d]

Sound(p, m, coming, values, allowed) ==
    /\ Powered(m, coming)
    /\ NoneFlashes(m, coming, allowed)
    /\ values \in [Settable -> Values]
    /\ \A o \in Settable : SettingIsMeant(p, m, coming, values, o)

\* The outputs that are meant to be lit will be, and a setting waits for one of them
\* only.
Lighted(p, m, coming, outputs) ==
    /\ LitAtEnd(m, coming) = outputs
    /\ \A o \in Settable : p.queued[o] # NoValue => o \in outputs

\* A setting waits while its output is not confirmed to be lit.
Waiting(p) == \A o \in Settable : p.queued[o] # NoValue => ~Confirmed(p, o)

Holds(p, m, w, r, outputs, values, allowed) ==
    LET coming == ComingOf(p.session, w)
    IN  /\ Wire(p, m, w, r)
        /\ Sound(p, m, coming, values, allowed)
        /\ Lighted(p, m, coming, outputs)
        /\ Waiting(p)

Inv == Holds(program, mcu, toMcu, reports, wanted, chosen, asked)

----------------------------------------------------------------------------
(* What is asked of the hub *)

\* What Set does to the session.
Asked(s, t, table, d, v) ==
    \/ Sends(s, t, d, v) /\ (table[d] # v \/ s.pending[d] \notin {NoValue, v})
    \/ t = s /\ table[d] = v /\ s.pending[d] \in {NoValue, v}

\* What Set does to the program.
Requested(p, q, d, v) ==
    /\ q \in Programs
    /\ Linked(q.session, Requests)
    /\ q.table = p.table /\ q.queued = p.queued
    /\ Asked(p.session, q.session, p.table, d, v)

LEMMA SetAsks ==
    ASSUME NEW p \in Programs, Linked(p.session, Requests), NEW d, NEW v, IsRequest(d, v)
    PROVE  Requested(p, Set(p, d, v), d, v)
<1> DEFINE q == Set(p, d, v)
           s == p.session
           t == Enqueue(Record(s, One(d, v)), Deliver(One(d, v)))
<1>1. d \in Dps /\ v \in Values /\ v # NoValue /\ Deliver(One(d, v)) \in Requests
    BY RequestIs
<1>2. Linked(t, Requests) /\ Sends(s, t, d, v)
    BY <1>1, LinkedSend, RequestsAreDelivers
<1>3. t \in Sessions
    BY <1>2 DEF Linked
<1> HIDE DEF t
<1>4. CASE NeedsSend(s, p.table, One(d, v), FALSE)
    <2>1. q = [p EXCEPT !.session = t]
        BY <1>4 DEF Set, t, Programs
    <2>2. /\ q \in Programs /\ q.session = t
          /\ q.table = p.table /\ q.queued = p.queued
        BY <1>3, <2>1 DEF Programs
    <2>3. p.table[d] # v \/ s.pending[d] \notin {NoValue, v}
        BY <1>4 DEF NeedsSend, PendingDiffers, Written, One, Nothing
    <2> QED BY <1>2, <2>2, <2>3 DEF Asked, Requested
<1>5. CASE ~NeedsSend(s, p.table, One(d, v), FALSE)
    <2>1. q = p
        BY <1>5 DEF Set
    <2>2. One(d, v)[d] = v /\ d \in Written(One(d, v))
        BY <1>1 DEF One, Nothing, Written
    <2>3. p.table[d] = v /\ ~PendingDiffers(s, d, v)
        BY <1>5, <2>2 DEF NeedsSend
    <2>4. s.pending[d] \in {NoValue, v}
        BY <1>1, <2>3 DEF PendingDiffers, Linked
    <2> QED BY <2>1, <2>3, <2>4 DEF Asked, Requested
<1> QED BY <1>4, <1>5

\* What the wire and what comes are after it.
Sent(s, t, w, table, d, v) ==
    \/ /\ table[d] # v \/ s.pending[d] \notin {NoValue, v}
       /\ ComingOf(t, w) = Append(ComingOf(s, w), Deliver(One(d, v)))
       /\ t.pending = [s.pending EXCEPT ![d] = IF d \in Transition THEN v ELSE @]
    \/ t = s /\ table[d] = v /\ s.pending[d] \in {NoValue, v}

LEMMA AskedWire ==
    ASSUME NEW p, NEW m, NEW w, NEW r, Wire(p, m, w, r), r # <<>> => InFlight(p.session),
           NEW q, NEW d, NEW v, IsRequest(d, v), Requested(p, q, d, v)
    PROVE  /\ Wire(q, m, w, r) /\ (r # <<>> => InFlight(q.session))
           /\ Sent(p.session, q.session, w, p.table, d, v)
<1>1. d \in Dps /\ v \in Values
    BY RequestIs
<1>2. /\ q \in Programs /\ Linked(q.session, Requests) /\ q.table = p.table
      /\ Asked(p.session, q.session, p.table, d, v)
    BY DEF Requested
<1>3. ASSUME Sends(p.session, q.session, d, v),
             p.table[d] # v \/ p.session.pending[d] \notin {NoValue, v}
      PROVE  /\ Wire(q, m, w, r) /\ (r # <<>> => InFlight(q.session))
             /\ Sent(p.session, q.session, w, p.table, d, v)
    <2>1. /\ InStep(q.session, m, w, r)
          /\ ComingOf(q.session, w) = Append(ComingOf(p.session, w), Deliver(One(d, v)))
        <3>1. Linked(p.session, Requests) /\ InStep(p.session, m, w, r)
            BY DEF Wire
        <3>2. Joins(p.session, q.session, m, w, r, Deliver(One(d, v)))
            BY <1>1, <1>3, <3>1, InStepSend, RequestsAreDelivers
        <3> QED BY <3>2 DEF Joins
    <2>2. Reconciles(q.session) /\ q.session.expected = p.session.expected
          /\ q.session.pending = [p.session.pending EXCEPT ![d] = IF d \in Transition THEN v ELSE @]
        BY <1>3 DEF Sends, Wire
    <2>3. Wire(q, m, w, r)
        BY <1>2, <2>1, <2>2 DEF Wire
    <2>4. Sent(p.session, q.session, w, p.table, d, v)
        BY <1>3, <2>1, <2>2 DEF Sent
    <2> QED BY <2>2, <2>3, <2>4 DEF InFlight
<1>4. CASE /\ q.session = p.session
           /\ p.table[d] = v /\ p.session.pending[d] \in {NoValue, v}
    BY <1>2, <1>4 DEF Wire, Sent
<1> QED BY <1>2, <1>3, <1>4 DEF Asked

\* What is pending for a datapoint, or else known of it, is what it becomes.
Current(p, m, w, d) == Target(p.session, p.table, d) = Will(m, ComingOf(p.session, w), d)

\* What is asked for comes, and nothing else.
Comes(p, q, m, w, r, d, v) ==
    LET coming == ComingOf(p.session, w)
        after  == ComingOf(q.session, w)
    IN  /\ Wire(q, m, w, r)
        /\ r # <<>> => InFlight(q.session)
        /\ q.table = p.table /\ q.queued = p.queued
        /\ \A e \in Dps : p.session.pending[e] # NoValue => q.session.pending[e] # NoValue
        /\ Will(m, after, d) = v
        /\ \A e \in Dps : e # d => /\ Will(m, after, e) = Will(m, coming, e)
                                   /\ Current(p, m, w, e) => Current(q, m, w, e)
        /\ \/ after = coming
           \/ /\ after = Append(coming, Deliver(One(d, v)))
              /\ p.table[d] # v \/ p.session.pending[d] \notin {NoValue, v}

LEMMA RequestComes ==
    ASSUME NEW p, NEW m, NEW w, NEW r, Wire(p, m, w, r), r # <<>> => InFlight(p.session),
           NEW d, NEW v, IsRequest(d, v), Current(p, m, w, d)
    PROVE  Comes(p, Set(p, d, v), m, w, r, d, v)
<1> DEFINE q == Set(p, d, v)
           coming == ComingOf(p.session, w)
           after  == ComingOf(q.session, w)
           c      == Deliver(One(d, v))
<1>1. p \in Programs /\ Linked(p.session, Requests) /\ p.session \in Sessions
    BY DEF Wire, Linked
<1>2. coming \in Seq(Requests)
    BY <1>1, ComingType, RequestsAreDelivers
<1>3. /\ d \in Dps /\ c \in Requests /\ c.writes[d] = v /\ v # NoValue
      /\ \A e \in Dps : e # d => c.writes[e] = NoValue
    BY RequestIs
<1>4. Requested(p, q, d, v)
    BY <1>1, SetAsks
<1> HIDE DEF q
<1>5. /\ Wire(q, m, w, r) /\ (r # <<>> => InFlight(q.session))
      /\ Sent(p.session, q.session, w, p.table, d, v)
      /\ q.table = p.table /\ q.queued = p.queued
    BY <1>4, AskedWire DEF Requested
<1>6. p.session.pending \in Batches
    BY <1>1 DEF Sessions
<1> HIDE DEF c
<1>7. ASSUME p.table[d] # v \/ p.session.pending[d] \notin {NoValue, v},
             after = Append(coming, c),
             q.session.pending = [p.session.pending EXCEPT ![d] = IF d \in Transition THEN v ELSE @]
      PROVE  Comes(p, q, m, w, r, d, v)
    <2>1. \A e : Will(m, after, e) = IF c.writes[e] # NoValue THEN c.writes[e] ELSE Will(m, coming, e)
        BY <1>2, <1>3, <1>7, WillOfAppend
    <2>2. /\ Will(m, after, d) = v
          /\ \A e \in Dps : e # d => Will(m, after, e) = Will(m, coming, e)
        BY <1>3, <2>1
    <2>3. /\ \A e \in Dps : e # d => q.session.pending[e] = p.session.pending[e]
          /\ \A e \in Dps : p.session.pending[e] # NoValue => q.session.pending[e] # NoValue
        BY <1>3, <1>6, <1>7 DEF Batches
    <2>4. \A e \in Dps : e # d /\ Current(p, m, w, e) => Current(q, m, w, e)
        BY <1>5, <2>2, <2>3 DEF Current, Target
    <2> QED BY <1>5, <1>7, <2>2, <2>3, <2>4 DEF Comes, c
<1>8. ASSUME q.session = p.session, p.table[d] = v, p.session.pending[d] \in {NoValue, v}
      PROVE  Comes(p, q, m, w, r, d, v)
    <2>1. Will(m, coming, d) = v
        BY <1>8 DEF Current, Target
    <2>2. \A e \in Dps : Current(p, m, w, e) => Current(q, m, w, e)
        BY <1>5, <1>8 DEF Current
    <2> QED BY <1>5, <1>8, <2>1, <2>2 DEF Comes
<1> QED BY <1>5, <1>7, <1>8 DEF Sent, q, c

\* A request of power leaves the settings that are meant as they are; no output
\* flashes that is not to be lit by it.
Switched(p, q, m, w, r, d, v) ==
    LET coming == ComingOf(p.session, w)
        after  == ComingOf(q.session, w)
    IN  /\ Comes(p, q, m, w, r, d, v)
        /\ \A values, allowed :
              Sound(p, m, coming, values, allowed) /\ LitAtEnd(m, after) \subseteq allowed
                => Sound(q, m, after, values, allowed)

LEMMA PowerComes ==
    ASSUME NEW p, NEW m, NEW w, NEW r, Wire(p, m, w, r), r # <<>> => InFlight(p.session),
           NEW d \in PowerDps, NEW v \in {0, 1}, Current(p, m, w, d)
    PROVE  Switched(p, Set(p, d, v), m, w, r, d, v)
<1> DEFINE q == Set(p, d, v)
           coming == ComingOf(p.session, w)
           after  == ComingOf(q.session, w)
           c      == Deliver(One(d, v))
<1>1. IsRequest(d, v)
    BY DEF IsRequest
<1>2. Comes(p, q, m, w, r, d, v)
    BY <1>1, RequestComes
<1>3. coming \in Seq(Requests)
    <2>1. Linked(p.session, Requests)
        BY DEF Wire
    <2> QED BY <2>1, ComingType, RequestsAreDelivers
<1>4. c \in Requests /\ \A e \in Dps : e # d => c.writes[e] = NoValue
    BY <1>1, RequestIs
<1> HIDE DEF q, c
<1>5. ASSUME NEW values, NEW allowed, Sound(p, m, coming, values, allowed),
             LitAtEnd(m, after) \subseteq allowed
      PROVE  Sound(q, m, after, values, allowed)
    <2>1. /\ q.table = p.table /\ q.queued = p.queued
          /\ \A e \in Dps : e # d => Will(m, after, e) = Will(m, coming, e)
          /\ after = coming \/ after = Append(coming, c)
        BY <1>2 DEF Comes, c
    <2>2. \A o \in Settable : c.writes[SettingOf[o]] = NoValue /\ SettingOf[o] # d /\ SettingOf[o] \in Dps
        BY <1>4, Datapoints
    <2>3. \A o \in Settable : Will(m, after, SettingOf[o]) = Will(m, coming, SettingOf[o])
        BY <2>1, <2>2
    <2> HIDE DEF after, coming
    <2>4. ASSUME after = Append(coming, c)
          PROVE  /\ Powered(m, after) /\ NoneFlashes(m, after, allowed)
                 /\ \A o \in Settable :
                        /\ OneSetting(m, p.table, after, SettingOf[o])
                        /\ NoSetting(coming, SettingOf[o]) => NoSetting(after, SettingOf[o])
        <3>1. Appended(m, p.table, coming, c)
            BY <1>3, <1>4, ComingOfAppend
        <3>2. \A o \in Settable : OneSetting(m, p.table, coming, SettingOf[o])
            BY <1>5 DEF Sound, SettingIsMeant
        <3>3. Powered(m, coming) /\ NoneFlashes(m, coming, allowed)
            BY <1>5 DEF Sound
        <3>4. Powered(m, after)
            BY <2>2, <2>4, <3>1, <3>3 DEF Appended
        <3>5. NoneFlashes(m, after, allowed)
            BY <1>5, <2>4, <3>1, <3>3 DEF Appended
        <3>6. ASSUME NEW o \in Settable
              PROVE  /\ OneSetting(m, p.table, after, SettingOf[o])
                     /\ NoSetting(coming, SettingOf[o]) => NoSetting(after, SettingOf[o])
            BY <2>2, <2>4, <3>1, <3>2 DEF Appended
        <3> QED BY <3>4, <3>5, <3>6
    <2>5. /\ Powered(m, after) /\ NoneFlashes(m, after, allowed)
          /\ \A o \in Settable :
                 /\ OneSetting(m, p.table, after, SettingOf[o])
                 /\ NoSetting(coming, SettingOf[o]) => NoSetting(after, SettingOf[o])
        <3>1. CASE after = coming
            BY <1>5, <3>1 DEF Sound, SettingIsMeant
        <3> QED BY <2>1, <2>4, <3>1
    <2>6. \A o \in Settable : SettingIsMeant(q, m, after, values, o)
        BY <1>5, <2>1, <2>3, <2>5 DEF Sound, SettingIsMeant
    <2> QED BY <1>5, <2>5, <2>6 DEF Sound
<1> QED BY <1>2, <1>5 DEF Switched, q

\* A setting is written while none waits and none is being written; q is the program
\* from then on.
Writes(q, m, coming, after, values, o, v, allowed) ==
    /\ Sound(q, m, after, [values EXCEPT ![o] = v], allowed)
    /\ LitAtEnd(m, after) = LitAtEnd(m, coming)

LEMMA SettingSound ==
    ASSUME NEW p, NEW q, NEW m, NEW coming \in Seq(Requests), NEW after, NEW values, NEW allowed,
           Sound(p, m, coming, values, allowed),
           NEW o \in Settable, NEW v \in Values,
           NoSetting(coming, SettingOf[o]), m[SettingOf[o]] = p.table[SettingOf[o]],
           AllowWhileOff \/ o \in LitAtEnd(m, coming),
           q.table = p.table, q.queued[o] = NoValue,
           \A x \in Settable : x # o => q.queued[x] = p.queued[x],
           \/ after = coming /\ p.table[SettingOf[o]] = v
           \/ after = Append(coming, Deliver(One(SettingOf[o], v))) /\ p.table[SettingOf[o]] # v
    PROVE  Writes(q, m, coming, after, values, o, v, allowed)
<1> DEFINE d    == SettingOf[o]
           c    == Deliver(One(d, v))
           meant == [values EXCEPT ![o] = v]
<1>1. /\ c \in Requests /\ c.writes[d] = v /\ v # NoValue /\ d \in Dps /\ d \notin PowerDps
      /\ \A e \in Dps : e # d => c.writes[e] = NoValue
      /\ \A x \in Settable : x # o => SettingOf[x] # d
      /\ \A x \in Settable : SettingOf[x] \in Dps
    <2>1. IsRequest(d, v)
        BY DEF IsRequest
    <2> QED BY <2>1, RequestIs, Datapoints
<1>2. /\ Powered(m, coming) /\ NoneFlashes(m, coming, allowed)
      /\ values \in [Settable -> Values]
      /\ \A x \in Settable : SettingIsMeant(p, m, coming, values, x)
    BY DEF Sound
<1>3. meant \in [Settable -> Values] /\ meant[o] = v /\ \A x \in Settable : x # o => meant[x] = values[x]
    BY <1>2
<1>4. Len(coming) \in Nat
    BY LenProperties
<1>5. LitAtEnd(m, coming) \subseteq allowed
    <2>1. LitAtEnd(m, coming) = LitAfter(m, coming, Len(coming))
        BY DEF LitAtEnd, LitAfter, Will
    <2> QED BY <1>2, <1>4, <2>1 DEF NoneFlashes
<1> HIDE DEF meant, c
<1>6. CASE after = coming /\ p.table[d] = v
    <2>1. Will(m, coming, d) = m[d]
        <3>1. Unwritten(coming, Len(coming), d)
            BY DEF Unwritten, NoSetting
        <3> QED BY <1>4, <3>1, BecomesLast DEF Will
    <2>2. SettingIsMeant(q, m, coming, meant, o)
        BY <1>2, <1>3, <1>6, <2>1 DEF SettingIsMeant
    <2>3. \A x \in Settable : x # o => SettingIsMeant(q, m, coming, meant, x)
        BY <1>2, <1>3 DEF SettingIsMeant
    <2> QED BY <1>2, <1>3, <1>6, <2>2, <2>3 DEF Sound, Writes, meant
<1>7. CASE after = Append(coming, c) /\ p.table[d] # v
    <2>1. \A e : Will(m, after, e) = IF c.writes[e] # NoValue THEN c.writes[e] ELSE Will(m, coming, e)
        BY <1>1, <1>7, WillOfAppend
    <2>2. Will(m, after, d) = v /\ \A e \in Dps : e # d => Will(m, after, e) = Will(m, coming, e)
        BY <1>1, <2>1
    <2>3. LitAtEnd(m, after) = LitAtEnd(m, coming)
        <3>1. \A e \in PowerDps : Will(m, after, e) = Will(m, coming, e)
            BY <1>1, <2>2, Datapoints
        <3> QED BY <3>1, Datapoints DEF LitAtEnd
    <2>4. Appended(m, p.table, coming, c)
        BY <1>1, ComingOfAppend
    <2>5. Powered(m, after)
        <3>1. \A x \in Settable : c.writes[SettingOf[x]] # NoValue => AllowWhileOff \/ x \in LitAtEnd(m, coming)
            BY <1>1
        <3> QED BY <1>2, <1>7, <2>4, <3>1 DEF Appended
    <2>6. NoneFlashes(m, after, allowed)
        BY <1>2, <1>5, <1>7, <2>3, <2>4 DEF Appended
    <2>7. \A x \in Settable : OneSetting(m, p.table, after, SettingOf[x])
        <3>1. \A x \in Settable : OneSetting(m, p.table, coming, SettingOf[x])
            BY <1>2 DEF SettingIsMeant
        <3>2. \A x \in Settable : c.writes[SettingOf[x]] # NoValue
                => /\ NoSetting(coming, SettingOf[x]) /\ m[SettingOf[x]] = p.table[SettingOf[x]]
                   /\ c.writes[SettingOf[x]] # p.table[SettingOf[x]]
            BY <1>1, <1>7
        <3> QED BY <1>7, <2>4, <3>1, <3>2 DEF Appended
    <2>8. \A x \in Settable : x # o /\ NoSetting(coming, SettingOf[x]) => NoSetting(after, SettingOf[x])
        <3>1. \A x \in Settable : x # o => c.writes[SettingOf[x]] = NoValue
            BY <1>1
        <3> QED BY <1>7, <2>4, <3>1 DEF Appended
    <2>9. SettingIsMeant(q, m, after, meant, o)
        BY <1>3, <2>2, <2>7 DEF SettingIsMeant
    <2>10. \A x \in Settable : x # o => SettingIsMeant(q, m, after, meant, x)
        <3> SUFFICES ASSUME NEW x \in Settable, x # o PROVE SettingIsMeant(q, m, after, meant, x)
            OBVIOUS
        <3>1. Will(m, after, SettingOf[x]) = Will(m, coming, SettingOf[x])
            BY <1>1, <2>2
        <3>2. SettingIsMeant(p, m, coming, values, x)
            BY <1>2
        <3> QED BY <1>3, <2>7, <2>8, <3>1, <3>2 DEF SettingIsMeant
    <2> QED BY <1>3, <2>3, <2>5, <2>6, <2>9, <2>10 DEF Sound, Writes, meant
<1> QED BY <1>6, <1>7 DEF Writes, c

\* When the table has the setting that is commanded, none is being written.
LEMMA SettingIsKnown ==
    ASSUME NEW coming \in Seq(Requests), NEW m, NEW table, NEW d, OneSetting(m, table, coming, d),
           table[d] = Will(m, coming, d)
    PROVE  NoSetting(coming, d) /\ m[d] = table[d]
<1>1. Len(coming) \in Nat
    BY LenProperties
<1>2. CASE Unwritten(coming, Len(coming), d)
    <2>1. Will(m, coming, d) = m[d]
        BY <1>1, <1>2, BecomesLast DEF Will
    <2> QED BY <1>2, <2>1 DEF Unwritten, NoSetting
<1>3. ASSUME NEW i, LastWrite(coming, Len(coming), d, i) PROVE FALSE
    <2>1. Will(m, coming, d) = coming[i].writes[d]
        BY <1>1, <1>3, BecomesLast DEF Will
    <2> QED BY <1>3, <2>1 DEF LastWrite, OneSetting
<1> QED BY <1>1, <1>2, <1>3, BecomesLast

----------------------------------------------------------------------------
(* Power *)

\* What requests of power leave: what they leave of the wire, the settings that are
\* meant, and settings that wait.
Goes(p, q, m, w, r, values, allowed) ==
    /\ Wire(q, m, w, r)
    /\ r # <<>> => InFlight(q.session)
    /\ q.table = p.table /\ q.queued = p.queued
    /\ \A e \in Dps : p.session.pending[e] # NoValue => q.session.pending[e] # NoValue
    /\ Sound(q, m, ComingOf(q.session, w), values, allowed)

\* One of them.
LEMMA PowerGoes ==
    ASSUME NEW p, NEW u, NEW m, NEW w, NEW r, NEW values, NEW allowed,
           Goes(p, u, m, w, r, values, allowed),
           NEW d \in PowerDps, NEW v \in {0, 1}, Current(u, m, w, d),
           LET after == ComingOf(Set(u, d, v).session, w)
           IN  Will(m, after, d) = v /\ (\A e \in Dps : e # d => Will(m, after, e) = Will(m, ComingOf(u.session, w), e))
                 => LitAtEnd(m, after) \subseteq allowed
    PROVE  LET q     == Set(u, d, v)
               after == ComingOf(q.session, w)
           IN  /\ Goes(p, q, m, w, r, values, allowed)
               /\ Will(m, after, d) = v
               /\ \A e \in Dps : e # d => /\ Will(m, after, e) = Will(m, ComingOf(u.session, w), e)
                                          /\ Current(u, m, w, e) => Current(q, m, w, e)
<1> DEFINE q == Set(u, d, v)
           after == ComingOf(q.session, w)
<1>1. /\ Wire(u, m, w, r) /\ (r # <<>> => InFlight(u.session))
      /\ u.table = p.table /\ u.queued = p.queued
      /\ \A e \in Dps : p.session.pending[e] # NoValue => u.session.pending[e] # NoValue
      /\ Sound(u, m, ComingOf(u.session, w), values, allowed)
    BY DEF Goes
<1>2. Switched(u, q, m, w, r, d, v)
    BY <1>1, PowerComes
<1> HIDE DEF q
<1>3. Comes(u, q, m, w, r, d, v)
    BY <1>2 DEF Switched
<1>4. /\ Will(m, after, d) = v
      /\ \A e \in Dps : e # d => /\ Will(m, after, e) = Will(m, ComingOf(u.session, w), e)
                                 /\ Current(u, m, w, e) => Current(q, m, w, e)
      /\ Wire(q, m, w, r) /\ (r # <<>> => InFlight(q.session))
      /\ q.table = p.table /\ q.queued = p.queued
      /\ \A e \in Dps : p.session.pending[e] # NoValue => q.session.pending[e] # NoValue
    BY <1>1, <1>3 DEF Comes
<1>5. LitAtEnd(m, after) \subseteq allowed
    BY <1>4 DEF q
<1>6. Sound(q, m, after, values, allowed)
    BY <1>1, <1>2, <1>5 DEF Switched
<1>7. Goes(p, q, m, w, r, values, allowed)
    BY <1>4, <1>6 DEF Goes
<1> QED BY <1>4, <1>7 DEF q

\* What waits, waits on.
LEMMA GoesWaiting ==
    ASSUME NEW p, NEW q, NEW m, NEW w, NEW r, NEW values, NEW allowed,
           Goes(p, q, m, w, r, values, allowed), Waiting(p)
    PROVE  Waiting(q)
<1> SUFFICES ASSUME NEW o \in Settable, q.queued[o] # NoValue PROVE ~Confirmed(q, o)
    BY DEF Waiting
<1>1. o \in Dps /\ MASTER \in Dps
    BY Datapoints
<1>2. ~Confirmed(p, o)
    BY DEF Waiting, Goes
<1> QED BY <1>1, <1>2 DEF Goes, Confirmed, IsTrue, IsPending

\* With the targets current, the outputs that are in effect are those that will be lit.
LEMMA EffectiveIsLit ==
    ASSUME NEW p, NEW m, NEW w, \A d \in PowerDps : Current(p, m, w, d)
    PROVE  /\ {x \in Outputs : Effective(p, x)} = LitAtEnd(m, ComingOf(p.session, w))
           /\ \A d \in PowerDps : TargetIsTrue(p, d) <=> Will(m, ComingOf(p.session, w), d) = 1
<1>1. \A d \in PowerDps : TargetIsTrue(p, d) <=> Will(m, ComingOf(p.session, w), d) = 1
    BY DEF Current, TargetIsTrue
<1> QED BY <1>1, Datapoints DEF Effective, LitAtEnd

\* Those that will be lit are allowed to.
LEMMA LitIsAllowed ==
    ASSUME NEW m, NEW coming \in Seq(Requests), NEW allowed, NoneFlashes(m, coming, allowed)
    PROVE  LitAtEnd(m, coming) \subseteq allowed
<1>1. Len(coming) \in 0..Len(coming)
    BY LenProperties
<1>2. LitAtEnd(m, coming) = LitAfter(m, coming, Len(coming))
    BY DEF LitAtEnd, LitAfter, Will
<1> QED BY <1>1, <1>2 DEF NoneFlashes

\* What comes is requests.
LEMMA WireComing ==
    ASSUME NEW p, NEW m, NEW w, NEW r, Wire(p, m, w, r)
    PROVE  ComingOf(p.session, w) \in Seq(Requests)
<1>1. Linked(p.session, Requests)
    BY DEF Wire
<1> QED BY <1>1, ComingType, RequestsAreDelivers

\* request_feature_state_, off: of an output that is meant to be lit.
LEMMA RequestOffHolds ==
    ASSUME NEW p, NEW m, NEW w, NEW r, NEW outputs, NEW values, NEW allowed,
           Holds(p, m, w, r, outputs, values, allowed), r # <<>> => InFlight(p.session),
           \A d \in PowerDps : Current(p, m, w, d),
           NEW o \in outputs, o \in Settable => p.queued[o] = NoValue
    PROVE  Holds(RequestOff(p, o), m, w, r, outputs \ {o}, values, allowed)
<1> DEFINE coming == ComingOf(p.session, w)
           q      == RequestOff(p, o)
           after  == ComingOf(q.session, w)
<1>1. /\ Wire(p, m, w, r) /\ Sound(p, m, coming, values, allowed)
      /\ LitAtEnd(m, coming) = outputs /\ Waiting(p)
      /\ \A x \in Settable : p.queued[x] # NoValue => x \in outputs
    BY DEF Holds, Lighted
<1>2. coming \in Seq(Requests)
    BY <1>1, WireComing
<1>3. outputs \subseteq allowed /\ o \in Outputs /\ outputs \subseteq Outputs
      /\ MASTER \in PowerDps /\ o \in PowerDps /\ Outputs \subseteq Dps /\ MASTER \notin Outputs
      /\ MASTER \in Dps
    <2>1. NoneFlashes(m, coming, allowed)
        BY <1>1 DEF Sound
    <2>2. LitAtEnd(m, coming) \subseteq allowed
        BY <1>2, <2>1, LitIsAllowed
    <2>3. outputs \subseteq Outputs
        BY <1>1 DEF LitAtEnd
    <2> HIDE DEF coming
    <2> QED BY <1>1, <2>2, <2>3, Datapoints
<1>4. {x \in Outputs : Effective(p, x)} = outputs /\ TargetIsTrue(p, MASTER)
    <2>1. Will(m, coming, MASTER) = 1
        BY <1>1, <1>3 DEF LitAtEnd
    <2> QED BY <1>1, <1>3, <2>1, EffectiveIsLit
<1>5. Goes(p, p, m, w, r, values, allowed)
    BY <1>1 DEF Goes
<1>6. q = IF Cardinality(outputs) <= 1 THEN Set(p, MASTER, 0) ELSE Set(p, o, 0)
    BY <1>4 DEF RequestOff
<1>7. Cardinality(outputs) <= 1 => outputs = {o}
    <2>1. IsFiniteSet(Outputs)
        <3>1. IsFiniteSet({FAN} \cup {LIGHT})
            BY FS_Singleton, FS_AddElement
        <3>2. IsFiniteSet(({FAN} \cup {LIGHT}) \cup {AMBIENT})
            BY <3>1, FS_AddElement
        <3>3. Outputs \in SUBSET (({FAN} \cup {LIGHT}) \cup {AMBIENT})
            BY DEF Outputs
        <3> QED BY <3>2, <3>3, FS_Subset
    <2>2. IsFiniteSet(outputs)
        BY <1>3, <2>1, FS_Subset
    <2>3. IsFiniteSet(outputs \ {o}) /\ Cardinality(outputs \ {o}) = Cardinality(outputs) - 1
        BY <2>2, FS_RemoveElement
    <2>4. Cardinality(outputs) \in Nat /\ Cardinality(outputs \ {o}) \in Nat
        BY <2>2, <2>3, FS_CardinalityType
    <2>5. Cardinality(outputs) <= 1 => Cardinality(outputs \ {o}) = 0
        BY <2>3, <2>4
    <2>6. Cardinality(outputs) <= 1 => outputs \ {o} = {}
        BY <2>3, <2>5, FS_EmptySet
    <2> QED BY <2>6
<1> HIDE DEF q
<1>8. Goes(p, q, m, w, r, values, allowed) /\ LitAtEnd(m, after) = outputs \ {o}
    <2>1. CASE Cardinality(outputs) <= 1
        <3>1. q = Set(p, MASTER, 0) /\ outputs \ {o} = {}
            BY <1>6, <1>7, <2>1
        <3>2. \A late : Will(m, late, MASTER) = 0 => LitAtEnd(m, late) = {}
            BY DEF LitAtEnd
        <3> QED BY <1>1, <1>3, <1>5, <3>1, <3>2, PowerGoes
    <2>2. CASE ~(Cardinality(outputs) <= 1)
        <3>1. q = Set(p, o, 0)
            BY <1>6, <2>2
        <3>2. \A late : Will(m, late, o) = 0 /\ (\A e \in Dps : e # o => Will(m, late, e) = Will(m, coming, e))
                           => LitAtEnd(m, late) = outputs \ {o}
            <4> SUFFICES ASSUME NEW late, Will(m, late, o) = 0,
                                \A e \in Dps : e # o => Will(m, late, e) = Will(m, coming, e)
                         PROVE  LitAtEnd(m, late) = outputs \ {o}
                OBVIOUS
            <4>1. \A x \in Outputs : x # o => Will(m, late, x) = Will(m, coming, x)
                BY <1>3
            <4>2. Will(m, late, MASTER) = Will(m, coming, MASTER)
                BY <1>3
            <4>3. LitAtEnd(m, late) = LitAtEnd(m, coming) \ {o}
                BY <4>1, <4>2 DEF LitAtEnd
            <4> QED BY <1>1, <4>3
        <3> QED BY <1>1, <1>3, <1>5, <3>1, <3>2, PowerGoes
    <2> QED BY <2>1, <2>2
<1>9. Waiting(q)
    BY <1>1, <1>8, GoesWaiting
<1>10. \A x \in Settable : q.queued[x] # NoValue => x \in outputs \ {o}
    BY <1>1, <1>8 DEF Goes
<1> QED BY <1>8, <1>9, <1>10 DEF Holds, Lighted, Goes, q

\* While the master is off, the outputs that would come with it are turned off one
\* after the other: done are those whose turn it was.
Dark(p, q, m, w, r, values, allowed, o, done) ==
    LET coming == ComingOf(p.session, w)
        after  == ComingOf(q.session, w)
    IN  /\ Goes(p, q, m, w, r, values, allowed)
        /\ \A d \in PowerDps :
              IF d \in done \ {o} THEN Will(m, after, d) = 0
              ELSE Will(m, after, d) = Will(m, coming, d) /\ Current(q, m, w, d)

LEMMA DarkenStep ==
    ASSUME NEW p, NEW u, NEW m, NEW w, NEW r, NEW values, NEW allowed, NEW o, NEW done,
           Dark(p, u, m, w, r, values, allowed, o, done),
           Will(m, ComingOf(p.session, w), MASTER) # 1, MASTER \notin done,
           NEW x \in {FAN, LIGHT, AMBIENT}, x \notin done
    PROVE  Dark(p, Darken(u, o, x), m, w, r, values, allowed, o, done \cup {x})
<1> DEFINE coming == ComingOf(p.session, w)
           q      == Darken(u, o, x)
           now    == ComingOf(u.session, w)
           after  == ComingOf(q.session, w)
<1>1. /\ Goes(p, u, m, w, r, values, allowed)
      /\ \A d \in PowerDps : IF d \in done \ {o} THEN Will(m, now, d) = 0
                             ELSE Will(m, now, d) = Will(m, coming, d) /\ Current(u, m, w, d)
    BY DEF Dark
<1>2. x # MASTER /\ MASTER \in PowerDps /\ MASTER \in Dps /\ Outputs \subseteq PowerDps /\ PowerDps \subseteq Dps
    BY Datapoints DEF MASTER, FAN, LIGHT, AMBIENT
<1>3. CASE x \in Outputs \ {o}
    <2>1. q = Set(u, x, 0)
        BY <1>3 DEF Darken
    <2>2. x \in PowerDps /\ Current(u, m, w, x)
        BY <1>1, <1>2, <1>3
    <2>3. Will(m, now, MASTER) # 1
        BY <1>1, <1>2
    <2>4. \A late : (\A e \in Dps : e # x => Will(m, late, e) = Will(m, now, e)) => LitAtEnd(m, late) = {}
        BY <1>2, <2>3 DEF LitAtEnd
    <2> HIDE DEF q, now, coming
    <2>5. /\ Goes(p, q, m, w, r, values, allowed)
          /\ Will(m, after, x) = 0
          /\ \A e \in Dps : e # x => /\ Will(m, after, e) = Will(m, now, e)
                                     /\ Current(u, m, w, e) => Current(q, m, w, e)
        <3>1. LET late == ComingOf(Set(u, x, 0).session, w)
              IN  Will(m, late, x) = 0 /\ (\A e \in Dps : e # x => Will(m, late, e) = Will(m, ComingOf(u.session, w), e))
                    => LitAtEnd(m, late) \subseteq allowed
            BY <2>4 DEF now
        <3> QED BY <1>1, <2>1, <2>2, <3>1, PowerGoes DEF now
    <2> HIDE DEF after
    <2>6. ASSUME NEW d \in PowerDps
          PROVE  IF d \in (done \cup {x}) \ {o} THEN Will(m, after, d) = 0
                 ELSE Will(m, after, d) = Will(m, coming, d) /\ Current(q, m, w, d)
        <3>1. CASE d = x
            BY <1>3, <2>5, <3>1
        <3>2. CASE d # x
            BY <1>1, <1>2, <2>5, <3>2
        <3> QED BY <3>1, <3>2
    <2> QED BY <2>5, <2>6 DEF Dark, after, coming, q
<1>4. CASE x \notin Outputs \ {o}
    <2>1. q = u
        BY <1>4 DEF Darken
    <2>2. x \notin PowerDps \/ x = o
        BY <1>2, <1>4 DEF PowerDps
    <2>3. \A d \in PowerDps : d \in (done \cup {x}) \ {o} <=> d \in done \ {o}
        BY <2>2
    <2> QED BY <1>1, <2>1, <2>3 DEF Dark
<1> QED BY <1>3, <1>4

\* request_feature_state_, on.
SwitchedOn(p, q, m, w, r, o, values, allowed) ==
    /\ Goes(p, q, m, w, r, values, allowed)
    /\ LitAtEnd(m, ComingOf(q.session, w)) = LitAtEnd(m, ComingOf(p.session, w)) \cup {o}

LEMMA RequestOnGoes ==
    ASSUME NEW p, NEW m, NEW w, NEW r, NEW values, NEW allowed,
           Wire(p, m, w, r), r # <<>> => InFlight(p.session),
           Sound(p, m, ComingOf(p.session, w), values, allowed),
           \A d \in PowerDps : Current(p, m, w, d),
           NEW o \in Outputs, o \in allowed
    PROVE  SwitchedOn(p, RequestOn(p, o), m, w, r, o, values, allowed)
<1> DEFINE coming == ComingOf(p.session, w)
           lit    == LitAtEnd(m, coming)
           u      == IF TargetIsTrue(p, MASTER) THEN p ELSE DarkenOthers(p, o)
           t      == Set(u, o, 1)
           q      == Set(t, MASTER, 1)
           now    == ComingOf(u.session, w)
           then   == ComingOf(t.session, w)
           after  == ComingOf(q.session, w)
<1>1. /\ MASTER \in PowerDps /\ MASTER \in Dps /\ MASTER \notin Outputs
      /\ Outputs \subseteq PowerDps /\ PowerDps \subseteq Dps
      /\ MASTER \notin {FAN, LIGHT, AMBIENT} /\ Outputs \subseteq {FAN, LIGHT, AMBIENT}
    BY Datapoints DEF Outputs, MASTER, FAN, LIGHT, AMBIENT
<1>2. Goes(p, p, m, w, r, values, allowed)
    BY DEF Goes
<1>3. TargetIsTrue(p, MASTER) <=> Will(m, coming, MASTER) = 1
    BY <1>1, EffectiveIsLit
<1>4. lit \subseteq allowed
    <2>1. coming \in Seq(Requests) /\ NoneFlashes(m, coming, allowed)
        BY WireComing DEF Sound
    <2> QED BY <2>1, LitIsAllowed
<1>5. RequestOn(p, o) = q
    BY DEF RequestOn
<1>6. /\ Goes(p, u, m, w, r, values, allowed)
      /\ Current(u, m, w, MASTER) /\ Current(u, m, w, o)
      /\ Will(m, now, MASTER) = Will(m, coming, MASTER)
      /\ \/ Will(m, coming, MASTER) = 1 /\ u = p
         \/ Will(m, coming, MASTER) # 1 /\ \A x \in Outputs : x # o => Will(m, now, x) = 0
    <2>1. CASE Will(m, coming, MASTER) = 1
        BY <1>1, <1>2, <1>3, <2>1
    <2>2. CASE Will(m, coming, MASTER) # 1
        <3> DEFINE u1 == Darken(p, o, FAN)
                   u2 == Darken(u1, o, LIGHT)
                   u3 == Darken(u2, o, AMBIENT)
        <3>1. u = u3
            BY <1>3, <2>2 DEF DarkenOthers
        <3>2. Dark(p, p, m, w, r, values, allowed, o, {})
            BY <1>2 DEF Dark
        <3>3. FAN # LIGHT /\ FAN # AMBIENT /\ LIGHT # AMBIENT
            BY DEF FAN, LIGHT, AMBIENT
        <3>4. Dark(p, u1, m, w, r, values, allowed, o, {} \cup {FAN})
            BY <2>2, <3>2, DarkenStep
        <3> HIDE DEF u1, u
        <3>5. Dark(p, u2, m, w, r, values, allowed, o, {FAN} \cup {LIGHT})
            <4>1. {} \cup {FAN} = {FAN} /\ MASTER \notin {FAN} /\ LIGHT \notin {FAN}
                BY <1>1, <3>3
            <4>2. Dark(p, u1, m, w, r, values, allowed, o, {FAN})
                BY <3>4, <4>1
            <4> QED BY <2>2, <4>1, <4>2, DarkenStep
        <3> HIDE DEF u2
        <3>6. Dark(p, u3, m, w, r, values, allowed, o, {FAN, LIGHT} \cup {AMBIENT})
            <4>1. {FAN} \cup {LIGHT} = {FAN, LIGHT} /\ MASTER \notin {FAN, LIGHT} /\ AMBIENT \notin {FAN, LIGHT}
                BY <1>1, <3>3
            <4>2. Dark(p, u2, m, w, r, values, allowed, o, {FAN, LIGHT})
                BY <3>5, <4>1
            <4> QED BY <2>2, <4>1, <4>2, DarkenStep
        <3> HIDE DEF u3
        <3>7. Dark(p, u, m, w, r, values, allowed, o, {FAN, LIGHT, AMBIENT})
            <4>1. {FAN, LIGHT} \cup {AMBIENT} = {FAN, LIGHT, AMBIENT}
                OBVIOUS
            <4> QED BY <3>1, <3>6, <4>1
        <3>8. /\ Goes(p, u, m, w, r, values, allowed)
              /\ \A d \in PowerDps : IF d \in {FAN, LIGHT, AMBIENT} \ {o} THEN Will(m, now, d) = 0
                                     ELSE Will(m, now, d) = Will(m, coming, d) /\ Current(u, m, w, d)
            BY <3>7 DEF Dark
        <3>9. Will(m, now, MASTER) = Will(m, coming, MASTER) /\ Current(u, m, w, MASTER)
            BY <1>1, <3>8
        <3>10. Current(u, m, w, o)
            BY <1>1, <3>8
        <3>11. \A x \in Outputs : x # o => Will(m, now, x) = 0
            BY <1>1, <3>8
        <3> QED BY <2>2, <3>8, <3>9, <3>10, <3>11
    <2> QED BY <2>1, <2>2
<1> HIDE DEF u
<1>7. ASSUME NEW late, Will(m, late, o) = 1, \A e \in Dps : e # o => Will(m, late, e) = Will(m, now, e)
      PROVE  LitAtEnd(m, late) = IF Will(m, coming, MASTER) = 1 THEN lit \cup {o} ELSE {}
    <2>1. /\ Will(m, late, MASTER) = Will(m, now, MASTER)
          /\ \A x \in Outputs : x # o => Will(m, late, x) = Will(m, now, x)
        BY <1>1, <1>7
    <2>2. CASE Will(m, coming, MASTER) = 1
        <3>1. now = coming
            BY <1>6, <2>2
        <3>2. \A x \in Outputs : x # o => Will(m, late, x) = Will(m, coming, x)
            BY <2>1, <3>1
        <3>3. Will(m, late, MASTER) = 1
            BY <2>1, <2>2, <3>1
        <3> HIDE DEF coming
        <3>4. LitAtEnd(m, late) = LitAtEnd(m, coming) \cup {o}
            BY <1>7, <2>2, <3>2, <3>3 DEF LitAtEnd
        <3> QED BY <2>2, <3>4
    <2>3. CASE Will(m, coming, MASTER) # 1
        BY <1>6, <2>1, <2>3 DEF LitAtEnd
    <2> QED BY <2>2, <2>3
<1>8. /\ Goes(p, t, m, w, r, values, allowed)
      /\ Will(m, then, o) = 1
      /\ \A e \in Dps : e # o => /\ Will(m, then, e) = Will(m, now, e)
                                 /\ Current(u, m, w, e) => Current(t, m, w, e)
    <2>1. LET late == ComingOf(Set(u, o, 1).session, w)
          IN  Will(m, late, o) = 1 /\ (\A e \in Dps : e # o => Will(m, late, e) = Will(m, ComingOf(u.session, w), e))
                => LitAtEnd(m, late) \subseteq allowed
        BY <1>4, <1>7
    <2>2. o \in PowerDps
        BY <1>1
    <2> QED BY <1>6, <2>1, <2>2, PowerGoes
<1> HIDE DEF t
<1>9. ASSUME NEW late, Will(m, late, MASTER) = 1,
             \A e \in Dps : e # MASTER => Will(m, late, e) = Will(m, then, e)
      PROVE  LitAtEnd(m, late) = lit \cup {o}
    <2>1. \A x \in Outputs : Will(m, late, x) = Will(m, then, x)
        BY <1>1, <1>9
    <2>2. o # MASTER /\ Will(m, then, MASTER) = Will(m, now, MASTER)
        BY <1>1, <1>8
    <2>3. CASE Will(m, coming, MASTER) = 1
        <3>1. LitAtEnd(m, then) = lit \cup {o}
            BY <1>7, <1>8, <2>3
        <3>2. LitAtEnd(m, late) = LitAtEnd(m, then)
            BY <1>6, <1>9, <2>1, <2>2, <2>3 DEF LitAtEnd
        <3> QED BY <3>1, <3>2
    <2>4. CASE Will(m, coming, MASTER) # 1
        <3>1. lit = {}
            BY <2>4 DEF LitAtEnd
        <3>2. \A x \in Outputs : x # o => Will(m, then, x) = 0
            <4> SUFFICES ASSUME NEW x \in Outputs, x # o PROVE Will(m, then, x) = 0
                OBVIOUS
            <4>1. x \in Dps
                BY <1>1
            <4> QED BY <1>6, <1>8, <2>4, <4>1
        <3>3. LitAtEnd(m, late) = {o}
            BY <1>8, <1>9, <2>1, <3>2 DEF LitAtEnd
        <3> QED BY <3>1, <3>3
    <2> QED BY <2>3, <2>4
<1>10. Current(t, m, w, MASTER)
    BY <1>1, <1>6, <1>8
<1>11. /\ Goes(p, q, m, w, r, values, allowed)
       /\ Will(m, after, MASTER) = 1
       /\ \A e \in Dps : e # MASTER => Will(m, after, e) = Will(m, then, e)
    <2>1. lit \cup {o} \subseteq allowed
        BY <1>4
    <2>2. LET late == ComingOf(Set(t, MASTER, 1).session, w)
          IN  Will(m, late, MASTER) = 1 /\ (\A e \in Dps : e # MASTER => Will(m, late, e) = Will(m, ComingOf(t.session, w), e))
                => LitAtEnd(m, late) \subseteq allowed
        BY <1>9, <2>1
    <2> QED BY <1>1, <1>8, <1>10, <2>2, PowerGoes
<1> HIDE DEF q
<1>12. LitAtEnd(m, after) = lit \cup {o}
    BY <1>9, <1>11
<1> QED BY <1>5, <1>11, <1>12 DEF SwitchedOn

----------------------------------------------------------------------------
(* Controls *)

\* More outputs may be lit on the way.
LEMMA MoreAllowed ==
    ASSUME NEW p, NEW m, NEW coming, NEW values, NEW allowed, NEW more,
           Sound(p, m, coming, values, allowed), allowed \subseteq more
    PROVE  Sound(p, m, coming, values, more)
BY DEF Sound, NoneFlashes

\* An output is turned on, of a program whose settings wait for those that are lit
\* and for this one.
LEMMA OnHolds ==
    ASSUME NEW p, NEW m, NEW w, NEW r, NEW outputs, NEW values, NEW allowed,
           Wire(p, m, w, r), r # <<>> => InFlight(p.session),
           Sound(p, m, ComingOf(p.session, w), values, allowed),
           LitAtEnd(m, ComingOf(p.session, w)) = outputs, Waiting(p),
           \A d \in PowerDps : Current(p, m, w, d),
           NEW o \in Outputs, o \in allowed,
           \A x \in Settable : p.queued[x] # NoValue => x \in outputs \cup {o}
    PROVE  Holds(RequestOn(p, o), m, w, r, outputs \cup {o}, values, allowed)
<1> DEFINE q == RequestOn(p, o)
<1>1. /\ Goes(p, q, m, w, r, values, allowed)
      /\ LitAtEnd(m, ComingOf(q.session, w)) = outputs \cup {o}
    <2>1. SwitchedOn(p, q, m, w, r, o, values, allowed)
        BY RequestOnGoes
    <2> QED BY <2>1 DEF SwitchedOn
<1> HIDE DEF q
<1>2. Waiting(q)
    BY <1>1, GoesWaiting
<1>3. \A x \in Settable : q.queued[x] # NoValue => x \in outputs \cup {o}
    BY <1>1 DEF Goes
<1>4. Wire(q, m, w, r) /\ Sound(q, m, ComingOf(q.session, w), values, allowed)
    BY <1>1 DEF Goes
<1> QED BY <1>1, <1>2, <1>3, <1>4 DEF Holds, Lighted, q

\* The table has the setting that is commanded, and none is being written.
Known(p, m, w, o) ==
    /\ p.session.pending[SettingOf[o]] = NoValue
    /\ p.table[SettingOf[o]] = Will(m, ComingOf(p.session, w), SettingOf[o])
    /\ NoSetting(ComingOf(p.session, w), SettingOf[o])
    /\ m[SettingOf[o]] = p.table[SettingOf[o]]

LEMMA SettingKnown ==
    ASSUME NEW p, NEW m, NEW w, NEW r, NEW values, NEW allowed, Wire(p, m, w, r),
           Sound(p, m, ComingOf(p.session, w), values, allowed),
           NEW o \in Settable, Current(p, m, w, SettingOf[o])
    PROVE  Known(p, m, w, o)
<1> DEFINE d == SettingOf[o]
           coming == ComingOf(p.session, w)
<1>1. p.session.pending[d] = NoValue
    <2>1. Linked(p.session, Requests)
        BY DEF Wire
    <2> QED BY <2>1, Datapoints DEF Linked
<1>2. p.table[d] = Will(m, coming, d)
    BY <1>1 DEF Current, Target
<1>3. OneSetting(m, p.table, coming, d)
    BY DEF Sound, SettingIsMeant
<1>4. coming \in Seq(Requests)
    BY WireComing
<1>5. NoSetting(coming, d) /\ m[d] = p.table[d]
    BY <1>2, <1>3, <1>4, SettingIsKnown
<1> QED BY <1>1, <1>2, <1>5 DEF Known

\* A setting is to wait.
Waits(p, q, m, w, r, values, allowed, o, v) ==
    /\ q.session = p.session /\ q.table = p.table
    /\ q.queued[o] = v /\ \A x \in Settable : x # o => q.queued[x] = p.queued[x]
    /\ Wire(q, m, w, r)
    /\ Sound(q, m, ComingOf(q.session, w), [values EXCEPT ![o] = v], allowed)
    /\ Waiting(q)

LEMMA SettingWaits ==
    ASSUME NEW p, NEW m, NEW w, NEW r, NEW values, NEW allowed, Wire(p, m, w, r),
           Sound(p, m, ComingOf(p.session, w), values, allowed), Waiting(p),
           NEW o \in Settable, Current(p, m, w, SettingOf[o]), ~Confirmed(p, o),
           NEW v \in Values, NEW q, q = [p EXCEPT !.queued[o] = v]
    PROVE  Waits(p, q, m, w, r, values, allowed, o, v)
<1> DEFINE coming == ComingOf(p.session, w)
           meant  == [values EXCEPT ![o] = v]
<1>1. p \in Programs /\ v # NoValue
    BY Datapoints DEF Wire
<1>2. /\ q \in Programs /\ q.session = p.session /\ q.table = p.table
      /\ q.queued[o] = v /\ \A x \in Settable : x # o => q.queued[x] = p.queued[x]
    BY <1>1 DEF Programs
<1>3. Wire(q, m, w, r)
    BY <1>2 DEF Wire
<1>4. NoSetting(coming, SettingOf[o]) /\ m[SettingOf[o]] = p.table[SettingOf[o]]
    <2>1. Known(p, m, w, o)
        BY SettingKnown
    <2> QED BY <2>1 DEF Known
<1>5. /\ Powered(m, coming) /\ NoneFlashes(m, coming, allowed)
      /\ values \in [Settable -> Values]
      /\ \A x \in Settable : SettingIsMeant(p, m, coming, values, x)
    BY DEF Sound
<1>6. meant \in [Settable -> Values] /\ meant[o] = v /\ \A x \in Settable : x # o => meant[x] = values[x]
    BY <1>5
<1> HIDE DEF meant, coming
<1>7. SettingIsMeant(q, m, coming, meant, o)
    BY <1>1, <1>2, <1>4, <1>5, <1>6 DEF SettingIsMeant
<1>8. \A x \in Settable : x # o => SettingIsMeant(q, m, coming, meant, x)
    BY <1>2, <1>5, <1>6 DEF SettingIsMeant
<1>9. Sound(q, m, coming, meant, allowed)
    BY <1>5, <1>6, <1>7, <1>8 DEF Sound
<1>10. Waiting(q)
    <2>1. \A x \in Settable : Confirmed(q, x) <=> Confirmed(p, x)
        BY <1>2 DEF Confirmed, IsTrue, IsPending
    <2> QED BY <1>2, <2>1 DEF Waiting
<1> QED BY <1>2, <1>3, <1>9, <1>10 DEF Waits, coming, meant

\* A setting is written.
IsSet(p, q, m, w, r, outputs, values, allowed) ==
    /\ Holds(q, m, w, r, outputs, values, allowed)
    /\ q.queued = p.queued
    /\ r # <<>> => InFlight(q.session)
    /\ \A d \in PowerDps : Current(q, m, w, d)

LEMMA SettingIsSet ==
    ASSUME NEW p, NEW m, NEW w, NEW r, NEW outputs, NEW values, NEW allowed,
           Holds(p, m, w, r, outputs, values, allowed), r # <<>> => InFlight(p.session),
           \A d \in PowerDps : Current(p, m, w, d),
           NEW o \in Settable, Current(p, m, w, SettingOf[o]), SettingAllowed(p, o),
           NEW v \in Values
    PROVE  IsSet(p, SetSetting(p, o, v), m, w, r, outputs, [values EXCEPT ![o] = v], allowed)
<1> DEFINE d == SettingOf[o]
           q == SetSetting(p, o, v)
           coming == ComingOf(p.session, w)
           after  == ComingOf(q.session, w)
<1>1. /\ Wire(p, m, w, r) /\ Sound(p, m, coming, values, allowed)
      /\ LitAtEnd(m, coming) = outputs /\ Waiting(p)
      /\ \A x \in Settable : p.queued[x] # NoValue => x \in outputs
    BY DEF Holds, Lighted
<1>2. q = Set(p, d, v) /\ IsRequest(d, v)
    BY DEF SetSetting, IsRequest
<1> HIDE DEF q
<1>3. Comes(p, q, m, w, r, d, v)
    <2>1. Comes(p, Set(p, d, v), m, w, r, d, v)
        BY <1>1, <1>2, RequestComes
    <2> QED BY <1>2, <2>1
<1>4. /\ p.session.pending[d] = NoValue /\ p.table[d] = Will(m, coming, d)
      /\ NoSetting(coming, d) /\ m[d] = p.table[d]
    <2>1. Known(p, m, w, o)
        BY <1>1, SettingKnown
    <2> QED BY <2>1 DEF Known
<1>5. d \in Dps /\ d \notin PowerDps /\ o \in Outputs /\ MASTER \in PowerDps /\ o \in PowerDps
      /\ PowerDps \subseteq Dps
    BY Datapoints
<1>6. /\ ~IsPending(p, MASTER) /\ ~IsPending(p, o)
      /\ IsTrue(p, MASTER) /\ IsTrue(p, o) <=> o \in outputs
    <2>1. ~IsPending(p, MASTER) /\ ~IsPending(p, o)
        BY DEF SettingAllowed
    <2>2. Will(m, coming, MASTER) = p.table[MASTER] /\ Will(m, coming, o) = p.table[o]
        BY <1>5, <2>1 DEF Current, Target, IsPending
    <2> QED BY <1>1, <1>5, <2>1, <2>2 DEF LitAtEnd, IsTrue
<1>7. p.queued[o] = NoValue
    BY <1>1, <1>6 DEF Waiting, Confirmed
<1>8. AllowWhileOff \/ o \in LitAtEnd(m, coming)
    BY <1>1, <1>6 DEF SettingAllowed
<1>9. /\ Wire(q, m, w, r) /\ (r # <<>> => InFlight(q.session))
      /\ q.table = p.table /\ q.queued = p.queued
      /\ \A e \in Dps : p.session.pending[e] # NoValue => q.session.pending[e] # NoValue
      /\ \A e \in PowerDps : Current(q, m, w, e)
    BY <1>3, <1>5 DEF Comes
<1>10. \/ after = coming /\ p.table[d] = v
       \/ after = Append(coming, Deliver(One(d, v))) /\ p.table[d] # v
    BY <1>3, <1>4 DEF Comes
<1>11. coming \in Seq(Requests)
    BY <1>1, WireComing
<1> HIDE DEF coming, after, d
<1>12. Sound(q, m, after, [values EXCEPT ![o] = v], allowed) /\ LitAtEnd(m, after) = LitAtEnd(m, coming)
    <2>1. Writes(q, m, coming, after, values, o, v, allowed)
        BY <1>1, <1>4, <1>7, <1>8, <1>9, <1>10, <1>11, SettingSound DEF d
    <2> QED BY <2>1 DEF Writes
<1>13. Waiting(q)
    <2>1. \A x \in Settable : Confirmed(q, x) => Confirmed(p, x)
        BY <1>9, Datapoints DEF Confirmed, IsTrue, IsPending
    <2> QED BY <1>1, <1>9, <2>1 DEF Waiting
<1> QED BY <1>1, <1>9, <1>12, <1>13 DEF Holds, Lighted, IsSet, after, q

\* control_fan and its like, off: the setting that waits is forgotten, and the one
\* that is commanded is the one that is meant.
Forgot(values, m, coming, o) ==
    IF o \in Settable THEN [values EXCEPT ![o] = Will(m, coming, SettingOf[o])] ELSE values

LEMMA OffHolds ==
    ASSUME NEW p, NEW m, NEW w, NEW r, NEW outputs, NEW values, NEW allowed,
           Holds(p, m, w, r, outputs, values, allowed), r # <<>> => InFlight(p.session),
           \A d \in PowerDps : Current(p, m, w, d), NEW o \in outputs
    PROVE  Holds(ControlOff(p, o), m, w, r, outputs \ {o},
                 Forgot(values, m, ComingOf(p.session, w), o), allowed)
<1> DEFINE coming == ComingOf(p.session, w)
           q == [p EXCEPT !.queued[o] = NoValue]
           d == SettingOf[o]
           meant == [values EXCEPT ![o] = Will(m, coming, d)]
<1>1. /\ Wire(p, m, w, r) /\ Sound(p, m, coming, values, allowed)
      /\ LitAtEnd(m, coming) = outputs /\ Waiting(p)
      /\ \A x \in Settable : p.queued[x] # NoValue => x \in outputs
    BY DEF Holds, Lighted
<1>2. CASE o \notin Settable
    <2>1. Holds(RequestOff(p, o), m, w, r, outputs \ {o}, values, allowed)
        BY <1>2, RequestOffHolds
    <2> QED BY <1>2, <2>1 DEF ControlOff, Forgot
<1>3. CASE o \in Settable
    <2>1. p \in Programs
        BY <1>1 DEF Wire
    <2>2. /\ q \in Programs /\ q.session = p.session /\ q.table = p.table
          /\ q.queued[o] = NoValue /\ \A x \in Settable : x # o => q.queued[x] = p.queued[x]
        BY <1>3, <2>1 DEF Programs
    <2>3. ControlOff(p, o) = RequestOff(q, o)
        BY <1>3 DEF ControlOff
    <2> HIDE DEF q
    <2>4. Wire(q, m, w, r)
        BY <1>1, <2>2 DEF Wire
    <2>5. /\ Powered(m, coming) /\ NoneFlashes(m, coming, allowed)
          /\ values \in [Settable -> Values]
          /\ \A x \in Settable : SettingIsMeant(p, m, coming, values, x)
        BY <1>1 DEF Sound
    <2>6. Will(m, coming, d) \in Values
        <3>1. CASE p.queued[o] = NoValue
            <4>1. values[o] = Will(m, coming, d)
                BY <1>3, <2>5, <3>1 DEF SettingIsMeant
            <4> QED BY <1>3, <2>5, <4>1
        <3>2. CASE p.queued[o] # NoValue
            <4>1. NoSetting(coming, d)
                BY <1>3, <2>5, <3>2 DEF SettingIsMeant
            <4>2. Len(coming) \in Nat /\ Unwritten(coming, Len(coming), d)
                BY <1>1, <4>1, WireComing, LenProperties DEF Unwritten, NoSetting
            <4>3. Will(m, coming, d) = m[d]
                BY <4>2, BecomesLast DEF Will
            <4>4. d \in Dps /\ m \in States
                BY <1>1, <1>3, Datapoints DEF Wire
            <4> QED BY <4>3, <4>4 DEF States
        <3> QED BY <3>1, <3>2
    <2>7. /\ meant \in [Settable -> Values] /\ meant[o] = Will(m, coming, d)
          /\ \A x \in Settable : x # o => meant[x] = values[x]
        BY <1>3, <2>5, <2>6
    <2> HIDE DEF meant
    <2>8. SettingIsMeant(q, m, coming, meant, o)
        BY <1>3, <2>2, <2>5, <2>7 DEF SettingIsMeant
    <2>9. \A x \in Settable : x # o => SettingIsMeant(q, m, coming, meant, x)
        BY <2>2, <2>5, <2>7 DEF SettingIsMeant
    <2>10. Sound(q, m, coming, meant, allowed)
        BY <2>5, <2>7, <2>8, <2>9 DEF Sound
    <2>11. Waiting(q)
        <3>1. \A x \in Settable : Confirmed(q, x) <=> Confirmed(p, x)
            BY <2>2 DEF Confirmed, IsTrue, IsPending
        <3> QED BY <1>1, <2>2, <3>1 DEF Waiting
    <2>12. Lighted(q, m, coming, outputs)
        BY <1>1, <2>2 DEF Lighted
    <2>13. Holds(q, m, w, r, outputs, meant, allowed)
        BY <2>2, <2>4, <2>10, <2>11, <2>12 DEF Holds
    <2>14. \A e \in PowerDps : Current(q, m, w, e)
        BY <2>2 DEF Current
    <2>15. Holds(RequestOff(q, o), m, w, r, outputs \ {o}, meant, allowed)
        BY <2>2, <2>13, <2>14, RequestOffHolds
    <2> QED BY <1>3, <2>3, <2>15 DEF Forgot, meant
<1> QED BY <1>2, <1>3

\* control_fan and its like, on.
Chose(values, o, v) == IF v = NoValue THEN values ELSE [values EXCEPT ![o] = v]

LEMMA ControlOnHolds ==
    ASSUME NEW p, NEW m, NEW w, NEW r, NEW outputs, NEW values, NEW allowed,
           Holds(p, m, w, r, outputs, values, allowed), r # <<>> => InFlight(p.session),
           \A d \in PowerDps : Current(p, m, w, d),
           NEW o \in Outputs, o \in allowed,
           NEW v \in (IF o \in Settable THEN Values ELSE {}) \cup {NoValue},
           v # NoValue => Current(p, m, w, SettingOf[o])
    PROVE  Holds(ControlOn(p, o, v), m, w, r, outputs \cup {o}, Chose(values, o, v), allowed)
<1> DEFINE coming == ComingOf(p.session, w)
           meant  == Chose(values, o, v)
           later  == IF v = NoValue THEN p ELSE [p EXCEPT !.queued[o] = v]
           now    == IF v = NoValue THEN p ELSE SetSetting(p, o, v)
           pends  == IsPending(p, MASTER) \/ IsPending(p, o)
<1>1. /\ Wire(p, m, w, r) /\ Sound(p, m, coming, values, allowed)
      /\ LitAtEnd(m, coming) = outputs /\ Waiting(p)
      /\ \A x \in Settable : p.queued[x] # NoValue => x \in outputs
    BY DEF Holds, Lighted
<1>2. ControlOn(p, o, v) = IF o \notin Settable THEN RequestOn(p, o)
                           ELSE IF ~Effective(p, o) THEN RequestOn(later, o)
                           ELSE IF pends THEN later ELSE RequestOn(now, o)
    BY DEF ControlOn
<1>3. Effective(p, o) <=> o \in outputs
    BY <1>1, EffectiveIsLit
<1>4. ASSUME v = NoValue PROVE Holds(RequestOn(p, o), m, w, r, outputs \cup {o}, meant, allowed)
    <2>1. meant = values
        BY <1>4 DEF Chose
    <2> HIDE DEF meant
    <2>2. Holds(RequestOn(p, o), m, w, r, outputs \cup {o}, values, allowed)
        BY <1>1, OnHolds
    <2> QED BY <2>1, <2>2
<1>5. ASSUME o \in Settable, ~Confirmed(p, o)
      PROVE  /\ later.session = p.session /\ later.table = p.table
             /\ Wire(later, m, w, r) /\ Sound(later, m, coming, meant, allowed) /\ Waiting(later)
             /\ \A x \in Settable : later.queued[x] # NoValue => x \in outputs \cup {o}
    <2>1. CASE v = NoValue
        BY <1>1, <2>1 DEF Chose
    <2>2. CASE v # NoValue
        <3>1. v \in Values /\ later = [p EXCEPT !.queued[o] = v] /\ meant = [values EXCEPT ![o] = v]
            BY <1>5, <2>2 DEF Chose
        <3> HIDE DEF later, meant
        <3>2. Waits(p, later, m, w, r, values, allowed, o, v)
            BY <1>1, <1>5, <2>2, <3>1, SettingWaits
        <3> QED BY <1>1, <3>1, <3>2 DEF Waits
    <2> QED BY <2>1, <2>2
<1>6. ASSUME o \in Settable, ~Effective(p, o)
      PROVE  Holds(RequestOn(later, o), m, w, r, outputs \cup {o}, meant, allowed)
    <2>1. ~Confirmed(p, o)
        BY <1>6 DEF Effective, TargetIsTrue, Target, Confirmed, IsTrue, IsPending
    <2> HIDE DEF later, meant
    <2>2. \A d \in PowerDps : Current(later, m, w, d)
        BY <1>5, <1>6, <2>1 DEF Current
    <2>3. LitAtEnd(m, ComingOf(later.session, w)) = outputs /\ (r # <<>> => InFlight(later.session))
        BY <1>1, <1>5, <1>6, <2>1
    <2> QED BY <1>5, <1>6, <2>1, <2>2, <2>3, OnHolds
<1>7. ASSUME o \in Settable, Effective(p, o), pends
      PROVE  Holds(later, m, w, r, outputs \cup {o}, meant, allowed)
    <2>1. ~Confirmed(p, o)
        BY <1>7 DEF Confirmed
    <2>2. outputs \cup {o} = outputs
        BY <1>3, <1>7
    <2> HIDE DEF later, meant
    <2> QED BY <1>1, <1>5, <1>7, <2>1, <2>2 DEF Holds, Lighted
<1>8. ASSUME o \in Settable, Effective(p, o), ~pends, v # NoValue
      PROVE  Holds(RequestOn(now, o), m, w, r, outputs \cup {o}, meant, allowed)
    <2>1. v \in Values /\ now = SetSetting(p, o, v) /\ meant = [values EXCEPT ![o] = v]
        BY <1>8 DEF Chose
    <2>2. SettingAllowed(p, o)
        <3>1. p.table \in States /\ MASTER \in Dps /\ o \in Dps
            BY <1>1, Datapoints DEF Wire, Programs
        <3>2. p.table[MASTER] # NoValue /\ p.table[o] # NoValue
            BY <3>1, Datapoints DEF States
        <3>3. IsTrue(p, MASTER) /\ IsTrue(p, o)
            BY <1>8 DEF Effective, TargetIsTrue, Target, IsTrue, IsPending
        <3> QED BY <1>8, <3>2, <3>3 DEF SettingAllowed
    <2> HIDE DEF now, meant
    <2>3. /\ Holds(now, m, w, r, outputs, meant, allowed)
          /\ now.queued = p.queued
          /\ r # <<>> => InFlight(now.session)
          /\ \A d \in PowerDps : Current(now, m, w, d)
        <3>1. IsSet(p, now, m, w, r, outputs, meant, allowed)
            <4>1. IsSet(p, SetSetting(p, o, v), m, w, r, outputs, [values EXCEPT ![o] = v], allowed)
                BY <1>8, <2>1, <2>2, SettingIsSet
            <4> QED BY <2>1, <4>1
        <3> QED BY <3>1 DEF IsSet
    <2>4. /\ Wire(now, m, w, r) /\ Sound(now, m, ComingOf(now.session, w), meant, allowed)
          /\ LitAtEnd(m, ComingOf(now.session, w)) = outputs /\ Waiting(now)
          /\ \A x \in Settable : now.queued[x] # NoValue => x \in outputs \cup {o}
        BY <2>3 DEF Holds, Lighted
    <2> QED BY <2>3, <2>4, OnHolds
<1>9. v = NoValue => now = p
    OBVIOUS
<1>10. o \notin Settable => v = NoValue
    OBVIOUS
<1> HIDE DEF now, later, meant, pends
<1>11. Holds(ControlOn(p, o, v), m, w, r, outputs \cup {o}, meant, allowed)
    <2>1. CASE o \notin Settable
        BY <1>2, <1>4, <1>10, <2>1
    <2>2. CASE o \in Settable /\ ~Effective(p, o)
        BY <1>2, <1>6, <2>2
    <2>3. CASE o \in Settable /\ Effective(p, o) /\ pends
        BY <1>2, <1>7, <2>3
    <2>4. CASE o \in Settable /\ Effective(p, o) /\ ~pends
        BY <1>2, <1>4, <1>8, <1>9, <2>4
    <2> QED BY <2>1, <2>2, <2>3, <2>4
<1> QED BY <1>11 DEF meant

----------------------------------------------------------------------------
(* The controls of the system: given while the targets read are what will be sent,
   and "off" of an output that is lit only *)

\* What Commanded is while Inv holds.
LEMMA CommandedIsWill ==
    ASSUME Inv, NEW d \in Dps
    PROVE  Commanded[d] = Will(mcu, ComingOf(program.session, toMcu), d)
<1>1. Linked(program.session, Requests) /\ InStep(program.session, mcu, toMcu, reports)
    BY DEF Inv, Holds, Wire
<1> QED BY <1>1, CommandedIs, RequestsAreDelivers

LEMMA ControlGiven ==
    ASSUME Inv, MayControl, ~AmidReadback
    PROVE  /\ reports # <<>> => InFlight(program.session)
           /\ \A d \in PowerDps : Current(program, mcu, toMcu, d)
           /\ \A o \in Settable : MayChoose(o) => Current(program, mcu, toMcu, SettingOf[o])
<1>1. \A d \in PowerDps : Current(program, mcu, toMcu, d)
    BY CommandedIsWill, Datapoints DEF MayControl, TargetsCurrent, Current
<1>2. \A o \in Settable : MayChoose(o) => Current(program, mcu, toMcu, SettingOf[o])
    BY CommandedIsWill, Datapoints DEF MayChoose, TargetsCurrent, Current
<1> QED BY <1>1, <1>2 DEF MayControl

\* What may be lit on the way, once a control is given.
Allowed(outputs) == (IF Quiet THEN Lit(mcu) ELSE asked) \cup outputs

LEMMA AskedAgain ==
    ASSUME Inv, NEW outputs
    PROVE  Holds(program, mcu, toMcu, reports, wanted, chosen, Allowed(outputs))
<1> DEFINE coming == ComingOf(program.session, toMcu)
<1>1. /\ Wire(program, mcu, toMcu, reports) /\ Sound(program, mcu, coming, chosen, asked)
      /\ Lighted(program, mcu, coming, wanted) /\ Waiting(program)
    BY DEF Inv, Holds
<1>2. CASE Quiet
    <2>1. program.session.queue = <<>> /\ ~InFlight(program.session)
        BY <1>1, <1>2 DEF Quiet, Wire, Linked, SessionInv, HeadIsAwaited
    <2>2. coming = <<>>
        BY <2>1, NothingComes
    <2> HIDE DEF coming
    <2>3. NoneFlashes(mcu, coming, Allowed(outputs))
        <3>1. Lit(mcu) \subseteq Allowed(outputs)
            BY <1>2 DEF Allowed
        <3> QED BY <2>2, <3>1, ComingOfNone
    <2>4. Sound(program, mcu, coming, chosen, Allowed(outputs))
        BY <1>1, <2>3 DEF Sound
    <2> QED BY <1>1, <2>4 DEF Holds, coming
<1>3. CASE ~Quiet
    <2>1. asked \subseteq Allowed(outputs)
        BY <1>3 DEF Allowed
    <2>2. Sound(program, mcu, coming, chosen, Allowed(outputs))
        BY <1>1, <2>1, MoreAllowed
    <2> QED BY <1>1, <2>2 DEF Holds
<1> QED BY <1>2, <1>3

LEMMA TurnOffHolds ==
    ASSUME Inv, ~AmidReadback, ~OffWhenDark, NEW o \in Outputs, TurnOff(o)
    PROVE  Inv'
<1> DEFINE coming == ComingOf(program.session, toMcu)
<1>1. /\ program' = ControlOff(program, o) /\ wanted' = wanted \ {o} /\ o \in wanted
      /\ chosen' = IF o \in Settable THEN [chosen EXCEPT ![o] = Commanded[SettingOf[o]]] ELSE chosen
      /\ asked' = Allowed({})
      /\ mcu' = mcu /\ toMcu' = toMcu /\ reports' = reports
    BY DEF TurnOff, Asking, Allowed
<1>2. chosen' = Forgot(chosen, mcu, coming, o)
    <2>1. o \in Settable => Commanded[SettingOf[o]] = Will(mcu, coming, SettingOf[o])
        BY CommandedIsWill, Datapoints
    <2> QED BY <1>1, <2>1 DEF Forgot
<1>3. /\ reports # <<>> => InFlight(program.session)
      /\ \A d \in PowerDps : Current(program, mcu, toMcu, d)
    BY ControlGiven DEF TurnOff
<1>4. Holds(program, mcu, toMcu, reports, wanted, chosen, Allowed({}))
    BY AskedAgain
<1>5. Holds(ControlOff(program, o), mcu, toMcu, reports, wanted \ {o},
            Forgot(chosen, mcu, ComingOf(program.session, toMcu), o), Allowed({}))
    BY <1>1, <1>3, <1>4, OffHolds
<1> QED BY <1>1, <1>2, <1>5 DEF Inv

LEMMA TurnOnHolds ==
    ASSUME Inv, ~AmidReadback, NEW o \in Outputs,
           NEW v \in (IF o \in Settable THEN Values ELSE {}) \cup {NoValue}, TurnOn(o, v)
    PROVE  Inv'
<1>1. /\ program' = ControlOn(program, o, v) /\ wanted' = wanted \cup {o}
      /\ chosen' = Chose(chosen, o, v) /\ asked' = Allowed({o})
      /\ mcu' = mcu /\ toMcu' = toMcu /\ reports' = reports
    BY DEF TurnOn, Asking, Allowed, Chose
<1>2. /\ reports # <<>> => InFlight(program.session)
      /\ \A d \in PowerDps : Current(program, mcu, toMcu, d)
    BY ControlGiven DEF TurnOn
<1>3. v # NoValue => Current(program, mcu, toMcu, SettingOf[o])
    <2>1. v # NoValue => o \in Settable
        OBVIOUS
    <2> QED BY <2>1, ControlGiven DEF TurnOn
<1>4. Holds(program, mcu, toMcu, reports, wanted, chosen, Allowed({o})) /\ o \in Allowed({o})
    BY AskedAgain DEF Allowed
<1>5. Holds(ControlOn(program, o, v), mcu, toMcu, reports, wanted \cup {o}, Chose(chosen, o, v), Allowed({o}))
    BY <1>2, <1>3, <1>4, ControlOnHolds
<1> QED BY <1>1, <1>5 DEF Inv

LEMMA ChangeHolds ==
    ASSUME Inv, ~AmidReadback, NEW o \in Settable, NEW v \in Values, ChangeSetting(o, v)
    PROVE  Inv'
<1>1. /\ program' = SetSetting(program, o, v) /\ wanted' = wanted /\ asked' = Allowed({})
      /\ chosen' = IF SettingAllowed(program, o) THEN [chosen EXCEPT ![o] = v] ELSE chosen
      /\ mcu' = mcu /\ toMcu' = toMcu /\ reports' = reports
    BY DEF ChangeSetting, ControlSetting, Asking, Allowed
<1>2. /\ reports # <<>> => InFlight(program.session)
      /\ \A d \in PowerDps : Current(program, mcu, toMcu, d)
      /\ Current(program, mcu, toMcu, SettingOf[o])
    BY ControlGiven DEF ChangeSetting
<1>3. Holds(program, mcu, toMcu, reports, wanted, chosen, Allowed({}))
    BY AskedAgain
<1>4. CASE SettingAllowed(program, o)
    <2>1. IsSet(program, SetSetting(program, o, v), mcu, toMcu, reports, wanted,
                [chosen EXCEPT ![o] = v], Allowed({}))
        BY <1>2, <1>3, <1>4, SettingIsSet
    <2> QED BY <1>1, <1>4, <2>1 DEF Inv, IsSet
<1>5. CASE ~SettingAllowed(program, o)
    BY <1>1, <1>3, <1>5 DEF SetSetting, Inv
<1> QED BY <1>4, <1>5

----------------------------------------------------------------------------
(* A report *)

\* One round of handle_command_ in a context: the program before the report, the
\* report, and what is meant.
Round(c, q, d) ==
    IF d \in Written(c.report)
    THEN HandleDatapoint(TakeOver(q, c.report, Outcome(c.before.session).authoritative, d), d)
    ELSE q

\* What the report confirms of what is pending.
Confirms(c, d) ==
    Outcome(c.before.session).authoritative \/ c.before.session.pending[d] = c.report[d]

\* The program once the datapoints up to n are taken over.
TookOver(c, q, n) ==
    LET p == c.before
        a == Answer(p.session)
    IN  /\ q \in Programs
        /\ Linked(q.session, Requests)
        /\ ~InFlight(q.session)
        /\ q.session.route = a.route
        /\ HasReadback(a) => HasReadback(q.session)
        /\ \A d \in Dps : q.table[d] = IF d <= n THEN c.report[d] ELSE p.table[d]
        /\ \A d \in Dps : q.session.pending[d] = IF d <= n /\ Confirms(c, d) THEN NoValue
                                                ELSE p.session.pending[d]

\* What is meant will be.
Meant(c, q) ==
    /\ Sound(q, c.report, Ordinary(q.session.queue), c.values, c.allowed)
    /\ Lighted(q, c.report, Ordinary(q.session.queue), c.outputs)

Took(c, q, n) == TookOver(c, q, n) /\ Meant(c, q) /\ Waiting(q)

Loop == INSTANCE DreoIteration WITH Step <- Round, Holds <- Took

\* Taking over one datapoint, before what the coordinator does about it.
LEMMA TakenOver ==
    ASSUME NEW c, NEW q, NEW n \in Nat, Took(c, q, n), NEW d \in Dps, d = n + 1,
           c.report \in States, NEW auth, auth = Outcome(c.before.session).authoritative
    PROVE  TookOver(c, TakeOver(q, c.report, auth, d), d) /\ Meant(c, TakeOver(q, c.report, auth, d))
<1> DEFINE t == TakeOver(q, c.report, auth, d)
           v == c.report[d]
           u == ClearConfirmed(q.session, d, v, auth)
           p == c.before
           coming == Ordinary(q.session.queue)
<1>1. /\ q \in Programs /\ Linked(q.session, Requests) /\ ~InFlight(q.session)
      /\ q.session.route = Answer(p.session).route
      /\ HasReadback(Answer(p.session)) => HasReadback(q.session)
      /\ \A e \in Dps : q.table[e] = IF e <= n THEN c.report[e] ELSE p.table[e]
      /\ \A e \in Dps : q.session.pending[e] = IF e <= n /\ Confirms(c, e) THEN NoValue
                                                ELSE p.session.pending[e]
    BY DEF Took, TookOver
<1>2. v \in Values
    BY DEF States
<1>3. /\ Linked(u, Requests) /\ u \in Sessions
      /\ u.queue = q.session.queue /\ u.expected = q.session.expected /\ u.route = q.session.route
      /\ u.pending[d] = IF auth \/ q.session.pending[d] = v THEN NoValue ELSE q.session.pending[d]
      /\ \A e \in Dps : e # d => u.pending[e] = q.session.pending[e]
    BY <1>1, <1>2, LinkedClear DEF Linked
<1>4. /\ t.session = u /\ t.table = [q.table EXCEPT ![d] = v] /\ t.queued = q.queued
      /\ t = [session |-> u, table |-> [q.table EXCEPT ![d] = v], queued |-> q.queued]
    <2>1. q = [session |-> q.session, table |-> q.table, queued |-> q.queued]
        BY <1>1 DEF Programs
    <2>2. t = [q EXCEPT !.session = u, !.table[d] = v]
        BY DEF TakeOver
    <2> HIDE DEF u, v, t
    <2>3. t = [session |-> u, table |-> [q.table EXCEPT ![d] = v], queued |-> q.queued]
        BY <2>1, <2>2
    <2> QED BY <2>3
<1>5. q.table \in States /\ q.queued \in [Settable -> Values \cup {NoValue}]
    BY <1>1 DEF Programs
<1>6. [q.table EXCEPT ![d] = v] \in States
    <2>1. d \in PowerDps => v \in {0, 1}
        BY DEF States
    <2> QED BY <1>2, <1>5, <2>1, Datapoints DEF States
<1> HIDE DEF u, t, v
<1>7. t \in Programs
    BY <1>3, <1>4, <1>5, <1>6 DEF Programs
<1>8. \A e \in Dps : t.table[e] = IF e = d THEN v ELSE q.table[e]
    BY <1>4, <1>5 DEF States
<1>9. \A e \in Dps : t.table[e] = IF e <= d THEN c.report[e] ELSE p.table[e]
    <2> SUFFICES ASSUME NEW e \in Dps PROVE t.table[e] = IF e <= d THEN c.report[e] ELSE p.table[e]
        OBVIOUS
    <2>1. e \in Nat /\ d \in Nat
        BY LinkAssumption
    <2>2. CASE e = d
        BY <1>8, <2>1, <2>2 DEF v
    <2>3. CASE e # d
        <3>1. e <= d <=> e <= n
            BY <2>1, <2>3
        <3> QED BY <1>1, <1>8, <2>3, <3>1
    <2> QED BY <2>2, <2>3
<1>10. \A e \in Dps : t.session.pending[e] = IF e <= d /\ Confirms(c, e) THEN NoValue
                                              ELSE p.session.pending[e]
    <2> SUFFICES ASSUME NEW e \in Dps
                 PROVE  t.session.pending[e] = IF e <= d /\ Confirms(c, e) THEN NoValue
                                               ELSE p.session.pending[e]
        OBVIOUS
    <2>1. e \in Nat /\ d \in Nat
        BY LinkAssumption
    <2>2. CASE e = d
        <3>1. ~(e <= n) /\ e <= d
            BY <2>1, <2>2
        <3>2. q.session.pending[d] = p.session.pending[d]
            BY <1>1, <2>2, <3>1
        <3>3. auth \/ q.session.pending[d] = v <=> Confirms(c, d)
            BY <3>2 DEF Confirms, v
        <3> QED BY <1>3, <1>4, <2>2, <3>1, <3>2, <3>3
    <2>3. CASE e # d
        <3>1. e <= d <=> e <= n
            BY <2>1, <2>3
        <3> QED BY <1>1, <1>3, <1>4, <2>3, <3>1
    <2> QED BY <2>2, <2>3
<1>11. /\ ~InFlight(t.session) /\ t.session.route = Answer(p.session).route
       /\ HasReadback(Answer(p.session)) => HasReadback(t.session)
    BY <1>1, <1>3, <1>4 DEF InFlight, HasReadback
<1>12. TookOver(c, t, d)
    BY <1>1, <1>3, <1>4, <1>7, <1>9, <1>10, <1>11 DEF TookOver
<1>13. Sound(q, c.report, coming, c.values, c.allowed) /\ Lighted(q, c.report, coming, c.outputs)
    BY DEF Took, Meant
<1>14. Ordinary(t.session.queue) = coming
    BY <1>3, <1>4
<1> HIDE DEF coming
<1>15. ASSUME NEW o \in Settable PROVE SettingIsMeant(t, c.report, coming, c.values, o)
    <2>1. SettingIsMeant(q, c.report, coming, c.values, o) /\ SettingOf[o] \in Dps
        BY <1>13, Datapoints DEF Sound
    <2>2. \/ t.table[SettingOf[o]] = q.table[SettingOf[o]]
          \/ t.table[SettingOf[o]] = c.report[SettingOf[o]]
        BY <1>8, <2>1 DEF v
    <2> QED BY <1>4, <2>1, <2>2 DEF SettingIsMeant, OneSetting
<1>16. Sound(t, c.report, coming, c.values, c.allowed)
    BY <1>13, <1>15 DEF Sound
<1>17. Lighted(t, c.report, coming, c.outputs)
    BY <1>4, <1>13 DEF Lighted
<1> QED BY <1>12, <1>14, <1>16, <1>17 DEF Meant, t

\* flush_fan_settings_ or flush_main_light_settings_: what waits for an output that
\* is confirmed to be lit is written.
FlushesTo(c, t, q, n, o) ==
    /\ TookOver(c, q, n) /\ Meant(c, q)
    /\ q.table = t.table /\ q.session.pending = t.session.pending
    /\ \A x \in Settable : x # o => q.queued[x] = t.queued[x]
    /\ o \in Settable => q.queued[o] = NoValue \/ ~Confirmed(q, o)

LEMMA FlushTaken ==
    ASSUME NEW c, NEW t, NEW n, TookOver(c, t, n), Meant(c, t), NEW o
    PROVE  FlushesTo(c, t, Flush(t, o), n, o)
<1> DEFINE q  == Flush(t, o)
           v  == t.queued[o]
           d  == SettingOf[o]
           t1 == [t EXCEPT !.queued[o] = NoValue]
           coming == Ordinary(t.session.queue)
           after  == Ordinary(q.session.queue)
<1>1. CASE o \notin Settable \/ ~Confirmed(t, o) \/ v = NoValue
    <2>1. q = t
        BY <1>1 DEF Flush
    <2> QED BY <1>1, <2>1 DEF FlushesTo
<1>2. CASE o \in Settable /\ Confirmed(t, o) /\ v # NoValue
    <2>1. /\ t \in Programs /\ Linked(t.session, Requests) /\ ~InFlight(t.session)
          /\ t.table \in States /\ t.session.pending \in Batches
        BY DEF TookOver, Programs, Sessions
    <2>2. v \in Values /\ d \in Dps /\ d \notin Transition /\ o \in Dps /\ MASTER \in Dps /\ IsRequest(d, v)
        BY <1>2, <2>1, Datapoints DEF Programs, IsRequest
    <2>3. /\ t1 \in Programs /\ t1.session = t.session /\ t1.table = t.table
          /\ t1.queued[o] = NoValue /\ \A x \in Settable : x # o => t1.queued[x] = t.queued[x]
        BY <1>2, <2>1 DEF Programs
    <2>4. q = SetSetting(t1, o, v)
        BY <1>2 DEF Flush
    <2> HIDE DEF t1, q
    <2>5. SettingAllowed(t1, o)
        <3>1. t1.table[MASTER] # NoValue /\ t1.table[o] # NoValue
            BY <2>1, <2>2, <2>3, Datapoints DEF States
        <3> QED BY <1>2, <2>3, <3>1 DEF SettingAllowed, Confirmed, IsTrue, IsPending
    <2>6. q = Set(t1, d, v)
        BY <2>4, <2>5 DEF SetSetting
    <2>7. Requested(t1, q, d, v)
        <3> HIDE DEF d, v
        <3> QED BY <2>1, <2>2, <2>3, <2>6, SetAsks
    <2>8. /\ q \in Programs /\ Linked(q.session, Requests) /\ q.table = t.table
          /\ q.queued = t1.queued
          /\ Asked(t.session, q.session, t.table, d, v)
        BY <2>3, <2>7 DEF Requested
    <2>9. t.session.pending[d] = NoValue
        BY <2>1, <2>2 DEF Linked
    <2>10. /\ q.session.expected = t.session.expected /\ q.session.route = t.session.route
           /\ q.session.pending = t.session.pending
           /\ HasReadback(t.session) => HasReadback(q.session)
           /\ \/ after = coming /\ t.table[d] = v
              \/ after = Append(coming, Deliver(One(d, v))) /\ t.table[d] # v
        <3>1. [t.session.pending EXCEPT ![d] = IF d \in Transition THEN v ELSE @] = t.session.pending
            BY <2>1, <2>2 DEF Batches
        <3> QED BY <2>8, <2>9, <3>1 DEF Asked, Sends
    <2>11. TookOver(c, q, n)
        BY <2>8, <2>10 DEF TookOver, InFlight
    <2>12. /\ Sound(t, c.report, coming, c.values, c.allowed)
           /\ LitAtEnd(c.report, coming) = c.outputs /\ o \in c.outputs
           /\ \A x \in Settable : t.queued[x] # NoValue => x \in c.outputs
        BY <1>2 DEF Meant, Lighted
    <2>13. /\ c.values[o] = v /\ NoSetting(coming, d) /\ c.report[d] = t.table[d]
           /\ c.values \in [Settable -> Values]
        BY <1>2, <2>12 DEF Sound, SettingIsMeant
    <2>14. [c.values EXCEPT ![o] = v] = c.values
        BY <2>13
    <2>15. coming \in Seq(Requests)
        BY <2>1 DEF Linked
    <2>16. q.queued[o] = NoValue /\ \A x \in Settable : x # o => q.queued[x] = t.queued[x]
        BY <2>3, <2>8
    <2> HIDE DEF coming, after, v
    <2>17. /\ Sound(q, c.report, after, [c.values EXCEPT ![o] = v], c.allowed)
           /\ LitAtEnd(c.report, after) = LitAtEnd(c.report, coming)
        <3>1. o \in Settable /\ (AllowWhileOff \/ o \in LitAtEnd(c.report, coming))
            BY <1>2, <2>12
        <3>2. Sound(t, c.report, coming, c.values, c.allowed)
            BY <2>12
        <3>3. /\ v \in Values /\ NoSetting(coming, SettingOf[o])
              /\ c.report[SettingOf[o]] = t.table[SettingOf[o]]
            BY <2>2, <2>13
        <3>4. \/ after = coming /\ t.table[SettingOf[o]] = v
              \/ after = Append(coming, Deliver(One(SettingOf[o], v))) /\ t.table[SettingOf[o]] # v
            BY <2>10
        <3>5. q.table = t.table
            BY <2>8
        <3> QED BY <2>15, <2>16, <3>1, <3>2, <3>3, <3>4, <3>5, SettingSound DEF Writes
    <2>18. Lighted(q, c.report, after, c.outputs)
        BY <2>12, <2>16, <2>17 DEF Lighted
    <2>19. Meant(c, q)
        BY <2>14, <2>17, <2>18 DEF Meant, after
    <2> QED BY <2>8, <2>10, <2>11, <2>16, <2>19 DEF FlushesTo, q
<1> QED BY <1>1, <1>2

\* handle_datapoint_, when a datapoint is taken over: no setting waits for an output
\* that is confirmed to be lit.
LEMMA HandleTaken ==
    ASSUME NEW c, NEW t, NEW n, TookOver(c, t, n), Meant(c, t), NEW d
    PROVE  Took(c, HandleDatapoint(t, d), n)
<1> DEFINE u == Flush(t, FAN)
           q == Flush(u, LIGHT)
<1>1. HandleDatapoint(t, d) = q
    BY DEF HandleDatapoint
<1>2. FlushesTo(c, t, u, n, FAN)
    BY FlushTaken
<1> HIDE DEF u
<1>3. FlushesTo(c, u, q, n, LIGHT)
    BY <1>2, FlushTaken DEF FlushesTo
<1> HIDE DEF q
<1>4. FAN # LIGHT /\ Settable \subseteq {FAN, LIGHT}
    BY DEF Settable, Outputs, FAN, LIGHT, AMBIENT
<1>5. ASSUME NEW o \in Settable, q.queued[o] # NoValue PROVE ~Confirmed(q, o)
    <2>1. CASE o = LIGHT
        BY <1>3, <1>5, <2>1 DEF FlushesTo
    <2>2. CASE o = FAN
        <3>1. ~Confirmed(u, o)
            BY <1>2, <1>3, <1>4, <1>5, <2>2 DEF FlushesTo
        <3> QED BY <1>3, <3>1 DEF FlushesTo, Confirmed, IsTrue, IsPending
    <2> QED BY <1>4, <2>1, <2>2
<1> QED BY <1>1, <1>3, <1>5 DEF FlushesTo, Took, Waiting

\* Each round of the loop.
LEMMA RoundTaken ==
    ASSUME NEW c, c.report \in States, NEW n \in Nat, NEW q, Took(c, q, n)
    PROVE  Took(c, Round(c, q, n + 1), n + 1)
<1> DEFINE d    == n + 1
           auth == Outcome(c.before.session).authoritative
           t    == TakeOver(q, c.report, auth, d)
<1>1. \A e \in Dps : e \in Nat /\ e >= 1
    BY LinkAssumption
<1>2. CASE d \notin Dps
    <2>1. Round(c, q, d) = q
        BY <1>2 DEF Round, Written
    <2>2. \A e \in Dps : e <= d <=> e <= n
        BY <1>1, <1>2
    <2>3. TookOver(c, q, d)
        <3> HIDE DEF d
        <3> QED BY <2>2 DEF Took, TookOver
    <2> QED BY <2>1, <2>3 DEF Took
<1>3. CASE d \in Dps
    <2>1. d \in Written(c.report)
        BY <1>3, Datapoints DEF States, Written
    <2>2. Round(c, q, d) = HandleDatapoint(t, d)
        BY <2>1 DEF Round
    <2>3. TookOver(c, t, d) /\ Meant(c, t)
        BY <1>3, TakenOver
    <2> HIDE DEF t, d
    <2>4. Took(c, HandleDatapoint(t, d), d)
        BY <2>3, HandleTaken
    <2> QED BY <2>2, <2>4 DEF d
<1> QED BY <1>2, <1>3

\* handle_command_ for a report.
LEMMA ReportTaken ==
    ASSUME NEW c, NEW m, NEW w, NEW r, Wire(c.before, m, w, r), r # <<>>, c.report = m,
           Sound(c.before, m, ComingOf(c.before.session, w), c.values, c.allowed),
           Lighted(c.before, m, ComingOf(c.before.session, w), c.outputs), Waiting(c.before)
    PROVE  \E q : /\ Took(c, q, MaxDp)
                  /\ TakeReport(c.before, m, HandleDatapoint)
                         = [q EXCEPT !.session = Settle(@, Outcome(c.before.session))]
<1> DEFINE p == c.before
           up[d \in 0..MaxDp] == IF d = 0 THEN Answered(p) ELSE Round(c, up[d - 1], d)
<1>1. MaxDp \in Nat /\ m \in States
    BY LinkAssumption DEF Wire
<1>2. Took(c, Answered(p), 0)
    <2> DEFINE a == Answer(p.session)
               q == Answered(p)
    <2>1. p \in Programs /\ Linked(p.session, Requests) /\ InStep(p.session, m, w, r)
        BY DEF Wire
    <2>2. Answers(p.session, a, m, w, r, Requests)
        BY <2>1, InStepAnswer, RequestsAreDelivers
    <2>3. /\ Linked(a, Requests) /\ a \in Sessions /\ ~InFlight(a) /\ a.pending = p.session.pending
          /\ a.queue = AheadOf(p.session, w)
        BY <2>2 DEF Linked, Answers
    <2>4. q = [p EXCEPT !.session = a]
        BY DEF Answered, Answer
    <2> HIDE DEF a, q
    <2>5. q \in Programs /\ q.session = a /\ q.table = p.table /\ q.queued = p.queued
        BY <2>1, <2>3, <2>4 DEF Programs
    <2>6. \A d \in Dps : ~(d <= 0)
        BY LinkAssumption
    <2>7. TookOver(c, q, 0)
        BY <2>3, <2>5, <2>6 DEF TookOver, a
    <2>8. Ordinary(q.session.queue) = ComingOf(p.session, w)
        BY <2>3, <2>5 DEF ComingOf
    <2>9. Meant(c, q)
        BY <2>5, <2>8 DEF Meant, Sound, SettingIsMeant, Lighted
    <2>10. Waiting(q)
        BY <2>3, <2>5 DEF Waiting, Confirmed, IsTrue, IsPending
    <2> QED BY <2>7, <2>9, <2>10 DEF Took, q
<1>3. ASSUME NEW d \in 1..MaxDp, NEW q, Took(c, q, d - 1) PROVE Took(c, Round(c, q, d), d)
    <2>1. d - 1 \in Nat /\ (d - 1) + 1 = d
        BY <1>1
    <2> QED BY <1>1, <1>3, <2>1, RoundTaken
<1>4. Took(c, up[MaxDp], MaxDp)
    BY <1>1, <1>2, <1>3, Loop!LoopInvariant
<1>5. TakeReport(p, m, HandleDatapoint) = [up[MaxDp] EXCEPT !.session = Settle(@, Outcome(p.session))]
    BY DEF TakeReport, Round
<1> HIDE DEF up
<1> QED BY <1>4, <1>5

\* What the loop and what follows it leave of the wire.
Settled(t, q, m, w) ==
    /\ Wire(t, m, w, <<>>)
    /\ t.table = q.table /\ t.queued = q.queued
    /\ t.session.pending = q.session.pending
    /\ ComingOf(t.session, w) = Ordinary(q.session.queue)

LEMMA ReportWire ==
    ASSUME NEW c, NEW m, NEW w, NEW r, Wire(c.before, m, w, r), r # <<>>, c.report = m,
           NEW q, TookOver(c, q, MaxDp)
    PROVE  Settled([q EXCEPT !.session = Settle(@, Outcome(c.before.session))], q, m, w)
<1> DEFINE p == c.before
           s == p.session
           a == Answer(s)
           f == Outcome(s)
           u == Settle(q.session, f)
           t == [q EXCEPT !.session = Settle(@, f)]
<1>1. /\ p \in Programs /\ m \in States /\ Linked(s, Requests) /\ Reconciles(s)
      /\ InStep(s, m, w, r)
    BY DEF Wire
<1>2. /\ q \in Programs /\ Linked(q.session, Requests) /\ ~InFlight(q.session)
      /\ q.session.route = a.route
      /\ HasReadback(a) => HasReadback(q.session)
      /\ \A d \in Dps : q.table[d] = IF d <= MaxDp THEN m[d] ELSE p.table[d]
      /\ \A d \in Dps : q.session.pending[d] = IF d <= MaxDp /\ Confirms(c, d) THEN NoValue
                                                ELSE s.pending[d]
    BY DEF TookOver
<1>3. \A d \in Dps : d <= MaxDp
    BY LinkAssumption
<1>4. /\ w = <<>> /\ a.queue = AheadOf(s, w) /\ a.route = s.route
      /\ ~InFlight(s) => s.queue = <<>>
      /\ HasReadback(s) /\ f.delivered => HasReadback(a)
      /\ ~f.delivered /\ ~f.authoritative => ~InFlight(s)
    <2> HIDE DEF s
    <2>1. Answers(s, Answer(s), m, w, r, Requests)
        BY <1>1, InStepAnswer, RequestsAreDelivers
    <2> QED BY <2>1 DEF Answers
<1>5. q.table = m
    <2>1. q.table \in States
        BY <1>2 DEF Programs
    <2> QED BY <1>1, <1>2, <1>3, <2>1 DEF States
<1>6. HasPending(q.session) => f.delivered /\ HasPending(s)
    <2> SUFFICES ASSUME NEW d \in Dps, q.session.pending[d] # NoValue
                 PROVE  f.delivered /\ HasPending(s)
        BY DEF HasPending
    <2>1. ~Confirms(c, d) /\ s.pending[d] # NoValue
        BY <1>2, <1>3
    <2>2. HasPending(s) /\ ~f.authoritative
        BY <2>1 DEF HasPending, Confirms
    <2>3. s.queue # <<>>
        BY <1>1, <2>2 DEF Reconciles
    <2> QED BY <1>4, <2>2, <2>3
<1>7. HasPending(q.session) /\ q.session.route = "TRANSITION" => HasReadback(q.session)
    BY <1>1, <1>2, <1>4, <1>6 DEF Reconciles
<1>8. /\ Linked(u, Requests) /\ Reconciles(u) /\ ~InFlight(u)
      /\ u.pending = q.session.pending /\ Ordinary(u.queue) = Ordinary(q.session.queue)
    BY <1>2, <1>6, <1>7, LinkedSettle
<1>9. u \in Sessions
    BY <1>8 DEF Linked
<1> HIDE DEF u, a, f
<1>10. t = [q EXCEPT !.session = u]
    BY DEF u
<1> HIDE DEF t
<1>11. t \in Programs /\ t.session = u /\ t.table = q.table /\ t.queued = q.queued
    BY <1>2, <1>9, <1>10 DEF Programs
<1>12. InStep(u, m, w, <<>>)
    BY <1>4, <1>8 DEF InStep
<1>13. Wire(t, m, w, <<>>)
    BY <1>1, <1>5, <1>8, <1>11, <1>12 DEF Wire
<1>14. ComingOf(t.session, w) = Ordinary(q.session.queue)
    BY <1>4, <1>8, <1>11 DEF ComingOf, AheadOf
<1> QED BY <1>8, <1>11, <1>13, <1>14 DEF Settled, t, f

LEMMA ReportHolds ==
    ASSUME NEW p, NEW m, NEW w, NEW r, NEW outputs, NEW values, NEW allowed,
           Holds(p, m, w, r, outputs, values, allowed), r # <<>>
    PROVE  Holds(TakeReport(p, m, HandleDatapoint), m, w, <<>>, outputs, values, allowed)
<1>1. PICK c : /\ c.before = p /\ c.report = m
               /\ c.outputs = outputs /\ c.values = values /\ c.allowed = allowed
    <2> DEFINE given == [before |-> p, report |-> m, outputs |-> outputs, values |-> values,
                         allowed |-> allowed]
    <2>1. /\ given.before = p /\ given.report = m
          /\ given.outputs = outputs /\ given.values = values /\ given.allowed = allowed
        OBVIOUS
    <2> HIDE DEF given
    <2> QED BY <2>1
<1>2. /\ Wire(p, m, w, r) /\ Sound(p, m, ComingOf(p.session, w), values, allowed)
      /\ Lighted(p, m, ComingOf(p.session, w), outputs) /\ Waiting(p)
    BY DEF Holds
<1>3. PICK q : /\ Took(c, q, MaxDp)
               /\ TakeReport(p, m, HandleDatapoint)
                      = [q EXCEPT !.session = Settle(@, Outcome(p.session))]
    BY <1>1, <1>2, ReportTaken
<1> DEFINE t == TakeReport(p, m, HandleDatapoint)
<1>4. Settled(t, q, m, w)
    <2>1. /\ Wire(c.before, m, w, r) /\ c.report = m /\ TookOver(c, q, MaxDp)
          /\ t = [q EXCEPT !.session = Settle(@, Outcome(c.before.session))]
        BY <1>1, <1>2, <1>3 DEF Took
    <2> HIDE DEF t
    <2>2. Settled([q EXCEPT !.session = Settle(@, Outcome(c.before.session))], q, m, w)
        BY <2>1, ReportWire
    <2> QED BY <2>1, <2>2
<1>5. /\ Sound(q, m, Ordinary(q.session.queue), values, allowed)
      /\ Lighted(q, m, Ordinary(q.session.queue), outputs) /\ Waiting(q)
    BY <1>1, <1>3 DEF Took, Meant
<1> HIDE DEF t
<1>6. /\ Wire(t, m, w, <<>>) /\ t.table = q.table /\ t.queued = q.queued
      /\ t.session.pending = q.session.pending
      /\ ComingOf(t.session, w) = Ordinary(q.session.queue)
    BY <1>4 DEF Settled
<1>7. Sound(t, m, ComingOf(t.session, w), values, allowed)
    BY <1>5, <1>6 DEF Sound, SettingIsMeant
<1>8. Lighted(t, m, ComingOf(t.session, w), outputs)
    BY <1>5, <1>6 DEF Lighted
<1>9. Waiting(t)
    BY <1>5, <1>6 DEF Waiting, Confirmed, IsTrue, IsPending
<1> QED BY <1>6, <1>7, <1>8, <1>9 DEF Holds, t

----------------------------------------------------------------------------
(* The wire and the MCU *)

LEMMA TransmitHolds ==
    ASSUME NEW p, NEW m, NEW w, NEW r, NEW outputs, NEW values, NEW allowed,
           Holds(p, m, w, r, outputs, values, allowed),
           CanTransmit([p.session EXCEPT !.age = MaxAge], TRUE),
           NEW u, u = [Transmit([p.session EXCEPT !.age = MaxAge], TRUE) EXCEPT !.age = 0]
    PROVE  Holds([p EXCEPT !.session = u], m, Append(w, Head(p.session.queue)), r,
                 outputs, values, allowed)
<1> DEFINE s  == p.session
           q  == [p EXCEPT !.session = u]
           w1 == Append(w, Head(s.queue))
           coming == ComingOf(s, w)
<1>1. /\ Wire(p, m, w, r) /\ Sound(p, m, coming, values, allowed)
      /\ Lighted(p, m, coming, outputs) /\ Waiting(p)
    BY DEF Holds
<1>2. /\ p \in Programs /\ Linked(s, Requests) /\ Reconciles(s) /\ InStep(s, m, w, r)
    BY <1>1 DEF Wire
<1>3. /\ Linked(u, Requests) /\ Reconciles(u) /\ u.queue = s.queue /\ u.pending = s.pending
    BY <1>2, LinkedTransmit, RequestsAreDelivers
<1>4. InStep(u, m, w1, r) /\ ComingOf(u, w1) = coming
    BY <1>2, InStepTransmit, RequestsAreDelivers
<1>5. u \in Sessions
    BY <1>3 DEF Linked
<1>6. q \in Programs /\ q.session = u /\ q.table = p.table /\ q.queued = p.queued
    BY <1>2, <1>5 DEF Programs
<1> HIDE DEF q, w1, coming
<1>7. Wire(q, m, w1, r)
    BY <1>1, <1>3, <1>4, <1>6 DEF Wire
<1>8. Sound(q, m, coming, values, allowed)
    BY <1>1, <1>6 DEF Sound, SettingIsMeant
<1>9. Lighted(q, m, coming, outputs) /\ Waiting(q)
    BY <1>1, <1>3, <1>6 DEF Lighted, Waiting, Confirmed, IsTrue, IsPending
<1> QED BY <1>4, <1>6, <1>7, <1>8, <1>9 DEF Holds, q, w1, s

\* The MCU carries out what is on the wire: a setting only while its output is lit.
Carries(m, c) ==
    \A o \in Settable : c.writes[SettingOf[o]] # NoValue => AllowWhileOff \/ o \in Lit(m)

LEMMA ExecuteHolds ==
    ASSUME NEW p, NEW m, NEW w, NEW r, NEW outputs, NEW values, NEW allowed,
           Holds(p, m, w, r, outputs, values, allowed),
           w # <<>>, NEW after, after = Apply(m, Head(w).writes)
    PROVE  /\ Holds(p, after, Tail(w), Append(r, after), outputs, values, allowed)
           /\ Carries(m, Head(w))
<1> DEFINE s == p.session
           coming == ComingOf(s, w)
           rest   == ComingOf(s, Tail(w))
<1>1. /\ Wire(p, m, w, r) /\ Sound(p, m, coming, values, allowed)
      /\ Lighted(p, m, coming, outputs) /\ Waiting(p)
    BY DEF Holds
<1>2. /\ p \in Programs /\ m \in States /\ Linked(s, Requests) /\ Reconciles(s) /\ InStep(s, m, w, r)
    BY <1>1 DEF Wire
<1>3. coming \in Seq(Requests)
    BY <1>1, WireComing
<1>4. m \in [Dps -> Values]
    BY <1>2 DEF States
<1>5. /\ Head(w) = Head(s.queue) /\ Tail(w) = <<>> /\ s.queue # <<>>
      /\ Append(r, after) = <<after>>
      /\ InStep(s, after, <<>>, <<after>>)
      /\ \/ rest = coming /\ after = m /\ IsReadback(Head(s.queue))
         \/ /\ coming # <<>> /\ Head(coming) = Head(s.queue)
            /\ rest = Tail(coming)
            /\ after = Apply(m, Head(coming).writes)
    <2>1. Executed(s, m, after, w, r, Requests)
        <3> HIDE DEF s
        <3> QED BY <1>2, <1>4, InStepExecute, RequestsAreDelivers
    <2> QED BY <2>1 DEF Executed
<1> HIDE DEF coming, rest
<1>6. ASSUME after \in States, Sound(p, after, rest, values, allowed), Lighted(p, after, rest, outputs)
      PROVE  Holds(p, after, Tail(w), Append(r, after), outputs, values, allowed)
    <2>1. <<after>> # <<>>
        OBVIOUS
    <2>2. Wire(p, after, <<>>, <<after>>)
        BY <1>2, <1>5, <1>6, <2>1 DEF Wire
    <2> QED BY <1>1, <1>5, <1>6, <2>2 DEF Holds, rest
<1>7. CASE rest = coming /\ after = m /\ IsReadback(Head(s.queue))
    <2>1. Head(w).writes = Nothing
        BY <1>2, <1>5, <1>7, LinkedQueue, RequestsAreDelivers
    <2>2. Carries(m, Head(w))
        BY <2>1, Datapoints DEF Carries, Nothing
    <2> QED BY <1>1, <1>2, <1>6, <1>7, <2>2
<1>8. CASE /\ coming # <<>> /\ Head(coming) = Head(s.queue)
           /\ rest = Tail(coming)
           /\ after = Apply(m, Head(coming).writes)
    <2>1. Head(coming) = Head(w)
        BY <1>5, <1>8
    <2>2. CarriedOut(m, p.table, coming)
        BY <1>2, <1>3, <1>8, ComingOfTail
    <2>3. /\ after \in States
          /\ \A d \in Dps : Will(after, rest, d) = Will(m, coming, d)
          /\ Powered(m, coming) => Powered(after, rest) /\ Carries(m, Head(w))
          /\ NoneFlashes(m, coming, allowed) => NoneFlashes(after, rest, allowed)
          /\ \A d \in Dps : OneSetting(m, p.table, coming, d) => OneSetting(after, p.table, rest, d)
          /\ \A d \in Dps : NoSetting(coming, d) => NoSetting(rest, d) /\ after[d] = m[d]
        BY <1>8, <2>1, <2>2 DEF CarriedOut, Carries
    <2>4. ASSUME NEW o \in Settable PROVE SettingIsMeant(p, after, rest, values, o)
        <3>1. SettingIsMeant(p, m, coming, values, o) /\ SettingOf[o] \in Dps
            BY <1>1, Datapoints DEF Sound
        <3> QED BY <2>3, <3>1 DEF SettingIsMeant
    <2>5. Sound(p, after, rest, values, allowed)
        BY <1>1, <2>3, <2>4 DEF Sound
    <2>6. LitAtEnd(after, rest) = LitAtEnd(m, coming)
        BY <2>3, Datapoints DEF LitAtEnd
    <2>7. Lighted(p, after, rest, outputs)
        BY <1>1, <2>6 DEF Lighted
    <2>8. Carries(m, Head(w))
        BY <1>1, <2>3 DEF Sound
    <2> QED BY <1>6, <2>3, <2>5, <2>7, <2>8
<1> QED BY <1>5, <1>7, <1>8

\* With nothing left to be sent, carried out or reported no setting waits, and the
\* MCU has the one that is meant.
LEMMA NoneWaits ==
    ASSUME NEW p, NEW m, NEW outputs, NEW values, NEW allowed,
           Holds(p, m, <<>>, <<>>, outputs, values, allowed), p.session.queue = <<>>
    PROVE  \A o \in Settable : p.queued[o] = NoValue /\ m[SettingOf[o]] = values[o]
<1> SUFFICES ASSUME NEW o \in Settable PROVE p.queued[o] = NoValue /\ m[SettingOf[o]] = values[o]
    OBVIOUS
<1> DEFINE s == p.session
<1>1. Linked(s, Requests) /\ Reconciles(s) /\ p.table = m
    BY DEF Holds, Wire
<1>2. ~InFlight(s) /\ ~HasPending(s)
    BY <1>1 DEF Linked, SessionInv, HeadIsAwaited, Reconciles
<1>3. ComingOf(s, <<>>) = <<>>
    BY <1>2, NothingComes
<1>4. Sound(p, m, <<>>, values, allowed) /\ Lighted(p, m, <<>>, outputs) /\ Waiting(p)
    BY <1>3 DEF Holds
<1>5. o \in Outputs /\ o \in Dps /\ MASTER \in Dps
    BY Datapoints
<1>6. p.queued[o] = NoValue
    <2>1. ASSUME p.queued[o] # NoValue PROVE FALSE
        <3>1. o \in LitAtEnd(m, <<>>)
            BY <1>4, <2>1 DEF Lighted
        <3>2. o \in Lit(m)
            BY <3>1, ComingOfNone
        <3>3. Confirmed(p, o)
            BY <1>1, <1>2, <1>5, <3>2 DEF Lit, Confirmed, IsTrue, IsPending, HasPending
        <3> QED BY <1>4, <2>1, <3>3 DEF Waiting
    <2> QED BY <2>1
<1>7. values[o] = Will(m, <<>>, SettingOf[o])
    BY <1>4, <1>6 DEF Sound, SettingIsMeant
<1> QED BY <1>6, <1>7, WillOfNone

\* Someone changes the power at the appliance, while nothing is left to be sent.
LEMMA PressHolds ==
    ASSUME NEW p, NEW m, NEW outputs, NEW values, NEW allowed,
           Holds(p, m, <<>>, <<>>, outputs, values, allowed), p.session.queue = <<>>,
           NEW now \in States, \A d \in Dps \ PowerDps : now[d] = m[d]
    PROVE  Holds(p, now, <<>>, <<now>>, Lit(now), values, Lit(now))
<1> DEFINE s == p.session
<1>1. Wire(p, m, <<>>, <<>>) /\ values \in [Settable -> Values]
    BY DEF Holds, Sound
<1>2. p \in Programs /\ Linked(s, Requests) /\ Reconciles(s)
    BY <1>1 DEF Wire
<1>3. ~InFlight(s)
    BY <1>2 DEF Linked, SessionInv, HeadIsAwaited
<1>4. ComingOf(s, <<>>) = <<>>
    BY <1>3, NothingComes
<1>5. <<now>> # <<>>
    OBVIOUS
<1>6. Wire(p, now, <<>>, <<now>>)
    BY <1>2, <1>3, <1>5 DEF Wire, InStep
<1>7. \A o \in Settable : p.queued[o] = NoValue /\ m[SettingOf[o]] = values[o]
    BY NoneWaits
<1>8. ASSUME NEW o \in Settable PROVE SettingIsMeant(p, now, <<>>, values, o)
    <2>1. now[SettingOf[o]] = m[SettingOf[o]]
        BY Datapoints
    <2>2. Will(now, <<>>, SettingOf[o]) = now[SettingOf[o]]
        BY WillOfNone
    <2>3. OneSetting(now, p.table, <<>>, SettingOf[o])
        BY ComingOfNone
    <2> QED BY <1>7, <2>1, <2>2, <2>3 DEF SettingIsMeant
<1>9. Powered(now, <<>>) /\ NoneFlashes(now, <<>>, Lit(now)) /\ LitAtEnd(now, <<>>) = Lit(now)
    BY ComingOfNone
<1>10. Sound(p, now, <<>>, values, Lit(now))
    BY <1>1, <1>8, <1>9 DEF Sound
<1>11. Lighted(p, now, <<>>, Lit(now)) /\ Waiting(p)
    BY <1>7, <1>9 DEF Lighted, Waiting
<1> QED BY <1>4, <1>6, <1>10, <1>11 DEF Holds

----------------------------------------------------------------------------
(* The steps of the system *)

LEMMA InitHolds == Init => Inv
<1> SUFFICES ASSUME Init PROVE Inv
    OBVIOUS
<1> DEFINE s == [InitSession EXCEPT !.initState = "INIT_DONE"]
<1>1. Linked(s, Requests) /\ Reconciles(s) /\ Idle(s) /\ s \in Sessions
    BY LinkedIdle DEF Linked
<1>2. /\ program = [session |-> s, table |-> mcu, queued |-> [o \in Settable |-> NoValue]]
      /\ mcu \in States /\ toMcu = <<>> /\ reports = <<>>
      /\ wanted = Lit(mcu) /\ asked = Lit(mcu)
      /\ chosen = [o \in Settable |-> mcu[SettingOf[o]]]
    BY DEF Init
<1> HIDE DEF s
<1>3. /\ program \in Programs /\ program.session = s /\ program.table = mcu
      /\ \A o \in Settable : program.queued[o] = NoValue
    BY <1>1, <1>2 DEF Programs
<1>4. ComingOf(s, toMcu) = <<>>
    BY <1>1, NothingComes DEF Idle
<1>5. Wire(program, mcu, toMcu, reports)
    BY <1>1, <1>2, <1>3 DEF Wire, InStep, Idle
<1>6. \A o \in Settable : SettingOf[o] \in Dps
    BY Datapoints
<1>7. chosen \in [Settable -> Values]
    BY <1>2, <1>6 DEF States
<1>8. ASSUME NEW o \in Settable PROVE SettingIsMeant(program, mcu, <<>>, chosen, o)
    <2>1. Will(mcu, <<>>, SettingOf[o]) = mcu[SettingOf[o]]
        BY WillOfNone
    <2>2. OneSetting(mcu, program.table, <<>>, SettingOf[o])
        BY ComingOfNone
    <2> QED BY <1>2, <1>3, <2>1, <2>2 DEF SettingIsMeant
<1>9. Powered(mcu, <<>>) /\ NoneFlashes(mcu, <<>>, asked) /\ LitAtEnd(mcu, <<>>) = wanted
    BY <1>2, ComingOfNone
<1>10. Sound(program, mcu, <<>>, chosen, asked)
    BY <1>7, <1>8, <1>9 DEF Sound
<1>11. Lighted(program, mcu, <<>>, wanted) /\ Waiting(program)
    BY <1>3, <1>9 DEF Lighted, Waiting
<1> QED BY <1>3, <1>4, <1>5, <1>10, <1>11 DEF Inv, Holds

LEMMA TransmitsHolds == ASSUME Inv, Transmits PROVE Inv'
<1> DEFINE u == [Transmit([program.session EXCEPT !.age = MaxAge], TRUE) EXCEPT !.age = 0]
<1>1. /\ CanTransmit([program.session EXCEPT !.age = MaxAge], TRUE)
      /\ program' = [program EXCEPT !.session = u]
      /\ mcu' = mcu /\ reports' = reports
      /\ wanted' = wanted /\ chosen' = chosen /\ asked' = asked
    BY DEF Transmits, Transmission, history
<1>2. toMcu' = Append(toMcu, Head(program.session.queue))
    <2>1. program \in Programs /\ program.session \in Sessions
        BY DEF Inv, Holds, Wire, Programs
    <2>2. [program.session EXCEPT !.age = MaxAge].queue = program.session.queue
        BY <2>1 DEF Sessions
    <2> QED BY <2>2 DEF Transmits, Transmission
<1> HIDE DEF u
<1>3. Holds([program EXCEPT !.session = u], mcu, Append(toMcu, Head(program.session.queue)),
            reports, wanted, chosen, asked)
    BY <1>1, TransmitHolds DEF Inv, u
<1> QED BY <1>1, <1>2, <1>3 DEF Inv

LEMMA ReceivesHolds == ASSUME Inv, Receives PROVE Inv'
<1>1. /\ reports # <<>> /\ program' = TakeReport(program, Head(reports), HandleDatapoint)
      /\ reports' = Tail(reports) /\ mcu' = mcu /\ toMcu' = toMcu
      /\ wanted' = wanted /\ chosen' = chosen /\ asked' = asked
    BY DEF Receives, history
<1>2. reports = <<mcu>>
    BY <1>1 DEF Inv, Holds, Wire
<1>3. Head(reports) = mcu /\ Tail(reports) = <<>>
    BY <1>2
<1>4. Holds(TakeReport(program, mcu, HandleDatapoint), mcu, toMcu, <<>>, wanted, chosen, asked)
    BY <1>1, ReportHolds DEF Inv
<1> QED BY <1>1, <1>3, <1>4 DEF Inv

LEMMA PressedHolds == ASSUME Inv, Press PROVE Inv'
<1>1. PICK power \in [PowerDps -> {0, 1}] :
          mcu' = [d \in Dps |-> IF d \in PowerDps THEN power[d] ELSE mcu[d]]
    BY DEF Press
<1>2. /\ program.session.queue = <<>> /\ toMcu = <<>> /\ reports = <<>>
      /\ reports' = <<mcu'>> /\ program' = program /\ toMcu' = toMcu
      /\ wanted' = Lit(mcu') /\ asked' = Lit(mcu') /\ chosen' = chosen
    BY DEF Press, Quiet, Lit
<1>3. mcu \in States
    BY DEF Inv, Holds, Wire
<1>4. \A d \in Dps : mcu'[d] = IF d \in PowerDps THEN power[d] ELSE mcu[d]
    BY <1>1
<1>5. mcu' \in States /\ \A d \in Dps \ PowerDps : mcu'[d] = mcu[d]
    <2>1. \A d \in Dps : mcu'[d] \in Values
        BY <1>3, <1>4, Datapoints DEF States
    <2>2. mcu' \in [Dps -> Values]
        BY <1>1, <2>1
    <2> QED BY <1>4, <2>2, Datapoints DEF States
<1>6. Holds(program, mcu, <<>>, <<>>, wanted, chosen, asked)
    BY <1>2 DEF Inv
<1>7. Holds(program, mcu', <<>>, <<mcu'>>, Lit(mcu'), chosen, Lit(mcu'))
    BY <1>2, <1>5, <1>6, PressHolds
<1> QED BY <1>2, <1>7 DEF Inv

\* Every step keeps the invariant.
LEMMA StepHolds ==
    ASSUME ~AmidReadback, ~OffWhenDark
    PROVE  Inv /\ [Next]_vars => Inv'
<1> SUFFICES ASSUME Inv, [Next]_vars PROVE Inv'
    OBVIOUS
<1>1. CASE Transmits
    BY <1>1, TransmitsHolds
<1>2. CASE Executes
    <2>1. /\ toMcu # <<>> /\ mcu' = Apply(mcu, Head(toMcu).writes) /\ toMcu' = Tail(toMcu)
          /\ reports' = Append(reports, mcu') /\ program' = program
          /\ wanted' = wanted /\ chosen' = chosen /\ asked' = asked
        BY <1>2 DEF Executes, Execution, history
    <2>2. Holds(program, mcu', Tail(toMcu), Append(reports, mcu'), wanted, chosen, asked)
        BY <2>1, ExecuteHolds DEF Inv
    <2> QED BY <2>1, <2>2 DEF Inv
<1>3. CASE Receives
    BY <1>3, ReceivesHolds
<1>4. ASSUME NEW o \in Outputs, TurnOff(o) PROVE Inv'
    BY <1>4, TurnOffHolds
<1>5. ASSUME NEW o \in Outputs, NEW v \in (IF o \in Settable THEN Values ELSE {}) \cup {NoValue},
             TurnOn(o, v)
      PROVE  Inv'
    BY <1>5, TurnOnHolds
<1>6. ASSUME NEW o \in Settable, NEW v \in Values, ChangeSetting(o, v) PROVE Inv'
    BY <1>6, ChangeHolds
<1>7. CASE Press
    BY <1>7, PressedHolds
<1>8. CASE UNCHANGED vars
    BY <1>8 DEF vars, history, Inv
<1> QED BY <1>1, <1>2, <1>3, <1>4, <1>5, <1>6, <1>7, <1>8 DEF Next
----------------------------------------------------------------------------
(* The theorems. They are about controls that are given while the targets read are
   what will be sent, and that turn off what is lit: the others do go wrong. *)

\* In every reachable state program, wire and MCU satisfy Inv.
THEOREM InvHolds ==
    ASSUME ~AmidReadback, ~OffWhenDark
    PROVE  Spec => []Inv
<1>1. Init => Inv
    BY InitHolds
<1>2. Inv /\ [Next]_vars => Inv'
    BY StepHolds
<1> QED BY <1>1, <1>2, PTL DEF Spec

\* Once everything commanded is done exactly those outputs are lit that were last asked
\* for, whatever the master, the others and the commands under way (request_feature_state_).
THEOREM OutputsAreLitAsAsked ==
    ASSUME ~AmidReadback, ~OffWhenDark
    PROVE  Spec => []RequestsPrevail
<1>1. Inv => RequestsPrevail
    <2> SUFFICES ASSUME Inv PROVE RequestsPrevail
        OBVIOUS
    <2>1. LitAtEnd(mcu, ComingOf(program.session, toMcu)) = wanted
        BY DEF Inv, Holds, Lighted
    <2>2. \A d \in PowerDps : Commanded[d] = Will(mcu, ComingOf(program.session, toMcu), d)
        BY CommandedIsWill, Datapoints
    <2>3. Lit(Commanded) = LitAtEnd(mcu, ComingOf(program.session, toMcu))
        BY <2>2, Datapoints DEF Lit, LitAtEnd
    <2> QED BY <2>1, <2>3 DEF RequestsPrevail
<1>2. Spec => []Inv
    BY InvHolds
<1> QED BY <1>1, <1>2, PTL

\* On the way no output is lit, not for a moment, that was neither lit nor asked for
\* (request_feature_state_ turns the others off before the master on).
THEOREM NoOutputFlashes ==
    ASSUME ~AmidReadback, ~OffWhenDark
    PROVE  Spec => []NoFlash
<1>1. Inv => NoFlash
    <2> SUFFICES ASSUME Inv PROVE NoFlash
        OBVIOUS
    <2> DEFINE coming == ComingOf(program.session, toMcu)
    <2>1. NoneFlashes(mcu, coming, asked) /\ coming \in Seq(Requests)
        BY WireComing DEF Inv, Holds, Sound
    <2> HIDE DEF coming
    <2>2. 0 \in 0..Len(coming)
        BY <2>1, LenProperties
    <2>3. \A d : Becomes(mcu, coming, 0, d) = mcu[d]
        BY BecomesLast DEF Unwritten
    <2>4. LitAfter(mcu, coming, 0) = Lit(mcu)
        BY <2>3 DEF LitAfter, Lit
    <2> QED BY <2>1, <2>2, <2>4 DEF NoneFlashes, NoFlash
<1>2. Spec => []Inv
    BY InvHolds
<1> QED BY <1>1, <1>2, PTL

\* With nothing left to do no setting waits for power, and each output has the one it
\* was last given (flush_fan_settings_, flush_main_light_settings_).
THEOREM SettingsAreReached ==
    ASSUME ~AmidReadback, ~OffWhenDark
    PROVE  Spec => []SettingsPrevail
<1>1. Inv => SettingsPrevail
    <2> SUFFICES ASSUME Inv, Quiet
                 PROVE  \A o \in Settable : program.queued[o] = NoValue /\ mcu[SettingOf[o]] = chosen[o]
        BY DEF SettingsPrevail
    <2>1. program.session.queue = <<>> /\ toMcu = <<>> /\ reports = <<>>
        BY DEF Quiet
    <2>2. Holds(program, mcu, <<>>, <<>>, wanted, chosen, asked)
        BY <2>1 DEF Inv
    <2> QED BY <2>1, <2>2, NoneWaits
<1>2. Spec => []Inv
    BY InvHolds
<1> QED BY <1>1, <1>2, PTL

\* A setting is carried out by the MCU only while its output is lit, unless the user
\* has allowed others (setting_allowed_, flush_fan_settings_).
THEOREM SettingsFindPower ==
    ASSUME ~AmidReadback, ~OffWhenDark, ~AllowWhileOff
    PROVE  Spec => SettingNeedsPower
<1> DEFINE Lights == \A o \in Settable :
              toMcu # <<>> /\ toMcu' = Tail(toMcu) /\ Head(toMcu).writes[SettingOf[o]] # NoValue
                => o \in Lit(mcu)
<1>1. Inv /\ [Next]_vars => [Lights]_vars
    <2> SUFFICES ASSUME Inv, toMcu # <<>>, NEW o \in Settable,
                        Head(toMcu).writes[SettingOf[o]] # NoValue
                 PROVE  o \in Lit(mcu)
        OBVIOUS
    <2>1. PICK after : after = Apply(mcu, Head(toMcu).writes)
        OBVIOUS
    <2>2. Carries(mcu, Head(toMcu))
        BY <2>1, ExecuteHolds DEF Inv
    <2> QED BY <2>2 DEF Carries
<1>2. Spec => []Inv
    BY InvHolds
<1> QED BY <1>1, <1>2, PTL DEF Spec, SettingNeedsPower
=============================================================================
