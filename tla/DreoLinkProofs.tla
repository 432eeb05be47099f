--------------------------- MODULE DreoLinkProofs ---------------------------
(***************************************************************************)
(* What the clients' proofs need of DreoLink: what a datapoint becomes     *)
(* when commands are sent and carried out, and that the hub, the wire and  *)
(* the MCU go in step. At most one command or its report is on the wire:   *)
(* the table is what the MCU had before it, the report what it has now.    *)
(***************************************************************************)
EXTENDS DreoLink, DreoSessionProofs, WellFoundedInduction

(* What datapoints become *)

\* A set of positions has a last one.
LEMMA LastPosition ==
    ASSUME NEW n \in Nat, NEW S \in SUBSET (1..n), S # {}
    PROVE  Max(S) \in S /\ \A i \in S : i <= Max(S)
<1> DEFINE T == {n - i : i \in S}
<1>1. IsWellFoundedOn(OpToRel(<, Nat), Nat)
    BY NatLessThanWellFounded
<1>2. T \subseteq Nat /\ T # {}
    <2>1. ASSUME NEW i \in S PROVE n - i \in Nat
        OBVIOUS
    <2>2. PICK i \in S : TRUE
        OBVIOUS
    <2>3. n - i \in T
        BY <2>2
    <2> QED BY <2>1, <2>3
<1> HIDE DEF T
<1>3. PICK x \in T : \A y \in T : ~(<<y, x>> \in OpToRel(<, Nat))
    BY <1>1, <1>2, WFMin
<1>4. PICK m \in S : x = n - m
    BY <1>3 DEF T
<1>5. ASSUME NEW i \in S PROVE m >= i
    <2>1. n - i \in T /\ n - i \in Nat /\ x \in Nat
        BY <1>2, <1>4 DEF T
    <2>2. ~(n - i < x)
        BY <1>3, <2>1 DEF OpToRel
    <2> QED BY <1>4, <2>2
<1>6. \E k \in S : \A i \in S : k >= i
    BY <1>5
<1> QED BY <1>6 DEF Max

Unwritten(commands, n, d) == \A i \in 1..n : commands[i].writes[d] = NoValue

LastWrite(commands, n, d, i) ==
    /\ i \in 1..n
    /\ commands[i].writes[d] # NoValue
    /\ \A j \in 1..n : commands[j].writes[d] # NoValue => j <= i

\* A datapoint becomes what the last command that writes it writes, if there is one.
LEMMA BecomesLast ==
    ASSUME NEW n \in Nat, NEW state, NEW commands, NEW d
    PROVE  /\ Unwritten(commands, n, d) => Becomes(state, commands, n, d) = state[d]
           /\ \A i : LastWrite(commands, n, d, i) =>
                        Becomes(state, commands, n, d) = commands[i].writes[d]
           /\ Unwritten(commands, n, d) \/ \E i : LastWrite(commands, n, d, i)
<1> DEFINE writing == {i \in 1..n : commands[i].writes[d] # NoValue}
<1>1. Unwritten(commands, n, d) <=> writing = {}
    BY DEF Unwritten
<1>2. writing \in SUBSET (1..n)
    OBVIOUS
<1>3. ASSUME writing # {} PROVE LastWrite(commands, n, d, Max(writing))
    <2>1. Max(writing) \in writing /\ \A i \in writing : i <= Max(writing)
        BY <1>2, <1>3, LastPosition
    <2> QED BY <2>1 DEF LastWrite
<1>4. ASSUME NEW i, LastWrite(commands, n, d, i) PROVE i = Max(writing) /\ writing # {}
    <2>1. i \in writing /\ \A j \in writing : j <= i
        BY <1>4 DEF LastWrite
    <2>2. Max(writing) \in writing /\ i <= Max(writing)
        BY <1>2, <2>1, LastPosition
    <2> QED BY <2>1, <2>2
<1> QED BY <1>1, <1>3, <1>4 DEF Becomes

\* It depends on what the commands write of it, and on nothing else.
LEMMA BecomesSame ==
    ASSUME NEW n \in Nat, NEW state, NEW commands, NEW others, NEW d,
           \A i \in 1..n : others[i].writes[d] = commands[i].writes[d]
    PROVE  Becomes(state, others, n, d) = Becomes(state, commands, n, d)
<1>1. CASE Unwritten(commands, n, d)
    <2>1. Unwritten(others, n, d)
        BY <1>1 DEF Unwritten
    <2> QED BY <1>1, <2>1, BecomesLast
<1>2. ASSUME NEW i, LastWrite(commands, n, d, i)
      PROVE  Becomes(state, others, n, d) = Becomes(state, commands, n, d)
    <2>1. LastWrite(others, n, d, i) /\ others[i].writes[d] = commands[i].writes[d]
        BY <1>2 DEF LastWrite
    <2> QED BY <1>2, <2>1, BecomesLast
<1> QED BY <1>1, <1>2, BecomesLast

\* One more command.
LEMMA BecomesNext ==
    ASSUME NEW n \in Nat, NEW state, NEW commands, NEW d
    PROVE  Becomes(state, commands, n + 1, d) =
               IF commands[n + 1].writes[d] # NoValue THEN commands[n + 1].writes[d]
               ELSE Becomes(state, commands, n, d)
<1>0. n + 1 \in Nat
    OBVIOUS
<1>1. CASE commands[n + 1].writes[d] # NoValue
    <2>1. LastWrite(commands, n + 1, d, n + 1)
        BY <1>1 DEF LastWrite
    <2> QED BY <1>0, <1>1, <2>1, BecomesLast
<1>2. CASE commands[n + 1].writes[d] = NoValue /\ Unwritten(commands, n, d)
    <2>1. Unwritten(commands, n + 1, d)
        BY <1>2 DEF Unwritten
    <2> QED BY <1>0, <1>2, <2>1, BecomesLast
<1>3. ASSUME commands[n + 1].writes[d] = NoValue, NEW i, LastWrite(commands, n, d, i)
      PROVE  Becomes(state, commands, n + 1, d) = Becomes(state, commands, n, d)
    <2>1. LastWrite(commands, n + 1, d, i)
        BY <1>3 DEF LastWrite
    <2> QED BY <1>0, <1>3, <2>1, BecomesLast
<1> QED BY <1>1, <1>2, <1>3, BecomesLast

\* One command is left out that does not write it.
Without(commands, others, n, k, d) ==
    /\ commands[k].writes[d] = NoValue
    /\ \A i \in 1..n : i < k => others[i].writes[d] = commands[i].writes[d]
    /\ \A i \in 1..n : ~(i < k) => others[i].writes[d] = commands[i + 1].writes[d]

LEMMA BecomesWithout ==
    ASSUME NEW n \in Nat, NEW k \in Nat \ {0}, NEW state, NEW commands, NEW others, NEW d,
           Without(commands, others, n, k, d)
    PROVE  /\ n < k => Becomes(state, others, n, d) = Becomes(state, commands, n, d)
           /\ ~(n < k) => Becomes(state, others, n, d) = Becomes(state, commands, n + 1, d)
<1> DEFINE m == IF n < k THEN n ELSE n + 1
<1>0. m \in Nat
    OBVIOUS
<1>1. /\ commands[k].writes[d] = NoValue
      /\ \A i \in 1..n : i < k => others[i].writes[d] = commands[i].writes[d]
      /\ \A i \in 1..n : ~(i < k) => others[i].writes[d] = commands[i + 1].writes[d]
    BY DEF Without
<1>2. CASE Unwritten(others, n, d)
    <2>1. ASSUME NEW j \in 1..m PROVE commands[j].writes[d] = NoValue
        <3>1. CASE j < k
            <4>1. j \in 1..n
                BY <3>1
            <4> QED BY <1>2, <1>1, <3>1, <4>1 DEF Unwritten
        <3>2. CASE j > k
            <4>1. m = n + 1 /\ j \in 1..(n + 1) /\ j \in Int
                BY <3>2
            <4>2. PICK i \in 1..n : ~(i < k) /\ i + 1 = j
                <5>1. j - 1 \in 1..n
                    BY <3>2, <4>1
                <5> WITNESS j - 1 \in 1..n
                <5> QED BY <3>2, <4>1
            <4>3. others[i].writes[d] = commands[j].writes[d]
                BY <1>1, <4>2
            <4> QED BY <1>2, <4>2, <4>3 DEF Unwritten
        <3>3. CASE j = k
            BY <1>1, <3>3
        <3>4. j \in Int
            OBVIOUS
        <3> HIDE DEF m
        <3> QED BY <3>1, <3>2, <3>3, <3>4
    <2>2. Unwritten(commands, m, d)
        BY <2>1 DEF Unwritten
    <2> HIDE DEF m
    <2>3. Becomes(state, others, n, d) = Becomes(state, commands, m, d)
        BY <1>0, <1>2, <2>2, BecomesLast
    <2> QED BY <2>3 DEF m
<1>3. ASSUME NEW i, LastWrite(others, n, d, i)
      PROVE  Becomes(state, others, n, d) = Becomes(state, commands, m, d)
    <2> DEFINE l == IF i < k THEN i ELSE i + 1
    <2>1. i \in 1..n /\ l \in 1..m /\ commands[l].writes[d] = others[i].writes[d]
        BY <1>3, <1>1 DEF LastWrite
    <2>2. ASSUME NEW j \in 1..m, commands[j].writes[d] # NoValue PROVE j <= l
        <3>1. CASE j < k
            <4>1. j \in 1..n /\ others[j].writes[d] # NoValue
                BY <1>1, <2>2, <3>1
            <4> QED BY <1>3, <2>1, <4>1 DEF LastWrite
        <3>2. CASE j > k
            <4>0. m = n + 1 /\ j \in 1..(n + 1) /\ j \in Int
                BY <3>2
            <4>1. PICK h \in 1..n : ~(h < k) /\ h + 1 = j
                <5>1. j - 1 \in 1..n
                    BY <3>2, <4>0
                <5> WITNESS j - 1 \in 1..n
                <5> QED BY <3>2, <4>0
            <4>2. others[h].writes[d] = commands[j].writes[d]
                BY <1>1, <4>1
            <4>3. h <= i
                BY <1>3, <2>2, <4>1, <4>2 DEF LastWrite
            <4> QED BY <2>1, <3>2, <4>1, <4>3
        <3>3. CASE j = k
            BY <1>1, <2>2, <3>3
        <3>4. j \in Int
            OBVIOUS
        <3> HIDE DEF m
        <3> QED BY <3>1, <3>2, <3>3, <3>4
    <2>3. LastWrite(commands, m, d, l)
        BY <1>3, <2>1, <2>2 DEF LastWrite
    <2> HIDE DEF m, l
    <2> QED BY <1>0, <1>3, <2>1, <2>3, BecomesLast
<1>4. Becomes(state, others, n, d) = Becomes(state, commands, m, d)
    BY <1>2, <1>3, BecomesLast
<1> QED BY <1>4

\* The first command is carried out.
LEMMA BecomesRest ==
    ASSUME NEW n \in Nat, NEW state, NEW commands, NEW others, NEW d \in Dps,
           \A i \in 1..n : others[i].writes[d] = commands[i + 1].writes[d]
    PROVE  Becomes(Apply(state, commands[1].writes), others, n, d)
               = Becomes(state, commands, n + 1, d)
<1> DEFINE after == Apply(state, commands[1].writes)
<1>0. n + 1 \in Nat
    OBVIOUS
<1>1. after[d] = IF commands[1].writes[d] # NoValue THEN commands[1].writes[d] ELSE state[d]
    BY DEF Apply
<1> HIDE DEF after
<1>2. CASE Unwritten(others, n, d)
    <2>1. ASSUME NEW j \in 1..(n + 1), j # 1 PROVE commands[j].writes[d] = NoValue
        <3>1. j - 1 \in 1..n /\ (j - 1) + 1 = j
            BY <2>1
        <3> QED BY <1>2, <3>1 DEF Unwritten
    <2>2. CASE commands[1].writes[d] = NoValue
        <3>1. Unwritten(commands, n + 1, d)
            BY <2>1, <2>2 DEF Unwritten
        <3> QED BY <1>0, <1>1, <1>2, <2>2, <3>1, BecomesLast DEF after
    <2>3. CASE commands[1].writes[d] # NoValue
        <3>1. LastWrite(commands, n + 1, d, 1)
            BY <2>1, <2>3 DEF LastWrite
        <3> QED BY <1>0, <1>1, <1>2, <2>3, <3>1, BecomesLast DEF after
    <2> QED BY <2>2, <2>3
<1>3. ASSUME NEW i, LastWrite(others, n, d, i)
      PROVE  Becomes(after, others, n, d) = Becomes(state, commands, n + 1, d)
    <2>1. i \in 1..n /\ i + 1 \in 1..(n + 1) /\ commands[i + 1].writes[d] = others[i].writes[d]
        BY <1>3 DEF LastWrite
    <2>2. ASSUME NEW j \in 1..(n + 1), commands[j].writes[d] # NoValue PROVE j <= i + 1
        <3>1. CASE j = 1
            BY <2>1, <3>1
        <3>2. CASE j # 1
            <4>1. j - 1 \in 1..n /\ (j - 1) + 1 = j
                BY <3>2
            <4>2. j - 1 <= i
                BY <1>3, <2>2, <4>1 DEF LastWrite
            <4> QED BY <2>1, <4>2
        <3> QED BY <3>1, <3>2
    <2>3. LastWrite(commands, n + 1, d, i + 1)
        BY <1>3, <2>1, <2>2 DEF LastWrite
    <2> QED BY <1>0, <1>3, <2>1, <2>3, BecomesLast
<1> QED BY <1>2, <1>3, BecomesLast DEF after

\* What a datapoint becomes by all of some commands.
Will(state, commands, d) == Becomes(state, commands, Len(commands), d)

\* By none.
LEMMA WillOfNone ==
    ASSUME NEW state, NEW d
    PROVE  Will(state, <<>>, d) = state[d]
<1>1. Len(<<>>) = 0 /\ Unwritten(<<>>, 0, d)
    BY EmptySeq DEF Unwritten
<1> QED BY <1>1, BecomesLast DEF Will

\* By one more, and as before by those ahead of it.
Agree(state, longer, commands, d) ==
    \A n \in 0..Len(commands) : Becomes(state, longer, n, d) = Becomes(state, commands, n, d)

LEMMA WillOfAppend ==
    ASSUME NEW S, NEW commands \in Seq(S), NEW c \in S, NEW state, NEW d
    PROVE  /\ Will(state, Append(commands, c), d) =
                  IF c.writes[d] # NoValue THEN c.writes[d] ELSE Will(state, commands, d)
           /\ Agree(state, Append(commands, c), commands, d)
<1> DEFINE longer == Append(commands, c)
<1>1. /\ longer \in Seq(S) /\ Len(longer) = Len(commands) + 1 /\ Len(commands) \in Nat
      /\ longer[Len(commands) + 1] = c
      /\ \A i \in 1..Len(commands) : longer[i] = commands[i]
    BY AppendProperties, LenProperties
<1> HIDE DEF longer
<1>2. ASSUME NEW n \in 0..Len(commands)
      PROVE  Becomes(state, longer, n, d) = Becomes(state, commands, n, d)
    <2>1. n \in Nat /\ \A i \in 1..n : longer[i].writes[d] = commands[i].writes[d]
        BY <1>1
    <2> QED BY <2>1, BecomesSame
<1>3. Len(commands) \in 0..Len(commands)
    BY <1>1
<1>4. Becomes(state, longer, Len(commands), d) = Becomes(state, commands, Len(commands), d)
    BY <1>2, <1>3
<1>5. Becomes(state, longer, Len(commands) + 1, d) =
          IF c.writes[d] # NoValue THEN c.writes[d] ELSE Becomes(state, longer, Len(commands), d)
    <2>1. PICK n \in Nat : n = Len(commands)
        BY <1>1
    <2>2. Becomes(state, longer, n + 1, d) =
              IF longer[n + 1].writes[d] # NoValue THEN longer[n + 1].writes[d]
              ELSE Becomes(state, longer, n, d)
        BY BecomesNext
    <2>3. longer[n + 1] = c
        BY <1>1, <2>1
    <2> QED BY <2>1, <2>2, <2>3
<1> QED BY <1>1, <1>2, <1>4, <1>5 DEF Will, Agree, longer

\* By those left once the first is carried out.
Follow(after, rest, state, commands, d) ==
    \A n \in 0..Len(rest) : Becomes(after, rest, n, d) = Becomes(state, commands, n + 1, d)

LEMMA WillOfTail ==
    ASSUME NEW S, NEW commands \in Seq(S), commands # <<>>, NEW state, NEW d \in Dps
    PROVE  LET after == Apply(state, Head(commands).writes)
           IN  /\ Will(after, Tail(commands), d) = Will(state, commands, d)
               /\ Follow(after, Tail(commands), state, commands, d)
<1> DEFINE rest == Tail(commands)
<1>1. /\ rest \in Seq(S) /\ Len(rest) = Len(commands) - 1 /\ Len(commands) \in Nat \ {0}
      /\ \A i \in 1..Len(rest) : rest[i] = commands[i + 1]
      /\ Head(commands) = commands[1]
    BY HeadTailProperties, EmptySeq
<1> HIDE DEF rest
<1>2. ASSUME NEW n \in 0..Len(rest)
      PROVE  Becomes(Apply(state, Head(commands).writes), rest, n, d) = Becomes(state, commands, n + 1, d)
    <2>1. n \in Nat /\ \A i \in 1..n : rest[i].writes[d] = commands[i + 1].writes[d]
        BY <1>1
    <2>2. Becomes(Apply(state, commands[1].writes), rest, n, d) = Becomes(state, commands, n + 1, d)
        BY <2>1, BecomesRest
    <2> QED BY <1>1, <2>2
<1>3. Len(rest) \in 0..Len(rest) /\ Len(rest) + 1 = Len(commands)
    BY <1>1
<1> QED BY <1>2, <1>3 DEF Will, Follow, rest

----------------------------------------------------------------------------
(* The session of a program whose commands are those of R *)

Delivers == {Deliver(batch) : batch \in Batches}

\* Only commands of R and readbacks are queued, and only transitions are pending.
Linked(s, R) ==
    /\ s \in Sessions
    /\ SessionInv(s)
    /\ Ordinary(s.queue) \in Seq(R)
    /\ \A d \in Dps : s.pending[d] # NoValue => d \in Transition

\* A reconciliation has a readback queued, and nothing is pending that is neither
\* to be sent nor to be read back.
Reconciles(s) ==
    /\ s.route = "TRANSITION" => HasReadback(s)
    /\ HasPending(s) => s.queue # <<>>

\* Commands that are served in order are of R still.
LEMMA LinkedQueue ==
    ASSUME NEW R, R \subseteq Delivers, NEW s, Linked(s, R), s.queue # <<>>
    PROVE  /\ Head(s.queue) \in Commands
           /\ IsReadback(Head(s.queue)) \/ Head(s.queue) \in R
           /\ IsReadback(Head(s.queue)) => Head(s.queue).writes = Nothing
           /\ InFlight(s) => s.expected = "DATAPOINT_REPORT"
           /\ InFlight(s) => /\ Outcome(s).completes
                             /\ Outcome(s).delivered <=> ~IsReadback(Head(s.queue))
                             /\ Outcome(s).authoritative <=> IsReadback(Head(s.queue))
           /\ Ordinary(Tail(s.queue)) \in Seq(R)
           /\ Tail(s.queue) \in Seq(Commands) /\ Placed(Tail(s.queue))
<1> DEFINE h == Head(s.queue)
<1>1. s.queue \in Seq(Commands) /\ Placed(s.queue)
    BY SessionQueue DEF Linked
<1>2. h \in Commands
    BY <1>1, HeadTailProperties DEF Linked
<1>3. ASSUME ~IsReadback(h) PROVE h \in R /\ Ordinary(Tail(s.queue)) \in Seq(R)
    <2>1. /\ Ordinary(s.queue) # <<>> /\ Head(Ordinary(s.queue)) = h
          /\ Ordinary(Tail(s.queue)) = Tail(Ordinary(s.queue))
        BY <1>1, <1>3, OrdinaryOfTail DEF Linked
    <2> QED BY <2>1, HeadTailProperties DEF Linked
<1>4. IsReadback(h) => Ordinary(Tail(s.queue)) \in Seq(R)
    BY <1>1, OrdinaryOfTail DEF Linked
<1>5. IsReadback(h) => h.cmd = "DATAPOINT_QUERY" /\ h.writes = Nothing
    BY <1>2 DEF Commands, IsReadback
<1>6. h \in R => h.cmd = "DATAPOINT_DELIVER"
    BY DEF Delivers, Deliver
<1>7. InFlight(s) => s.expected = "DATAPOINT_REPORT"
    BY <1>3, <1>5, <1>6 DEF Linked, SessionInv, HeadIsAwaited, ResponseOf
<1>8. InFlight(s) => /\ Outcome(s).completes
                     /\ Outcome(s).delivered <=> ~IsReadback(h)
                     /\ Outcome(s).authoritative <=> IsReadback(h)
    BY <1>3, <1>5, <1>6, <1>7 DEF Outcome
<1>9. Tail(s.queue) \in Seq(Commands) /\ Placed(Tail(s.queue))
    BY <1>1, TailOfQueue
<1> QED BY <1>2, <1>3, <1>4, <1>5, <1>7, <1>8, <1>9

\* A session whose handshake is done, with nothing to send.
Idle(s) == s.queue = <<>> /\ s.pending = Nothing /\ ~InFlight(s)

LEMMA LinkedIdle ==
    ASSUME NEW R
    PROVE  LET s == [InitSession EXCEPT !.initState = "INIT_DONE"]
           IN  Linked(s, R) /\ Reconciles(s) /\ Idle(s)
<1> DEFINE s == [InitSession EXCEPT !.initState = "INIT_DONE"]
<1>1. InitSession \in Sessions
    BY InitSessionLemma DEF NewSession
<1>2. /\ s \in Sessions /\ s.queue = <<>> /\ s.pending = Nothing /\ s.expected = "NONE"
      /\ s.route = "NONE" /\ s.attempts = 0
    BY <1>1 DEF Sessions, InitStates, InitSession
<1> HIDE DEF s
<1>3. Len(s.queue) = 0
    BY <1>2
<1>4. SessionInv(s)
    BY <1>2, <1>3 DEF SessionInv, HeadIsAwaited, InFlight, ReadbackIsNext, ReadbackHasRoute,
        HasReadback, AttemptsAreClear, FlightIsCounted, ReadbackInFlight
<1>5. Ordinary(s.queue) = <<>>
    BY <1>2, <1>3, OrdinaryOfClean DEF Clean
<1>6. \A d \in Dps : s.pending[d] = NoValue
    BY <1>2 DEF Nothing
<1>7. Linked(s, R)
    <2>1. <<>> \in Seq(R)
        OBVIOUS
    <2> QED BY <1>2, <1>4, <1>5, <1>6, <2>1 DEF Linked
<1>8. Reconciles(s) /\ Idle(s)
    BY <1>2, <1>6 DEF Reconciles, Idle, HasPending, InFlight
<1> QED BY <1>7, <1>8 DEF s

\* process_command_queue_
LEMMA LinkedTransmit ==
    ASSUME NEW R, R \subseteq Delivers, NEW s, Linked(s, R),
           CanTransmit([s EXCEPT !.age = MaxAge], TRUE)
    PROVE  LET t == [Transmit([s EXCEPT !.age = MaxAge], TRUE) EXCEPT !.age = 0]
           IN  /\ ~InFlight(s) /\ s.queue # <<>>
               /\ Linked(t, R)
               /\ InFlight(t)
               /\ t.queue = s.queue /\ t.pending = s.pending
               /\ Reconciles(s) => Reconciles(t)
<1> DEFINE a == [s EXCEPT !.age = MaxAge]
           u == Transmit(a, TRUE)
           t == [u EXCEPT !.age = 0]
<1>1. MaxAge \in Nat /\ 0 \in 0..MaxAge /\ MaxAge \in 0..MaxAge
    BY LimitsAssumption DEF MaxAge
<1>2. /\ a \in Sessions
      /\ a.queue = s.queue /\ a.pending = s.pending /\ a.expected = s.expected
      /\ a.route = s.route /\ a.attempts = s.attempts
    BY <1>1 DEF Linked, Sessions
<1> HIDE DEF a
<1>3. SessionInv(a)
    BY <1>2 DEF Linked, SessionInv, HeadIsAwaited, InFlight, ReadbackIsNext, ReadbackHasRoute,
        HasReadback, AttemptsAreClear, FlightIsCounted, ReadbackInFlight
<1>4. ~InFlight(s) /\ s.queue # <<>>
    BY <1>2 DEF CanTransmit, InFlight, a
<1>5. /\ u \in Sessions /\ SessionInv(u)
      /\ u.queue = a.queue /\ u.pending = a.pending
    BY <1>2, <1>3, TransmitLemma DEF Keeps
<1>6. u.expected = ResponseOf(Head(a.queue).cmd) /\ u.route = a.route
    BY <1>2 DEF Transmit, a, Sessions
<1>7. Head(s.queue).cmd \in CommandTypes
    BY <1>4, LinkedQueue DEF Commands
<1>8. InFlight(u)
    BY <1>2, <1>6, <1>7, ResponseType DEF InFlight
<1> HIDE DEF u
<1>9. /\ t \in Sessions
      /\ t.queue = u.queue /\ t.pending = u.pending /\ t.expected = u.expected
      /\ t.route = u.route /\ t.attempts = u.attempts
    BY <1>1, <1>5 DEF Sessions
<1> HIDE DEF t
<1>10. SessionInv(t)
    BY <1>5, <1>9 DEF SessionInv, HeadIsAwaited, InFlight, ReadbackIsNext, ReadbackHasRoute,
        HasReadback, AttemptsAreClear, FlightIsCounted, ReadbackInFlight
<1>11. Reconciles(s) => Reconciles(t)
    BY <1>2, <1>5, <1>6, <1>9 DEF Reconciles, HasReadback, HasPending
<1>12. Linked(t, R) /\ InFlight(t)
    BY <1>2, <1>5, <1>8, <1>9, <1>10 DEF Linked, InFlight
<1> QED BY <1>2, <1>4, <1>5, <1>9, <1>11, <1>12 DEF t, u, a

\* What the report completes leaves the queue.
LEMMA LinkedComplete ==
    ASSUME NEW R, R \subseteq Delivers, NEW s, Linked(s, R), InFlight(s)
    PROVE  LET t == Complete(s)
           IN  /\ Linked(t, R)
               /\ ~InFlight(t)
               /\ t.queue = Tail(s.queue) /\ t.pending = s.pending /\ t.route = s.route
               /\ HasReadback(s) /\ ~IsReadback(Head(s.queue)) => HasReadback(t)
<1> DEFINE t == Complete(s)
<1>1. s \in Sessions /\ SessionInv(s) /\ s.queue # <<>>
    BY DEF Linked, SessionInv, HeadIsAwaited
<1>2. /\ t \in Sessions /\ SessionInv(t) /\ t.pending = s.pending
      /\ ~InFlight(t) /\ t.route = s.route
    BY <1>1, CompleteLemma DEF Keeps
<1>3. t.queue = Tail(s.queue)
    BY <1>1 DEF Complete, Sessions
<1> HIDE DEF t
<1>4. Ordinary(t.queue) \in Seq(R)
    BY <1>1, <1>3, LinkedQueue
<1>5. ASSUME HasReadback(s), ~IsReadback(Head(s.queue)) PROVE HasReadback(t)
    <2>1. PICK i \in 1..Len(s.queue) : IsReadback(s.queue[i])
        BY <1>5 DEF HasReadback
    <2>2. s.queue[i] # Head(s.queue)
        BY <1>5, <2>1
    <2>3. s.queue \in Seq(Commands)
        BY <1>1, SessionQueue
    <2>4. \E j \in 1..Len(Tail(s.queue)) : Tail(s.queue)[j] = s.queue[i]
        BY <1>1, <2>2, <2>3, TailOfQueue
    <2> QED BY <1>3, <2>1, <2>4 DEF HasReadback
<1> QED BY <1>2, <1>3, <1>4, <1>5 DEF Linked, t

\* clear_confirmed_transition_
LEMMA LinkedClear ==
    ASSUME NEW R, NEW s, Linked(s, R), NEW d \in Dps, NEW v \in Values, NEW authoritative
    PROVE  LET t == ClearConfirmed(s, d, v, authoritative)
           IN  /\ Linked(t, R)
               /\ t.queue = s.queue /\ t.expected = s.expected /\ t.route = s.route
               /\ t.pending[d] = IF authoritative \/ s.pending[d] = v THEN NoValue ELSE s.pending[d]
               /\ \A e \in Dps : e # d => t.pending[e] = s.pending[e]
<1> DEFINE t == ClearConfirmed(s, d, v, authoritative)
           cleared == [s.pending EXCEPT ![d] = NoValue]
<1>1. s \in Sessions /\ s.pending \in Batches
    BY DEF Linked, Sessions
<1>2. CASE s.pending[d] # NoValue /\ (authoritative \/ s.pending[d] = v)
    <2>1. t = [s EXCEPT !.pending = cleared]
        BY <1>1, <1>2 DEF ClearConfirmed, Sessions
    <2>2. cleared \in Batches /\ cleared[d] = NoValue
          /\ \A e \in Dps : e # d => cleared[e] = s.pending[e]
        BY <1>1 DEF Batches
    <2> HIDE DEF cleared
    <2>3. /\ t \in Sessions /\ SessionInv(t)
          /\ t.pending = cleared /\ t.queue = s.queue /\ t.expected = s.expected /\ t.route = s.route
        BY <1>1, <2>1, <2>2, PendingLemma DEF Linked
    <2> HIDE DEF t
    <2> QED BY <1>2, <2>2, <2>3 DEF Linked, t
<1>3. CASE ~(s.pending[d] # NoValue /\ (authoritative \/ s.pending[d] = v))
    <2>1. t = s
        BY <1>3 DEF ClearConfirmed
    <2> QED BY <1>3, <2>1
<1> QED BY <1>2, <1>3

\* t is s with one command more, whose target is pending.
Sends(s, t, d, v) ==
    /\ t.queue = Append(s.queue, Deliver(One(d, v)))
    /\ Ordinary(t.queue) = Append(Ordinary(s.queue), Deliver(One(d, v)))
    /\ t.queue # <<>>
    /\ Head(t.queue) = IF s.queue = <<>> THEN Deliver(One(d, v)) ELSE Head(s.queue)
    /\ t.expected = s.expected /\ t.route = s.route
    /\ t.pending = [s.pending EXCEPT ![d] = IF d \in Transition THEN v ELSE @]
    /\ HasReadback(s) => HasReadback(t)
    /\ Reconciles(s) => Reconciles(t)

\* set_datapoint_values
LEMMA LinkedSend ==
    ASSUME NEW R, R \subseteq Delivers, NEW s, Linked(s, R),
           NEW d \in Dps, NEW v \in Values, Deliver(One(d, v)) \in R
    PROVE  LET t == Enqueue(Record(s, One(d, v)), Deliver(One(d, v)))
           IN  Linked(t, R) /\ Sends(s, t, d, v)
<1> DEFINE c == Deliver(One(d, v))
           p == [s.pending EXCEPT ![d] = IF d \in Transition THEN v ELSE @]
           r == Record(s, One(d, v))
           t == Enqueue(r, c)
<1>1. s \in Sessions /\ SessionInv(s) /\ s.pending \in Batches
    BY DEF Linked, Sessions
<1>2. s.queue \in Seq(Commands) /\ Placed(s.queue)
    BY <1>1, SessionQueue
<1>3. One(d, v) \in Batches /\ One(d, v)[d] = v /\ v # NoValue
      /\ \A e \in Dps : e # d => One(d, v)[e] = NoValue
    BY DatapointsAssumption DEF One, Nothing, Batches
<1>4. c \in Commands /\ ~IsReadback(c)
    BY <1>3, DeliverIsCommand
<1>5. p \in Batches
    BY <1>1 DEF Batches
<1>6. [e \in Dps |-> IF e \in Transition /\ One(d, v)[e] # NoValue THEN One(d, v)[e] ELSE s.pending[e]] = p
    BY <1>1, <1>3 DEF Batches
<1>7. r = [s EXCEPT !.pending = p]
    BY <1>1, <1>6 DEF Record, Sessions
<1> HIDE DEF p, r, c
<1>8. /\ r \in Sessions /\ SessionInv(r)
      /\ r.pending = p /\ r.queue = s.queue /\ r.expected = s.expected /\ r.route = s.route
      /\ HasReadback(r) <=> HasReadback(s)
    BY <1>1, <1>5, <1>7, PendingLemma
<1>9. /\ t \in Sessions /\ SessionInv(t)
      /\ t.pending = r.pending /\ t.expected = r.expected /\ t.route = r.route
      /\ HasReadback(t) <=> HasReadback(r)
    BY <1>4, <1>8, EnqueueLemma DEF Keeps
<1>10. t.queue = Append(s.queue, c)
    BY <1>8 DEF Enqueue, Sessions
<1> HIDE DEF t
<1>11. Ordinary(t.queue) = Append(Ordinary(s.queue), c)
    BY <1>2, <1>4, <1>10, OrdinaryOfAppend
<1>12. Ordinary(t.queue) \in Seq(R)
    BY <1>11, AppendProperties DEF Linked, c
<1>13. /\ t.queue # <<>>
       /\ Head(t.queue) = IF s.queue = <<>> THEN c ELSE Head(s.queue)
    <2>1. t.queue \in Seq(Commands) /\ Len(t.queue) = Len(s.queue) + 1 /\ Len(s.queue) \in Nat
          /\ t.queue[Len(s.queue) + 1] = c
          /\ \A i \in 1..Len(s.queue) : t.queue[i] = s.queue[i]
        BY <1>2, <1>4, <1>10, AppendProperties, LenProperties
    <2>2. t.queue # <<>> /\ Head(t.queue) = t.queue[1]
        BY <2>1, EmptySeq
    <2>3. s.queue # <<>> => Head(s.queue) = s.queue[1] /\ 1 \in 1..Len(s.queue)
        BY <1>2, <2>1, EmptySeq
    <2>4. s.queue = <<>> => Len(s.queue) = 0
        BY EmptySeq
    <2> QED BY <2>1, <2>2, <2>3, <2>4
<1>14. \A e \in Dps : p[e] # NoValue => e \in Transition
    BY <1>1 DEF Linked, p, Batches
<1>15. Linked(t, R)
    BY <1>8, <1>9, <1>12, <1>14 DEF Linked
<1>16. Reconciles(s) => Reconciles(t)
    BY <1>8, <1>9, <1>13 DEF Reconciles
<1> QED BY <1>8, <1>9, <1>10, <1>11, <1>13, <1>15, <1>16 DEF Sends, t, r, p, c

\* What a report settles: nothing is pending, or it is read back.
LEMMA LinkedSettle ==
    ASSUME NEW R, NEW s, Linked(s, R), ~InFlight(s), NEW f,
           HasPending(s) => f.delivered,
           HasPending(s) /\ s.route = "TRANSITION" => HasReadback(s)
    PROVE  LET t == Settle(s, f)
           IN  /\ Linked(t, R)
               /\ Reconciles(t)
               /\ ~InFlight(t)
               /\ t.pending = s.pending
               /\ Ordinary(t.queue) = Ordinary(s.queue)
<1> DEFINE t == Settle(s, f)
<1>1. s \in Sessions /\ SessionInv(s) /\ ~ReadbackInFlight(s)
    BY DEF Linked, ReadbackInFlight
<1>2. Ordinary(t.queue) = Ordinary(s.queue)
    BY <1>1, SettleKeepsOrder
<1>3. CASE ~HasPending(s)
    <2>1. t = Cancel(s)
        BY <1>3 DEF Settle
    <2>2. /\ t \in Sessions /\ SessionInv(t) /\ t.pending = s.pending
          /\ t.expected = s.expected /\ t.route = "NONE" /\ ~HasReadback(t)
        BY <1>1, <2>1, CancelLemma DEF Keeps
    <2> HIDE DEF t
    <2>3. Linked(t, R)
        BY <1>2, <2>2 DEF Linked
    <2>4. Reconciles(t)
        BY <1>3, <2>2 DEF Reconciles, HasPending
    <2> QED BY <1>2, <2>2, <2>3, <2>4 DEF t, InFlight
<1>4. CASE HasPending(s)
    <2>1. t = Schedule(s)
        BY <1>4 DEF Settle
    <2>2. /\ t \in Sessions /\ SessionInv(t) /\ t.pending = s.pending
          /\ t.expected = s.expected
        BY <1>1, <2>1, ScheduleLemma DEF Keeps
    <2>3. HasReadback(t)
        <3>1. CASE s.route = "TRANSITION"
            BY <1>1, <1>4, <2>1, <3>1, ScheduleLemma
        <3>2. CASE s.route # "TRANSITION"
            <4> DEFINE r == [s EXCEPT !.route = "TRANSITION", !.attempts = 0]
            <4>1. /\ r \in Sessions /\ r.route = "TRANSITION" /\ r.queue = s.queue
                  /\ r.expected = s.expected
                BY <1>1 DEF Sessions, Routes
            <4>2. t = QueueReadback(r)
                BY <1>4, <2>1, <3>2 DEF Schedule
            <4> HIDE DEF r
            <4>3. SessionInv(r)
                BY <1>1, <4>1 DEF SessionInv, HeadIsAwaited, InFlight, ReadbackIsNext, ReadbackHasRoute,
                    HasReadback, AttemptsAreClear, FlightIsCounted, ReadbackInFlight
            <4> QED BY <4>1, <4>2, <4>3, QueueReadbackQueues
        <3> QED BY <3>1, <3>2
    <2> HIDE DEF t
    <2>4. t.queue # <<>>
        <3>1. t.queue = <<>> => Len(t.queue) = 0
            BY EmptySeq
        <3> QED BY <2>3, <3>1 DEF HasReadback
    <2>5. Linked(t, R)
        BY <1>2, <2>2 DEF Linked
    <2>6. Reconciles(t)
        BY <2>3, <2>4 DEF Reconciles
    <2> QED BY <1>2, <2>2, <2>5, <2>6 DEF t, InFlight
<1> QED BY <1>3, <1>4

----------------------------------------------------------------------------
(* The wire *)

\* The commands the MCU has yet to carry out, and those of them that write.
AheadOf(s, t) == IF InFlight(s) /\ t = <<>> THEN Tail(s.queue) ELSE s.queue
ComingOf(s, t) == Ordinary(AheadOf(s, t))

\* On the wire is the command in flight or the report that answers it, or a report
\* that no command is waiting for, and then none waits.
InStep(s, m, t, r) ==
    /\ t # <<>> => InFlight(s) /\ t = <<Head(s.queue)>> /\ r = <<>>
    /\ InFlight(s) /\ t = <<>> =>
           /\ r = <<m>>
           /\ \A d \in Dps : Head(s.queue).writes[d] \in {NoValue, m[d]}
    /\ r # <<>> /\ ~InFlight(s) => s.queue = <<>>

LEMMA ComingType ==
    ASSUME NEW R, R \subseteq Delivers, NEW s, Linked(s, R), NEW t
    PROVE  /\ AheadOf(s, t) \in Seq(Commands) /\ Placed(AheadOf(s, t))
           /\ ComingOf(s, t) \in Seq(R)
<1>1. s.queue \in Seq(Commands) /\ Placed(s.queue) /\ Ordinary(s.queue) \in Seq(R)
    BY SessionQueue DEF Linked
<1>2. InFlight(s) => s.queue # <<>>
    BY DEF Linked, SessionInv, HeadIsAwaited
<1> QED BY <1>1, <1>2, LinkedQueue DEF AheadOf, ComingOf

\* With nothing queued nothing comes.
LEMMA NothingComes ==
    ASSUME NEW s, s.queue = <<>>, ~InFlight(s), NEW w
    PROVE  ComingOf(s, w) = <<>>
<1>1. Len(s.queue) = 0
    OBVIOUS
<1> QED BY <1>1, OrdinaryOfClean DEF ComingOf, AheadOf, Clean

\* A command that comes is queued.
Queued(s, c) == \E i \in 1..Len(s.queue) : s.queue[i] = c

LEMMA ComingIsQueued ==
    ASSUME NEW R, R \subseteq Delivers, NEW s, Linked(s, R), NEW w,
           NEW i \in 1..Len(ComingOf(s, w))
    PROVE  Queued(s, ComingOf(s, w)[i])
<1> DEFINE q == AheadOf(s, w)
           o == Ordinary(q)
<1>1. q \in Seq(Commands) /\ Placed(q)
    BY ComingType
<1>2. s.queue \in Seq(Commands) /\ (InFlight(s) => s.queue # <<>>)
    BY SessionQueue DEF Linked, SessionInv, HeadIsAwaited
<1>3. ASSUME NEW j \in 1..Len(q) PROVE Queued(s, q[j])
    <2>1. CASE q = s.queue
        BY <2>1 DEF Queued
    <2>2. CASE q = Tail(s.queue) /\ s.queue # <<>>
        <3>1. Len(q) = Len(s.queue) - 1 /\ q[j] = s.queue[j + 1] /\ Len(s.queue) \in Nat
            BY <1>2, <2>2, HeadTailProperties, LenProperties
        <3>2. j + 1 \in 1..Len(s.queue)
            BY <3>1
        <3> QED BY <3>1, <3>2 DEF Queued
    <2> QED BY <1>2, <2>1, <2>2 DEF AheadOf
<1>4. i \in 1..Len(o)
    BY DEF ComingOf
<1>5. \E j \in 1..Len(q) : o[i] = q[j]
    <2>1. CASE Clean(q)
        BY <1>4, <2>1, OrdinaryOfClean
    <2>2. CASE ~Clean(q)
        <3>1. PICK k \in 1..Len(q) : IsReadback(q[k])
            BY <2>2 DEF Clean
        <3> HIDE DEF q
        <3>2. Len(o) = Len(q) - 1 /\ (o[i] = IF i < k THEN q[i] ELSE q[i + 1]) /\ Len(q) \in Nat
            BY <1>1, <1>4, <3>1, OrdinaryOfPlaced, LenProperties
        <3>3. i \in 1..Len(q) /\ i + 1 \in 1..Len(q)
            BY <1>4, <3>2
        <3> QED BY <3>2, <3>3
    <2> QED BY <2>1, <2>2
<1> QED BY <1>3, <1>5 DEF ComingOf

\* What the readbacks write is nothing: what a datapoint will be depends on the
\* other commands.
LEMMA WillOfOrdinary ==
    ASSUME NEW q \in Seq(Commands), Placed(q), NEW state, NEW d \in Dps
    PROVE  Will(state, q, d) = Will(state, Ordinary(q), d)
<1>1. CASE Clean(q)
    BY <1>1, OrdinaryOfClean
<1>2. CASE ~Clean(q)
    <2>1. PICK k \in 1..Len(q) : IsReadback(q[k])
        BY <1>2 DEF Clean
    <2> DEFINE o == Ordinary(q)
    <2>2. /\ o \in Seq(Commands) /\ Len(o) = Len(q) - 1
          /\ \A i \in 1..Len(o) : o[i] = IF i < k THEN q[i] ELSE q[i + 1]
        BY <2>1, OrdinaryOfPlaced
    <2> HIDE DEF o
    <2>3. Len(o) \in Nat /\ k \in Nat \ {0} /\ ~(Len(o) < k - 1) /\ Len(q) = Len(o) + 1 /\ k <= Len(q)
        BY <2>1, <2>2, LenProperties
    <2>4. q[k] \in Commands
        BY <2>1, ElementOfSeq
    <2>5. q[k].writes[d] = NoValue
        BY <2>1, <2>4 DEF Commands, IsReadback, Nothing
    <2>6. PICK n \in Nat : n = Len(o)
        BY <2>3
    <2>7. Without(q, o, n, k, d)
        BY <2>2, <2>5, <2>6 DEF Without
    <2>8. /\ n < k => Becomes(state, o, n, d) = Becomes(state, q, n, d)
          /\ ~(n < k) => Becomes(state, o, n, d) = Becomes(state, q, n + 1, d)
        <3>1. n \in Nat /\ k \in Nat \ {0}
            BY <2>3, <2>6
        <3> QED BY <2>7, <3>1, BecomesWithout
    <2>9. CASE n < k
        <3>1. n + 1 = k
            BY <2>3, <2>6, <2>9
        <3>2. Becomes(state, q, n + 1, d) = Becomes(state, q, n, d)
            BY <2>5, <3>1, BecomesNext
        <3> QED BY <2>3, <2>6, <2>8, <2>9, <3>2 DEF Will, o
    <2>10. CASE ~(n < k)
        BY <2>3, <2>6, <2>8, <2>10 DEF Will, o
    <2> QED BY <2>9, <2>10
<1> QED BY <1>1, <1>2

\* What is commanded, by the ordinary commands ahead.
LEMMA CommandedIs ==
    ASSUME NEW R, R \subseteq Delivers, Linked(program.session, R),
           InStep(program.session, mcu, toMcu, reports), NEW d \in Dps
    PROVE  Commanded[d] = Will(mcu, ComingOf(program.session, toMcu), d)
<1> DEFINE s == program.session
           behind == IF InFlight(s) THEN Tail(s.queue) ELSE s.queue
<1>1. s.queue \in Seq(Commands)
    BY SessionQueue DEF Linked
<1>2. AheadOf(s, toMcu) \in Seq(Commands) /\ Placed(AheadOf(s, toMcu))
    BY ComingType
<1>3. Ahead = AheadOf(s, toMcu)
    <2>1. CASE toMcu = <<>>
        <3>1. Ahead = <<>> \o behind /\ AheadOf(s, toMcu) = behind
            BY <2>1 DEF Ahead, AheadOf
        <3>2. behind \in Seq(Commands)
            BY <1>2, <3>1
        <3> QED BY <3>1, <3>2
    <2>2. CASE toMcu # <<>>
        <3>1. InFlight(s) /\ toMcu = <<Head(s.queue)>>
            BY <2>2 DEF InStep
        <3>2. s.queue # <<>>
            BY <3>1 DEF Linked, SessionInv, HeadIsAwaited
        <3>3. Ahead = <<Head(s.queue)>> \o Tail(s.queue) /\ AheadOf(s, toMcu) = s.queue
            BY <2>2, <3>1 DEF Ahead, AheadOf
        <3> QED BY <1>1, <3>2, <3>3
    <2> QED BY <2>1, <2>2
<1>4. Commanded[d] = Will(mcu, Ahead, d)
    BY DEF Commanded, Will
<1> QED BY <1>2, <1>3, <1>4, WillOfOrdinary DEF ComingOf

\* Transmission leaves what is ahead as it is.
LEMMA InStepTransmit ==
    ASSUME NEW R, R \subseteq Delivers, NEW s, Linked(s, R), NEW m, NEW t, NEW r,
           InStep(s, m, t, r), CanTransmit([s EXCEPT !.age = MaxAge], TRUE)
    PROVE  LET u == [Transmit([s EXCEPT !.age = MaxAge], TRUE) EXCEPT !.age = 0]
           IN  /\ t = <<>> /\ r = <<>>
               /\ Append(t, Head(s.queue)) = <<Head(s.queue)>>
               /\ InStep(u, m, <<Head(s.queue)>>, r)
               /\ ComingOf(u, <<Head(s.queue)>>) = ComingOf(s, t)
<1> DEFINE u == [Transmit([s EXCEPT !.age = MaxAge], TRUE) EXCEPT !.age = 0]
<1>1. ~InFlight(s) /\ s.queue # <<>> /\ InFlight(u) /\ u.queue = s.queue
    BY LinkedTransmit
<1> HIDE DEF u
<1>2. t = <<>> /\ r = <<>>
    BY <1>1 DEF InStep
<1>3. <<Head(s.queue)>> # <<>>
    OBVIOUS
<1>4. AheadOf(u, <<Head(s.queue)>>) = s.queue /\ AheadOf(s, t) = s.queue
    BY <1>1, <1>3 DEF AheadOf
<1>5. InStep(u, m, <<Head(s.queue)>>, r)
    BY <1>1, <1>2, <1>3 DEF InStep
<1> QED BY <1>2, <1>4, <1>5 DEF ComingOf, u

\* The MCU carries out the first of the commands that come, or a readback, and
\* reports.
Executed(s, m, after, t, r, R) ==
    LET now    == ComingOf(s, Tail(t))
        coming == ComingOf(s, t)
    IN  /\ Head(t) = Head(s.queue) /\ Tail(t) = <<>> /\ r = <<>> /\ InFlight(s)
        /\ s.queue # <<>>
        /\ Append(r, after) = <<after>>
        /\ InStep(s, after, <<>>, <<after>>)
        /\ \/ now = coming /\ after = m /\ IsReadback(Head(s.queue))
           \/ /\ coming # <<>> /\ Head(coming) = Head(s.queue) /\ Head(coming) \in R
              /\ now = Tail(coming)
              /\ after = Apply(m, Head(coming).writes)

LEMMA InStepExecute ==
    ASSUME NEW R, R \subseteq Delivers, NEW s, Linked(s, R),
           NEW m \in [Dps -> Values], NEW t, NEW r, InStep(s, m, t, r), t # <<>>
    PROVE  Executed(s, m, Apply(m, Head(t).writes), t, r, R)
<1> DEFINE after == Apply(m, Head(t).writes)
           now   == ComingOf(s, Tail(t))
           coming == ComingOf(s, t)
<1>1. InFlight(s) /\ t = <<Head(s.queue)>> /\ r = <<>>
    BY DEF InStep
<1>2. s.queue # <<>> /\ s.queue \in Seq(Commands) /\ Placed(s.queue)
    BY <1>1, SessionQueue DEF Linked, SessionInv, HeadIsAwaited
<1>3. Head(t) = Head(s.queue) /\ Tail(t) = <<>> /\ Append(r, after) = <<after>>
    BY <1>1
<1>4. coming = Ordinary(s.queue) /\ now = Ordinary(Tail(s.queue))
    BY <1>1, <1>3 DEF ComingOf, AheadOf
<1>5. ASSUME IsReadback(Head(s.queue)) PROVE now = coming /\ after = m
    <2>1. Head(t).writes = Nothing
        BY <1>2, <1>3, <1>5, LinkedQueue
    <2>2. after = m
        BY <2>1 DEF Apply, Nothing
    <2> QED BY <1>2, <1>4, <1>5, <2>2, OrdinaryOfTail
<1>6. ASSUME ~IsReadback(Head(s.queue))
      PROVE  /\ coming # <<>> /\ Head(coming) = Head(s.queue) /\ Head(coming) \in R
             /\ now = Tail(coming)
             /\ after = Apply(m, Head(coming).writes)
    BY <1>2, <1>3, <1>4, <1>6, OrdinaryOfTail, LinkedQueue
<1>7. InStep(s, after, <<>>, <<after>>)
    <2>1. \A d \in Dps : Head(s.queue).writes[d] \in {NoValue, after[d]}
        BY <1>3 DEF Apply
    <2>2. <<after>> # <<>>
        OBVIOUS
    <2> QED BY <1>1, <2>1, <2>2 DEF InStep
<1> QED BY <1>1, <1>2, <1>3, <1>5, <1>6, <1>7 DEF Executed

\* A client has something sent, while no report is on its way that no command
\* waits for: it comes last.
Joins(s, t, m, w, r, c) ==
    InStep(t, m, w, r) /\ ComingOf(t, w) = Append(ComingOf(s, w), c)

LEMMA InStepSend ==
    ASSUME NEW R, R \subseteq Delivers, NEW s, Linked(s, R), NEW m, NEW w, NEW r,
           InStep(s, m, w, r), r # <<>> => InFlight(s),
           NEW d \in Dps, NEW v \in Values, NEW t, Sends(s, t, d, v)
    PROVE  Joins(s, t, m, w, r, Deliver(One(d, v)))
<1> DEFINE c == Deliver(One(d, v))
<1>1. /\ t.queue = Append(s.queue, c)
      /\ Ordinary(t.queue) = Append(Ordinary(s.queue), c)
      /\ s.queue # <<>> => Head(t.queue) = Head(s.queue)
      /\ t.expected = s.expected
    BY DEF Sends
<1>2. s.queue \in Seq(Commands) /\ (InFlight(s) => s.queue # <<>>)
    BY SessionQueue DEF Linked, SessionInv, HeadIsAwaited
<1>3. c \in Commands /\ ~IsReadback(c)
    <2>1. One(d, v) \in Batches
        BY DEF One, Nothing, Batches
    <2> QED BY <2>1, DeliverIsCommand
<1> HIDE DEF c
<1>4. InStep(t, m, w, r)
    BY <1>1, <1>2 DEF InStep, InFlight
<1>5. CASE InFlight(s) /\ w = <<>>
    <2>1. AheadOf(s, w) = Tail(s.queue) /\ AheadOf(t, w) = Tail(t.queue)
        BY <1>1, <1>5 DEF AheadOf, InFlight
    <2>2. Tail(t.queue) = Append(Tail(s.queue), c)
        BY <1>1, <1>2, <1>3, <1>5
    <2>3. Tail(s.queue) \in Seq(Commands) /\ Placed(Tail(s.queue))
        BY <1>2, <1>5, LinkedQueue
    <2> QED BY <1>3, <1>4, <2>1, <2>2, <2>3, OrdinaryOfAppend DEF Joins, ComingOf, c
<1>6. CASE ~(InFlight(s) /\ w = <<>>)
    <2>1. AheadOf(s, w) = s.queue /\ AheadOf(t, w) = t.queue
        BY <1>1, <1>6 DEF AheadOf, InFlight
    <2> QED BY <1>1, <1>4, <2>1 DEF Joins, ComingOf, c
<1> QED BY <1>5, <1>6

\* A report comes: what it completes is no longer ahead, and nothing is on the wire.
Answer(s) == IF Outcome(s).completes THEN Complete(s) ELSE s

Answers(s, t, m, w, r, R) ==
    LET f == Outcome(s)
    IN  /\ w = <<>>
        /\ InFlight(s) => r = <<m>>
        /\ Linked(t, R)
        /\ ~InFlight(t)
        /\ t.queue = AheadOf(s, w) /\ t.pending = s.pending /\ t.route = s.route
        /\ ~InFlight(s) => t.queue = <<>> /\ s.queue = <<>> /\ t = s
        /\ InFlight(s) => /\ f.delivered <=> ~IsReadback(Head(s.queue))
                          /\ f.authoritative <=> IsReadback(Head(s.queue))
        /\ HasReadback(s) /\ f.delivered => HasReadback(t)
        /\ ~f.delivered /\ ~f.authoritative => ~InFlight(s)
        /\ f.authoritative => InFlight(s)
        /\ f.delivered \in BOOLEAN /\ f.authoritative \in BOOLEAN

LEMMA InStepAnswer ==
    ASSUME NEW R, R \subseteq Delivers, NEW s, Linked(s, R), NEW m, NEW w, NEW r,
           InStep(s, m, w, r), r # <<>>
    PROVE  Answers(s, Answer(s), m, w, r, R)
<1> DEFINE t == Answer(s)
<1>1. w = <<>>
    BY DEF InStep
<1>2. CASE InFlight(s)
    <2>1. s.queue # <<>>
        BY <1>2 DEF Linked, SessionInv, HeadIsAwaited
    <2>2. /\ Outcome(s).completes
          /\ Outcome(s).delivered <=> ~IsReadback(Head(s.queue))
          /\ Outcome(s).authoritative <=> IsReadback(Head(s.queue))
        BY <1>2, <2>1, LinkedQueue
    <2>3. t = Complete(s) /\ AheadOf(s, w) = Tail(s.queue)
        BY <1>1, <1>2, <2>2 DEF Answer, AheadOf
    <2>4. Outcome(s).delivered \in BOOLEAN /\ Outcome(s).authoritative \in BOOLEAN
        BY DEF Outcome, IsReadback
    <2>5. r = <<m>>
        BY <1>1, <1>2 DEF InStep
    <2> HIDE DEF t
    <2> QED BY <1>1, <1>2, <2>2, <2>3, <2>4, <2>5, LinkedComplete DEF t, Answers
<1>3. CASE ~InFlight(s)
    <2>1. ~Outcome(s).completes /\ ~Outcome(s).delivered /\ ~Outcome(s).authoritative
        BY <1>3 DEF Outcome, InFlight
    <2>2. t = s /\ AheadOf(s, w) = s.queue /\ s.queue = <<>>
        BY <1>3, <2>1 DEF Answer, AheadOf, InStep
    <2>3. Outcome(s).delivered \in BOOLEAN /\ Outcome(s).authoritative \in BOOLEAN
        BY DEF Outcome, IsReadback
    <2> QED BY <1>1, <1>3, <2>1, <2>2, <2>3 DEF Answers
<1> QED BY <1>2, <1>3
=============================================================================
