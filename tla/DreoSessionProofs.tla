------------------------- MODULE DreoSessionProofs -------------------------
(***************************************************************************)
(* What each operator of DreoSession preserves, for every session of the   *)
(* right type: one lemma per method of class Dreo, from the edits of the   *)
(* command queue up to process_command_queue_. DreoHubProofs builds the    *)
(* handlers out of them.                                                   *)
(***************************************************************************)
EXTENDS DreoSession, SequenceTheorems, TLAPS

\* send_empty_command_ makes a command that is no readback.
LEMMA EmptyIsCommand ==
    ASSUME NEW type \in CommandTypes
    PROVE  /\ Empty(type) \in Commands
           /\ ~IsReadback(Empty(type))
BY DEF Empty, Commands, Routes, Nothing, Batches, IsReadback

\* queue_reconciliation_request_ makes a readback.
LEMMA ReadbackIsCommand ==
    /\ Readback \in Commands
    /\ IsReadback(Readback)
BY DEF Readback, Commands, Routes, Nothing, Batches, IsReadback, CommandTypes

\* send_datapoint_commands_ makes a command that is no readback.
LEMMA DeliverIsCommand ==
    ASSUME NEW batch \in Batches
    PROVE  Deliver(batch) \in Commands /\ ~IsReadback(Deliver(batch))
BY DEF Deliver, Commands, Routes, Batches, IsReadback, CommandTypes

\* Every command that is sent waits for a response (send_raw_command_).
LEMMA ResponseType ==
    ASSUME NEW type \in CommandTypes
    PROVE  ResponseOf(type) \in Responses /\ ResponseOf(type) # "NONE"
BY DEF ResponseOf, Responses, CommandTypes

Placed(q) ==
    \A i \in 1..Len(q) : IsReadback(q[i]) =>
        /\ i \in {1, 2}
        /\ \A j \in 1..Len(q) : IsReadback(q[j]) => i = j

Clean(q) == \A i \in 1..Len(q) : ~IsReadback(q[i])

\* erase(begin()): the rest of the queue keeps its order, and loses the readback if
\* that was the head.
LEMMA TailOfQueue ==
    ASSUME NEW q \in Seq(Commands), q # <<>>
    PROVE  /\ Tail(q) \in Seq(Commands)
           /\ Placed(q) => Placed(Tail(q))
           /\ Clean(q) => Clean(Tail(q))
           /\ Placed(q) /\ IsReadback(Head(q)) => Clean(Tail(q))
           /\ \A c : (\E i \in 1..Len(q) : q[i] = c) /\ c # Head(q) =>
                    \E i \in 1..Len(Tail(q)) : Tail(q)[i] = c
<1>1. /\ Tail(q) \in Seq(Commands)
      /\ Len(Tail(q)) = Len(q) - 1
      /\ \A i \in 1..Len(Tail(q)) : Tail(q)[i] = q[i + 1]
      /\ Len(q) \in Nat \ {0}
    BY HeadTailProperties, EmptySeq
<1>2. Head(q) = q[1]
    BY <1>1
<1>3. \A i \in 1..Len(Tail(q)) : i + 1 \in 1..Len(q)
    BY <1>1
<1>4. Placed(q) => Placed(Tail(q))
    BY <1>1, <1>3 DEF Placed
<1>5. Clean(q) => Clean(Tail(q))
    BY <1>1, <1>3 DEF Clean
<1>6. Placed(q) /\ IsReadback(Head(q)) => Clean(Tail(q))
    BY <1>1, <1>2, <1>3 DEF Placed, Clean
<1>7. ASSUME NEW c, NEW i \in 1..Len(q), q[i] = c, c # Head(q)
      PROVE  \E j \in 1..Len(Tail(q)) : Tail(q)[j] = c
    <2>1. i # 1
        BY <1>2, <1>7
    <2>2. i - 1 \in 1..Len(Tail(q)) /\ Tail(q)[i - 1] = c
        BY <1>1, <1>7, <2>1
    <2> QED BY <2>2
<1> QED BY <1>1, <1>4, <1>5, <1>6, <1>7

\* push_back of a command that is no readback leaves the head and every readback
\* where it is.
LEMMA AppendToQueue ==
    ASSUME NEW q \in Seq(Commands), NEW c \in Commands, ~IsReadback(c)
    PROVE  /\ Append(q, c) \in Seq(Commands)
           /\ Append(q, c) # <<>>
           /\ q # <<>> => Head(Append(q, c)) = Head(q)
           /\ Placed(q) => Placed(Append(q, c))
           /\ Clean(Append(q, c)) <=> Clean(q)
           /\ \A d : (\E i \in 1..Len(q) : q[i] = d) =>
                    \E i \in 1..Len(Append(q, c)) : Append(q, c)[i] = d
           /\ \E i \in 1..Len(Append(q, c)) : Append(q, c)[i] = c
<1> DEFINE r == Append(q, c)
<1>1. /\ r \in Seq(Commands)
      /\ r # <<>>
      /\ Len(r) = Len(q) + 1
      /\ \A i \in 1..Len(q) : r[i] = q[i]
      /\ r[Len(q) + 1] = c
      /\ Len(q) \in Nat
    BY AppendProperties, LenProperties
<1>2. q # <<>> => Head(r) = Head(q)
    BY HeadTailAppend
<1>3. \A i \in 1..Len(r) : i \in 1..Len(q) \/ i = Len(q) + 1
    BY <1>1
<1> HIDE DEF r
<1>4. \A i \in 1..Len(r) : IsReadback(r[i]) => i \in 1..Len(q) /\ IsReadback(q[i])
    BY <1>1, <1>3
<1>5. Placed(q) => Placed(r)
    BY <1>1, <1>4 DEF Placed
<1>6. 1..Len(q) \subseteq 1..Len(r)
    BY <1>1
<1>7. Clean(r) <=> Clean(q)
    BY <1>1, <1>4, <1>6 DEF Clean
<1>8. Len(q) + 1 \in 1..Len(r)
    BY <1>1
<1> QED BY <1>1, <1>2, <1>5, <1>6, <1>7, <1>8 DEF r

\* insert at begin(), into a queue without a readback.
LEMMA ReadbackFirst ==
    ASSUME NEW q \in Seq(Commands), Clean(q)
    PROVE  /\ <<Readback>> \o q \in Seq(Commands)
           /\ Placed(<<Readback>> \o q)
           /\ <<Readback>> \o q # <<>>
           /\ Len(<<Readback>> \o q) = Len(q) + 1
           /\ \A i \in 1..Len(<<Readback>> \o q) :
                    (<<Readback>> \o q)[i] = IF i = 1 THEN Readback ELSE q[i - 1]
           /\ \A c : (\E i \in 1..Len(q) : q[i] = c) =>
                    \E i \in 1..Len(<<Readback>> \o q) : (<<Readback>> \o q)[i] = c
<1> DEFINE r == <<Readback>> \o q
<1>1. <<Readback>> \in Seq(Commands) /\ Len(<<Readback>>) = 1 /\ <<Readback>>[1] = Readback
    BY ReadbackIsCommand
<1>2. /\ r \in Seq(Commands)
      /\ Len(r) = Len(q) + 1
      /\ \A i \in 1..Len(r) : r[i] = IF i = 1 THEN Readback ELSE q[i - 1]
      /\ Len(q) \in Nat
    <2>1. Len(q) \in Nat BY LenProperties
    <2>2. /\ r \in Seq(Commands)
          /\ Len(r) = Len(<<Readback>>) + Len(q)
          /\ \A i \in 1..(Len(<<Readback>>) + Len(q)) :
                r[i] = IF i <= Len(<<Readback>>) THEN <<Readback>>[i] ELSE q[i - Len(<<Readback>>)]
        BY <1>1, ConcatProperties
    <2> HIDE DEF r
    <2> QED BY <1>1, <2>1, <2>2
<1> HIDE DEF r
<1>3. \A i \in 1..Len(r) : i = 1 \/ i - 1 \in 1..Len(q)
    BY <1>2
<1>4. \A i \in 1..Len(r) : IsReadback(r[i]) => i = 1
    BY <1>2, <1>3 DEF Clean
<1>5. Placed(r)
    BY <1>4 DEF Placed
<1>6. r # <<>>
    BY <1>2, EmptySeq
<1>7. \A i \in 1..Len(q) : i + 1 \in 1..Len(r) /\ r[i + 1] = q[i]
    BY <1>2
<1> QED BY <1>2, <1>5, <1>6, <1>7 DEF r

\* insert behind the command in flight, into a queue without a readback.
LEMMA ReadbackSecond ==
    ASSUME NEW q \in Seq(Commands), q # <<>>, Clean(q)
    PROVE  LET r == <<Head(q), Readback>> \o Tail(q)
           IN  /\ r \in Seq(Commands)
               /\ Placed(r)
               /\ r # <<>>
               /\ Head(r) = Head(q)
               /\ Len(r) = Len(q) + 1
               /\ \A i \in 1..Len(r) :
                        r[i] = IF i = 1 THEN q[1] ELSE IF i = 2 THEN Readback ELSE q[i - 1]
               /\ \A c : (\E i \in 1..Len(q) : q[i] = c) => \E i \in 1..Len(r) : r[i] = c
<1> DEFINE p == <<Head(q), Readback>>
           r == p \o Tail(q)
<1>0. /\ Tail(q) \in Seq(Commands)
      /\ Head(q) \in Commands
      /\ Len(Tail(q)) = Len(q) - 1
      /\ \A i \in 1..Len(Tail(q)) : Tail(q)[i] = q[i + 1]
      /\ Len(q) \in Nat \ {0}
      /\ Head(q) = q[1]
    BY HeadTailProperties, EmptySeq
<1>1. p \in Seq(Commands) /\ Len(p) = 2 /\ p[1] = q[1] /\ p[2] = Readback
    BY <1>0, ReadbackIsCommand
<1> HIDE DEF p
<1>2. /\ r \in Seq(Commands)
      /\ Len(r) = Len(q) + 1
      /\ \A i \in 1..Len(r) : r[i] = IF i = 1 THEN q[1] ELSE IF i = 2 THEN Readback ELSE q[i - 1]
    <2>2. /\ r \in Seq(Commands)
          /\ Len(r) = Len(p) + Len(Tail(q))
          /\ \A i \in 1..(Len(p) + Len(Tail(q))) :
                r[i] = IF i <= Len(p) THEN p[i] ELSE Tail(q)[i - Len(p)]
        BY <1>0, <1>1, ConcatProperties
    <2> HIDE DEF r
    <2> QED BY <1>0, <1>1, <2>2
<1> HIDE DEF r
<1>4. \A i \in 1..Len(r) : IsReadback(r[i]) => i = 2
    <2> SUFFICES ASSUME NEW i \in 1..Len(r), i # 2 PROVE ~IsReadback(r[i])
        OBVIOUS
    <2>1. CASE i = 1
        BY <1>0, <1>2, <2>1 DEF Clean
    <2>2. CASE i > 2
        BY <1>0, <1>2, <2>2 DEF Clean
    <2> QED BY <2>1, <2>2
<1>5. Placed(r)
    BY <1>4 DEF Placed
<1>6. r # <<>>
    BY <1>0, <1>2, EmptySeq
<1>7. Head(r) = r[1]
    BY <1>2, <1>6, EmptySeq
<1>8. Head(r) = Head(q)
    BY <1>0, <1>2, <1>7
<1>9. ASSUME NEW i \in 1..Len(q) PROVE \E j \in 1..Len(r) : r[j] = q[i]
    <2>1. CASE i = 1
        <3>1. 1 \in 1..Len(r) /\ r[1] = q[1] BY <1>0, <1>2
        <3> QED BY <2>1, <3>1
    <2>2. CASE i > 1
        <3>1. i + 1 \in 1..Len(r) /\ r[i + 1] = q[i] BY <1>0, <1>2, <2>2
        <3> QED BY <3>1
    <2> QED BY <2>1, <2>2
<1> QED BY <1>2, <1>5, <1>6, <1>8, <1>9 DEF r, p

\* An erase from the middle of the queue closes the gap.
LEMMA RemoveAtElements ==
    ASSUME NEW S, NEW q \in Seq(S), NEW k \in 1..Len(q)
    PROVE  LET r == RemoveAt(q, k)
           IN  /\ r \in Seq(S)
               /\ Len(r) = Len(q) - 1
               /\ \A i \in 1..Len(r) : r[i] = IF i < k THEN q[i] ELSE q[i + 1]
<1> DEFINE a == SubSeq(q, 1, k - 1)
           b == SubSeq(q, k + 1, Len(q))
           r == RemoveAt(q, k)
<1>0. Len(q) \in Nat /\ \A i \in 1..Len(q) : q[i] \in S
    BY LenProperties, ElementOfSeq
<1>1. /\ a \in Seq(S)
      /\ Len(a) = k - 1
      /\ \A i \in 1..(k - 1) : a[i] = q[i]
    <2>1. \A i \in 1..(k - 1) : q[i] \in S
        BY <1>0
    <2>2. /\ a \in Seq(S)
          /\ Len(a) = IF 1 <= k - 1 THEN (k - 1) - 1 + 1 ELSE 0
          /\ \A i \in 1..((k - 1) - 1 + 1) : a[i] = q[1 + i - 1]
        BY <1>0, <2>1, SubSeqProperties
    <2> QED BY <1>0, <2>2
<1>2. /\ b \in Seq(S)
      /\ Len(b) = Len(q) - k
      /\ \A i \in 1..(Len(q) - k) : b[i] = q[i + k]
    <2>1. \A i \in (k + 1)..Len(q) : q[i] \in S
        BY <1>0
    <2>2. /\ b \in Seq(S)
          /\ Len(b) = IF k + 1 <= Len(q) THEN Len(q) - (k + 1) + 1 ELSE 0
          /\ \A i \in 1..(Len(q) - (k + 1) + 1) : b[i] = q[(k + 1) + i - 1]
        BY <1>0, <2>1, SubSeqProperties
    <2> HIDE DEF b
    <2> QED BY <1>0, <2>2
<1> HIDE DEF a, b
<1>3. r = a \o b
    BY DEF r, RemoveAt, a, b
<1>4. /\ a \o b \in Seq(S)
      /\ Len(a \o b) = Len(a) + Len(b)
      /\ \A i \in 1..(Len(a) + Len(b)) : (a \o b)[i] = IF i <= Len(a) THEN a[i] ELSE b[i - Len(a)]
    BY <1>1, <1>2, ConcatProperties
<1> HIDE DEF r
<1>5. Len(r) = Len(q) - 1
    BY <1>0, <1>1, <1>2, <1>3, <1>4
<1>6. ASSUME NEW i \in 1..Len(r), i < k PROVE r[i] = q[i]
    BY <1>0, <1>1, <1>2, <1>3, <1>4, <1>5, <1>6
<1>7. ASSUME NEW i \in 1..Len(r), ~(i < k) PROVE r[i] = q[i + 1]
    <2>1. r[i] = b[i - (k - 1)]
        BY <1>0, <1>1, <1>2, <1>3, <1>4, <1>5, <1>7
    <2>2. i - (k - 1) \in 1..(Len(q) - k)
        BY <1>0, <1>5, <1>7
    <2>3. b[i - (k - 1)] = q[(i - (k - 1)) + k]
        BY <1>2, <2>2
    <2> QED BY <1>0, <1>5, <2>1, <2>3
<1> QED BY <1>3, <1>4, <1>5, <1>6, <1>7 DEF r

\* The erase of cancel_reconciliation_ leaves no readback and every other command,
\* and the head unless that was erased.
LEMMA RemoveFromQueue ==
    ASSUME NEW q \in Seq(Commands), NEW k \in 1..Len(q), Placed(q), IsReadback(q[k])
    PROVE  /\ RemoveAt(q, k) \in Seq(Commands)
           /\ Clean(RemoveAt(q, k))
           /\ k > 1 => RemoveAt(q, k) # <<>> /\ Head(RemoveAt(q, k)) = Head(q)
           /\ \A c : (\E i \in 1..Len(q) : q[i] = c) /\ ~IsReadback(c) =>
                    \E i \in 1..Len(RemoveAt(q, k)) : RemoveAt(q, k)[i] = c
<1> DEFINE r == RemoveAt(q, k)
<1>0. Len(q) \in Nat /\ \A i \in 1..Len(q) : q[i] \in Commands
    BY LenProperties, ElementOfSeq
<1>4. /\ r \in Seq(Commands)
      /\ Len(r) = Len(q) - 1
      /\ \A i \in 1..Len(r) : r[i] = IF i < k THEN q[i] ELSE q[i + 1]
    BY RemoveAtElements
<1> HIDE DEF r
<1>5. Clean(r)
    <2> SUFFICES ASSUME NEW i \in 1..Len(r) PROVE ~IsReadback(r[i])
        BY DEF Clean
    <2>1. CASE i < k
        <3>1. i \in 1..Len(q) /\ i # k /\ r[i] = q[i] BY <1>0, <1>4, <2>1
        <3> QED BY <3>1 DEF Placed
    <2>2. CASE i >= k
        <3>1. i + 1 \in 1..Len(q) /\ i + 1 # k /\ r[i] = q[i + 1] BY <1>0, <1>4, <2>2
        <3> QED BY <3>1 DEF Placed
    <2> QED BY <1>0, <1>4, <2>1, <2>2
<1>6. k > 1 => r # <<>> /\ Head(r) = Head(q)
    <2> SUFFICES ASSUME k > 1 PROVE r # <<>> /\ Head(r) = Head(q)
        OBVIOUS
    <2>1. Len(r) \in Nat \ {0} /\ r[1] = q[1] /\ Len(q) # 0 BY <1>0, <1>4
    <2>2. r # <<>> /\ q # <<>> BY <2>1, EmptySeq
    <2>3. Head(r) = r[1] BY <1>4, <2>2
    <2>4. Head(q) = q[1] BY <2>2
    <2> QED BY <2>1, <2>2, <2>3, <2>4
<1>7. ASSUME NEW i \in 1..Len(q), ~IsReadback(q[i])
      PROVE  \E j \in 1..Len(r) : r[j] = q[i]
    <2>1. CASE i < k
        <3>1. i \in 1..Len(r) /\ r[i] = q[i] BY <1>0, <1>4, <2>1
        <3> QED BY <3>1
    <2>2. CASE i > k
        <3>1. i - 1 \in 1..Len(r) /\ r[i - 1] = q[i] BY <1>0, <1>4, <2>2
        <3> QED BY <3>1
    <2>3. i # k BY <1>7
    <2> QED BY <1>0, <2>1, <2>2, <2>3
<1> QED BY <1>4, <1>5, <1>6, <1>7 DEF r

\* The parts of the invariant that speak of the queue alone.
LEMMA QueueParts ==
    ASSUME NEW s \in Sessions
    PROVE  /\ s.queue \in Seq(Commands)
           /\ ReadbackIsNext(s) <=> Placed(s.queue)
           /\ HasReadback(s) <=> ~Clean(s.queue)
           /\ s.queue # <<>> /\ IsReadback(Head(s.queue)) => HasReadback(s)
<1>1. s.queue \in Seq(Commands)
    BY DEF Sessions
<1>2. s.queue # <<>> /\ IsReadback(Head(s.queue)) => HasReadback(s)
    <2> SUFFICES ASSUME s.queue # <<>>, IsReadback(Head(s.queue)) PROVE HasReadback(s)
        OBVIOUS
    <2>1. Len(s.queue) \in Nat \ {0} /\ Head(s.queue) = s.queue[1]
        BY <1>1, EmptySeq
    <2>2. 1 \in 1..Len(s.queue)
        BY <2>1
    <2> QED BY <2>1, <2>2 DEF HasReadback
<1> QED BY <1>1, <1>2 DEF ReadbackIsNext, Placed, HasReadback, Clean

\* A session with another queue is a session.
LEMMA WithQueue ==
    ASSUME NEW s \in Sessions, NEW q \in Seq(Commands)
    PROVE  [s EXCEPT !.queue = q] \in Sessions
BY DEF Sessions

\* queue_reconciliation_request_ changes the queue only, drops no request and puts
\* no readback in flight.
LEMMA QueueReadbackLemma ==
    ASSUME NEW s \in Sessions, SessionInv(s), s.route = "TRANSITION"
    PROVE  LET t == QueueReadback(s)
           IN  /\ t \in Sessions
               /\ SessionInv(t)
               /\ t = [s EXCEPT !.queue = t.queue]
               /\ ReadbackInFlight(t) => ReadbackInFlight(s)
               /\ \A type : Asks(s, type) => Asks(t, type)
<1> DEFINE t == QueueReadback(s)
<1>1. CASE HasReadback(s)
    <2>1. t = s
        BY <1>1 DEF QueueReadback
    <2>2. s = [s EXCEPT !.queue = s.queue]
        BY DEF Sessions
    <2> QED BY <2>1, <2>2
<1>2. CASE ~HasReadback(s) /\ InFlight(s)
    <2> DEFINE q == <<Head(s.queue), Readback>> \o Tail(s.queue)
    <2>1. s.queue \in Seq(Commands) /\ Clean(s.queue) /\ s.queue # <<>>
        BY <1>2, QueueParts DEF SessionInv, HeadIsAwaited
    <2>2. /\ q \in Seq(Commands)
          /\ Placed(q)
          /\ q # <<>>
          /\ Head(q) = Head(s.queue)
          /\ \A c : (\E i \in 1..Len(s.queue) : s.queue[i] = c) => \E i \in 1..Len(q) : q[i] = c
        BY <2>1, ReadbackSecond
    <2>3. t = [s EXCEPT !.queue = q]
        BY <1>2, <2>1 DEF QueueReadback
    <2> HIDE DEF q
    <2>4. t \in Sessions
        BY <2>2, <2>3, WithQueue
    <2>5. /\ t.queue = q /\ t.expected = s.expected /\ t.route = s.route /\ t.attempts = s.attempts
        BY <2>3 DEF Sessions
    <2>6. ~IsReadback(Head(s.queue))
        BY <1>2, <2>1, QueueParts
    <2>7. SessionInv(t)
        BY <2>1, <2>2, <2>4, <2>5, <2>6, QueueParts
        DEF SessionInv, HeadIsAwaited, InFlight, ReadbackHasRoute, AttemptsAreClear, FlightIsCounted, ReadbackInFlight
    <2>8. t = [s EXCEPT !.queue = t.queue]
        BY <2>3, <2>5
    <2> QED BY <2>2, <2>4, <2>5, <2>6, <2>7, <2>8 DEF ReadbackInFlight, Asks
<1>3. CASE ~HasReadback(s) /\ ~InFlight(s)
    <2> DEFINE q == <<Readback>> \o s.queue
    <2>1. s.queue \in Seq(Commands) /\ Clean(s.queue)
        BY <1>3, QueueParts
    <2>2. /\ q \in Seq(Commands)
          /\ Placed(q)
          /\ \A c : (\E i \in 1..Len(s.queue) : s.queue[i] = c) => \E i \in 1..Len(q) : q[i] = c
        BY <2>1, ReadbackFirst
    <2>3. t = [s EXCEPT !.queue = q]
        BY <1>3 DEF QueueReadback
    <2> HIDE DEF q
    <2>4. t \in Sessions
        BY <2>2, <2>3, WithQueue
    <2>5. /\ t.queue = q /\ t.expected = s.expected /\ t.route = s.route /\ t.attempts = s.attempts
        BY <2>3 DEF Sessions
    <2>6. ~InFlight(t)
        BY <1>3, <2>5 DEF InFlight
    <2>7. SessionInv(t)
        BY <2>2, <2>4, <2>5, <2>6, QueueParts
        DEF SessionInv, HeadIsAwaited, ReadbackHasRoute, AttemptsAreClear, FlightIsCounted, ReadbackInFlight
    <2>8. t = [s EXCEPT !.queue = t.queue]
        BY <2>3, <2>5
    <2> QED BY <2>2, <2>4, <2>5, <2>6, <2>7, <2>8 DEF ReadbackInFlight, Asks
<1> QED BY <1>1, <1>2, <1>3

\* queue_reconciliation_request_ leaves a readback queued.
LEMMA QueueReadbackQueues ==
    ASSUME NEW s \in Sessions, SessionInv(s), s.route = "TRANSITION"
    PROVE  HasReadback(QueueReadback(s))
<1> DEFINE t == QueueReadback(s)
           q == s.queue
<1>1. CASE HasReadback(s)
    BY <1>1 DEF QueueReadback
<1>2. CASE ~HasReadback(s)
    <2>1. q \in Seq(Commands) /\ Clean(q) /\ Len(q) \in Nat
        BY <1>2, QueueParts, LenProperties
    <2>2. t \in Sessions
        BY QueueReadbackLemma
    <2>3. CASE InFlight(s) /\ q # <<>>
        <3> DEFINE r == <<Head(q), Readback>> \o Tail(q)
        <3>1. t.queue = r
            BY <1>2, <2>3 DEF QueueReadback, Sessions
        <3>2. Len(r) = Len(q) + 1 /\ Len(q) # 0
              /\ \A i \in 1..Len(r) : r[i] = IF i = 1 THEN q[1] ELSE IF i = 2 THEN Readback ELSE q[i - 1]
            BY <2>1, <2>3, ReadbackSecond, EmptySeq
        <3> HIDE DEF r, t
        <3>3. 2 \in 1..Len(r) /\ r[2] = Readback
            BY <2>1, <3>2
        <3> QED BY <3>1, <3>3, ReadbackIsCommand DEF HasReadback, t
    <2>4. CASE ~(InFlight(s) /\ q # <<>>)
        <3> DEFINE r == <<Readback>> \o q
        <3>1. t.queue = r
            BY <1>2, <2>4 DEF QueueReadback, Sessions
        <3>2. Len(r) = Len(q) + 1
              /\ \A i \in 1..Len(r) : r[i] = IF i = 1 THEN Readback ELSE q[i - 1]
            BY <2>1, ReadbackFirst
        <3> HIDE DEF r, t
        <3>3. 1 \in 1..Len(r) /\ r[1] = Readback
            BY <2>1, <3>2
        <3> QED BY <3>1, <3>3, ReadbackIsCommand DEF HasReadback, t
    <2> QED BY <2>3, <2>4
<1> QED BY <1>1, <1>2

\* What an operator leaves of the session: everything but the queue, the response
\* awaited and the reconciliation.
Keeps(s, t) ==
    /\ t.pending = s.pending
    /\ t.initState = s.initState
    /\ t.initFailed = s.initFailed

\* A step of the queue leaves the requests of the handshake queued, or fails it.
KeepsAsking(s, t) ==
    s.initState # "INIT_DONE" =>
        \/ t.initFailed
        \/ t.initFailed = s.initFailed /\ \A type : Asks(s, type) => Asks(t, type)

\* What keeps asking keeps the handshake invariant.
LEMMA StillAsks ==
    ASSUME NEW s, NEW t, t.initState = s.initState, KeepsAsking(s, t), HandshakeAsks(s)
    PROVE  HandshakeAsks(t)
BY DEF KeepsAsking, HandshakeAsks

\* The same targets are pending or none.
LEMMA KeepsPending ==
    ASSUME NEW s, NEW t, t.pending = s.pending
    PROVE  HasPending(t) <=> HasPending(s)
BY DEF HasPending

\* schedule_transition_reconciliation_ queues a readback only for a pending
\* transition, and does nothing while a reconciliation is under way.
LEMMA ScheduleLemma ==
    ASSUME NEW s \in Sessions, SessionInv(s)
    PROVE  LET t == Schedule(s)
           IN  /\ t \in Sessions
               /\ SessionInv(t)
               /\ Keeps(s, t)
               /\ t.expected = s.expected
               /\ HasReadback(t) => HasReadback(s) \/ HasPending(s)
               /\ ReadbackInFlight(t) => ReadbackInFlight(s)
               /\ s.route = "TRANSITION" => t = s
               /\ \A type : Asks(s, type) => Asks(t, type)
<1> DEFINE t == Schedule(s)
<1>1. CASE ~HasPending(s) \/ s.route = "TRANSITION"
    <2>1. t = s
        BY <1>1 DEF Schedule
    <2> QED BY <2>1 DEF Keeps
<1>2. CASE HasPending(s) /\ s.route # "TRANSITION"
    <2> DEFINE r == [s EXCEPT !.route = "TRANSITION", !.attempts = 0]
    <2>1. t = QueueReadback(r)
        BY <1>2 DEF Schedule
    <2>2. r \in Sessions
        BY DEF Sessions, Routes
    <2>3. /\ r.route = "TRANSITION" /\ r.queue = s.queue /\ r.expected = s.expected
          /\ r.pending = s.pending /\ r.initState = s.initState /\ r.initFailed = s.initFailed
        BY DEF Sessions
    <2>4. ~HasReadback(s)
        BY <1>2 DEF SessionInv, ReadbackHasRoute
    <2>5. ~ReadbackInFlight(s)
        BY <2>4, QueueParts DEF ReadbackInFlight, SessionInv, HeadIsAwaited
    <2> HIDE DEF r
    <2>6. SessionInv(r)
        BY <2>2, <2>3, <2>5
        DEF SessionInv, HeadIsAwaited, InFlight, ReadbackIsNext, ReadbackHasRoute, AttemptsAreClear,
            FlightIsCounted, ReadbackInFlight
    <2>7. /\ t \in Sessions
          /\ SessionInv(t)
          /\ t = [r EXCEPT !.queue = t.queue]
          /\ ReadbackInFlight(t) => ReadbackInFlight(r)
          /\ \A type : Asks(r, type) => Asks(t, type)
        BY <2>1, <2>2, <2>3, <2>6, QueueReadbackLemma
    <2> HIDE DEF t
    <2>8. t.expected = r.expected /\ t.pending = r.pending /\ t.initState = r.initState /\ t.initFailed = r.initFailed
        BY <2>2, <2>7 DEF Sessions
    <2>9. ReadbackInFlight(r) <=> ReadbackInFlight(s)
        BY <2>3 DEF ReadbackInFlight, InFlight
    <2>10. \A type : Asks(r, type) <=> Asks(s, type)
        BY <2>3 DEF Asks
    <2> QED BY <1>2, <2>3, <2>7, <2>8, <2>9, <2>10 DEF Keeps, t
<1> QED BY <1>1, <1>2

\* Leaving the reconciliation is sound once no readback is queued.
LEMMA NoReconciliationLemma ==
    ASSUME NEW s \in Sessions, SessionInv(s), ~HasReadback(s)
    PROVE  LET t == NoReconciliation(s)
           IN  /\ t \in Sessions
               /\ SessionInv(t)
               /\ Keeps(s, t)
               /\ t.expected = s.expected /\ t.route = "NONE"
               /\ ~HasReadback(t)
               /\ \A type : Asks(s, type) => Asks(t, type)
<1> DEFINE t == NoReconciliation(s)
<1>1. t \in Sessions
    BY DEF NoReconciliation, Sessions, Routes
<1>2. /\ t.queue = s.queue /\ t.expected = s.expected /\ t.route = "NONE" /\ t.attempts = 0
      /\ t.pending = s.pending /\ t.initState = s.initState /\ t.initFailed = s.initFailed
    BY DEF NoReconciliation, Sessions
<1> HIDE DEF t
<1>3. ~HasReadback(t)
    BY <1>2 DEF HasReadback
<1>4. ~ReadbackInFlight(t)
    BY <1>1, <1>2, <1>3, QueueParts DEF ReadbackInFlight, SessionInv, HeadIsAwaited, InFlight
<1>5. SessionInv(t)
    BY <1>2, <1>3, <1>4
    DEF SessionInv, HeadIsAwaited, InFlight, ReadbackIsNext, ReadbackHasRoute, AttemptsAreClear, FlightIsCounted
<1> QED BY <1>1, <1>2, <1>3, <1>5 DEF Keeps, Asks, t

\* A readback is not a request of the handshake.
LEMMA NotEmptyCommand ==
    ASSUME NEW c, NEW type, IsReadback(c)
    PROVE  c # Empty(type)
BY DEF IsReadback, Empty

\* cancel_reconciliation_ leaves no readback queued, given that none is in flight.
LEMMA CancelLemma ==
    ASSUME NEW s \in Sessions, SessionInv(s), ~ReadbackInFlight(s)
    PROVE  LET t == Cancel(s)
           IN  /\ t \in Sessions
               /\ SessionInv(t)
               /\ Keeps(s, t)
               /\ t.expected = s.expected /\ t.route = "NONE"
               /\ ~HasReadback(t)
               /\ \A type : Asks(s, type) => Asks(t, type)
<1> DEFINE kept == IF Cancellable(s) = {} THEN s
                   ELSE [s EXCEPT !.queue = RemoveAt(@, CHOOSE i \in Cancellable(s) : TRUE)]
<1>1. /\ kept \in Sessions
      /\ SessionInv(kept)
      /\ Keeps(s, kept)
      /\ kept.expected = s.expected /\ kept.route = s.route
      /\ ~HasReadback(kept)
      /\ \A type : Asks(s, type) => Asks(kept, type)
    <2>1. CASE Cancellable(s) = {}
        <3>1. ASSUME NEW i \in 1..Len(s.queue), IsReadback(s.queue[i]) PROVE FALSE
            <4>1. i = 1 /\ InFlight(s)
                BY <2>1, <3>1 DEF Cancellable
            <4>2. Head(s.queue) = s.queue[1]
                BY <4>1, QueueParts, EmptySeq DEF SessionInv, HeadIsAwaited
            <4> QED BY <3>1, <4>1, <4>2 DEF ReadbackInFlight
        <3> QED BY <2>1, <3>1 DEF Keeps, HasReadback
    <2>2. CASE Cancellable(s) # {}
        <3> DEFINE k == CHOOSE i \in Cancellable(s) : TRUE
                   q == RemoveAt(s.queue, k)
        <3>1. k \in Cancellable(s)
            BY <2>2
        <3>2. k \in 1..Len(s.queue) /\ IsReadback(s.queue[k]) /\ (InFlight(s) => k > 1)
            BY <3>1 DEF Cancellable
        <3> HIDE DEF k
        <3>3. s.queue \in Seq(Commands) /\ Placed(s.queue)
            BY QueueParts DEF SessionInv
        <3>4. /\ q \in Seq(Commands)
              /\ Clean(q)
              /\ InFlight(s) => q # <<>> /\ Head(q) = Head(s.queue)
              /\ \A c : (\E i \in 1..Len(s.queue) : s.queue[i] = c) /\ ~IsReadback(c) =>
                       \E i \in 1..Len(q) : q[i] = c
            BY <3>2, <3>3, RemoveFromQueue
        <3>5. kept = [s EXCEPT !.queue = q]
            BY <2>2 DEF k
        <3> HIDE DEF q, kept
        <3>6. kept \in Sessions
            BY <3>4, <3>5, WithQueue
        <3>7. /\ kept.queue = q /\ kept.expected = s.expected /\ kept.route = s.route
              /\ kept.attempts = s.attempts /\ Keeps(s, kept)
            BY <3>5 DEF Sessions, Keeps
        <3>8. ~HasReadback(kept)
            BY <3>4, <3>6, <3>7, QueueParts
        <3>9. Placed(q)
            BY <3>4 DEF Placed, Clean
        <3>10. SessionInv(kept)
            BY <3>4, <3>6, <3>7, <3>8, <3>9, QueueParts
            DEF SessionInv, HeadIsAwaited, InFlight, ReadbackHasRoute, AttemptsAreClear, FlightIsCounted, ReadbackInFlight
        <3>11. \A type : ~IsReadback(Empty(type))
            BY NotEmptyCommand
        <3> QED BY <3>4, <3>6, <3>7, <3>8, <3>10, <3>11 DEF Asks
    <2> QED BY <2>1, <2>2
<1>2. Cancel(s) = IF s.route = "TRANSITION" /\ ~(InFlight(kept) /\ kept.queue # <<>> /\ IsReadback(Head(kept.queue)))
                  THEN NoReconciliation(kept) ELSE kept
    BY DEF Cancel
<1> HIDE DEF kept
<1>3. ~(InFlight(kept) /\ kept.queue # <<>> /\ IsReadback(Head(kept.queue)))
    BY <1>1, QueueParts
<1>4. CASE s.route # "TRANSITION"
    <2>1. s.route = "NONE"
        BY <1>4 DEF Sessions, Routes
    <2> QED BY <1>1, <1>2, <1>4, <2>1
<1>5. CASE s.route = "TRANSITION"
    <2>1. Cancel(s) = NoReconciliation(kept)
        BY <1>2, <1>3, <1>5
    <2> QED BY <1>1, <2>1, NoReconciliationLemma DEF Keeps
<1> QED BY <1>4, <1>5

\* The head of the queue, in flight or timed out, leaves it.
LEMMA DropLemma ==
    ASSUME NEW s \in Sessions, SessionInv(s), s.queue # <<>>,
           NEW t \in Sessions, t.queue = Tail(s.queue), t.expected = "NONE",
           t.route = s.route, t.attempts = s.attempts
    PROVE  /\ SessionInv(t)
           /\ HasReadback(t) => HasReadback(s)
           /\ IsReadback(Head(s.queue)) => ~HasReadback(t)
           /\ \A type : Asks(s, type) /\ Empty(type) # Head(s.queue) => Asks(t, type)
<1>1. s.queue \in Seq(Commands) /\ Placed(s.queue)
    BY QueueParts DEF SessionInv
<1>2. /\ Placed(Tail(s.queue))
      /\ Clean(s.queue) => Clean(Tail(s.queue))
      /\ IsReadback(Head(s.queue)) => Clean(Tail(s.queue))
      /\ \A c : (\E i \in 1..Len(s.queue) : s.queue[i] = c) /\ c # Head(s.queue) =>
               \E i \in 1..Len(Tail(s.queue)) : Tail(s.queue)[i] = c
    BY <1>1, TailOfQueue
<1>3. HasReadback(t) => HasReadback(s)
    BY <1>2, QueueParts
<1>4. SessionInv(t)
    BY <1>2, <1>3, QueueParts
    DEF SessionInv, HeadIsAwaited, InFlight, ReadbackHasRoute, AttemptsAreClear, FlightIsCounted, ReadbackInFlight
<1>5. IsReadback(Head(s.queue)) => ~HasReadback(t)
    BY <1>2, QueueParts
<1> QED BY <1>2, <1>3, <1>4, <1>5 DEF Asks

\* The head of the queue stays and waits to be sent again.
LEMMA FreeLemma ==
    ASSUME NEW s \in Sessions, SessionInv(s),
           NEW t \in Sessions, t.queue = s.queue, t.expected = "NONE",
           t.route = s.route, t.attempts = s.attempts
    PROVE  /\ SessionInv(t)
           /\ HasReadback(t) => HasReadback(s)
           /\ \A type : Asks(s, type) => Asks(t, type)
BY DEF SessionInv, HeadIsAwaited, InFlight, ReadbackIsNext, HasReadback, ReadbackHasRoute,
       AttemptsAreClear, FlightIsCounted, ReadbackInFlight, Asks

\* handle_command_ takes the answered command off the queue.
LEMMA CompleteLemma ==
    ASSUME NEW s \in Sessions, SessionInv(s), InFlight(s)
    PROVE  LET t == Complete(s)
           IN  /\ t \in Sessions
               /\ SessionInv(t)
               /\ Keeps(s, t)
               /\ ~InFlight(t)
               /\ t.route = s.route /\ t.attempts = s.attempts
               /\ HasReadback(t) => HasReadback(s)
               /\ IsReadback(Head(s.queue)) => ~HasReadback(t)
               /\ \A type : Asks(s, type) /\ Empty(type) # Head(s.queue) => Asks(t, type)
<1> DEFINE t == Complete(s)
<1>1. s.queue # <<>> /\ s.queue \in Seq(Commands)
    BY QueueParts DEF SessionInv, HeadIsAwaited
<1>2. Tail(s.queue) \in Seq(Commands)
    BY <1>1, TailOfQueue
<1>3. t \in Sessions
    <2>1. 0 \in 0..(MAX_RETRIES - 1)
        BY LimitsAssumption
    <2> QED BY <1>2, <2>1 DEF Complete, Sessions
<1>4. /\ t.queue = Tail(s.queue) /\ t.expected = "NONE"
      /\ t.route = s.route /\ t.attempts = s.attempts /\ Keeps(s, t)
    BY DEF Complete, Sessions, Keeps
<1> HIDE DEF t
<1> QED BY <1>1, <1>3, <1>4, DropLemma DEF InFlight, t

\* A timeout during the handshake keeps the request or fails the handshake.
LEMMA ExpireInitLemma ==
    ASSUME NEW s \in Sessions, SessionInv(s), InFlight(s)
    PROVE  LET t == ExpireInit(s)
           IN  /\ t \in Sessions
               /\ SessionInv(t)
               /\ KeepsAsking(s, t)
               /\ t.pending = s.pending
               /\ t.initState = s.initState
               /\ ~InFlight(t)
               /\ HasReadback(t) => HasReadback(s)
<1> DEFINE t == ExpireInit(s)
<1>1. s.queue # <<>> /\ s.queue \in Seq(Commands) /\ Tail(s.queue) \in Seq(Commands)
    BY QueueParts, TailOfQueue DEF SessionInv, HeadIsAwaited
<1>2. CASE s.initRetries + 1 < MAX_RETRIES
    <2>0. s.initRetries + 1 \in 0..(MAX_RETRIES - 1)
        BY <1>2, LimitsAssumption DEF Sessions
    <2>1. t \in Sessions
        BY <1>2, <2>0 DEF ExpireInit, Sessions
    <2>2. /\ t.queue = s.queue /\ t.expected = "NONE" /\ t.route = s.route
          /\ t.attempts = s.attempts /\ Keeps(s, t)
        BY <1>2 DEF ExpireInit, Sessions, Keeps
    <2> HIDE DEF t
    <2>3. /\ SessionInv(t)
          /\ HasReadback(t) => HasReadback(s)
          /\ \A type : Asks(s, type) => Asks(t, type)
        BY <2>1, <2>2, FreeLemma
    <2> QED BY <2>1, <2>2, <2>3 DEF Keeps, KeepsAsking, InFlight, t
<1>3. CASE ~(s.initRetries + 1 < MAX_RETRIES)
    <2>0. 0 \in 0..(MAX_RETRIES - 1)
        BY LimitsAssumption
    <2>1. t \in Sessions
        BY <1>1, <1>3, <2>0 DEF ExpireInit, Sessions
    <2>2. /\ t.queue = Tail(s.queue) /\ t.expected = "NONE" /\ t.route = s.route
          /\ t.attempts = s.attempts /\ t.pending = s.pending /\ t.initState = s.initState
          /\ t.initFailed = TRUE
        BY <1>3 DEF ExpireInit, Sessions
    <2> HIDE DEF t
    <2>3. SessionInv(t) /\ (HasReadback(t) => HasReadback(s))
        BY <1>1, <2>1, <2>2, DropLemma
    <2> QED BY <2>1, <2>2, <2>3 DEF KeepsAsking, InFlight, t
<1> QED BY <1>2, <1>3

\* A timeout after the handshake keeps the pending transitions, and queues a
\* readback only for one of them.
LEMMA ExpireDoneLemma ==
    ASSUME NEW s \in Sessions, SessionInv(s), InFlight(s)
    PROVE  LET t == ExpireDone(s)
           IN  /\ t \in Sessions
               /\ SessionInv(t)
               /\ Keeps(s, t)
               /\ ~InFlight(t)
               /\ HasReadback(t) => HasReadback(s) \/ HasPending(s)
<1> DEFINE t       == ExpireDone(s)
           freed   == [s EXCEPT !.expected = "NONE"]
           dropped == [freed EXCEPT !.queue = Tail(@)]
<1>1. s.queue # <<>> /\ s.queue \in Seq(Commands) /\ Tail(s.queue) \in Seq(Commands)
    BY QueueParts, TailOfQueue DEF SessionInv, HeadIsAwaited
<1>2. /\ freed \in Sessions /\ freed.queue = s.queue /\ freed.expected = "NONE"
      /\ freed.route = s.route /\ freed.attempts = s.attempts /\ Keeps(s, freed)
    BY DEF Sessions, Keeps
<1>3. /\ dropped \in Sessions /\ dropped.queue = Tail(s.queue) /\ dropped.expected = "NONE"
      /\ dropped.route = s.route /\ dropped.attempts = s.attempts /\ Keeps(s, dropped)
    BY <1>1 DEF Sessions, Keeps
<1>4. \/ t = dropped
      \/ t = freed
      \/ IsReadback(Head(s.queue)) /\ t = NoReconciliation(dropped)
      \/ t = Schedule(dropped)
    BY DEF ExpireDone
<1> HIDE DEF t, freed, dropped
<1>5. SessionInv(freed) /\ (HasReadback(freed) => HasReadback(s))
    BY <1>2, FreeLemma
<1>6. /\ SessionInv(dropped)
      /\ HasReadback(dropped) => HasReadback(s)
      /\ IsReadback(Head(s.queue)) => ~HasReadback(dropped)
    BY <1>1, <1>3, DropLemma
<1>7. CASE t = dropped
    BY <1>3, <1>6, <1>7 DEF InFlight, t
<1>8. CASE t = freed
    BY <1>2, <1>5, <1>8 DEF InFlight, t
<1>9. CASE IsReadback(Head(s.queue)) /\ t = NoReconciliation(dropped)
    BY <1>3, <1>6, <1>9, NoReconciliationLemma DEF InFlight, Keeps, t
<1>10. CASE t = Schedule(dropped)
    BY <1>3, <1>6, <1>10, ScheduleLemma, KeepsPending DEF InFlight, Keeps, t
<1> QED BY <1>4, <1>7, <1>8, <1>9, <1>10

\* The receive-timeout branch of process_command_queue_.
LEMMA ExpireLemma ==
    ASSUME NEW s \in Sessions, SessionInv(s)
    PROVE  LET t == Expire(s)
           IN  /\ t \in Sessions
               /\ SessionInv(t)
               /\ KeepsAsking(s, t)
               /\ t.pending = s.pending
               /\ t.initState = s.initState
               /\ InFlight(t) => t = s
               /\ ~InFlight(s) => t = s
               /\ HasReadback(t) => HasReadback(s) \/ HasPending(s)
<1>1. CASE ~InFlight(s) \/ s.age <= TIMEOUT
    BY <1>1 DEF Expire, KeepsAsking
<1>2. CASE InFlight(s) /\ s.initState = "INIT_DONE" /\ ~(s.age <= TIMEOUT)
    <2>1. Expire(s) = ExpireDone(s)
        BY <1>2 DEF Expire
    <2> QED BY <1>2, <2>1, ExpireDoneLemma DEF Keeps, KeepsAsking
<1>3. CASE InFlight(s) /\ s.initState # "INIT_DONE" /\ ~(s.age <= TIMEOUT)
    <2>1. Expire(s) = ExpireInit(s)
        BY <1>3 DEF Expire
    <2> QED BY <1>3, <2>1, ExpireInitLemma
<1> QED BY <1>1, <1>2, <1>3

\* send_raw_command_ on the head of the queue: nothing is sent while the buffer
\* holds anything, and a readback is counted.
LEMMA TransmitLemma ==
    ASSUME NEW s \in Sessions, SessionInv(s), NEW rxEmpty \in BOOLEAN
    PROVE  LET t == Transmit(s, rxEmpty)
           IN  /\ t \in Sessions
               /\ SessionInv(t)
               /\ Keeps(s, t)
               /\ t.queue = s.queue
               /\ ~rxEmpty => t = s
<1> DEFINE t == Transmit(s, rxEmpty)
<1>1. CASE ~CanTransmit(s, rxEmpty)
    BY <1>1 DEF Transmit, Keeps
<1>2. CASE CanTransmit(s, rxEmpty)
    <2>1. s.queue # <<>> /\ rxEmpty
        BY <1>2 DEF CanTransmit
    <2>2. s.queue \in Seq(Commands) /\ Head(s.queue) \in Commands
        BY <2>1, QueueParts, HeadTailProperties
    <2>3. ResponseOf(Head(s.queue).cmd) \in Responses /\ ResponseOf(Head(s.queue).cmd) # "NONE"
        BY <2>2, ResponseType DEF Commands
    <2>4. MaxAge \in Nat /\ 0 \in 0..MaxAge
        BY LimitsAssumption DEF MaxAge
    <2>5. t \in Sessions
        <3>1. s.attempts \in Nat /\ s.attempts + 1 \in Nat
            BY DEF Sessions
        <3> DEFINE a == IF IsReadback(Head(s.queue)) THEN s.attempts + 1 ELSE s.attempts
                   e == ResponseOf(Head(s.queue).cmd)
        <3>2. a \in Nat /\ e \in Responses \cup {"NONE"}
            BY <3>1, <2>3
        <3>3. t = [s EXCEPT !.expected = e, !.attempts = a, !.age = 0]
            BY <1>2 DEF Transmit
        <3> HIDE DEF a, e, t
        <3> QED BY <2>4, <3>2, <3>3 DEF Sessions
    <2>6. /\ t.queue = s.queue /\ t.expected = ResponseOf(Head(s.queue).cmd) /\ t.route = s.route
          /\ t.attempts = (IF IsReadback(Head(s.queue)) THEN s.attempts + 1 ELSE s.attempts)
          /\ Keeps(s, t)
        BY <1>2 DEF Transmit, Sessions, Keeps
    <2> HIDE DEF t
    <2>7. s.attempts \in Nat
        BY DEF Sessions
    <2>8. IsReadback(Head(s.queue)) => s.route = "TRANSITION"
        BY <2>1, QueueParts DEF SessionInv, ReadbackHasRoute
    <2>9. HeadIsAwaited(t)
        BY <2>1, <2>6 DEF HeadIsAwaited
    <2>10. ReadbackIsNext(t) /\ ReadbackHasRoute(t)
        BY <2>6 DEF SessionInv, ReadbackIsNext, ReadbackHasRoute, HasReadback
    <2>11. AttemptsAreClear(t)
        BY <2>6, <2>8 DEF SessionInv, AttemptsAreClear
    <2>12. FlightIsCounted(t)
        BY <2>6, <2>7 DEF FlightIsCounted, ReadbackInFlight
    <2> QED BY <2>1, <2>5, <2>6, <2>9, <2>10, <2>11, <2>12 DEF SessionInv, t
<1> QED BY <1>1, <1>2

\* process_command_queue_ without its stale-buffer branch. With bytes in the buffer
\* and nothing in flight it does nothing.
LEMMA ProcessQueueLemma ==
    ASSUME NEW s \in Sessions, SessionInv(s), NEW rxEmpty \in BOOLEAN
    PROVE  LET t == ProcessQueue(s, rxEmpty)
           IN  /\ t \in Sessions
               /\ SessionInv(t)
               /\ KeepsAsking(s, t)
               /\ t.pending = s.pending
               /\ t.initState = s.initState
               /\ ~rxEmpty /\ InFlight(t) => t = s
               /\ ~rxEmpty /\ ~InFlight(s) => t = s
               /\ HasReadback(t) => HasReadback(s) \/ HasPending(s)
<1> DEFINE e == Expire(s)
           t == Transmit(e, rxEmpty)
<1>1. /\ e \in Sessions /\ SessionInv(e) /\ KeepsAsking(s, e)
      /\ e.pending = s.pending /\ e.initState = s.initState
      /\ InFlight(e) => e = s
      /\ ~InFlight(s) => e = s
      /\ HasReadback(e) => HasReadback(s) \/ HasPending(s)
    BY ExpireLemma
<1> HIDE DEF e
<1>2. /\ t \in Sessions /\ SessionInv(t) /\ Keeps(e, t) /\ t.queue = e.queue
      /\ ~rxEmpty => t = e
    BY <1>1, TransmitLemma
<1> HIDE DEF t
<1>3. KeepsAsking(s, t) /\ (HasReadback(t) <=> HasReadback(e))
    BY <1>1, <1>2 DEF KeepsAsking, Asks, Keeps, HasReadback
<1> QED BY <1>1, <1>2, <1>3 DEF ProcessQueue, Keeps, e, t

\* send_command_ appends a command that is no readback.
LEMMA EnqueueLemma ==
    ASSUME NEW s \in Sessions, SessionInv(s), NEW c \in Commands, ~IsReadback(c)
    PROVE  LET t == Enqueue(s, c)
           IN  /\ t \in Sessions
               /\ SessionInv(t)
               /\ Keeps(s, t)
               /\ t.expected = s.expected /\ t.route = s.route /\ t.attempts = s.attempts
               /\ HasReadback(t) <=> HasReadback(s)
               /\ ReadbackInFlight(t) <=> ReadbackInFlight(s)
               /\ \A type : Asks(s, type) => Asks(t, type)
               /\ \A type : c = Empty(type) => Asks(t, type)
<1> DEFINE t == Enqueue(s, c)
           q == Append(s.queue, c)
<1>1. s.queue \in Seq(Commands)
    BY QueueParts
<1>2. /\ q \in Seq(Commands)
      /\ q # <<>>
      /\ s.queue # <<>> => Head(q) = Head(s.queue)
      /\ Placed(s.queue) => Placed(q)
      /\ Clean(q) <=> Clean(s.queue)
      /\ \A d : (\E i \in 1..Len(s.queue) : s.queue[i] = d) => \E i \in 1..Len(q) : q[i] = d
      /\ \E i \in 1..Len(q) : q[i] = c
    BY <1>1, AppendToQueue
<1>3. t = [s EXCEPT !.queue = q]
    BY DEF Enqueue
<1> HIDE DEF q, t
<1>4. t \in Sessions
    BY <1>2, <1>3, WithQueue
<1>5. /\ t.queue = q /\ t.expected = s.expected /\ t.route = s.route /\ t.attempts = s.attempts
      /\ Keeps(s, t)
    BY <1>3 DEF Sessions, Keeps
<1>6. HasReadback(t) <=> HasReadback(s)
    BY <1>2, <1>4, <1>5, QueueParts
<1>7. HeadIsAwaited(t)
    BY <1>2, <1>5 DEF SessionInv, HeadIsAwaited, InFlight
<1>8. ReadbackInFlight(t) <=> ReadbackInFlight(s)
    BY <1>2, <1>5 DEF ReadbackInFlight, InFlight, SessionInv, HeadIsAwaited
<1>9. SessionInv(t)
    BY <1>2, <1>4, <1>5, <1>6, <1>7, <1>8, QueueParts
    DEF SessionInv, ReadbackHasRoute, AttemptsAreClear, FlightIsCounted
<1> QED BY <1>2, <1>4, <1>5, <1>6, <1>8, <1>9 DEF Asks, t

\* A session with an empty queue and nothing in flight.
NewSession(t) ==
    /\ t \in Sessions
    /\ t.queue = <<>> /\ t.expected = "NONE" /\ t.route = "NONE" /\ t.attempts = 0
    /\ t.pending = Nothing /\ t.initState = "INIT_HEARTBEAT"

\* A new session satisfies the invariant.
LEMMA NewSessionLemma ==
    ASSUME NEW t, NewSession(t)
    PROVE  /\ SessionInv(t)
           /\ HandshakeAsks(t)
           /\ ~HasReadback(t)
           /\ ~InFlight(t)
<1>1. Len(t.queue) = 0
    BY DEF NewSession
<1> QED BY <1>1
        DEF NewSession, SessionInv, HandshakeAsks, HeadIsAwaited, InFlight, ReadbackIsNext, ReadbackHasRoute,
            HasReadback, AttemptsAreClear, FlightIsCounted, ReadbackInFlight

\* The session a hub is constructed with is new.
LEMMA InitSessionLemma == NewSession(InitSession)
<1>1. 0 \in 0..(MAX_RETRIES - 1) /\ <<>> \in Seq(Commands)
    BY LimitsAssumption
<1>2. 0 \in 0..MaxAge
    BY LimitsAssumption DEF MaxAge
<1>3. InitSession \in Sessions
    BY <1>1, <1>2 DEF InitSession, Sessions, InitStates, Responses, Batches, Nothing, Routes
<1> QED BY <1>3 DEF NewSession, InitSession

\* reset_protocol_session_ makes the session new.
LEMMA ResetSessionLemma ==
    ASSUME NEW s \in Sessions
    PROVE  NewSession(ResetSession(s))
<1>1. 0 \in 0..(MAX_RETRIES - 1) /\ <<>> \in Seq(Commands)
    BY LimitsAssumption
<1>2. ResetSession(s) \in Sessions
    BY <1>1 DEF ResetSession, InitSession, Sessions, InitStates, Responses, Batches, Nothing, Routes
<1> QED BY <1>2 DEF NewSession, InitSession, ResetSession

\* The pending transitions change and nothing else does.
LEMMA PendingLemma ==
    ASSUME NEW s \in Sessions, NEW p \in Batches
    PROVE  LET t == [s EXCEPT !.pending = p]
           IN  /\ t \in Sessions
               /\ SessionInv(s) => SessionInv(t)
               /\ HandshakeAsks(s) => HandshakeAsks(t)
               /\ t.pending = p
               /\ t.initState = s.initState /\ t.expected = s.expected /\ t.route = s.route
               /\ t.attempts = s.attempts /\ t.queue = s.queue
               /\ HasReadback(t) <=> HasReadback(s)
               /\ ReadbackInFlight(t) <=> ReadbackInFlight(s)
<1> DEFINE t == [s EXCEPT !.pending = p]
<1>1. t \in Sessions
    BY DEF Sessions
<1>2. /\ t.queue = s.queue /\ t.expected = s.expected /\ t.route = s.route /\ t.attempts = s.attempts
      /\ t.pending = p /\ t.initState = s.initState /\ t.initFailed = s.initFailed
    BY DEF Sessions
<1> HIDE DEF t
<1> QED BY <1>1, <1>2
        DEF SessionInv, HandshakeAsks, Asks, HeadIsAwaited, InFlight, ReadbackIsNext, ReadbackHasRoute, HasReadback,
            AttemptsAreClear, FlightIsCounted, ReadbackInFlight, t

\* record_pending_transition_ forgets no pending transition.
LEMMA RecordLemma ==
    ASSUME NEW s \in Sessions, NEW batch \in Batches
    PROVE  \E p \in Batches :
              /\ Record(s, batch) = [s EXCEPT !.pending = p]
              /\ \A d \in Dps : s.pending[d] # NoValue => p[d] # NoValue
<1> DEFINE p == [d \in Dps |-> IF d \in Transition /\ batch[d] # NoValue THEN batch[d] ELSE s.pending[d]]
<1>1. s.pending \in Batches
    BY DEF Sessions
<1>2. p \in Batches
    BY <1>1 DEF Batches
<1>3. Record(s, batch) = [s EXCEPT !.pending = p]
    BY DEF Record
<1>4. \A d \in Dps : s.pending[d] # NoValue => p[d] # NoValue
    OBVIOUS
<1> QED BY <1>2, <1>3, <1>4

\* clear_confirmed_transition_ gives up one transition at most: that of the datapoint,
\* if the report is authoritative or has its target.
LEMMA ClearConfirmedLemma ==
    ASSUME NEW s \in Sessions, NEW d \in Dps, NEW v \in Values, NEW authoritative \in BOOLEAN
    PROVE  \E p \in Batches :
              /\ ClearConfirmed(s, d, v, authoritative) = [s EXCEPT !.pending = p]
              /\ \A e \in Dps : s.pending[e] # NoValue /\ p[e] = NoValue =>
                    e = d /\ (authoritative \/ s.pending[e] = v)
<1>1. s.pending \in Batches
    BY DEF Sessions
<1>2. CASE s.pending[d] # NoValue /\ (authoritative \/ s.pending[d] = v)
    <2> DEFINE p == [s.pending EXCEPT ![d] = NoValue]
    <2>1. p \in Batches
        BY <1>1 DEF Batches
    <2>2. ClearConfirmed(s, d, v, authoritative) = [s EXCEPT !.pending = p]
        BY <1>2 DEF ClearConfirmed
    <2>3. \A e \in Dps : e # d => p[e] = s.pending[e]
        BY <1>1 DEF Batches
    <2> QED BY <1>2, <2>1, <2>2, <2>3
<1>3. CASE ~(s.pending[d] # NoValue /\ (authoritative \/ s.pending[d] = v))
    <2>1. ClearConfirmed(s, d, v, authoritative) = s
        BY <1>3 DEF ClearConfirmed
    <2>2. s = [s EXCEPT !.pending = s.pending]
        BY DEF Sessions
    <2> QED BY <1>1, <2>1, <2>2
<1> QED BY <1>2, <1>3

----------------------------------------------------------------------------
(* The queue without its readback *)

\* A queue without a readback is ordinary as it is.
LEMMA OrdinaryOfClean ==
    ASSUME NEW q, Clean(q)
    PROVE  Ordinary(q) = q
BY DEF Ordinary, Clean

\* The one readback of a queue is what Ordinary takes out.
LEMMA OrdinaryOfPlaced ==
    ASSUME NEW q \in Seq(Commands), Placed(q), NEW k \in 1..Len(q), IsReadback(q[k])
    PROVE  /\ Ordinary(q) = RemoveAt(q, k)
           /\ k = 1 \/ k = 2
           /\ Ordinary(q) \in Seq(Commands)
           /\ Len(Ordinary(q)) = Len(q) - 1
           /\ \A i \in 1..Len(Ordinary(q)) : Ordinary(q)[i] = IF i < k THEN q[i] ELSE q[i + 1]
<1> DEFINE readbacks == {i \in 1..Len(q) : IsReadback(q[i])}
<1>1. k \in readbacks /\ \A i \in readbacks : i = k
    BY DEF Placed
<1>2. (CHOOSE i \in readbacks : TRUE) = k
    BY <1>1
<1>3. Ordinary(q) = RemoveAt(q, k)
    BY <1>1, <1>2 DEF Ordinary
<1>4. k = 1 \/ k = 2
    BY DEF Placed
<1> HIDE DEF readbacks
<1> QED BY <1>3, <1>4, RemoveAtElements

\* What Ordinary takes out of a queue leaves a queue.
LEMMA OrdinaryIsQueue ==
    ASSUME NEW q \in Seq(Commands), Placed(q)
    PROVE  Ordinary(q) \in Seq(Commands)
<1>1. CASE Clean(q)
    BY <1>1, OrdinaryOfClean
<1>2. CASE ~Clean(q)
    <2>1. PICK k \in 1..Len(q) : IsReadback(q[k])
        BY <1>2 DEF Clean
    <2> QED BY <2>1, OrdinaryOfPlaced
<1> QED BY <1>1, <1>2

\* A queue that has a readback at k and the commands r at the other places.
LEMMA OrdinaryIs ==
    ASSUME NEW q \in Seq(Commands), Placed(q), NEW k \in 1..Len(q), IsReadback(q[k]),
           NEW r \in Seq(Commands), Len(r) = Len(q) - 1,
           \A i \in 1..Len(r) : r[i] = IF i < k THEN q[i] ELSE q[i + 1]
    PROVE  Ordinary(q) = r
<1>1. /\ Ordinary(q) \in Seq(Commands)
      /\ Len(Ordinary(q)) = Len(q) - 1
      /\ \A i \in 1..Len(Ordinary(q)) : Ordinary(q)[i] = IF i < k THEN q[i] ELSE q[i + 1]
    BY OrdinaryOfPlaced
<1>2. \A i \in 1..Len(r) : r[i] = Ordinary(q)[i]
    BY <1>1
<1> QED BY <1>1, <1>2, SeqEqual

\* queue_reconciliation_request_ lets no command overtake another.
LEMMA OrdinaryOfReadback ==
    ASSUME NEW q \in Seq(Commands), Clean(q)
    PROVE  /\ Ordinary(<<Readback>> \o q) = q
           /\ q # <<>> => Ordinary(<<Head(q), Readback>> \o Tail(q)) = q
<1>0. Len(q) \in Nat
    BY LenProperties
<1>1. Ordinary(<<Readback>> \o q) = q
    <2> DEFINE r == <<Readback>> \o q
    <2>1. /\ r \in Seq(Commands) /\ Placed(r) /\ Len(r) = Len(q) + 1
          /\ \A i \in 1..Len(r) : r[i] = IF i = 1 THEN Readback ELSE q[i - 1]
        BY ReadbackFirst
    <2> HIDE DEF r
    <2>2. 1 \in 1..Len(r) /\ IsReadback(r[1])
        BY <1>0, <2>1, ReadbackIsCommand
    <2>3. \A i \in 1..Len(q) : q[i] = IF i < 1 THEN r[i] ELSE r[i + 1]
        BY <1>0, <2>1
    <2>4. Len(q) = Len(r) - 1
        BY <1>0, <2>1
    <2> QED BY <2>1, <2>2, <2>3, <2>4, OrdinaryIs DEF r
<1>2. ASSUME q # <<>> PROVE Ordinary(<<Head(q), Readback>> \o Tail(q)) = q
    <2> DEFINE r == <<Head(q), Readback>> \o Tail(q)
    <2>1. /\ r \in Seq(Commands) /\ Placed(r) /\ Len(r) = Len(q) + 1
          /\ \A i \in 1..Len(r) : r[i] = IF i = 1 THEN q[1] ELSE IF i = 2 THEN Readback ELSE q[i - 1]
        BY <1>2, ReadbackSecond
    <2> HIDE DEF r
    <2>2. Len(q) \in Nat \ {0}
        BY <1>2, EmptySeq
    <2>3. 2 \in 1..Len(r) /\ IsReadback(r[2])
        BY <2>1, <2>2, ReadbackIsCommand
    <2>4. \A i \in 1..Len(q) : q[i] = IF i < 2 THEN r[i] ELSE r[i + 1]
        BY <2>1, <2>2
    <2>5. Len(q) = Len(r) - 1
        BY <2>1, <2>2
    <2> QED BY <2>1, <2>3, <2>4, <2>5, OrdinaryIs DEF r
<1> QED BY <1>1, <1>2

\* send_command_ appends to the ordinary commands.
LEMMA OrdinaryOfAppend ==
    ASSUME NEW q \in Seq(Commands), Placed(q), NEW c \in Commands, ~IsReadback(c)
    PROVE  /\ Ordinary(Append(q, c)) = Append(Ordinary(q), c)
<1> DEFINE r == Append(q, c)
           o == Ordinary(q)
<1>1. /\ r \in Seq(Commands) /\ Placed(r) /\ (Clean(r) <=> Clean(q))
      /\ Len(r) = Len(q) + 1
      /\ \A i \in 1..Len(q) : r[i] = q[i]
      /\ r[Len(q) + 1] = c
      /\ Len(q) \in Nat
    BY AppendToQueue, AppendProperties, LenProperties
<1>2. CASE Clean(q)
    BY <1>1, <1>2, OrdinaryOfClean
<1>3. CASE ~Clean(q)
    <2>1. PICK k \in 1..Len(q) : IsReadback(q[k])
        BY <1>3 DEF Clean
    <2>2. /\ o \in Seq(Commands) /\ Len(o) = Len(q) - 1
          /\ \A i \in 1..Len(o) : o[i] = IF i < k THEN q[i] ELSE q[i + 1]
        BY <2>1, OrdinaryOfPlaced
    <2> DEFINE a == Append(o, c)
    <2>3. /\ a \in Seq(Commands) /\ Len(a) = Len(o) + 1
          /\ \A i \in 1..Len(o) : a[i] = o[i]
          /\ a[Len(o) + 1] = c
        BY <2>2, AppendProperties
    <2> HIDE DEF r, o, a
    <2>4. Len(a) = Len(r) - 1 /\ Len(o) \in Nat
        BY <1>1, <2>1, <2>2, <2>3
    <2>5. k \in 1..Len(r) /\ IsReadback(r[k])
        BY <1>1, <2>1
    <2>6. \A i \in 1..Len(a) : a[i] = IF i < k THEN r[i] ELSE r[i + 1]
        <3> SUFFICES ASSUME NEW i \in 1..Len(a) PROVE a[i] = IF i < k THEN r[i] ELSE r[i + 1]
            OBVIOUS
        <3>1. CASE i = Len(o) + 1
            BY <1>1, <2>1, <2>2, <2>3, <3>1
        <3>2. CASE i \in 1..Len(o)
            BY <1>1, <2>1, <2>2, <2>3, <3>2
        <3> QED BY <2>3, <2>4, <3>1, <3>2
    <2> QED BY <1>1, <2>3, <2>4, <2>5, <2>6, OrdinaryIs DEF r, o, a
<1> QED BY <1>2, <1>3

\* What leaves the queue from its head leaves the ordinary commands from theirs,
\* unless it is the readback.
LEMMA OrdinaryOfTail ==
    ASSUME NEW q \in Seq(Commands), Placed(q), q # <<>>
    PROVE  /\ IsReadback(Head(q)) => Ordinary(Tail(q)) = Ordinary(q)
           /\ ~IsReadback(Head(q)) => /\ Ordinary(q) # <<>>
                                      /\ Head(Ordinary(q)) = Head(q)
                                      /\ Ordinary(Tail(q)) = Tail(Ordinary(q))
<1> DEFINE t == Tail(q)
           o == Ordinary(q)
<1>1. /\ t \in Seq(Commands) /\ Placed(t)
      /\ Clean(q) => Clean(t)
      /\ IsReadback(Head(q)) => Clean(t)
      /\ Len(t) = Len(q) - 1
      /\ \A i \in 1..Len(t) : t[i] = q[i + 1]
      /\ Len(q) \in Nat \ {0}
      /\ Head(q) = q[1]
    BY TailOfQueue, HeadTailProperties, EmptySeq
<1> HIDE DEF t
<1>2. CASE Clean(q)
    <2>1. 1 \in 1..Len(q)
        BY <1>1
    <2>2. ~IsReadback(Head(q))
        BY <1>1, <1>2, <2>1 DEF Clean
    <2>3. Ordinary(q) = q /\ Ordinary(t) = t
        BY <1>1, <1>2, OrdinaryOfClean
    <2> QED BY <2>2, <2>3 DEF t
<1>3. CASE IsReadback(Head(q))
    <2>1. 1 \in 1..Len(q) /\ IsReadback(q[1])
        BY <1>1, <1>3
    <2>2. \A i \in 1..Len(t) : t[i] = IF i < 1 THEN q[i] ELSE q[i + 1]
        BY <1>1
    <2>3. Ordinary(q) = t
        BY <1>1, <2>1, <2>2, OrdinaryIs
    <2> QED BY <1>1, <1>3, <2>3, OrdinaryOfClean DEF t
<1>4. CASE ~Clean(q) /\ ~IsReadback(Head(q))
    <2>1. PICK k \in 1..Len(q) : IsReadback(q[k])
        BY <1>4 DEF Clean
    <2>2. k = 2
        BY <1>1, <1>4, <2>1, OrdinaryOfPlaced
    <2>3. /\ o \in Seq(Commands) /\ Len(o) = Len(q) - 1
          /\ \A i \in 1..Len(o) : o[i] = IF i < 2 THEN q[i] ELSE q[i + 1]
        BY <2>1, <2>2, OrdinaryOfPlaced
    <2> HIDE DEF o
    <2>4. Len(o) \in Nat \ {0}
        BY <1>1, <2>1, <2>2, <2>3
    <2>5. o # <<>> /\ Head(o) = Head(q)
        BY <1>1, <2>3, <2>4, EmptySeq
    <2>6. /\ Tail(o) \in Seq(Commands) /\ Len(Tail(o)) = Len(o) - 1
          /\ \A i \in 1..Len(Tail(o)) : Tail(o)[i] = o[i + 1]
        BY <2>3, <2>5, HeadTailProperties
    <2> DEFINE p == Tail(o)
    <2> HIDE DEF p
    <2>7. 1 \in 1..Len(t) /\ IsReadback(t[1])
        BY <1>1, <2>1, <2>2
    <2>8. p \in Seq(Commands) /\ Len(p) = Len(t) - 1
        BY <1>1, <2>3, <2>6 DEF p
    <2>9. \A i \in 1..Len(p) : p[i] = IF i < 1 THEN t[i] ELSE t[i + 1]
        <3> SUFFICES ASSUME NEW i \in 1..Len(p) PROVE p[i] = t[i + 1]
            OBVIOUS
        <3>1. p[i] = o[i + 1] /\ Len(p) = Len(o) - 1
            BY <2>6 DEF p
        <3>2. i + 1 \in 1..Len(o) /\ ~(i + 1 < 2)
            BY <2>4, <3>1
        <3>3. o[i + 1] = q[i + 2]
            BY <2>3, <3>2
        <3>4. i + 1 \in 1..Len(t)
            BY <1>1, <2>3, <3>2
        <3> QED BY <1>1, <3>1, <3>3, <3>4
    <2>10. Ordinary(t) = p
        BY <1>1, <2>7, <2>8, <2>9, OrdinaryIs
    <2> QED BY <1>4, <2>5, <2>10 DEF t, o, p
<1> QED BY <1>2, <1>3, <1>4

\* What was appended comes off again.
LEMMA FrontOfAppend ==
    ASSUME NEW q \in Seq(Commands), NEW c \in Commands
    PROVE  Len(Append(q, c)) > 0 /\ Front(Append(q, c)) = q
<1> DEFINE r == Append(q, c)
           f == SubSeq(r, 1, Len(r) - 1)
<1>1. /\ r \in Seq(Commands) /\ Len(r) = Len(q) + 1 /\ Len(q) \in Nat
      /\ \A i \in 1..Len(q) : r[i] = q[i]
    BY AppendProperties, LenProperties
<1> HIDE DEF r
<1>2. \A i \in 1..(Len(r) - 1) : r[i] \in Commands
    BY <1>1, ElementOfSeq
<1>3. /\ f \in Seq(Commands)
      /\ Len(f) = IF 1 <= Len(r) - 1 THEN (Len(r) - 1) - 1 + 1 ELSE 0
      /\ \A i \in 1..((Len(r) - 1) - 1 + 1) : f[i] = r[1 + i - 1]
    BY <1>1, <1>2, SubSeqProperties
<1> HIDE DEF f
<1>4. Len(f) = Len(q) /\ \A i \in 1..Len(f) : f[i] = q[i]
    BY <1>1, <1>3
<1>5. f = q
    BY <1>3, <1>4, SeqEqual
<1> QED BY <1>1, <1>5 DEF Front, f, r
----------------------------------------------------------------------------
(* The methods of the session *)

\* The commands of t are those of s, or those behind the head of s, which was in
\* flight.
Served(s, t) ==
    \/ Ordinary(t.queue) = Ordinary(s.queue)
    \/ /\ InFlight(s)
       /\ ~IsReadback(Head(s.queue))
       /\ Ordinary(t.queue) = Tail(Ordinary(s.queue))

\* The same, and then at most one command at the end.
Ordered(s, t) ==
    LET after  == Ordinary(t.queue)
        before == Ordinary(s.queue)
    IN  \/ Served(s, t)
        \/ Len(after) > 0 /\ Front(after) = before
        \/ /\ InFlight(s)
           /\ ~IsReadback(Head(s.queue))
           /\ Len(after) > 0 /\ Front(after) = Tail(before)

\* The queue of a session, for the lemmas above.
LEMMA SessionQueue ==
    ASSUME NEW s \in Sessions, SessionInv(s)
    PROVE  s.queue \in Seq(Commands) /\ Placed(s.queue)
BY QueueParts DEF SessionInv

\* queue_reconciliation_request_ keeps the order of the other commands.
LEMMA QueueReadbackKeepsOrder ==
    ASSUME NEW s \in Sessions
    PROVE  Ordinary(QueueReadback(s).queue) = Ordinary(s.queue)
<1> DEFINE t == QueueReadback(s)
           q == s.queue
<1>1. CASE HasReadback(s)
    BY <1>1 DEF QueueReadback
<1>2. CASE ~HasReadback(s)
    <2>1. q \in Seq(Commands) /\ Clean(q)
        BY <1>2, QueueParts
    <2>2. /\ Ordinary(q) = q
          /\ Ordinary(<<Readback>> \o q) = q
          /\ q # <<>> => Ordinary(<<Head(q), Readback>> \o Tail(q)) = q
        BY <2>1, OrdinaryOfClean, OrdinaryOfReadback
    <2>3. CASE InFlight(s) /\ q # <<>>
        <3>1. t.queue = <<Head(q), Readback>> \o Tail(q)
            BY <1>2, <2>3 DEF QueueReadback, Sessions
        <3> QED BY <2>2, <2>3, <3>1
    <2>4. CASE ~(InFlight(s) /\ q # <<>>)
        <3>1. t.queue = <<Readback>> \o q
            BY <1>2, <2>4 DEF QueueReadback, Sessions
        <3> QED BY <2>2, <3>1
    <2> QED BY <2>3, <2>4
<1> QED BY <1>1, <1>2

\* schedule_transition_reconciliation_ keeps it.
LEMMA ScheduleKeepsOrder ==
    ASSUME NEW s \in Sessions
    PROVE  Ordinary(Schedule(s).queue) = Ordinary(s.queue)
<1> DEFINE r == [s EXCEPT !.route = "TRANSITION", !.attempts = 0]
<1>1. r \in Sessions /\ r.queue = s.queue
    BY DEF Sessions, Routes
<1>2. Schedule(s) = s \/ Schedule(s) = QueueReadback(r)
    BY DEF Schedule
<1> HIDE DEF r
<1> QED BY <1>1, <1>2, QueueReadbackKeepsOrder

\* cancel_reconciliation_ takes the readback out and nothing else.
LEMMA CancelKeepsOrder ==
    ASSUME NEW s \in Sessions, SessionInv(s)
    PROVE  Ordinary(Cancel(s).queue) = Ordinary(s.queue)
<1> DEFINE kept == IF Cancellable(s) = {} THEN s
                   ELSE [s EXCEPT !.queue = RemoveAt(@, CHOOSE i \in Cancellable(s) : TRUE)]
<1>1. kept \in Sessions /\ Ordinary(kept.queue) = Ordinary(s.queue)
    <2>1. CASE Cancellable(s) = {}
        BY <2>1
    <2>2. CASE Cancellable(s) # {}
        <3> DEFINE k == CHOOSE i \in Cancellable(s) : TRUE
                   q == RemoveAt(s.queue, k)
        <3>1. k \in Cancellable(s)
            BY <2>2
        <3>2. k \in 1..Len(s.queue) /\ IsReadback(s.queue[k])
            BY <3>1 DEF Cancellable
        <3> HIDE DEF k
        <3>3. q \in Seq(Commands) /\ Clean(q) /\ Ordinary(s.queue) = q
            BY <3>2, SessionQueue, RemoveFromQueue, OrdinaryOfPlaced
        <3>4. kept = [s EXCEPT !.queue = q]
            BY <2>2 DEF k
        <3> HIDE DEF q, kept
        <3>5. kept.queue = q /\ kept \in Sessions
            BY <3>3, <3>4, WithQueue DEF Sessions
        <3> QED BY <3>3, <3>5, OrdinaryOfClean
    <2> QED BY <2>1, <2>2
<1>2. Cancel(s) = kept \/ Cancel(s) = NoReconciliation(kept)
    BY DEF Cancel
<1> HIDE DEF kept
<1>3. NoReconciliation(kept).queue = kept.queue
    BY <1>1 DEF NoReconciliation, Sessions
<1> QED BY <1>1, <1>2, <1>3

\* The end of a report keeps it.
LEMMA SettleKeepsOrder ==
    ASSUME NEW s \in Sessions, SessionInv(s), NEW f
    PROVE  Ordinary(Settle(s, f).queue) = Ordinary(s.queue)
<1>1. \/ Settle(s, f) \in {s, Cancel(s), Schedule(s), QueueReadback(s)}
      \/ Settle(s, f) = NoReconciliation(s)
    BY DEF Settle
<1>2. NoReconciliation(s).queue = s.queue
    BY DEF NoReconciliation, Sessions
<1> QED BY <1>1, <1>2, CancelKeepsOrder, ScheduleKeepsOrder, QueueReadbackKeepsOrder

\* The head in flight leaves the queue.
LEMMA DropServes ==
    ASSUME NEW s \in Sessions, SessionInv(s), InFlight(s), NEW t, t.queue = Tail(s.queue)
    PROVE  Served(s, t)
<1>1. s.queue \in Seq(Commands) /\ Placed(s.queue) /\ s.queue # <<>>
    BY SessionQueue DEF SessionInv, HeadIsAwaited
<1> QED BY <1>1, OrdinaryOfTail DEF Served

\* handle_command_ takes off the command answered.
LEMMA CompleteServes ==
    ASSUME NEW s \in Sessions, SessionInv(s), InFlight(s)
    PROVE  Served(s, Complete(s))
<1>1. Complete(s).queue = Tail(s.queue)
    BY DEF Complete, Sessions
<1> QED BY <1>1, DropServes

\* process_command_queue_ takes off the command that timed out, or leaves it to be
\* sent again, and transmits without touching the queue.
LEMMA ProcessQueueServes ==
    ASSUME NEW s \in Sessions, SessionInv(s), NEW rxEmpty \in BOOLEAN
    PROVE  Served(s, ProcessQueue(s, rxEmpty))
<1> DEFINE e       == Expire(s)
           freed   == [s EXCEPT !.expected = "NONE"]
           dropped == [freed EXCEPT !.queue = Tail(@)]
<1>1. Served(s, e)
    <2>1. CASE ~InFlight(s) \/ s.age <= TIMEOUT
        BY <2>1 DEF Expire, Served
    <2>2. CASE InFlight(s) /\ ~(s.age <= TIMEOUT) /\ s.initState # "INIT_DONE"
        <3>1. e.queue = s.queue \/ e.queue = Tail(s.queue)
            BY <2>2 DEF Expire, ExpireInit, Sessions
        <3> QED BY <2>2, <3>1, DropServes DEF Served
    <2>3. CASE InFlight(s) /\ ~(s.age <= TIMEOUT) /\ s.initState = "INIT_DONE"
        <3>1. e \in {freed, dropped, NoReconciliation(dropped), Schedule(dropped)}
            BY <2>3 DEF Expire, ExpireDone
        <3>2. s.queue \in Seq(Commands) /\ Tail(s.queue) \in Seq(Commands)
            BY <2>3, SessionQueue, TailOfQueue DEF SessionInv, HeadIsAwaited
        <3>3. /\ freed.queue = s.queue /\ dropped.queue = Tail(s.queue)
              /\ dropped \in Sessions /\ NoReconciliation(dropped).queue = dropped.queue
            BY <3>2 DEF Sessions, NoReconciliation
        <3> HIDE DEF e, freed, dropped
        <3>4. Served(s, dropped)
            BY <2>3, <3>3, DropServes
        <3>5. Ordinary(Schedule(dropped).queue) = Ordinary(dropped.queue)
            BY <3>3, ScheduleKeepsOrder
        <3> QED BY <3>1, <3>3, <3>4, <3>5 DEF Served
    <2> QED BY <2>1, <2>2, <2>3
<1>2. e \in Sessions /\ SessionInv(e)
    BY ExpireLemma
<1> HIDE DEF e
<1>3. Transmit(e, rxEmpty).queue = e.queue
    BY <1>2, TransmitLemma
<1> QED BY <1>1, <1>3 DEF ProcessQueue, Served, e

\* send_command_: the new command comes last, and the queue then runs.
LEMMA SentInOrder ==
    ASSUME NEW s \in Sessions, SessionInv(s), NEW c \in Commands, ~IsReadback(c),
           NEW rxEmpty \in BOOLEAN
    PROVE  /\ Ordered(s, Enqueue(s, c))
           /\ Ordered(s, ProcessQueue(Enqueue(s, c), rxEmpty))
<1> DEFINE e == Enqueue(s, c)
           t == ProcessQueue(e, rxEmpty)
           before == Ordinary(s.queue)
<1>1. e \in Sessions /\ SessionInv(e) /\ e.expected = s.expected
    BY EnqueueLemma
<1>2. s.queue \in Seq(Commands) /\ Placed(s.queue) /\ (InFlight(s) => s.queue # <<>>)
    BY SessionQueue DEF SessionInv, HeadIsAwaited
<1>3. e.queue = Append(s.queue, c)
    BY DEF Enqueue, Sessions
<1>4. Ordinary(e.queue) = Append(before, c) /\ before \in Seq(Commands)
    BY <1>2, <1>3, OrdinaryOfAppend, OrdinaryIsQueue
<1>5. /\ InFlight(e) <=> InFlight(s)
      /\ InFlight(s) => Head(e.queue) = Head(s.queue)
    BY <1>1, <1>2, <1>3, AppendToQueue DEF InFlight
<1>6. Served(e, t)
    BY <1>1, ProcessQueueServes
<1>7. InFlight(s) /\ ~IsReadback(Head(s.queue)) => before # <<>>
    BY <1>2, OrdinaryOfTail
<1> HIDE DEF e, t, before
<1>8. Len(Ordinary(e.queue)) > 0 /\ Front(Ordinary(e.queue)) = before
    BY <1>4, FrontOfAppend
<1>9. CASE Ordinary(t.queue) = Ordinary(e.queue)
    BY <1>8, <1>9 DEF Ordered, e, t, before
<1>10. CASE InFlight(e) /\ ~IsReadback(Head(e.queue)) /\ Ordinary(t.queue) = Tail(Ordinary(e.queue))
    <2>1. InFlight(s) /\ ~IsReadback(Head(s.queue)) /\ before # <<>>
        BY <1>5, <1>7, <1>10
    <2>2. Tail(before) \in Seq(Commands) /\ Tail(Append(before, c)) = Append(Tail(before), c)
        BY <1>4, <2>1, HeadTailProperties, HeadTailAppend
    <2>3. Len(Ordinary(t.queue)) > 0 /\ Front(Ordinary(t.queue)) = Tail(before)
        BY <1>4, <1>10, <2>2, FrontOfAppend
    <2> QED BY <1>8, <2>1, <2>3 DEF Ordered, e, t, before
<1> QED BY <1>6, <1>9, <1>10 DEF Served
=============================================================================
