------------------------------ MODULE DreoLink ------------------------------
(***************************************************************************)
(* The hub as its clients meet it, once the handshake is done: datapoints  *)
(* they set, the table and the pending targets they read, and the reports  *)
(* that call their listeners.  Behind it are the same session operators as *)
(* in DreoHub, the wire, and an MCU that does what it is told.             *)
(*                                                                         *)
(* A program is a record with at least the fields session and table; the   *)
(* client adds its own.  Frames are delivered whole and in order, neither  *)
(* lost nor late: what the hub does about the others is DreoHub's subject. *)
(***************************************************************************)
EXTENDS DreoSession, FiniteSets

CONSTANT
    MaxDp      \* the largest datapoint id

ASSUME LinkAssumption == MaxDp \in Nat /\ Dps \subseteq 1..MaxDp

VARIABLES
    program,   \* the session and the table of the hub, and the client's state
    mcu,       \* what the datapoints are
    toMcu,     \* commands on the wire
    reports    \* reports on the wire

----------------------------------------------------------------------------
(* What a client calls *)

One(d, v) == [Nothing EXCEPT ![d] = v]

IsPending(p, d)   == p.session.pending[d] # NoValue
IsTrue(p, d)      == p.table[d] = 1
TargetIsTrue(p, d) == Target(p.session, p.table, d) = 1

\* set_boolean_datapoint_value, set_integer_datapoint_value
Set(p, d, v) ==
    IF NeedsSend(p.session, p.table, One(d, v), FALSE)
    THEN [p EXCEPT !.session = Enqueue(Record(@, One(d, v)), Deliver(One(d, v)))]
    ELSE p

----------------------------------------------------------------------------
(* A report: handle_command_ takes its datapoints over one by one, in order,
   and after each calls the client's listener. *)

\* What the report completes, and whether it may contradict what is pending.
Outcome(s) ==
    LET completes == s.expected = "DATAPOINT_REPORT"
    IN  [completes     |-> completes,
         delivered     |-> completes /\ Head(s.queue).cmd = "DATAPOINT_DELIVER",
         authoritative |-> completes /\ IsReadback(Head(s.queue))]

Answered(p) == [p EXCEPT !.session = IF Outcome(@).completes THEN Complete(@) ELSE @]

TakeOver(p, report, authoritative, d) ==
    [p EXCEPT !.session = ClearConfirmed(@, d, report[d], authoritative),
              !.table[d] = report[d]]

\* handle_command_ for a report, from its first datapoint to what it schedules.
TakeReport(p, report, Listener(_, _)) ==
    LET outcome == Outcome(p.session)
        Take(q, d) == IF d \in Written(report)
                      THEN Listener(TakeOver(q, report, outcome.authoritative, d), d) ELSE q
        \* The program once the datapoints up to d are taken over.
        upTo[d \in 0..MaxDp] == IF d = 0 THEN Answered(p) ELSE Take(upTo[d - 1], d)
    IN  [upTo[MaxDp] EXCEPT !.session = Settle(@, outcome)]

----------------------------------------------------------------------------
(* The wire *)

\* process_command_queue_, when nothing has timed out.
Transmission ==
    LET s == [program.session EXCEPT !.age = MaxAge]
    IN  /\ CanTransmit(s, TRUE)
        /\ program' = [program EXCEPT !.session = [Transmit(s, TRUE) EXCEPT !.age = 0]]
        /\ toMcu' = Append(toMcu, Head(s.queue))
        /\ UNCHANGED <<mcu, reports>>

\* The MCU carries out a command and reports all its datapoints, as in the
\* captures of protocol/04_cloud_control.txt; a query it just answers.
Apply(state, batch) == [d \in Dps |-> IF batch[d] # NoValue THEN batch[d] ELSE state[d]]

Execution ==
    /\ toMcu # <<>>
    /\ mcu' = Apply(mcu, Head(toMcu).writes)
    /\ toMcu' = Tail(toMcu)
    /\ reports' = Append(reports, mcu')
    /\ UNCHANGED program

\* Nothing is left to be sent, carried out or reported.
Quiet == program.session.queue = <<>> /\ toMcu = <<>> /\ reports = <<>>

\* The commands the MCU has yet to carry out.
Ahead == toMcu \o IF InFlight(program.session) THEN Tail(program.session.queue)
                  ELSE program.session.queue

\* What a datapoint will be once the first n of some commands are carried out.
Becomes(state, commands, n, d) ==
    LET writing == {i \in 1..n : commands[i].writes[d] # NoValue}
    IN  IF writing = {} THEN state[d] ELSE commands[Max(writing)].writes[d]

\* What the MCU's datapoints will be once all that was commanded is done.
Commanded == [d \in Dps |-> Becomes(mcu, Ahead, Len(Ahead), d)]

\* Does what the hub tells its clients of datapoints agree with what it will
\* send? It does not while a readback, answered ahead of a write, has cleared
\* the target of that write; nor while a datapoint that is no transition, and
\* has no target, is being written.
TargetsCurrent(datapoints) ==
    LET commanded == Commanded
    IN  \A d \in datapoints : Target(program.session, program.table, d) = commanded[d]
============================================================================
