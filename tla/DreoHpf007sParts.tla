-------------------------- MODULE DreoHpf007sParts --------------------------
(***************************************************************************)
(* The parts of the DR-HPF007S coordinator that its commands do not        *)
(* couple: the head's position, the width of its sweeps, presence, and the *)
(* connection indicator (src/components/dreo_hpf007s).  They share the hub *)
(* and nothing else, so a behaviour exercises one of them.                 *)
(*                                                                         *)
(* A structured datapoint is several here, one for each field: its id is   *)
(* twice the program's, plus the number of the field.  A field that a      *)
(* write leaves empty is one it does not write.                            *)
(***************************************************************************)
EXTENDS DreoLink

CONSTANTS
    Parts,       \* the parts exercised
    Moved,       \* axes whose position the user sets
    Degrees,     \* positions the head may have; 0 is where it calibrates
    Widths,      \* widths the user may choose for a sweep, even
    REST,        \* what the MCU reports of the sweep of an axis that is idle
    TRAVEL,      \* POSITION_TRAVEL_TIMEOUT_MS, in ticks
    DEBOUNCE,    \* WIFI_LOSS_DEBOUNCE_MS, in ticks
    MaxAhead,    \* controls are given while at most so many commands wait
    MaxReports,  \* bound on the reports on the wire while it or the user starts anything
    SensedWhileOff   \* do reports carry presence and zone while the fan is off?

ASSUME PartsAssumption ==
    /\ Parts \subseteq {"position", "sweep", "presence", "indicator"}
    /\ Moved \subseteq {"HORIZONTAL", "VERTICAL"}
    /\ 0 \in Degrees /\ \A w \in Widths : w > 0 /\ w % 2 = 0
    /\ {TRAVEL, DEBOUNCE, MaxAhead, MaxReports} \subseteq Nat
    /\ SensedWhileOff \in BOOLEAN

\* Datapoint ids of the product, doubled: the two fields of a sweep and of a
\* position, one for each axis, are told apart by the last bit.
POWER == 2
MODE == 4
AXES == 10
PRESENCE == 46
ZONE == 48

Axes == {"HORIZONTAL", "VERTICAL"}
axis_bit == [HORIZONTAL |-> 1, VERTICAL |-> 2]
Other(axis) == CHOOSE a \in Axes : a # axis
SWEEP == [VERTICAL |-> 14, HORIZONTAL |-> 15]
POSITION == [VERTICAL |-> 16, HORIZONTAL |-> 17]

Positions == {POSITION[a] : a \in Axes}
Sweeps == {SWEEP[a] : a \in Axes}
AxisOf(d) == CHOOSE a \in Axes : d \in {SWEEP[a], POSITION[a]}
Sensed == {PRESENCE, ZONE}
Shown == {POWER, MODE, AXES} \cup Positions \cup Sweeps \cup Sensed

VARIABLES
    part,      \* the part that is exercised
    heading,   \* where the MCU moves each axis
    homing,    \* does it calibrate them?
    lamp,      \* what its indicator shows
    asked,     \* history: the position asked for that is not settled yet
    crossed,   \* history: has a report of another crossed that request?
    chosen,    \* history: the width last chosen for each axis
    gone,      \* history: for how long Wi-Fi has been lost
    heard      \* history: what of presence and zone came while on, since power-on

world == <<heading, homing, lamp>>
history == <<asked, crossed, chosen, gone, heard>>
vars == <<part, program, mcu, toMcu, reports, world, history>>

Swings(state, a) == state[AXES] # NoValue /\ (state[AXES] \div axis_bit[a]) % 2 = 1
NoAxis == [a \in Axes |-> NoValue]

\* The field of a sweep of some width: a horizontal one is symmetric.
Field(a, width) == IF a = "HORIZONTAL" THEN width \div 2 ELSE width
WidthOf(a, field) == IF a = "HORIZONTAL" THEN field * 2 ELSE field

----------------------------------------------------------------------------
(* Reports *)

power_confirmed_on(p) == IsTrue(p, POWER) /\ ~IsPending(p, POWER)

\* publish_presence_
publish_presence(p) ==
    IF ~IsTrue(p, POWER) THEN p
    ELSE [p EXCEPT !.shown = [x \in Sensed |-> IF p.kept[x] # NoValue THEN p.kept[x] ELSE @[x]]]

\* MUTANT: what was received stays.
Mut_handle_power(p) ==
    IF IsTrue(p, POWER) THEN p ELSE [p EXCEPT !.shown = [x \in Sensed |-> NoValue]]

\* handle_power_, for presence and zone.
handle_power(p) ==
    IF IsTrue(p, POWER) THEN p
    ELSE [p EXCEPT !.kept = [x \in Sensed |-> NoValue], !.shown = [x \in Sensed |-> NoValue]]

\* A sweeping axis has no position to be waited for.
handle_axes(p) == [p EXCEPT !.pending = [a \in Axes |-> @[a] /\ ~Swings(p.table, a)]]

\* handle_sweep_
handle_sweep(p) ==
    [p EXCEPT !.setting = [a \in Axes |->
        IF @[a] = NoValue \/ Swings(p.table, a) THEN WidthOf(a, p.table[SWEEP[a]]) ELSE @[a]]]

\* MUTANTS: a target that is contradicted is given up at once; it is kept until
\* the head arrives, however long that takes.
MutEager_handle_position(p, a) ==
    LET degrees == p.table[POSITION[a]]
        q == [p EXCEPT !.measured[a] = degrees]
    IN  [q EXCEPT !.pending[a] = @ /\ p.target[a] = degrees, !.target[a] = degrees]
MutPatient_handle_position(p, a) ==
    LET degrees == p.table[POSITION[a]]
        differs == p.target[a] # degrees
        q == [p EXCEPT !.measured[a] = degrees]
    IN  IF ~p.pending[a] THEN [q EXCEPT !.target[a] = degrees]
        ELSE IF ~differs /\ p.saw_mismatch[a] THEN [q EXCEPT !.pending[a] = FALSE]
        ELSE [q EXCEPT !.saw_mismatch[a] = @ \/ differs]

\* handle_position_, for one axis. A target is pending until a report of it
\* follows one that differs, or the head has had the time to travel.
handle_position(p, a) ==
    LET degrees == p.table[POSITION[a]]
        differs == p.target[a] # degrees
        arrived == ~differs /\ p.saw_mismatch[a]
        timed_out == p.waited[a] >= TRAVEL
        q == [p EXCEPT !.measured[a] = degrees]
    IN  IF ~p.pending[a] THEN [q EXCEPT !.target[a] = degrees]
        ELSE IF arrived THEN [q EXCEPT !.pending[a] = FALSE]
        ELSE [q EXCEPT !.saw_mismatch[a] = @ \/ differs,
                       !.pending[a] = ~timed_out,
                       !.target[a] = IF timed_out THEN degrees ELSE @]

\* handle_datapoint_. The fields of a sweep are reported together.
HandleDatapoint(p, d) ==
    CASE d = POWER -> handle_power(p)
      [] d = AXES -> handle_axes(p)
      [] d = SWEEP["HORIZONTAL"] -> handle_sweep(p)
      [] d \in Positions -> handle_position(p, AxisOf(d))
      [] d \in Sensed -> publish_presence([p EXCEPT !.kept[d] = p.table[d]])
      [] OTHER -> p

\* handle_report_: a full report without the position says that the head calibrates.
handle_report(p, ids) ==
    IF {POWER, MODE} \subseteq ids /\ ids \cap Positions = {}
    THEN [p EXCEPT !.measured = NoAxis] ELSE p

----------------------------------------------------------------------------
(* Controls *)

\* set_datapoint_values, whose authorizer refuses everything here without power.
SetBatch(p, batch) ==
    IF ~power_confirmed_on(p) THEN p
    ELSE [p EXCEPT !.session = Enqueue(Record(@, batch), Deliver(batch))]

\* The text of a position with an empty field is never the one last reported.
control_position(p, a, degrees) ==
    IF ~power_confirmed_on(p) THEN p
    ELSE [SetBatch(p, One(POSITION[a], degrees)) EXCEPT
             !.target[a] = degrees, !.pending[a] = TRUE, !.saw_mismatch[a] = FALSE, !.waited[a] = 0]

\* calibrate writes 0, or two empty fields, which the MCU takes like two zeros.
calibrate(p, axes) ==
    SetBatch(p, [d \in Dps |-> IF \E a \in axes : POSITION[a] = d THEN 0 ELSE NoValue])

\* MUTANT: the other axis is written as it was reported.
Mut_control_sweep(p, a, width) ==
    LET fields == [d \in Dps |-> IF d = SWEEP[a] THEN Field(a, width)
                                 ELSE IF d \in Sweeps THEN p.table[d] ELSE NoValue]
    IN  IF NeedsSend(p.session, p.table, fields, FALSE)
        THEN [SetBatch(p, fields) EXCEPT !.setting[a] = IF power_confirmed_on(p) THEN width ELSE @]
        ELSE [p EXCEPT !.setting[a] = width]

\* control_sweep writes both axes: the other one as it is set, not as it was
\* reported, since an idle axis is reported at rest.
control_sweep(p, a, width) ==
    LET b      == Other(a)
        other  == IF p.setting[b] = NoValue THEN p.table[SWEEP[b]] ELSE Field(b, p.setting[b])
        fields == [d \in Dps |-> IF d = SWEEP[a] THEN Field(a, width)
                                 ELSE IF d = SWEEP[b] THEN other ELSE NoValue]
    IN  IF NeedsSend(p.session, p.table, fields, FALSE)
        THEN [SetBatch(p, fields) EXCEPT !.setting[a] = IF power_confirmed_on(p) THEN width ELSE @]
        ELSE [p EXCEPT !.setting[a] = width]

----------------------------------------------------------------------------
(* The connection indicator *)

Derived(p) == IF ~p.wifi THEN "FLASHING" ELSE IF p.subscriber THEN "SOLID" ELSE "OFF"

\* evaluate_connection_indication_. statuses are the hub's commands that carry
\* one; they leave the queue in order.
evaluate(p) ==
    IF \/ p.session.initState # "INIT_DONE"
       \/ ~p.wifi /\ p.lost < DEBOUNCE
       \/ Derived(p) = p.sent
    THEN p
    ELSE [p EXCEPT !.sent = Derived(p), !.statuses = Append(@, Derived(p))]

\* MUTANT: a loss counts from the one before.
Mut_set_wifi_connected(p, connected) == evaluate([p EXCEPT !.wifi = connected])

set_wifi_connected(p, connected) ==
    evaluate([p EXCEPT !.wifi = connected, !.lost = IF ~connected /\ p.wifi THEN 0 ELSE @])

set_state_subscriber_connected(p, connected) == evaluate([p EXCEPT !.subscriber = connected])

\* MUTANT: what was sent before the session restarted is not sent again.
Mut_initialized(p) == evaluate([p EXCEPT !.session.initState = "INIT_DONE"])

\* The callbacks of the hub: initialized, module reset requested.
initialized(p) == evaluate([p EXCEPT !.session.initState = "INIT_DONE", !.sent = "UNKNOWN"])
module_reset(p) == [p EXCEPT !.session = ResetSession(@), !.statuses = <<>>, !.sent = "UNKNOWN"]

----------------------------------------------------------------------------
(* The MCU *)

\* What it reports of its state: an idle axis has its sweep at rest, while the head
\* calibrates there is no position, and presence is not sensed while off.
Reported(state) ==
    [d \in Dps |->
        IF \E a \in Axes : d = SWEEP[a] /\ ~Swings(state, a) THEN REST
        ELSE IF \/ homing /\ d \in Positions
                \/ ~SensedWhileOff /\ state[POWER] = 0 /\ d \in Sensed THEN NoValue
        ELSE state[d]]
Some(report, ids) == [d \in Dps |-> IF d \in ids THEN report[d] ELSE NoValue]

\* It answers with its whole table, and with a commanded position at once.
Executes ==
    /\ toMcu # <<>>
    /\ LET writes == Head(toMcu).writes
           moved  == {a \in Axes : writes[POSITION[a]] # NoValue}
       IN  /\ homing' \in {homing, homing \/ \E a \in moved : writes[POSITION[a]] = 0}
           /\ heading' = [a \in Axes |-> IF a \in moved THEN writes[POSITION[a]] ELSE heading[a]]
           /\ mcu' = Apply(mcu, Some(writes, Dps \ Positions))
           /\ reports' = Append(reports,
                [d \in Dps |-> IF homing' /\ d \in Positions THEN NoValue
                               ELSE IF d \in Positions THEN Apply(mcu, writes)[d] ELSE Reported(mcu')[d]])
    /\ toMcu' = Tail(toMcu)
    /\ UNCHANGED <<part, program, lamp, history>>

Travels == homing \/ \E a \in Axes : heading[a] # mcu[POSITION[a]]

\* A position that is being written, or about to be.
Writing(a) ==
    \/ \E i \in 1..Len(toMcu) : toMcu[i].writes[POSITION[a]] # NoValue
    \/ \E i \in 1..Len(program.session.queue) : program.session.queue[i].writes[POSITION[a]] # NoValue

\* Positions reported now cross those that are being written.
Crossing == crossed' = [a \in Axes |-> crossed[a] \/ (asked[a] # NoValue /\ Writing(a))]

Arrives ==
    /\ Travels
    /\ homing' = FALSE
    /\ mcu' = [d \in Dps |-> IF d \in Positions THEN heading[AxisOf(d)] ELSE mcu[d]]
    /\ reports' = Append(reports, Some(mcu', Positions))
    /\ Crossing
    /\ UNCHANGED <<part, program, toMcu, heading, lamp, asked, chosen, gone, heard>>

\* It reports its table, or some of it, when it likes.
Announces(ids) ==
    /\ part # "indicator"
    /\ Len(reports) < MaxReports
    /\ reports' = Append(reports, Some(Reported(mcu), ids))
    /\ IF ids \cap Positions # {} THEN Crossing ELSE UNCHANGED crossed
    /\ UNCHANGED <<part, program, mcu, toMcu, world, asked, chosen, gone, heard>>

Periodic == Announces(Shown)

\* Someone uses the panel or the remote, when nothing is under way: the head is
\* moved, an axis is set swinging or stopped, a sweep is widened, the fan goes on
\* or off. Presence changes by itself, but not while the fan is off. The changes
\* are reported by themselves or with everything else.
Changes ==
    CASE part = "position" -> {AXES} \cup {POSITION[a] : a \in Moved}
      [] part = "sweep"    -> {AXES} \cup {SWEEP[a] : a \in {b \in Axes : Swings(mcu, b)}}
      [] part = "presence" -> {POWER} \cup IF mcu[POWER] = 1 THEN Sensed ELSE {}
      [] OTHER             -> {}

Possible(d) ==
    CASE d = POWER        -> {0, 1}
      [] d = AXES         -> IF part = "sweep" THEN 0..3 ELSE {0} \cup {axis_bit[a] : a \in Moved}
      [] d \in Positions  -> Degrees
      [] d \in Sensed     -> {0, 1}
      [] OTHER            -> {Field(AxisOf(d), w) : w \in Widths}

\* The datapoints that are fields of the same one.
Together(d) == IF d \in Positions THEN Positions ELSE IF d \in Sweeps THEN Sweeps ELSE {d}

Press(d, v, whole) ==
    /\ Quiet /\ ~Travels
    /\ mcu' = [mcu EXCEPT ![d] = v]
    /\ heading' = [a \in Axes |-> mcu'[POSITION[a]]]
    /\ reports' = <<Some(Reported(mcu'), IF whole THEN Shown ELSE Together(d))>>
    /\ asked' = IF d \in Positions THEN NoAxis ELSE asked
    /\ chosen' = [a \in Axes |-> IF d = SWEEP[a] THEN WidthOf(a, v) ELSE chosen[a]]
    /\ UNCHANGED <<part, program, toMcu, homing, lamp, crossed, gone, heard>>

----------------------------------------------------------------------------
(* Steps of the program *)

Init ==
    /\ part \in Parts
    /\ \E on \in IF part = "presence" THEN {0, 1} ELSE {1},
          axes \in IF part = "sweep" THEN 0..3 ELSE {0},
          widths \in IF part = "sweep" THEN [Axes -> Widths] ELSE {[a \in Axes |-> 0]} :
            mcu = [d \in Dps |-> CASE d = POWER    -> on
                                   [] d = MODE     -> 1
                                   [] d = AXES     -> axes
                                   [] d \in Sweeps -> Field(AxisOf(d), widths[AxisOf(d)])
                                   [] OTHER        -> 0]
    /\ heading = [a \in Axes |-> mcu[POSITION[a]]]
    /\ homing = FALSE /\ lamp = "UNKNOWN"
    /\ program = [session |-> [InitSession EXCEPT !.initState =
                                  IF part = "indicator" THEN "INIT_HEARTBEAT" ELSE "INIT_DONE"],
                  table |-> Nothing,
                  target |-> NoAxis, measured |-> NoAxis,
                  pending |-> [a \in Axes |-> FALSE], saw_mismatch |-> [a \in Axes |-> FALSE],
                  waited |-> [a \in Axes |-> 0],
                  setting |-> NoAxis,
                  kept |-> [d \in Sensed |-> NoValue], shown |-> [d \in Sensed |-> NoValue],
                  wifi |-> FALSE, subscriber |-> FALSE, lost |-> 0,
                  sent |-> "UNKNOWN", statuses |-> <<>>]
    \* The answer to the query that ended the handshake.
    /\ reports = <<Some(Reported(mcu), Shown)>> /\ toMcu = <<>>
    /\ asked = NoAxis /\ crossed = [a \in Axes |-> FALSE]
    /\ chosen = NoAxis /\ gone = 0 /\ heard = {}

Transmits == Transmission /\ UNCHANGED <<part, world, history>>

\* A request for a position is settled once the head has come to rest and has
\* been reported there, or its axis swings.
Receives ==
    /\ reports # <<>>
    /\ LET report  == Head(reports)
           settled == Tail(reports) = <<>> /\ ~Travels
       IN  /\ program' = handle_report(TakeReport(program, report, HandleDatapoint), Written(report))
           /\ asked' = [a \in Axes |->
                IF (settled /\ ~Writing(a)) \/ Swings(report, a) THEN NoValue ELSE asked[a]]
           /\ heard' = IF IsTrue(program', POWER) THEN heard \cup (Written(report) \cap Sensed) ELSE {}
    /\ reports' = Tail(reports)
    /\ UNCHANGED <<part, mcu, toMcu, world, crossed, chosen, gone>>

\* A report of something else may answer a command, and the next one be sent before
\* the MCU has carried that out.
MayControl ==
    /\ part # "indicator"
    /\ Len(program.session.queue) <= MaxAhead /\ Len(toMcu) <= MaxAhead
    /\ Len(reports) <= MaxReports
    /\ program.table # Nothing

\* The head is sent somewhere while it does not swing. The request is crossed by
\* whatever was under way.
ControlPosition(a, degrees) ==
    /\ MayControl /\ part = "position"
    /\ ~Swings(mcu, a)
    /\ program' = control_position(program, a, degrees)
    /\ asked' = [asked EXCEPT ![a] = degrees]
    /\ crossed' = [crossed EXCEPT ![a] = asked[a] # NoValue \/ ~Quiet]
    /\ UNCHANGED <<part, mcu, toMcu, reports, world, chosen, gone, heard>>

Calibrate(axes) ==
    /\ MayControl /\ part = "position"
    /\ program' = calibrate(program, axes)
    /\ asked' = [a \in Axes |-> IF a \in axes THEN NoValue ELSE asked[a]]
    /\ UNCHANGED <<part, mcu, toMcu, reports, world, crossed, chosen, gone, heard>>

\* Sweeps are chosen one at a time.
ControlSweep(a, width) ==
    /\ MayControl /\ part = "sweep" /\ Quiet
    /\ program' = control_sweep(program, a, width)
    /\ chosen' = [chosen EXCEPT ![a] = width]
    /\ UNCHANGED <<part, mcu, toMcu, reports, world, asked, crossed, gone, heard>>

\* The head is where it was last sent, and no report says otherwise.
Arrived(a) ==
    /\ ~Travels /\ ~Writing(a)
    /\ \A i \in 1..Len(reports) : reports[i][POSITION[a]] \in {NoValue, mcu[POSITION[a]]}

\* Time: how long a target has been waited for, which is longer than the head and
\* the wire ever take, and how long Wi-Fi has been lost.
Tick ==
    /\ program' = [program EXCEPT
         !.waited = [a \in Axes |-> IF program.pending[a] /\ @[a] < TRAVEL /\ Arrived(a)
                                    THEN @[a] + 1 ELSE @[a]],
         !.lost = IF part = "indicator" /\ ~program.wifi /\ @ < DEBOUNCE THEN @ + 1 ELSE @]
    /\ gone' = IF part = "indicator" /\ ~program.wifi /\ gone < DEBOUNCE THEN gone + 1 ELSE gone
    /\ UNCHANGED <<part, mcu, toMcu, reports, world, asked, crossed, chosen, heard>>

\* What the YAML and the API client do to the indicator, and the program's loop.
Loop == part = "indicator" /\ program' = evaluate(program)
SetWifi(connected) ==
    /\ part = "indicator" /\ Len(program.statuses) <= MaxAhead
    /\ program' = set_wifi_connected(program, connected)
    /\ gone' = IF connected \/ program.wifi THEN 0 ELSE gone
    /\ UNCHANGED <<part, mcu, toMcu, reports, world, asked, crossed, chosen, heard>>
SetSubscriber(connected) ==
    /\ part = "indicator" /\ Len(program.statuses) <= MaxAhead
    /\ program' = set_state_subscriber_connected(program, connected)

\* The handshake ends after the commands queued ahead of it.
Initialized ==
    /\ part = "indicator" /\ program.session.initState # "INIT_DONE" /\ program.statuses = <<>>
    /\ program' = initialized(program)
ModuleReset == part = "indicator" /\ program' = module_reset(program)

\* The MCU restarts, and the hub learns so from its heartbeat.
McuRestarts ==
    /\ part = "indicator"
    /\ program' = [program EXCEPT !.session.initState = "INIT_PRODUCT"]
    /\ lamp' = "UNKNOWN"
LampTakes ==
    /\ program.statuses # <<>>
    /\ lamp' = Head(program.statuses)
    /\ program' = [program EXCEPT !.statuses = Tail(@)]

ProgramOnly == UNCHANGED <<part, mcu, toMcu, reports, world, history>>
LampToo == UNCHANGED <<part, mcu, toMcu, reports, heading, homing, history>>

Disturbs ==
    \/ \E connected \in BOOLEAN : SetWifi(connected)
    \/ (\E connected \in BOOLEAN : SetSubscriber(connected)) /\ ProgramOnly
    \/ ModuleReset /\ ProgramOnly
    \/ McuRestarts /\ LampToo

Uses ==
    \/ \E a \in Moved, degrees \in Degrees : ControlPosition(a, degrees)
    \/ \E axes \in SUBSET Axes \ {{}} : Calibrate(axes)
    \/ \E a \in Axes, width \in Widths : ControlSweep(a, width)
    \/ \E d \in Changes, whole \in BOOLEAN : \E v \in Possible(d) \ {mcu[d]} : Press(d, v, whole)

Next ==
    \/ Uses
    \/ Disturbs
    \/ Transmits
    \/ Executes
    \/ Receives
    \/ Arrives
    \/ Periodic
    \/ \E d \in {POWER} \cup Sensed : part = "presence" /\ Announces({d})
    \/ Tick
    \/ (Loop \/ Initialized) /\ ProgramOnly
    \/ LampTakes /\ LampToo

Spec == Init /\ [][Next]_vars

\* The main loop runs, the wire delivers, and the MCU carries out what it is told
\* and reports its table every now and then. Only Receives takes a report, and only
\* Executes a command, off the wire, so that is what is asked for.
Fairness ==
    /\ WF_reports(reports # <<>> /\ reports' = Tail(reports))
    /\ WF_toMcu(toMcu # <<>> /\ toMcu' = Tail(toMcu))
    /\ WF_vars(Transmits) /\ WF_vars(Arrives) /\ WF_vars(Periodic) /\ WF_vars(Tick)
    /\ WF_vars(Loop /\ ProgramOnly) /\ WF_vars(Initialized /\ ProgramOnly)
    /\ WF_vars(LampTakes /\ LampToo)

FairSpec == Spec /\ Fairness

----------------------------------------------------------------------------
(* Properties *)

\* A head position asked for while nothing was under way stays the target until
\* the head has come to rest: neither the answer that repeats it nor the old
\* position, reported while the head travels, takes its place ("it is released by a
\* matching report that follows a differing one", dreo_hpf007s.cpp:308). A request
\* that crosses a report of the old position is released by its own answer.
TargetKeptUncrossed ==
    \A a \in Axes : asked[a] # NoValue /\ ~crossed[a] => program.target[a] = asked[a]

\* If nobody uses the head any more, its target and the measured position end up
\* at the position it has: no request stays pending for ever, such as one that was
\* calibrated away or asked for where the head already was.
TargetFollows ==
    part = "position" =>
        \/ []<><<Uses>>_vars
        \/ <>[](\A a \in Axes : /\ program.target[a] = mcu[POSITION[a]]
                                /\ program.measured[a] = mcu[POSITION[a]])

\* Each axis is commanded to sweep as widely as was last chosen for it, although
\* one datapoint carries the widths of both and the MCU reports an idle axis at
\* rest (control_sweep, handle_sweep_).
SweepsPrevail == \A a \in Axes : chosen[a] # NoValue => Commanded[SWEEP[a]] = Field(a, chosen[a])

\* Presence and zone are shown only as reports have brought them since the fan went
\* on: "only a report received while the fan is on may restore availability"
\* (dreo_hpf007s.cpp:250-251).
PresenceFresh ==
    \A d \in Sensed : program.shown[d] # NoValue =>
        d \in heard /\ program.shown[d] = program.table[d]

\* The indicator is told to flash only when Wi-Fi has been gone for the whole of
\* the debounce, however often it came and went before (set_wifi_connected).
NoEarlyFlash ==
    [][program'.sent = "FLASHING" /\ program.sent # "FLASHING" => gone' >= DEBOUNCE]_vars

\* If the connections stay as they are, the indicator ends up showing them, across
\* restarts of the MCU and resets of the session, which forget what was sent.
IndicatorConverges ==
    part = "indicator" => []<><<Disturbs>>_vars \/ <>[](lamp = Derived(program))
============================================================================
