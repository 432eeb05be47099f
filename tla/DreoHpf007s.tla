---------------------------- MODULE DreoHpf007s ----------------------------
(***************************************************************************)
(* The coordinator of the DR-HPF007S (class DreoHpf007s,                   *)
(* src/components/dreo_hpf007s), as far as its commands interact: power,   *)
(* the settings that wait for it, and the two oscillation axes, which the  *)
(* MCU keeps as two bits of one datapoint and the user as two switches.    *)
(*                                                                         *)
(* The coordinator's copies of the datapoints are the hub's table, since   *)
(* every update of the table calls it.  Speed stands for speed and mode,   *)
(* which are queued and written alike, one after the other.                *)
(***************************************************************************)
EXTENDS DreoLink

CONSTANTS
    Speeds,        \* speeds the user may choose
    MaxAhead,      \* controls are given while at most so many commands wait
    AmidReadback   \* also while the targets read are not what will be sent?

\* Datapoint ids of the product.
POWER == 1
SPEED == 4
AXES == 5

Axes == {"HORIZONTAL", "VERTICAL"}
axis_bit == [HORIZONTAL |-> 1, VERTICAL |-> 2]
AxesValues == 0..3

\* The package registers power and the axes as transitions, and no setting.
ASSUME HpfAssumption ==
    /\ {POWER, SPEED, AXES} \subseteq Dps
    /\ SPEED \notin Transition
    /\ Speeds \cup AxesValues \subseteq Values
    /\ AmidReadback \in BOOLEAN

VARIABLES
    chosen,    \* history: the speed the fan is meant to have
    swinging   \* history: the axes that are meant to swing

history == <<chosen, swinging>>
vars == <<program, mcu, toMcu, reports, history>>

Active(axes) == {a \in Axes : (axes \div axis_bit[a]) % 2 = 1}

States == {m \in [Dps -> Speeds \cup AxesValues] :
              m[POWER] \in {0, 1} /\ m[SPEED] \in Speeds /\ m[AXES] \in AxesValues}

Init ==
    /\ mcu \in States
    /\ program = [session |-> [InitSession EXCEPT !.initState = "INIT_DONE"],
                  table |-> mcu,
                  queued_speed |-> NoValue,
                  axes_target |-> NoValue]
    /\ toMcu = <<>> /\ reports = <<>>
    /\ chosen = mcu[SPEED]
    /\ swinging = Active(mcu[AXES])

----------------------------------------------------------------------------
(* Authorization *)

\* MUTANT: an "off" that is under way is overlooked.
Mut_power_confirmed_on(p) == IsTrue(p, POWER)

power_confirmed_on(p) == IsTrue(p, POWER) /\ ~IsPending(p, POWER)

\* What set_datapoint_values returns for a setting, with authorize_command
\* asked only when there is something to send, and what it does.
Accepts(p, d, v) == power_confirmed_on(p) \/ ~NeedsSend(p.session, p.table, One(d, v), FALSE)

SetSetting(p, d, v) == IF Accepts(p, d, v) THEN Set(p, d, v) ELSE p

----------------------------------------------------------------------------
(* Reports *)

flush_queued_fan_settings(p) ==
    IF ~power_confirmed_on(p) \/ p.queued_speed = NoValue THEN p
    ELSE SetSetting([p EXCEPT !.queued_speed = NoValue], SPEED, p.queued_speed)

handle_power(p) ==
    flush_queued_fan_settings(IF IsTrue(p, POWER) THEN p ELSE [p EXCEPT !.queued_speed = NoValue])

\* handle_datapoint_, without what it publishes.
HandleDatapoint(p, d) ==
    CASE d = POWER -> handle_power(p)
      [] d = AXES  -> IF IsPending(p, AXES) THEN p ELSE [p EXCEPT !.axes_target = NoValue]
      [] OTHER     -> p

----------------------------------------------------------------------------
(* Controls *)

FanOff(p) == Set([p EXCEPT !.queued_speed = NoValue], POWER, 0)

\* MUTANT: a speed is written as soon as power has been asked for.
MutFanOn(p, v) ==
    LET powered == IF TargetIsTrue(p, POWER) THEN p ELSE Set(p, POWER, 1)
    IN  IF v = NoValue THEN powered ELSE SetSetting(powered, SPEED, v)

\* control_fan with turn_on, with a speed or without.
FanOn(p, v) ==
    LET waiting == IF v = NoValue THEN p ELSE [p EXCEPT !.queued_speed = v]
    IN  IF power_confirmed_on(p)
        THEN IF v = NoValue THEN p ELSE SetSetting(p, SPEED, v)
        ELSE IF TargetIsTrue(p, POWER) THEN waiting ELSE Set(waiting, POWER, 1)

\* control_fan with a speed alone.
FanSpeed(p, v) ==
    IF power_confirmed_on(p) THEN SetSetting(p, SPEED, v) ELSE [p EXCEPT !.queued_speed = v]

\* MUTANT: the axes that are under way are overlooked.
Mut_axes_base(p) == p.table[AXES]

axes_base(p) ==
    IF p.axes_target # NoValue /\ IsPending(p, AXES) THEN p.axes_target ELSE p.table[AXES]

Combined(base, axis, on) ==
    LET others == Active(base) \ {axis}
        active == IF on THEN others \cup {axis} ELSE others
    IN  CHOOSE axes \in AxesValues : Active(axes) = active

control_axis(p, axis, on) ==
    LET combined == Combined(axes_base(p), axis, on)
    IN  IF Accepts(p, AXES, combined)
        THEN [Set(p, AXES, combined) EXCEPT !.axes_target = combined]
        ELSE p

----------------------------------------------------------------------------
(* Steps *)

Transmits == Transmission /\ UNCHANGED history
Executes == Execution /\ UNCHANGED history

Receives ==
    /\ reports # <<>>
    /\ program' = TakeReport(program, Head(reports), HandleDatapoint)
    /\ reports' = Tail(reports)
    /\ UNCHANGED <<mcu, toMcu, history>>

\* The user does not cross a report of what someone does at the appliance nor,
\* without AmidReadback, the hub's forgetting of a target it has yet to send that
\* the control goes by.
MayControl(dps) ==
    /\ Len(program.session.queue) <= MaxAhead
    /\ AmidReadback \/ TargetsCurrent(dps)
    /\ reports # <<>> => InFlight(program.session)

\* Is a report to come that the fan is off?
OffToCome ==
    \/ mcu[POWER] = 0 /\ program.session.queue # <<>> /\ Head(program.session.queue).writes[POWER] # 1
    \/ \E i \in 1..Len(program.session.queue) : program.session.queue[i].writes[POWER] = 0

\* A speed is chosen while none is being written, and, when it has to wait for
\* power, not while the fan is going off: the report of that drops the speed.
MayChoose ==
    /\ AmidReadback \/ TargetsCurrent({SPEED})
    /\ power_confirmed_on(program) \/ ~OffToCome

TurnOff ==
    /\ MayControl({POWER})
    /\ program' = FanOff(program)
    /\ chosen' = Commanded[SPEED]
    /\ UNCHANGED <<mcu, toMcu, reports, swinging>>

TurnOn(v) ==
    /\ MayControl({POWER})
    /\ v # NoValue => MayChoose
    /\ program' = FanOn(program, v)
    /\ chosen' = IF v = NoValue THEN chosen ELSE v
    /\ UNCHANGED <<mcu, toMcu, reports, swinging>>

\* A speed for a fan that is off and stays off waits for the next "on".
ChangeSpeed(v) ==
    /\ MayControl({POWER})
    /\ MayChoose
    /\ program' = FanSpeed(program, v)
    /\ chosen' = v
    /\ UNCHANGED <<mcu, toMcu, reports, swinging>>

SwitchAxis(axis, on) ==
    /\ MayControl({POWER, AXES})
    /\ program' = control_axis(program, axis, on)
    /\ swinging' = IF ~power_confirmed_on(program) THEN swinging
                   ELSE IF on THEN swinging \cup {axis} ELSE swinging \ {axis}
    /\ UNCHANGED <<mcu, toMcu, reports, chosen>>

\* Someone uses the panel or the remote. A speed chosen there is not crossed with
\* one that waits for power, which "off" forgets.
Press ==
    /\ Quiet
    /\ mcu' \in States
    /\ program.queued_speed # NoValue => mcu'[SPEED] = mcu[SPEED]
    /\ reports' = <<mcu'>>
    /\ chosen' = IF mcu'[POWER] = 1 /\ program.queued_speed # NoValue THEN chosen ELSE mcu'[SPEED]
    /\ swinging' = Active(mcu'[AXES])
    /\ UNCHANGED <<program, toMcu>>

Next ==
    \/ Transmits
    \/ Executes
    \/ Receives
    \/ TurnOff
    \/ \E v \in Speeds \cup {NoValue} : TurnOn(v)
    \/ \E v \in Speeds : ChangeSpeed(v)
    \/ \E axis \in Axes, on \in BOOLEAN : SwitchAxis(axis, on)
    \/ Press

Spec == Init /\ [][Next]_vars

----------------------------------------------------------------------------
(* Properties *)

\* Once everything commanded is done, exactly those axes swing that were last
\* switched on. Each control writes both bits: it must build on what an earlier
\* one asked for, not on what the MCU has reported so far, or it takes the other
\* axis back (axes_base_).
AxesPrevail == Active(Commanded[AXES]) = swinging

\* No axis that is meant to swing is taken back by a control of the other one:
\* "both axes share dp5; every base value and request yields the exact combined
\* value, through pending targets and rapid interleavings"
\* (tests/host/dreo_host_test.cpp:2569-2570).
NoAxisTakenBack == swinging \subseteq Active(Commanded[AXES])

\* When all is quiet and the fan is on, it runs at the speed that was last
\* chosen, and none is left in queued_speed_: a speed given with "on" is written
\* once power is confirmed (test_hpf007s_fan_and_authorizer, "queued mode and
\* speed were not flushed after confirmed power").
SpeedPrevails ==
    Quiet /\ mcu[POWER] = 1 => program.queued_speed = NoValue /\ mcu[SPEED] = chosen

\* Speed and axes are written only to a fan that is on: neither ahead of the
\* power, nor behind a command that takes it away (authorize_command).
SettingNeedsPower ==
    [][toMcu # <<>> /\ toMcu' = Tail(toMcu)
           /\ (Head(toMcu).writes[SPEED] # NoValue \/ Head(toMcu).writes[AXES] # NoValue)
         => mcu[POWER] = 1]_vars
============================================================================
