--------------------------- MODULE DreoCeilingFan ---------------------------
(***************************************************************************)
(* The coordinator of the ceiling fan (class DreoCeilingFan,               *)
(* src/components/dreo_ceiling_fan): a master power over the power of the  *)
(* fan, the main light and the ambient light.  An output is lit when both  *)
(* are on.  Settings of the fan and of the main light wait until their     *)
(* output is confirmed to be lit.                                          *)
(*                                                                         *)
(* The coordinator's copies of the datapoints are the hub's table, since   *)
(* every update of the table calls it.  Speed stands for speed and mode,   *)
(* brightness for brightness and colour temperature: each pair is handled  *)
(* alike, one after the other.                                             *)
(***************************************************************************)
EXTENDS DreoCeilingPower

CONSTANTS
    AllowWhileOff,  \* allow_sub_entity_control_while_off
    MaxAhead,       \* controls are given while at most so many commands wait
    AmidReadback,   \* also while the targets read are not what will be sent?
    OffWhenDark     \* is an output turned off that is not lit?

SettingOf == [o \in {FAN, LIGHT} |-> IF o = FAN THEN 7 ELSE 8]
Settable == {o \in Outputs \ {AMBIENT} : SettingOf[o] \in Dps}

\* The package registers the powers as transitions, and no setting.
ASSUME SettingAssumption == \A o \in Settable : SettingOf[o] \notin Transition

VARIABLES
    wanted,    \* history: the outputs that are meant to be lit
    chosen,    \* history: the settings they are meant to have
    asked      \* history: those lit when the last control came after a pause,
               \* and those asked for since

history == <<wanted, chosen, asked>>
vars == <<program, mcu, toMcu, reports, history>>

States == {m \in [Dps -> Values] : \A d \in PowerDps : m[d] \in {0, 1}}

Init ==
    /\ mcu \in States
    /\ program = [session |-> [InitSession EXCEPT !.initState = "INIT_DONE"],
                  table |-> mcu,
                  queued |-> [o \in Settable |-> NoValue]]
    /\ toMcu = <<>> /\ reports = <<>>
    /\ wanted = Lit(mcu) /\ asked = Lit(mcu)
    /\ chosen = [o \in Settable |-> mcu[SettingOf[o]]]

----------------------------------------------------------------------------
(* Settings *)

Confirmed(p, o) ==
    /\ IsTrue(p, MASTER) /\ ~IsPending(p, MASTER)
    /\ IsTrue(p, o) /\ ~IsPending(p, o)

\* MUTANT: the reported power is not asked for.
MutSettingAllowed(p, o) ==
    /\ p.table[MASTER] # NoValue /\ ~IsPending(p, MASTER)
    /\ p.table[o] # NoValue /\ ~IsPending(p, o)

\* setting_allowed_: what authorize_command says of a setting of o.
SettingAllowed(p, o) ==
    /\ p.table[MASTER] # NoValue /\ ~IsPending(p, MASTER)
    /\ p.table[o] # NoValue /\ ~IsPending(p, o)
    /\ AllowWhileOff \/ (IsTrue(p, MASTER) /\ IsTrue(p, o))

SetSetting(p, o, v) == IF SettingAllowed(p, o) THEN Set(p, SettingOf[o], v) ELSE p

\* flush_fan_settings_, flush_main_light_settings_
Flush(p, o) ==
    IF o \notin Settable THEN p
    ELSE IF ~Confirmed(p, o) \/ p.queued[o] = NoValue THEN p
    ELSE SetSetting([p EXCEPT !.queued[o] = NoValue], o, p.queued[o])

\* handle_datapoint_
HandleDatapoint(p, d) == Flush(Flush(p, FAN), LIGHT)

----------------------------------------------------------------------------
(* Power *)

\* control_fan, control_main_light and control_ambient, which has no setting.
ControlOff(p, o) ==
    RequestOff(IF o \in Settable THEN [p EXCEPT !.queued[o] = NoValue] ELSE p, o)

\* MUTANT: the power of the master is not asked for.
MutControlOn(p, o, v) ==
    LET later == IF v = NoValue THEN p ELSE [p EXCEPT !.queued[o] = v]
        now   == IF v = NoValue THEN p ELSE SetSetting(p, o, v)
    IN  RequestOn(IF o \in Settable /\ ~TargetIsTrue(p, o) THEN later ELSE now, o)

ControlOn(p, o, v) ==
    LET powerPending == IsPending(p, MASTER) \/ IsPending(p, o)
        later        == IF v = NoValue THEN p ELSE [p EXCEPT !.queued[o] = v]
        now          == IF v = NoValue THEN p ELSE SetSetting(p, o, v)
    IN  IF o \notin Settable THEN RequestOn(p, o)
        ELSE IF ~Effective(p, o) THEN RequestOn(later, o)
        ELSE IF powerPending THEN later
        ELSE RequestOn(now, o)

ControlSetting(p, o, v) == SetSetting(p, o, v)

----------------------------------------------------------------------------
(* Steps *)

Transmits == Transmission /\ UNCHANGED history
Executes == Execution /\ UNCHANGED history

Receives ==
    /\ reports # <<>>
    /\ program' = TakeReport(program, Head(reports), HandleDatapoint)
    /\ reports' = Tail(reports)
    /\ UNCHANGED <<mcu, toMcu, history>>

\* The user does not cross a report of what someone does at the appliance.
MayControl ==
    /\ Len(program.session.queue) <= MaxAhead
    /\ AmidReadback \/ TargetsCurrent(PowerDps)
    /\ reports # <<>> => InFlight(program.session)

\* A setting is not changed while it is being written.
MayChoose(o) == TargetsCurrent({SettingOf[o]})

\* A history variable notes what a control asks for.
Asking(outputs) == asked' = (IF Quiet THEN Lit(mcu) ELSE asked) \cup outputs

\* A setting that still waits for power is forgotten with it.
TurnOff(o) ==
    /\ MayControl
    /\ o \notin wanted => OffWhenDark
    /\ program' = ControlOff(program, o)
    /\ wanted' = wanted \ {o}
    /\ chosen' = IF o \in Settable THEN [chosen EXCEPT ![o] = Commanded[SettingOf[o]]] ELSE chosen
    /\ Asking({})
    /\ UNCHANGED <<mcu, toMcu, reports>>

TurnOn(o, v) ==
    /\ MayControl
    /\ v # NoValue => MayChoose(o)
    /\ program' = ControlOn(program, o, v)
    /\ wanted' = wanted \cup {o}
    /\ chosen' = IF v = NoValue THEN chosen ELSE [chosen EXCEPT ![o] = v]
    /\ Asking({o})
    /\ UNCHANGED <<mcu, toMcu, reports>>

ChangeSetting(o, v) ==
    /\ MayControl
    /\ MayChoose(o)
    /\ program' = ControlSetting(program, o, v)
    /\ chosen' = IF SettingAllowed(program, o) THEN [chosen EXCEPT ![o] = v] ELSE chosen
    /\ Asking({})
    /\ UNCHANGED <<mcu, toMcu, reports, wanted>>

\* Someone changes the power at the appliance, or with its remote.
Press ==
    /\ Quiet
    /\ \E power \in [PowerDps -> {0, 1}] :
          mcu' = [d \in Dps |-> IF d \in PowerDps THEN power[d] ELSE mcu[d]]
    /\ reports' = <<mcu'>>
    /\ wanted' = Lit(mcu')
    /\ asked' = Lit(mcu')
    /\ UNCHANGED <<program, toMcu, chosen>>

Next ==
    \/ Transmits
    \/ Executes
    \/ Receives
    \/ \E o \in Outputs : TurnOff(o)
    \/ \E o \in Outputs : \E v \in (IF o \in Settable THEN Values ELSE {}) \cup {NoValue} : TurnOn(o, v)
    \/ \E o \in Settable, v \in Values : ChangeSetting(o, v)
    \/ Press

Spec == Init /\ [][Next]_vars

----------------------------------------------------------------------------
(* Properties *)

\* Once everything commanded is done, exactly those outputs are lit that were
\* last asked for: request_feature_state_ switches the one it is asked to
\* switch, whatever the master, the others and the commands under way.
RequestsPrevail == Lit(Commanded) = wanted

\* An output that was turned off while it was being turned on ends up off: the
\* later control is the one that counts (test_pending_transition_reversal_hcf_control).
OffPrevails == Lit(Commanded) \subseteq wanted

\* Until all is quiet again, no output is lit, not for a moment, that neither
\* was lit when the controls began nor was asked for: request_feature_state_
\* turns the others off before it turns the master on.
NoFlash == Lit(mcu) \subseteq asked

\* When all is quiet, no setting given together with "on" still waits in
\* queued_fan_speed_ and its like, and each output has the setting it was last
\* given: it was neither dropped by authorize_command nor overtaken.
SettingsPrevail ==
    Quiet => \A o \in Settable :
                 program.queued[o] = NoValue /\ mcu[SettingOf[o]] = chosen[o]

\* A setting reaches the MCU only while its output is lit: it is not sent
\* ahead of the power, nor behind a command that takes the power away. This is
\* what setting_allowed_ and the queued settings are for, unless the user has
\* allowed settings of outputs that are off.
SettingNeedsPower ==
    [][\A o \in Settable :
         toMcu # <<>> /\ toMcu' = Tail(toMcu) /\ Head(toMcu).writes[SettingOf[o]] # NoValue
           => o \in Lit(mcu)]_vars
============================================================================
