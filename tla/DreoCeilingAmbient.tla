-------------------------- MODULE DreoCeilingAmbient --------------------------
(***************************************************************************)
(* The ambient light of the ceiling fan (class DreoCeilingFan,             *)
(* src/components/dreo_ceiling_fan).  ESPHome runs it, effects included;   *)
(* the MCU has its power, and a cursor that the remote moves through       *)
(* presets.  The coordinator publishes the MCU's power to the light,       *)
(* remembers the effect that a power cycle ends, applies the preset of a   *)
(* cursor that has moved, and listens to the light itself: a change that   *)
(* it has not made is the user's.                                          *)
(*                                                                         *)
(* The light's colour and brightness are one value, its look.  What        *)
(* LightCall::perform does is modelled from how the coordinator uses it    *)
(* and from the stub of the tests (tests/host/stubs/.../light_stub.h).     *)
(***************************************************************************)
EXTENDS DreoCeilingPower

CONSTANTS
    Presets,     \* ambient_preset_effects: the effects in the order of the cursor
    NONE,        \* no effect
    Looks,       \* looks the user may choose
    MaxAhead     \* calls are made while at most so many commands wait

\* Datapoint ids of the product.
CURSOR == 25
COUNT == 26
PREDEFINE == 28

AMBIENT_PRESET_COUNT == Len(Presets)
Cursors == 0..AMBIENT_PRESET_COUNT
Effects == {Presets[c] : c \in 1..AMBIENT_PRESET_COUNT}

ASSUME AmbientAssumption ==
    /\ {MASTER, AMBIENT, CURSOR, COUNT, PREDEFINE} \subseteq Dps
    /\ Cursors \subseteq Values /\ NONE \notin Effects /\ MaxAhead \in Nat

VARIABLES
    wanted,    \* history: the outputs that are meant to be lit
    meant      \* history: the effect and the look the light is meant to have

history == <<wanted, meant>>
vars == <<program, mcu, toMcu, reports, history>>

ambient_effective(p) == IsTrue(p, MASTER) /\ IsTrue(p, AMBIENT)
PowerKnown(p) == p.table[MASTER] # NoValue /\ p.table[AMBIENT] # NoValue

----------------------------------------------------------------------------
(* The light *)

\* What a call may carry; power is 1, 0 or nothing.
Call(power, effect, look) == [power |-> power, effect |-> effect, look |-> look]

\* LightCall::perform, before it calls the listener. An explicit off ends the
\* effect, and none is started while off.
Perform(p, call) ==
    LET on == IF call.power = NoValue THEN p.shown.on ELSE call.power = 1
    IN  [p EXCEPT !.shown =
            [on     |-> on,
             effect |-> CASE call.effect # NoValue /\ on      -> call.effect
                          [] call.effect = NoValue /\ call.power = 0 -> NONE
                          [] OTHER                            -> @.effect,
             look   |-> IF call.look = NoValue THEN @.look ELSE call.look]]

Presentation(p) == [effect |-> p.shown.effect, look |-> p.shown.look]

snapshot_ambient(p) == [p EXCEPT !.snapshot = Presentation(p)]

\* A call of the coordinator's own: its listener adopts what it finds.
Publish(p, call) == snapshot_ambient(Perform(p, call))

----------------------------------------------------------------------------
(* What the coordinator does with the light *)

restore_local_effect(p) ==
    IF p.local # NONE /\ p.shown.on /\ p.shown.effect = NONE
    THEN Publish(p, Call(NoValue, p.local, NoValue)) ELSE p

\* MUTANT: the master is overlooked.
Mut_publish_ambient(p) ==
    IF ~PowerKnown(p) THEN p
    ELSE restore_local_effect(Publish(p, Call(p.table[AMBIENT], NoValue, NoValue)))

publish_ambient(p) ==
    IF ~PowerKnown(p) THEN p
    ELSE restore_local_effect(Publish(p, Call(IF ambient_effective(p) THEN 1 ELSE 0, NoValue, NoValue)))

apply_preset_cursor(p) ==
    LET cursor == p.table[CURSOR]
    IN  IF cursor \in 1..AMBIENT_PRESET_COUNT /\ ambient_effective(p) /\ cursor # p.applied
        THEN Publish([p EXCEPT !.applied = cursor, !.local = Presets[cursor]],
                     Call(NoValue, Presets[cursor], NoValue))
        ELSE p

\* The count is written once, whatever is reported of it later.
maintain_preset_count(p) ==
    CASE p.table[COUNT] = AMBIENT_PRESET_COUNT -> [p EXCEPT !.counted = TRUE]
      [] p.table[COUNT] # AMBIENT_PRESET_COUNT /\ ~p.counted ->
            Set([p EXCEPT !.counted = TRUE], COUNT, AMBIENT_PRESET_COUNT)
      [] OTHER -> p

send_predefine_sentinel(p) == [p EXCEPT !.session = Enqueue(@, Deliver(One(PREDEFINE, 0)))]

control_ambient(p, on) == IF on THEN RequestOn(p, AMBIENT) ELSE RequestOff(p, AMBIENT)

\* MUTANT: the cursor whose preset the user has left is not noted.
Mut_on_light_remote_values_update(p) ==
    LET changed == p.shown.on /\ Presentation(p) # p.snapshot
        chosen  == [snapshot_ambient(p) EXCEPT !.local = p.shown.effect]
    IN  IF ~PowerKnown(p) THEN p
        ELSE control_ambient(IF changed THEN send_predefine_sentinel(chosen)
                             ELSE snapshot_ambient(p), p.shown.on)

\* on_light_remote_values_update, for a call that is not the coordinator's own.
\* Only what changes while the light is on is a choice of the user's.
on_light_remote_values_update(p) ==
    LET changed == p.shown.on /\ Presentation(p) # p.snapshot
        chosen  == [snapshot_ambient(p) EXCEPT !.local = p.shown.effect,
                        !.applied = IF p.table[CURSOR] = NoValue THEN 0 ELSE p.table[CURSOR]]
    IN  IF ~PowerKnown(p) THEN p
        ELSE control_ambient(IF changed THEN send_predefine_sentinel(chosen)
                             ELSE snapshot_ambient(p), p.shown.on)

\* MUTANT: what is published to the light is taken for the user's doing.
Mut_HandleDatapoint(p, d) ==
    LET counted == IF d = COUNT THEN maintain_preset_count(p) ELSE p
        shown   == publish_ambient(counted)
    IN  IF d = PREDEFINE THEN p ELSE apply_preset_cursor(on_light_remote_values_update(shown))

\* handle_datapoint_. The sentinel has no listener.
HandleDatapoint(p, d) ==
    LET counted == IF d = COUNT THEN maintain_preset_count(p) ELSE p
    IN  IF d = PREDEFINE THEN p ELSE apply_preset_cursor(publish_ambient(counted))

----------------------------------------------------------------------------
(* Steps *)

\* The report that ends the handshake is taken over after the callback of the
\* coordinator that writes the count.
Init ==
    /\ mcu \in {m \in Batches : \A d \in Dps :
                   m[d] \in CASE d \in PowerDps -> {0, 1} [] d = CURSOR -> Cursors
                              [] d = COUNT -> {0, AMBIENT_PRESET_COUNT} [] OTHER -> {0}}
    /\ \E look \in Looks :
          LET started == [session |-> [InitSession EXCEPT !.initState = "INIT_DONE"],
                          table |-> Nothing,
                          shown |-> [on |-> FALSE, effect |-> NONE, look |-> look],
                          snapshot |-> [effect |-> NONE, look |-> look],
                          local |-> NONE, applied |-> 0, counted |-> FALSE]
          IN  /\ program = TakeReport(maintain_preset_count(started), mcu, HandleDatapoint)
              /\ meant = [effect |-> IF mcu[CURSOR] = 0 THEN NONE ELSE Presets[mcu[CURSOR]], look |-> look]
    /\ toMcu = <<>> /\ reports = <<>>
    /\ wanted = Lit(mcu)

Transmits == Transmission /\ UNCHANGED history
Executes == Execution /\ UNCHANGED history

Receives ==
    /\ reports # <<>>
    /\ program' = TakeReport(program, Head(reports), HandleDatapoint)
    /\ reports' = Tail(reports)
    /\ UNCHANGED <<mcu, toMcu, history>>

\* The user uses the light: the power alone, or an effect or a look with it. The light
\* is turned off only when it is meant to be on, and its effect ended only then, and
\* neither while someone uses the remote.
Uses(call) ==
    /\ Len(program.session.queue) <= MaxAhead
    /\ TargetsCurrent(PowerDps)
    /\ reports # <<>> => InFlight(program.session)
    /\ AMBIENT \notin wanted => call.power = 1 /\ call.effect # NONE
    /\ LET used == Perform(program, call)
       IN  /\ program' = on_light_remote_values_update(used)
           /\ wanted' = IF used.shown.on THEN wanted \cup {AMBIENT} ELSE wanted \ {AMBIENT}
           /\ meant' = IF used.shown.on /\ Presentation(used) # Presentation(program)
                       THEN Presentation(used) ELSE meant
    /\ UNCHANGED <<mcu, toMcu, reports>>

\* What someone does at the appliance is reported datapoint by datapoint, in some
\* order, or with everything else.
Reported(state, ids) ==
    \/ reports' = <<state>>
    \/ \E order \in SetToSeqs(ids) : reports' = [i \in 1..Len(order) |-> One(order[i], state[order[i]])]

\* The power is changed.
Press ==
    /\ Quiet
    /\ \E power \in [PowerDps -> {0, 1}] :
          /\ mcu' = [d \in Dps |-> IF d \in PowerDps THEN power[d] ELSE mcu[d]]
          /\ Reported(mcu', {d \in PowerDps : mcu'[d] # mcu[d]})
    /\ wanted' = Lit(mcu')
    /\ UNCHANGED <<program, toMcu, meant>>

\* The button of the remote steps through the presets and off, where the cursor is 0
\* ("the remote can revisit a cursor value only by cycling through its off position",
\* tests/host/dreo_host_test.cpp:1950).
PressPreset ==
    /\ Quiet
    /\ mcu[MASTER] = 1 /\ (mcu[AMBIENT] = 1 \/ mcu[CURSOR] = 0)
    /\ LET cursor == (mcu[CURSOR] + 1) % (AMBIENT_PRESET_COUNT + 1)
           lit    == IF cursor = 0 THEN 0 ELSE 1
       IN  /\ mcu' = [mcu EXCEPT ![CURSOR] = cursor, ![AMBIENT] = lit]
           /\ Reported(mcu', {CURSOR, AMBIENT})
           /\ meant' = IF cursor = 0 THEN meant ELSE [meant EXCEPT !.effect = Presets[cursor]]
    /\ wanted' = Lit(mcu')
    /\ UNCHANGED <<program, toMcu>>

Next ==
    \/ Transmits
    \/ Executes
    \/ Receives
    \/ \E power \in {0, 1} : Uses(Call(power, NoValue, NoValue))
    \/ \E effect \in Effects \cup {NONE} : Uses(Call(1, effect, NoValue))
    \/ \E look \in Looks : Uses(Call(1, NoValue, look))
    \/ Press
    \/ PressPreset

Spec == Init /\ [][Next]_vars

----------------------------------------------------------------------------
(* Properties *)

\* When all is quiet the light, while it is lit, has the effect and the look that
\* were last chosen, at the light or by the remote: a power cycle does not lose
\* them, and the cursor that the MCU repeats in its answers does not bring back the
\* preset the user has left (local_effect_, applied_preset_cursor_).
ChoicePrevails == Quiet /\ AMBIENT \in Lit(mcu) => Presentation(program) = meant

\* Once everything commanded is done the outputs that are meant to be lit are, and
\* when all is quiet the light shows so: what reports of earlier commands publish
\* to it meanwhile is not mistaken for the user's (publishing_ambient_).
PowerPrevails ==
    /\ Lit(Commanded) = wanted
    /\ Quiet => (program.shown.on <=> AMBIENT \in Lit(mcu))

\* A report, although it drives the light, whose listener drives the coordinator,
\* has nothing sent in answer but the count of presets and readbacks.
ReportsNotAnswered ==
    [][reports # <<>> /\ reports' = Tail(reports) =>
         \A i \in 1..Len(program'.session.queue) :
            LET c == program'.session.queue[i]
            IN  \/ \E j \in 1..Len(program.session.queue) : program.session.queue[j] = c
                \/ Written(c.writes) \subseteq {COUNT}]_vars
=============================================================================
