----------------------------- MODULE DreoLight -----------------------------
(***************************************************************************)
(* The platform light (class DreoLight, src/components/dreo/light): a      *)
(* switch, a brightness, an effect and a colour that the MCU keeps as four *)
(* datapoints and ESPHome as one light, with effects of which only the     *)
(* constant one has a colour.                                              *)
(*                                                                         *)
(* ESPHome performs a call at once and writes the light in its next loop.  *)
(* What it does is modelled from how the light uses it and from the stub   *)
(* the tests use (tests/host/stubs/.../light_stub.h).  A brightness or a   *)
(* colour is the value that stands for it on the wire.                     *)
(***************************************************************************)
EXTENDS DreoLink

CONSTANTS
    Effects,     \* effects the user may choose
    Levels,      \* brightnesses
    Colours,     \* and colours
    Calls,       \* the calls the user makes, as the settings they carry
    MaxAhead,    \* controls are given while at most so many commands wait
    Crossing,    \* may a report come between a call and its write?
    Overlapping  \* and calls while what they go by is not what is commanded?

\* Datapoint ids of the DR-HEC005S. Nothing of the light is set without POWER.
POWER == 1
SWITCH == 9
EFFECT == 10
BRIGHTNESS == 12
RGB == 13
CONSTANT_EFFECT == 1

Settings == {SWITCH, EFFECT, BRIGHTNESS, RGB}

ASSUME LightAssumption ==
    /\ {POWER} \cup Settings \subseteq Dps
    /\ CONSTANT_EFFECT \in Effects /\ {0, 1} \cup Effects \cup Levels \cup Colours \subseteq Values
    /\ Calls \subseteq (SUBSET Settings) \ {{}}
    /\ MaxAhead \in Nat /\ Crossing \in BOOLEAN /\ Overlapping \in BOOLEAN

VARIABLES
    request,   \* history: the settings of a call that is yet to be written
    wanted     \* history: what the light is meant to be

history == <<request, wanted>>
vars == <<program, mcu, toMcu, reports, history>>

\* set_command_authorizer of the package.
Authorized(p) == IsTrue(p, POWER) /\ ~IsPending(p, POWER)

----------------------------------------------------------------------------
(* LightState of ESPHome, and what it calls. *)

\* update_state
update_state(p, fromMcu) == [p EXCEPT !.suppress = fromMcu, !.scheduled = TRUE]

\* LightCall::perform. An effect that is not the running one is started, which
\* calls select_effect; none is started while off, and turning off ends it.
Perform(p, call, fromMcu) ==
    LET on     == IF call[SWITCH] # NoValue THEN call[SWITCH] ELSE p.shown[SWITCH]
        starts == on = 1 /\ call[EFFECT] \notin {NoValue, p.shown[EFFECT]}
        ends   == call[SWITCH] = 0 /\ call[EFFECT] = NoValue
        effect == IF starts THEN call[EFFECT] ELSE IF ends THEN NoValue ELSE p.shown[EFFECT]
    IN  update_state([p EXCEPT
            !.shown = [d \in Settings |-> IF d = EFFECT THEN effect
                                          ELSE IF call[d] # NoValue THEN call[d] ELSE @[d]],
            !.requested = IF starts /\ ~fromMcu THEN call[EFFECT] ELSE @], fromMcu)

publish_mcu_call(p, call) == Perform(p, call, TRUE)

----------------------------------------------------------------------------
(* Reports *)

\* MUTANT: what is reported is not taken for what is on the wire.
Mut_HandleDatapoint(p, d) ==
    LET taken == [p EXCEPT !.wire[d] = IF @ = NoValue THEN p.table[d] ELSE @]
    IN  IF d \in Settings THEN publish_mcu_call(taken, One(d, p.table[d])) ELSE p

\* The listeners of setup. The effect of a light that is off is not shown.
HandleDatapoint(p, d) ==
    LET taken == [p EXCEPT !.wire[d] = p.table[d]]
    IN  CASE d \notin Settings                      -> p
          [] d = EFFECT /\ p.wire[SWITCH] = 0       -> taken
          [] OTHER -> publish_mcu_call(taken, One(d, p.table[d]))

----------------------------------------------------------------------------
(* Writes *)

\* MUTANT: the visible state stays as it was asked for.
Mut_restore_visible_state(p) == [p EXCEPT !.requested = NoValue]

restore_visible_state(p) ==
    publish_mcu_call([p EXCEPT !.requested = NoValue],
        [d \in Dps |-> IF d \notin Settings \/ (d = EFFECT /\ p.wire[SWITCH] = 0)
                       THEN NoValue ELSE p.wire[d]])

\* force_set_..._datapoint_value, authorized, and the wire cache.
Send(p, d, v) ==
    [p EXCEPT !.wire[d] = v, !.session = Enqueue(Record(@, One(d, v)), Deliver(One(d, v)))]

Differs(p, d) == p.wire[d] # NoValue /\ p.wire[d] # p.shown[d]
Changed(p, d) == IF Differs(p, d) THEN p.shown[d] ELSE NoValue

\* MUTANT: an effect that was asked for ends the write.
MutEffectOnly_Writes(p) ==
    IF p.requested # NoValue THEN [Nothing EXCEPT ![SWITCH] = IF p.wire[SWITCH] = 1 THEN NoValue ELSE 1,
                                                   ![EFFECT] = p.requested]
    ELSE [d \in Dps |-> IF d \in Settings THEN Changed(p, d) ELSE NoValue]

\* What write_state writes of a light that is on. A colour goes with the constant
\* effect, which it selects; another effect that was asked for keeps it away.
Writes(p) ==
    LET coloured == Differs(p, RGB) /\ p.requested \in {NoValue, CONSTANT_EFFECT}
        selected == coloured /\ p.wire[EFFECT] # CONSTANT_EFFECT
    IN  [d \in Dps |->
            CASE d = SWITCH     -> IF p.wire[SWITCH] = 1 THEN NoValue ELSE 1
              [] d = EFFECT     -> IF selected THEN CONSTANT_EFFECT ELSE p.requested
              [] d = BRIGHTNESS -> Changed(p, BRIGHTNESS)
              [] d = RGB        -> IF coloured THEN p.shown[RGB] ELSE NoValue
              [] OTHER          -> NoValue]

Write(p, d, v) == IF v = NoValue THEN p ELSE Send(p, d, v)

\* In which order: the constant effect that a colour selects is sent after the
\* brightness, one that was asked for before it.
InOrder(p, writes) ==
    LET lit     == Write(p, SWITCH, writes[SWITCH])
        changed == IF p.requested = NoValue
                   THEN Write(Write(lit, BRIGHTNESS, writes[BRIGHTNESS]), EFFECT, writes[EFFECT])
                   ELSE Write(Write(lit, EFFECT, writes[EFFECT]), BRIGHTNESS, writes[BRIGHTNESS])
    IN  Write(changed, RGB, writes[RGB])

\* write_state. Whether a write is accepted does not change between them: the
\* first that is refused restores what is visible. Power is known only with the
\* types of all datapoints, so that no numeric one is refused for its type.
write_state(p) ==
    LET on       == p.shown[SWITCH] = 1
        writes   == IF on THEN Writes(p)
                    ELSE IF p.wire[SWITCH] = 0 THEN Nothing ELSE One(SWITCH, 0)
        done     == [InOrder(p, writes) EXCEPT !.requested = NoValue]
        selected == writes[EFFECT] # NoValue /\ p.requested = NoValue
    IN  CASE p.suppress -> [p EXCEPT !.suppress = FALSE]
          [] ~p.suppress /\ writes # Nothing /\ ~Authorized(p) -> restore_visible_state(p)
          [] OTHER -> IF selected THEN publish_mcu_call(done, One(EFFECT, CONSTANT_EFFECT)) ELSE done

----------------------------------------------------------------------------
(* Steps *)

Init ==
    /\ \E on, lit \in {0, 1}, e \in Effects, b \in Levels, c \in Colours :
          mcu = [d \in Dps |-> CASE d = POWER -> on [] d = SWITCH -> lit [] d = EFFECT -> e
                                 [] d = BRIGHTNESS -> b [] d = RGB -> c [] OTHER -> 0]
    /\ \E b \in Levels, c \in Colours :
          program = [session |-> [InitSession EXCEPT !.initState = "INIT_DONE"],
                     table |-> Nothing,
                     wire |-> [d \in Settings |-> NoValue],
                     shown |-> [d \in Settings |-> CASE d = SWITCH -> 0 [] d = EFFECT -> NoValue
                                                     [] d = BRIGHTNESS -> b [] d = RGB -> c],
                     requested |-> NoValue, suppress |-> FALSE, scheduled |-> FALSE]
    /\ toMcu = <<>> /\ reports = <<mcu>>
    /\ request = Nothing
    /\ wanted = mcu

Transmits == Transmission /\ UNCHANGED history
Executes == Execution /\ UNCHANGED history

Receives ==
    /\ reports # <<>>
    /\ request = Nothing \/ (Crossing /\ Authorized(program))
    /\ program' = TakeReport(program, Head(reports), HandleDatapoint)
    /\ reports' = Tail(reports)
    /\ UNCHANGED <<mcu, toMcu, history>>

\* What a call goes by: the switch, what it sets, and the effect a colour selects.
GoesBy(call) ==
    {SWITCH} \cup (Written(call) \cap Settings) \cup IF call[RGB] # NoValue THEN {EFFECT} ELSE {}

\* A call that leaves the colour alone: it turns off, or asks for an effect without.
Uncoloured(call) == call[SWITCH] = 0 \/ call[EFFECT] \notin {NoValue, CONSTANT_EFFECT}

\* Is that known as it will be, and no colour shown that was not sent and would be now?
Current(call) ==
    /\ \A d \in GoesBy(call) : program.wire[d] = Commanded[d]
    /\ Differs(program, RGB) => call[RGB] # NoValue \/ Uncoloured(call)

\* The user makes the next call when the light is known and, without Overlapping,
\* current; with it, when no report of what someone does at the appliance is crossed.
\* A light that is off is turned on by a call, and an effect asked for does not run.
Makes(call) ==
    /\ program.table # Nothing /\ ~program.scheduled
    /\ Len(program.session.queue) <= MaxAhead
    /\ Current(call) \/ (Overlapping /\ (reports # <<>> => InFlight(program.session)))
    /\ Written(call) \in Calls
    /\ program.shown[SWITCH] = 0 => call[SWITCH] # NoValue
    /\ call[SWITCH] = 0 => Written(call) = {SWITCH}
    /\ call[EFFECT] # NoValue => call[EFFECT] # program.shown[EFFECT]
    /\ program' = Perform(program, call, FALSE)
    /\ request' = call
    /\ UNCHANGED <<mcu, toMcu, reports, wanted>>

\* What a call asks the light to be: a colour makes the effect constant unless
\* another one comes with it, which has no colour.
Asked(w, call) ==
    LET coloured == call[RGB] \notin {NoValue, w[RGB]} /\ call[EFFECT] \in {NoValue, CONSTANT_EFFECT}
    IN  [d \in Dps |-> CASE d = RGB -> IF coloured THEN call[RGB] ELSE w[RGB]
                         [] d = EFFECT /\ coloured -> CONSTANT_EFFECT
                         [] OTHER -> IF call[d] # NoValue THEN call[d] ELSE w[d]]

\* LightState::loop writes what is scheduled.
Loop ==
    /\ program.scheduled
    /\ program' = write_state([program EXCEPT !.scheduled = FALSE])
    /\ wanted' = IF Authorized(program) THEN Asked(wanted, request) ELSE wanted
    /\ request' = Nothing
    /\ UNCHANGED <<mcu, toMcu, reports>>

\* The fan is turned on or off.
SwitchPower(on) ==
    /\ Len(program.session.queue) <= MaxAhead
    /\ program' = Set(program, POWER, on)
    /\ UNCHANGED <<mcu, toMcu, reports, history>>

\* Someone uses the appliance; what changed is reported, or everything is.
Press(d, v, whole) ==
    /\ Quiet /\ ~program.scheduled
    /\ mcu[d] # v
    /\ mcu' = [mcu EXCEPT ![d] = v]
    /\ reports' = <<IF whole THEN mcu' ELSE One(d, v)>>
    /\ wanted' = IF d \in Settings THEN [wanted EXCEPT ![d] = v] ELSE wanted
    /\ UNCHANGED <<program, toMcu, request>>

Possible(d) ==
    CASE d \in {POWER, SWITCH} -> {0, 1}
      [] d = EFFECT -> Effects [] d = BRIGHTNESS -> Levels [] d = RGB -> Colours

Next ==
    \/ Transmits
    \/ Executes
    \/ Receives
    \/ \E s \in {NoValue, 0, 1}, e \in Effects \cup {NoValue},
          b \in Levels \cup {NoValue}, c \in Colours \cup {NoValue} :
            Makes([Nothing EXCEPT ![SWITCH] = s, ![EFFECT] = e, ![BRIGHTNESS] = b, ![RGB] = c])
    \/ Loop
    \/ \E on \in {0, 1} : SwitchPower(on)
    \/ \E d \in {POWER} \cup Settings, whole \in BOOLEAN : \E v \in Possible(d) : Press(d, v, whole)

Spec == Init /\ [][Next]_vars

----------------------------------------------------------------------------
(* Properties *)

\* Once everything commanded is done, the light is as the last calls that were not
\* refused asked: "every requested setting must be sent"
\* (tests/host/dreo_host_test.cpp:731), each as its own command, a colour with the
\* constant effect and another effect without a colour.
RequestsPrevail == request = Nothing => \A d \in Settings : Commanded[d] = wanted[d]

\* An effect stays until another one, or a colour, is asked for: "colour sent with a
\* non-constant effect must not re-select Constant"
\* (tests/host/dreo_host_test.cpp:777).
EffectPrevails == request = Nothing => Commanded[EFFECT] = wanted[EFFECT]

\* When all is quiet the light shows what the MCU has, after a refused call too
\* (restore_visible_state_). An effect it may not know to run shows as none.
ShownIsMcu ==
    Quiet /\ ~program.scheduled =>
        \A d \in Settings : \/ program.shown[d] = mcu[d]
                            \/ d = EFFECT /\ (mcu[SWITCH] = 0 \/ program.shown[d] = NoValue)

\* A call has those settings written that it carries, and the effect for a colour,
\* and nothing is written without one: what was reported or restored meanwhile is
\* not sent back to the MCU (the wire_ values, suppress_scheduled_write_).
OnlyRequestsWritten ==
    [][LET before == program.session.queue
           after  == program'.session.queue
           added  == (Len(before) + 1)..Len(after)
       IN  <<toMcu, reports>>' = <<toMcu, reports>> =>
           \A i \in added : \A d \in Written(after[i].writes) \cap Settings :
               request[d] # NoValue \/ (d = EFFECT /\ request[RGB] # NoValue)]_vars
============================================================================
