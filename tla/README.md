# A TLA+ model of dreo-protocol

This directory models the program of this repository, an ESPHome component that
takes the place of the Wi-Fi module of a Dreo appliance and talks to the
appliance's MCU over a UART. Everything here is checked by TLC on small
instances. Proved with TLAPS, for every value of the constants, are all safety
properties of the core, that it implements what it promises of a wanted value, and
the properties of three of its clients: power and settings of the HPF007S and of the
ceiling fan, and the platform light.

## The system

One single-threaded program: ESPHome calls every component's `loop()` in turn,
runs timers, and delivers the controls of the user. What interleaves is the order
of those calls, the frames the MCU sends when it likes, time, and re-entry:
handlers call listeners, listeners call controls, controls send, and sending runs
the command queue.

| Component | State | Operations | Talks to |
|---|---|---|---|
| Hub (`components/dreo/dreo.cpp`) | receive buffer; command queue, response awaited, time of the last command; handshake stage and retries; datapoint table; pending transitions; reconciliation route and attempts | `loop`, frame handlers, controls (`set_datapoint_values`, `send_wifi_status`, `request_full_datapoint_report_once`), heartbeat timer | the MCU (frames both ways); listeners and callbacks of the entities; the command authorizer of the configuration |
| Platform entities (`components/dreo/{fan,light,number,select,switch,lock,text,...}`) | the entity's published state, caches of what was last written | `setup`, a listener per datapoint, `control` / `write_state` | the hub, ESPHome's entity classes |
| Ceiling fan coordinator (`components/dreo_ceiling_fan`) | power of master and children as reported, settings queued until the power is confirmed, preset cursor and count, snapshot of the ambient light | a listener for all datapoints, `control_fan`, `control_main_light`, `control_ambient`, `on_light_remote_values_update`, `authorize_command` | hub, its entities, the ambient light |
| HPF007S coordinator (`components/dreo_hpf007s`) | reported datapoints, the axes target, a position being travelled to, presence, settings queued until power, connection indication | a listener, controls of its entities, timeouts, `loop` | hub, its entities, Wi-Fi and API |
| Schema and code generation (`*/__init__.py`) | none at run time | builds the firmware | - |
| Decoder, captures (`protocol/`) | none | offline | - |

### What is hard in it

* **Re-entry.** A send from inside a frame handler runs `process_command_queue_`
  while that frame still lies in the receive buffer; a stale buffer makes
  `process_command_queue_` itself call the frame handlers.
* **Unchecked `front()`.** The command in flight is by convention the head of the
  queue. Timeouts, answers, inserted readbacks, cancellations and resets must all
  keep it so.
* **Loss.** The MCU may not answer. Deliveries of transition datapoints are then
  read back, at most twice; the wanted value stays pending meanwhile, and
  contradicting reports are told apart by whether they answer a readback.
* **Restarts.** A heartbeat with status 0 restarts the handshake in the middle of
  anything else, and the MCU may reset the whole session.
* **Sharing.** One retry counter, one attempt counter, and one awaited response
  serve commands of all kinds, and answers are matched by type alone.

What makes the hub correct: the command in flight is the head of the queue; no
command is lost, overtaken or repeated against the rules of its type; a pending
transition is given up only on evidence; at most one readback is queued, next, and
for a reason; reconciliations and handshakes end. For the coordinators:
settings reach the MCU after the power they need; switching one output never switches another; a target composed from two axes is never mixed from two requests; indications converge.

## Modules

| Module | Models |
|---|---|
| `DreoSession` | the protocol session as a record, each method of class `Dreo` that changes it as an operator, and the invariants of a session between two calls |
| `DreoHub` | the hub as a state machine: `loop`, the stale buffer, frame handlers step by step, callbacks, controls, timer, time; its properties |
| `DreoTransitions` | what the hub promises of a transition datapoint, without queue, time or handshake: an abstract specification that `DreoHub` implements (`KeepsTransitions`) |
| `DreoReceiver` | the receive buffer, byte by byte: finding, rejecting and resynchronising frames among lost and corrupted bytes |
| `DreoLink` | the hub as its clients meet it after the handshake: datapoints set, targets and reports read, the wire, an MCU that carries out what it is told; built from the operators of `DreoSession` |
| `DreoCeilingPower` | the power of the ceiling fan's outputs under their master (`request_feature_state_`), shared by the next two |
| `DreoCeilingFan` | the ceiling fan coordinator on `DreoLink`: master gate, queued settings, authorizer, controls; the user and the buttons of the appliance |
| `DreoCeilingAmbient` | its ambient light: what it publishes to the light of ESPHome and what it hears from it, the remembered effect, the preset cursor and count, the sentinel |
| `DreoHpf007s` | the HPF007S coordinator on `DreoLink`: power, queued settings, authorizer, the two axes of one datapoint; the user, the panel and the remote |
| `DreoHpf007sParts` | its parts that meet only through the hub, exercised one at a time: head positions, sweeps, presence, the connection indicator |
| `DreoLight` | the platform light on `DreoLink`: reports, calls, scheduled writes, wire values, effects |
| `DreoSessionProofs` | every operator of `DreoSession` preserves the session invariants |
| `DreoHubProofs` | every step of `DreoHub` preserves the inductive invariant and the order of the queue, and is one of `DreoTransitions` or a stutter; the theorems |
| `DreoReconciliationProofs` | what holds of reconciliations while the MCU does not restart |
| `DreoIteration` | induction for a loop of the program, stated once for any loop body and loop invariant |
| `DreoLinkProofs` | what commands make of a datapoint, and that hub, wire and MCU go in step |
| `DreoHpf007sProofs` | the invariant of the HPF007S coordinator and its three properties |
| `DreoCeilingFanProofs` | the invariant of the ceiling fan coordinator and its four properties |
| `DreoLightProofs` | the invariant of the platform light and its three properties |
| `MCDreo...` | values of the constants for TLC |

`DreoHub` uses `DreoSession`, and `DreoLink` does; the five modules above `DreoLink`
each compose one client with the hub, the wire and the MCU. `DreoReceiver` stands
alone: `DreoHub` takes from it that a frame is complete and valid or has no effect.

### How the state corresponds to the code

| Model | Code (class `Dreo`) |
|---|---|
| `session.queue` | `command_queue_`; a command is its type, its route and what it writes |
| `session.expected` | `expected_response_`, `"NONE"` for none |
| `session.age` | `millis() - last_command_timestamp_`, in ticks, capped above both limits |
| `session.initState`, `initFailed`, `initRetries` | `init_state_`, `init_failed_`, `init_retries_` |
| `session.pending` | `pending_transitions_` |
| `session.route`, `attempts` | `reconciliation_route_`, `reconciliation_attempts_` |
| `table` | `datapoints_` |
| `rx` | `rx_message_`: empty; with bytes; with bytes and no new one for 300 ms |
| `turn` | where the program counter is: between calls, in `loop()` having read bytes, in the stale-buffer branch of `process_command_queue_` |
| `frame` | the locals of `handle_command_` while it handles a report: datapoints left, `completed_delivery`, whether it answered a readback; and whether a callback is running |

A call that changes state is one action, with one exception: the handler of a
report is `HandleReport`, then one `TakeDatapoint` per datapoint, then
`FinishFrame`, because the listeners and callbacks in between may call controls,
and those may run the queue. `Callable` says where such calls can come from. A button
event (`HandleButtonEvent`) changes nothing itself; its callback, like that of a
report, may call controls.

In `DreoCeilingFan`, `program.queued` is `queued_fan_speed_` and its like, and the
coordinator's copies of reported datapoints are the hub's table, which calls it at
every update. A report is taken over in one action, datapoint by datapoint, each
followed by the coordinator's listener (`TakeReport`, a loop over the datapoint ids up
to `MaxDp`): settings may be flushed in the middle of it, and the readback that
`Settle` inserts comes after them. The
history variables `wanted`, `chosen` and `asked` note what the user and the buttons
asked for. The outputs are told apart by datapoint id; the pairs speed and mode,
brightness and colour temperature are one setting each, since the code handles the
members of a pair alike. The MCU (`Execution`) is external: it carries out a
delivery and reports its whole table, as `protocol/04_cloud_control.txt` records.

In `DreoHpf007s`, `program.queued_speed` and `program.axes_target` are the members
of those names, `power_`, `speed_` and `axes_` are the hub's table, and the operators
have the methods' names. Speed stands for speed and mode.

In `DreoHpf007sParts`, `target`, `measured`, `pending`, `saw_mismatch`, `setting`,
`kept` and `sent` are the members of class `DreoHpf007s` for positions, sweeps,
presence and the indicator; a position and a sweep, one datapoint with a field for
each axis in the code, are a datapoint per axis whose writes go out together. `waited`
and `lost` are elapsed times. The MCU moves its head (`heading`), reports the target
at once, then the old position, then the target, as the capture in the code's
comments has it, and forgets its indicator when it restarts. In `DreoLight`, `shown`
is the light of ESPHome, `wire` the cached wire values, `scheduled` and `suppress` the
write to come and the flag that drops it; a call of the user and the write of it are
two actions, since ESPHome writes in a later loop. In `DreoCeilingAmbient`, `shown` is
the light with its effect and its look (colour and brightness), `snapshot`, `local`,
`applied` and `counted` are `ambient_snapshot_*`, `local_effect_`,
`applied_preset_cursor_` and `preset_count_written_`; the listener runs inside the
call that drives the light, as in the code. In `DreoReceiver`, bytes are numbers and
`handled` is what `handle_command_` was given.

What is abstracted. Frames: a frame is complete and valid, or it has no effect
(`ReadBytes`); the parser is `DreoReceiver`. Values and their encodings: the hub
only compares values. Batches rejected by the authorizer or by a type or length
check send nothing and are no step. The acknowledgement of a report
(`acknowledge_reports_`) and logging change no state of the session. Time: only
whether the spacing or the timeout has passed matters. In the stale-buffer branch,
a frame that a nested rescan finds inside another frame's handler is handled after
that handler, not inside it. The protocol version and the sequence number are
left out: nothing depends on their values.

## Runs

| Run | Checks | Bounds |
|---|---|---|
| `HubDisturbed` | types and the inductive invariant; head in flight; one readback, next, with a reason; attempts clear; handshake has its request; authority only from a readback; FIFO; pending kept; every step allowed by `DreoTransitions` | one transition datapoint, two values, queue up to 2 plus readback, spacing 2 and timeout 1 tick, all disturbances |
| `HubLiveness` | reconciliations end, handshakes end, the queue moves; attempts within budget, no stranded reconciliation, one-shots not repeated, lost report read back | fair specification, one datapoint, queue up to 2 plus readback, no disturbance, spacing 0 |
| `Receiver` | frames that arrive whole are handled, in order, and nothing else; the buffer runs empty | three frames of three bodies, two of them with the bytes of a header in them, two faults, bodies of up to 12 bytes allowed |
| `Ceiling` | requests prevail, settings prevail, no flash, no setting without power | three outputs, one setting of two values, every initial power state and every change at the appliance; a control while up to three commands are queued (`MaxAhead` 3) and the targets are current, an off only for a lit output |
| `CeilingAmbient` | the chosen effect and look prevail, the power prevails, reports are not answered | two outputs, two presets, two looks, every initial state; up to three commands queued |
| `Hpf` | the axes prevail, the speed prevails, nothing but power reaches a fan that is off | power, one setting of two values, both axes, every initial state and every change at the panel; a control while up to three commands are queued and the targets it goes by are current (`AmidReadback` FALSE) |
| `HpfParts` | position targets are kept and given up in time, sweeps prevail, of presence and zone only what was heard since power-on is shown, the indicator flashes not early and converges | fair specification; one axis moved, two positions, two widths, one part at a time; reports of a fan that is off carry no presence (`SensedWhileOff` FALSE) |
| `Light` | requests prevail, the light shows the MCU, only requests are written | two effects, brightnesses and colours, eight kinds of call, one command ahead; a call is written before the next report (`Crossing` FALSE) and made while what it goes by is current (`Overlapping` FALSE) |
| `HubStaleFrame`, `CeilingReversal`, `HpfStalePresence`, `LightRequestLost` | one property each, violated: see Findings | the one disturbance or widening that is needed |

Four configurations beside the runs reproduce further findings, each one property that
TLC finds violated: `CeilingOffOther.cfg` (of `MCDreoCeilingFan`),
`HpfAxisTakenBack.cfg` (`MCDreoHpf007s`), `LightOldValue.cfg` and
`LightEffectUndone.cfg` (`MCDreoLight`).

Why the bounds are enough. A queue of two holds the command in flight and one
behind it, with a readback three: enough for every insertion, cancellation and
overtaking. Two values make a confirming and a contradicting report. Both orders
of spacing and timeout occur: in the products spacing is 10, 100 or 1000 ms and
the timeout 300 ms. Two attempts are the code's limit; two retries instead of five
only shorten the handshake. The values are symmetric, since the hub compares them
and nothing else. Disturbances are a constant because each multiplies the state
space, and because `HubLiveness` states what holds only without them; the proofs
have no such bound.

The ceiling fan. `Ceiling` leaves out two things on purpose. One is an off for an
output that is off: requests do not prevail then, as `CeilingOffOther` shows. The
other is a control while the hub's targets differ from what it is going to send
(`TargetsCurrent`): after a readback has cleared the target of a queued write, as
`CeilingReversal` shows, and, for a setting, which is no transition and has no
target, while it is being written (the hazard at dreo.cpp:847). With these, controls
come at any moment, each of up to four writes, behind up to three commands that are
queued, with reports and readbacks between them, in every interleaving of wire, MCU
and program; larger `MaxAhead` gives more states of the same kind. Buttons are pressed
when all is quiet, and no frame is lost: a press that crosses a command is decided by
the MCU, and loss is `DreoHub`'s subject. `AllowWhileOff` is FALSE, since TRUE switches off the gate the properties
are about.

The HPF007S. A control of power, and a switch of an axis, comes only while the hub's
targets of the datapoints it goes by are what it is going to send (`MayControl`, with
`AmidReadback` FALSE): power for the fan, power and axes for an axis, and for a speed
also that no other speed is being written. Without this a readback that clears the
target of a queued write has the next switch take the other axis back
(`HpfAxisTakenBack`), and a setting can follow an "off". A speed given with
"on" while a report of an "off" is still to come (`OffToCome`) is left out of `Hpf`:
the report drops it (Findings). A speed chosen at the panel while another waits for
power is left out, since it is not defined which came last. `HpfParts` exercises one
part in a behaviour, chosen in the initial state (`Parts`): they share no member, and
together they would only multiply. A position that is asked for while another is
under way is in the run, but `TargetKeptUncrossed` is silent about it (Findings).
Sweeps are chosen one after the other, each when all is quiet. `PresenceFresh` is
checked with an MCU that reports no presence and no zone while its fan is off, as the
comment at dreo_hpf007s.cpp:248 has it; the program would store them, and show them
after power-on (`HpfStalePresence`).

The ambient light. The light is turned off only when it is meant to be on; a user and
someone with the remote do not use it at the same time. Both presets and both looks are
chosen with the light off and on, before, between and after power cycles and moves of
the cursor, in every order of the reports. A call before the power is known, and an
effect ended in the same call that turns the light on, are left out (Findings).

The light. ESPHome accepts calls at any time; `Light` leaves out two kinds of moment.
A write comes in the next loop, before a report: with a report in between (`Crossing`)
requests do not prevail, as `LightRequestLost` shows. And a call is made while it is
`Current`: the wire values of what it goes by (`GoesBy`: the switch, what it sets,
and the effect that a colour selects) are what the commands under way will make of
the MCU, and no colour is shown that was not sent, unless the call brings a colour or
leaves it alone. Calls follow each other without waiting for reports where this holds,
which is always so unless a report of something else has crossed a queued write, or a
call with an effect has left its colour unsent. With `Overlapping` those calls come
too, and `LightOldValue` and `LightEffectUndone` show what becomes of them. A call with a
colour and no effect selects the constant effect, the only one that has a colour; one
with another effect writes no colour.

The receiver. The bytes of the frames are such that no two pieces of different frames
sum up to the checksum between them: a sum of bytes cannot exclude that, and with
three faults TLC finds such pieces. A frame suffers one fault at most for the same
reason. Twelve bytes of body are room for a corrupted length to take in the whole of
the next frame, which the property needs to be about more than the beginning.

Fairness. `loop()` is called for ever and ends, handlers end, and time passes: that
is ESPHome's scheduler. The one assumption on the MCU is that it pauses again and
again for longer than 300 ms, so that a partial frame goes stale and is dropped;
the MCU need never answer. Strong fairness of `EndLoop` with an empty and with a
stale buffer states that `loop()` meets those states when they recur. Liveness is
checked without symmetry and without disturbances, since MCU restarts would
restart the handshake for ever, and rightly. `HpfParts` assumes besides that what is on
the wire arrives, that the head comes to rest, and that the MCU reports its state now
and then, as the captures show it does: the travel timeout is looked at only when a
report comes. `Receiver` assumes that bytes sent arrive and that an MCU with nothing to
send is silent for 300 ms. Bytes that trickle in for ever are thus in no run, and a
spacing above the timeout only in `HubDisturbed`, for safety; that a handshake is given
up and not begun again is what the code does, and `HandshakeEnds` accepts it.

Every property of a passing run has a mutant: an operator next to the definition
it replaces, marked MUTANT, that changes it the way a bug would; the property fails
with it.

## Findings

Four runs and four configurations beside them violate a property that the tests or the
documentation state.

1. `HubStaleFrame` (dreo.cpp:158-159, 513-526). A frame recovered from a stale
   buffer whose handler sends is rejected, byte by byte, by the nested call of
   `process_command_queue_`, and then erased again by the outer one: the erase runs
   past the end of the buffer. An abandoned header followed by the heartbeat that
   starts the handshake is enough.
2. `CeilingOffOther` (dreo_ceiling_fan.cpp:245-248). The master goes off when at most
   one output is active, whichever it is: turning off the main light when it is off
   and only the fan runs stops the fan.
3. `CeilingReversal` (dreo.cpp:964-966). A readback in flight answers with the state
   before a write that is still queued, and clears that write's pending target. To
   the user: fan on, main light on and off again before the fan's delivery is
   settled; the off is suppressed against the old table, and the queued write turns
   the light on.
4. `HpfAxisTakenBack` (dreo.cpp:964-966, dreo_hpf007s.cpp:191-192, 476-479). The same
   readback on the axes: a speed is being delivered, an axis is switched on behind it,
   the readback after the speed's report clears the pending axes. The other axis,
   switched on before the first write is sent, is composed from the table of before,
   and its write switches the first axis off again.
5. `HpfStalePresence` (dreo_hpf007s.cpp:214-224, against the comment at 248-251). A full
   report while the fan is off stores presence and zone; after power-on the first
   report of presence publishes the zone as it was stored.
6. `LightRequestLost` (dreo_light.cpp:86-94). ESPHome writes a call of the user in its
   next loop; a report handled before that marks the write as one to suppress, and
   nothing of the call is sent.
7. `LightOldValue` (dreo_light.cpp:42, 76, 130, 142). A report of everything, caused by
   a press at the appliance, crosses a queued brightness and takes the wire value back
   to the old one. A call for the old brightness equals the wire value and is not
   written; the queued one is, and wins. The same goes for a colour.
8. `LightEffectUndone` (dreo_light.cpp:140-154). A call with an effect and a colour sends
   the effect alone, but the light shows the colour. A brightness call before a report
   has corrected that finds the colour different, and sends it with the constant
   effect.

Met while modelling; the runs leave these out, or state their properties so that
they hold, and each place says so.

* Restart during a readback (dreo.cpp:531-537, 569, 587). When the MCU restarts while
  a readback is in flight, the handshake's retry counter takes over its timeout: the
  readback is sent more than twice; or the counter erases it without ending the
  reconciliation, and later lost reports are never read back.
* "On" with a speed while an "off" is under way (dreo_hpf007s.cpp:245-247). The report
  of the "off" drops the speed, and the fan comes back at its old one. The ceiling fan
  coordinator keeps its settings in that situation.
* A crossed position request (dreo_hpf007s.cpp:311-326). A report of the old position
  that was under way counts as the differing one: the request's own answer then
  releases the target, and the old position, reported next, replaces it.
* Preset count (dreo_ceiling_fan.cpp:87-96, against the comment at 81-86). Once the
  count has been written or agreed, a later report that disagrees, after a restart of
  the MCU for instance, has it not written again.
* Ambient light (dreo_ceiling_fan.cpp:389-396). A call before the first report is not
  noted, and an effect ended in the call that turns the light on is not noticed as a
  change, so that the remembered effect resumes.
* A control of a datapoint that is no transition is compared with the table alone
  (dreo.cpp:847): going back to the table's value while the opposite write is queued
  is suppressed. The light forces its writes past the table, but compares them with
  its wire values, where it meets the same (`LightOldValue`).
* An unsolicited report while a readback is in flight (dreo.cpp:204) cannot be told
  from the answer: it is authoritative, and may clear a target that the MCU has yet
  to be told.

## Proofs

`DreoHubProofs` proves `Spec => []IInv` for any finite or infinite `Dps` and
`Values`, any `Transition` and `Ignored` datapoints, any spacing, timeout, limits
and queue bound, and all disturbances, from `DatapointsAssumption`,
`LimitsAssumption` and `HubAssumption` alone; and from it the safety invariants of
`HubDisturbed` and the action property `PendingIsKept`.

The argument. `SessionInv` is about the session alone: the head is awaited, the
readback is next, has a route, and is counted when in flight. `DreoSessionProofs`
shows that each operator keeps it (`Cancel` needs that the one readback that is
queued is the one it removes; `QueueReadback` that one is only inserted where none
is). Two things are not inductive in the session alone. That a readback has a
*reason* is false in the middle of a report that has just cleared the last pending
transition; `FrameInv` therefore says what is true while a report is handled: an
authoritative report keeps its route and its attempts, no readback is in flight
then (every report completes it, and nothing is transmitted while the report lies
in the buffer). And the handshake's request stays queued only because a query that
is completed early by an unsolicited report moves the handshake on as well
(`HandshakeAsks`). Each action of `Next` has its own lemma; the theorems follow by
the usual temporal step.

`DreoHubProofs` proves the refinement too, `Spec => KeepsTransitions`: under the mapping `wanted`
is `session.pending`, `known` the table, `unread` and `authority` the report under
handling, and `asking` is true while a readback is in flight, every step of `DreoHub`
is a step of `DreoTransitions` or a stutter. Each operator of `DreoSession` gets a
lemma that says what it does to `wanted` and `asking`, on states that satisfy `IInv`;
without the invariant the step that hears a report could not tell an answer from a
report nobody asked for. The abstract specification says in a page what a client of
`get_boolean_datapoint_target` may rely on, and the theorem that nothing the queue,
the timeouts, the retries or the handshake do can break it.

`DreoHubProofs` also proves `QueueIsFifo`. The property is stated of `Ordinary`, the queue
without its one readback: by the invariant that readback is first or second, so that
`Ordinary` is the queue itself or the queue with one place skipped, and each operator
of `DreoSession` gets a lemma that says what it does to it: append a command, take the
one in flight off the head, or leave it (`Served`, `Ordered`).

`DreoReconciliationProofs` proves `AttemptsBounded`, `RouteHasReadback`,
`OneShotNotRetried` and `LostReportIsReadBack` under the hypothesis `Undisturbed`: the
MCU does not restart in mid-session and no control is sent before the handshake is
done. Without it they are false (Findings, restart during a readback); module resets
and stale buffers are allowed, and `HubLiveness` runs under the hypothesis. `IInv` is
not enough: that the retry counter of the handshake never touches a readback needs
that during the handshake there is none (`Handshaking`), and that the counter of
attempts stops at the limit needs that a readback that is yet to be sent is within it
(`Budget`). Both were checked by TLC as an invariant, `BudgetInv`, of `HubLiveness`
and of `HubDisturbed` without the two disturbances, before they were proved.

`DreoHpf007sProofs` proves `AxesPrevail`, `SpeedPrevails` and `SettingNeedsPower` for
any speeds, any `MaxAhead`, and any datapoints beside the three, from
`HpfAssumption`, `LinkAssumption` and the assumptions of the hub, under the hypothesis
of the run `Hpf` that a control comes while the targets it goes by are current
(`~AmidReadback`); without it the first is false, already in the weaker form
`NoAxisTakenBack` (`HpfAxisTakenBack`). They follow from one
invariant, `Inv`, which TLC checked on the 23368 states of `Hpf` before. It is about
the commands the MCU has yet to carry out, without readbacks (`ComingOf`), and what
they will make of a datapoint (`Will`):

* `Wire`: at most one command or its report is on the wire; the table is what the MCU
  had before, the report what it has now. This is where the one awaited response of
  the hub is needed.
* `PowerFirst`: settings that come are behind the "on" they need: `SettingNeedsPower`.
* `AxesAreMeant` and `TargetIsPending`: what comes makes the axes what is meant, and
  `axes_target` is what is pending. `AxesPrevail` is the first; without the second a
  switch could build on an older target.
* `OneSpeed`, `SpeedWaits`, `OnIsNext`, `SpeedIsMeant`: a speed is on its way once or
  waits once; while it waits no "off" comes and power is not confirmed; and when the
  next report says off, the command after it is the "on", so that no report drops it.

A report is a loop with a listener inside, over as many datapoints as there are:
`DreoIteration` has the induction for such a loop, stated for any body `Step` and any
invariant `Holds` as constants of the module, and the proof instantiates it with the
round of `handle_datapoints_` and what holds of the program after i rounds (`Took`).
The controls of the proof are those of the run, `MayControl` and `MayChoose` included:
what they leave out is in Findings, and in the open hazard at dreo.cpp:847.

`DreoCeilingFanProofs` proves `RequestsPrevail`, `NoFlash`, `SettingsPrevail` and
`SettingNeedsPower` for any of the three outputs, any values, any `MaxAhead` and any
datapoints beside, from `PowerAssumption`, `SettingAssumption`, `LinkAssumption` and
the assumptions of the hub. The theorems have the hypotheses of the run `Ceiling`:
controls come with current targets (`~AmidReadback`) and an off is for an output that
is meant to be lit (`~OffWhenDark`), without which the first property is false
(`CeilingReversal`, `CeilingOffOther`); `SettingNeedsPower` is about the gate of the
authorizer, so it needs `~AllowWhileOff`, and the other three do not. One invariant,
`Inv`, of the commands that come and what they will make of the outputs:

* `Wire`: program, wire and MCU go in step, as for the HPF007S.
* `LitAtEnd(mcu, coming) = wanted`: this is `RequestsPrevail`. `RequestOff` counts the
  outputs by their targets, and with current targets that is `LitAtEnd`.
* `NoneFlashes`: after each command that comes only outputs are lit that were asked
  for. One request is up to four commands, so it is shown of each prefix: while the
  master's target is off `DarkenOthers` changes nothing that is lit, and `DarkenStep`
  follows the chain of it output by output.
* `Powered`: a setting comes only where the commands before it leave its output lit.
  A control later in the queue cannot undo that, and the authorizer refuses a setting
  while a power of its output is pending, so that no "off" can be ahead of it.
* `SettingIsMeant`: of the settings of an output one is on its way or one waits, not
  both, and it is the one last chosen; with neither, the MCU has it.
* A setting waits only for an output that is meant to be lit, and only while that
  output is not confirmed (`Waiting`). With nothing left to do what is meant to be lit
  is confirmed, hence nothing waits. `Waiting` does not hold between two datapoints of
  a report; it holds after each round of the report's loop, since the listener flushes.

The report is the loop of `DreoIteration` again, and `DreoLinkProofs` is shared with
the HPF007S.

`DreoLightProofs` proves `RequestsPrevail`, `ShownIsMcu` and `OnlyRequestsWritten` for
any effects, levels, colours and kinds of call, any `MaxAhead` and any datapoints
beside, from `LightAssumption`, `LinkAssumption` and the assumptions of the hub, under
the hypotheses of the run `Light`: no report is handled between a call and its write
(`~Crossing`), and a call is made while it is `Current` (`~Overlapping`). Without either
the first is false (`LightRequestLost`; `LightOldValue`, `LightEffectUndone`). The light is
used while reports nobody asked for are on their way, so the wire need not be in step
as it is for the coordinators, and what holds is weaker. The invariant, `Inv`, which
TLC checked on the states of `Light` before:

* What the commands on the wire and in the queue will make of a datapoint is what is
  wanted of it (`Will`): this is `RequestsPrevail`.
* `Latest` and `Followed`: the last report of a datapoint under way is what the MCU
  has, and the cached wire value is what the MCU has or a report of it will come.
* `Known`: the wire values are known at once, since the first report is of everything.
* With no call waiting the light shows its wire values (`Shows`), with one exception
  (`Faded`): a call that brings an effect and a colour leaves the light showing a
  colour that is not written. It is corrected by the report of everything that the
  effect causes (`Owed`).
* A call that waits is what the light shows over its wire values, but for a colour it
  leaves alone, and the wire values it goes by are what the MCU will have (`Waits`,
  `Carries`). Comparing the two, as `write_state` does, then finds what makes the light
  what the call asks, and nothing it did not bring but the constant effect of a colour
  (`Fits`): what is written is wanted, which is `OnlyRequestsWritten`, and when it is
  refused the wire values are what there is to restore.

`ShownIsMcu` follows when all is quiet: nothing is owed, so that the light shows its
wire values, and none is to come, so that these are the MCU's.

Only model-checked: the receiver, whose parser is recursive; the ambient light of the
ceiling fan, whose invariant would have to follow the light of ESPHome and its
listener calling back into the coordinator; the parts of the HPF007S, where position
targets depend on elapsed time; and liveness, which is out of the prover's reach.

## Plan

Done: the hub, its promise and the refinement; the receiver; both coordinators but
for what is listed below; the platform light. Next:

1. Proofs: the ambient light and the parts of the HPF007S, on `DreoLinkProofs`.
2. The Custom curve and the sensor light gradient of the HPF007S: both compose a text
   or a pair of colours from what was last reported, and two quick edits of one meet
   the window of dreo.cpp:847.
3. The main light and the fan of the ceiling fan as entities: conversion of speed,
   brightness and colour temperature, and the suppressed write
   (dreo_ceiling_fan_light.cpp:38), which is the one `LightRequestLost` is about.
4. Platform number (restore and initial value) and fan.

## Not modelled

Schema and code generation run when the firmware is built. Sensors, text sensors
and automation triggers only pass on what a listener delivers; select, switch, lock
and text forward one control and one report. The decoder is an offline tool. Logging
and configuration dumps change nothing. The types and lengths in the body of a report
are checked before anything else (`report_body_is_valid_`): a report that fails is as
one not sent. That the command queue has no limit (dreo.cpp:576) is a question of
rates, which the models do not have. An indicator frame or a sweep lost on the wire is
not sent again by the HPF007S coordinator; `HpfParts` loses no frame.
