---------------------------- MODULE MCDreoLight ----------------------------
(* DreoLight for TLC: two of each setting, and calls that carry one, a colour *)
(* or a brightness with an effect, or all of them.                            *)
EXTENDS DreoLight

MCDps == {POWER, SWITCH, EFFECT, BRIGHTNESS, RGB}
MCTransition == {POWER}
MCValues == 0..2
MCTwo == {1, 2}
MCCalls == {{SWITCH}, {EFFECT}, {BRIGHTNESS}, {RGB}, {EFFECT, RGB}, {EFFECT, BRIGHTNESS},
            {SWITCH, BRIGHTNESS}, {SWITCH, EFFECT, BRIGHTNESS, RGB}}
MCBrightness == {{BRIGHTNESS}}
MCEffects == {{BRIGHTNESS}, {EFFECT, RGB}}
============================================================================
