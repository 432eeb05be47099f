------------------------- MODULE MCDreoCeilingAmbient -------------------------
(* DreoCeilingAmbient for TLC: two presets and two looks, and the fan.          *)
EXTENDS DreoCeilingAmbient

MCDps == {MASTER, FAN, AMBIENT, CURSOR, COUNT, PREDEFINE}
MCTransition == {MASTER, FAN, AMBIENT}
MCValues == 0..2
MCPresets == <<"Rainbow", "Yellow">>
MCLooks == {1, 2}
=============================================================================
