-------------------------- MODULE MCDreoCeilingFan --------------------------
(* DreoCeilingFan for TLC: all three outputs, and the setting of the fan. *)
EXTENDS DreoCeilingFan

MCDps == {1, 3, 4, 5, 7}
MCTransition == {1, 3, 4, 5}
MCValues == {0, 1}
============================================================================
