----------------------------- MODULE MCDreoHub -----------------------------
(***************************************************************************)
(* DreoHub for TLC: one datapoint that is a transition, one that is not.   *)
(* The hub never computes with values, so they are interchangeable.        *)
(***************************************************************************)
EXTENDS DreoHub, TLC

CONSTANTS power, speed, v1, v2

MCDps == {power, speed}
MCPower == {power}
MCValues == {v1, v2}
MCNone == {}
MCStaleFrame == {"stale_frame"}
MCAll == {"mcu_restart", "module_reset", "early_control", "stale_frame"}
MCSymmetry == Permutations(MCValues)
============================================================================
