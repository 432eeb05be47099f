--------------------------- MODULE MCDreoHpf007s ---------------------------
(* DreoHpf007s for TLC: power, speed and axes, of which packages/              *)
(* dreo-hpf007s.yaml makes power and axes transitions.                         *)
EXTENDS DreoHpf007s

MCDps == {1, 4, 5}
MCTransition == {1, 5}
MCValues == 0..3
MCSpeeds == {1, 2}
============================================================================
