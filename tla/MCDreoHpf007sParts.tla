------------------------ MODULE MCDreoHpf007sParts ------------------------
(* DreoHpf007sParts for TLC: two head positions and two sweep widths.         *)
EXTENDS DreoHpf007sParts

MCDps == Shown
MCTransition == {POWER, AXES}
MCValues == 0..4
MCParts == {"position", "sweep", "presence", "indicator"}
MCPresence == {"presence"}
MCMoved == {"VERTICAL"}
MCDegrees == {0, 1}
MCWidths == {2, 4}
============================================================================
