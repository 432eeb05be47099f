--------------------------- MODULE MCDreoReceiver ---------------------------
(* DreoReceiver for TLC: an empty body, and bodies with a header in them and with *)
(* the beginning of one at their end; a corrupted byte becomes one of a header or *)
(* a length that takes in the next frame.                                         *)
EXTENDS DreoReceiver

MCBodies == {<<>>, <<85, 170>>, <<1, 85>>}
MCNoise == {12, 85, 170}
=============================================================================
