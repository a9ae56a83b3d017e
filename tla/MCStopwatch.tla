---------------------------- MODULE MCStopwatch ----------------------------
(* Two digits, and none to three registers.                                  *)
EXTENDS Stopwatch

MCSizes    == {0, 1, 3}
MCRecalled == {0, 2}
=============================================================================
