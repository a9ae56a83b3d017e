------------------------------- MODULE MCKeys -------------------------------
(* Keys with numbers to base 3 and few registers.                          *)
EXTENDS Keys
=============================================================================
