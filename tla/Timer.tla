------------------------------- MODULE Timer -------------------------------
(* What a stopwatch is: a time that grows with the clock while it is on,      *)
(* stays while it is off, and is set only by its user.                        *)
EXTENDS Naturals

CONSTANT Times      \* the times the user can set

VARIABLES on, time

Init    == on = FALSE /\ time = 0
Tick    == time' = (IF on THEN time + 1 ELSE time) /\ UNCHANGED on
Toggle  == on' = ~on /\ UNCHANGED time
Set     == time' \in Times \cup {0} /\ UNCHANGED on

Next == Tick \/ Toggle \/ Set
Spec == Init /\ [][Next]_<<on, time>>
=============================================================================
