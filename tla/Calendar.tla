------------------------------ MODULE Calendar ------------------------------
(***************************************************************************)
(* The calendar as people keep it: months of 28 to 31 days, a leap day every *)
(* fourth year, days skipped once when the Gregorian reform came, and from   *)
(* then on no leap day in the centuries that 400 does not divide.            *)
(***************************************************************************)
EXTENDS Integers

VARIABLES
    late,   \* was the reform late, in 1752, or in 1582?
    date    \* <<year, month, day>>

LastJulian     == IF late THEN <<1752, 9, 2>>  ELSE <<1582, 10, 4>>
FirstGregorian == IF late THEN <<1752, 9, 14>> ELSE <<1582, 10, 15>>

Leap(y) == /\ y % 4 = 0
           /\ y % 100 = 0 /\ y > LastJulian[1] => y % 400 = 0

MonthLength(y, m) == IF m = 2 THEN (IF Leap(y) THEN 29 ELSE 28)
                     ELSE IF m \in {4, 6, 9, 11} THEN 30 ELSE 31

Skipped(y, m) == IF <<y, m>> = <<LastJulian[1], LastJulian[2]>>
                 THEN LastJulian[3] + 1 .. FirstGregorian[3] - 1 ELSE {}
DaysOf(y, m)  == (1 .. MonthLength(y, m)) \ Skipped(y, m)

Tomorrow(y, m, d) ==
    IF <<y, m, d>> = LastJulian THEN FirstGregorian
    ELSE IF d < MonthLength(y, m) THEN <<y, m, d + 1>>
    ELSE IF m < 12 THEN <<y, m + 1, 1>> ELSE <<y + 1, 1, 1>>

Init == /\ late \in BOOLEAN
        /\ date[1] \in Int /\ -4712 <= date[1] /\ date[1] <= 9999
        /\ date[2] \in 1 .. 12
        /\ date[3] \in DaysOf(date[1], date[2])

Next == date' = Tomorrow(date[1], date[2], date[3]) /\ UNCHANGED late

Spec == Init /\ [][Next]_<<late, date>>
=============================================================================
