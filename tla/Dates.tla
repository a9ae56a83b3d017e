-------------------------------- MODULE Dates --------------------------------
(***************************************************************************)
(* Dates: year, month and day, the Julian day number, and the decimal number *)
(* that stands for a date in each date mode.  The model walks from day       *)
(* number to day number, as adding 1 to J does; the commands are functions.  *)
(*                                                                          *)
(* A decimal number is <<sign, integer part, fraction in millionths>>.        *)
(* Left out: text (date to alpha), the clock, numbers with more digits than  *)
(* a date has and day numbers that do not fit an int.                        *)
(***************************************************************************)
EXTENDS Integers

CONSTANTS
    Starts,     \* bound: the day numbers at which a walk begins
    Ends        \* bound: those at which it ends

\* 5373484 is 31 December 9999.
ASSUME DaysAssumption == Starts \subseteq Nat /\ \A j \in Starts : j <= 5373484

VARIABLES
    jg1582,     \* UState.jg1582: was the reform in 1582, or in 1752?
    J           \* a day number in X

vars == <<jg1582, J>>

-----------------------------------------------------------------------------
(* Day numbers *)

(* The quotient and the remainder of ints as C has them. *)
Quotient(a, b)  == IF a >= 0 THEN a \div b ELSE -((-a) \div b)
Remainder(a, b) == a - b * Quotient(a, b)

isGregorian(year, month, day) ==
    LET y == IF jg1582 THEN 1582 ELSE 1752
        m == IF jg1582 THEN 10 ELSE 9
        d == IF jg1582 THEN 15 ELSE 14
    IN  \/ year > y
        \/ year = y /\ (month > m \/ (month = m /\ day >= d))

JDN(year, month, day) ==
    LET a == Quotient(14 - month, 12)
        y == year + 4800 - a
        m == month + 12 * a - 3
    IN  (IF isGregorian(year, month, day)
         THEN Quotient(-y, 100) + Quotient(y, 400) - 32045 ELSE -32083)
        + day + Quotient(153 * m + 2, 5) + 365 * y + Quotient(y, 4)

(* JDN2's two calendars: the centuries, and the days since 1 March of the    *)
(* first year of the century, or of -4800; then the years from March on, the *)
(* days in the year, and its months.                                         *)
\* Mutant: the reform a day late.
ReformedAfter(j) == j > (IF jg1582 THEN 2299161 ELSE 2361222)

Reformed(j) == j >= (IF jg1582 THEN 2299161 ELSE 2361222)
CenturyOf(a)  == Quotient(4 * a + 3, 146097)
InCentury(a)  == a - Quotient(CenturyOf(a) * 146097, 4)
YearOf(c)     == Quotient(4 * c + 3, 1461)
InYear(c)     == c - Quotient(1461 * YearOf(c), 4)
MonthOf(e)    == Quotient(5 * e + 2, 153)
InMonth(e)    == e - Quotient(153 * MonthOf(e) + 2, 5)

DateOf(b, c) ==
    LET m == MonthOf(InYear(c))
    IN  <<100 * b + YearOf(c) - 4800 + Quotient(m, 10), m + 3 - 12 * Quotient(m, 10),
          InMonth(InYear(c)) + 1>>

JDN2(j) == IF Reformed(j) THEN DateOf(CenturyOf(j + 32044), InCentury(j + 32044))
           ELSE DateOf(0, j + 32082)

\* Mutant: the Gregorian rule for the centuries before the reform, too.
isleapEver(year) == year % 4 = 0 /\ (year % 100 = 0 => year % 400 = 0)

isleap(year) ==
    /\ year % 4 = 0
    /\ isGregorian(year, 1, 1) /\ year % 100 = 0 => year % 400 = 0

check_date(year, month, day) ==
    /\ -4712 <= year /\ year <= 9999
    /\ JDN2(JDN(year, month, day)) = <<year, month, day>>

(* 1 for Monday to 7 for Sunday *)
day_of_week(year, month, day) ==
    LET h == (JDN(year, month, day) + 1) % 7 IN IF h = 0 THEN 7 ELSE h

-----------------------------------------------------------------------------
(* Dates as decimal numbers *)

Modes == {"YMD", "DMY", "MDY"}
NaN   == "NaN"
Abs(n) == IF n < 0 THEN -n ELSE n

build_date(mode, year, month, day) ==
    LET r == CASE mode = "YMD" -> (Abs(year) * 100 + month) * 100 + day
               [] mode = "DMY" -> (day * 100 + month) * 10000 + Abs(year)
               [] mode = "MDY" -> (month * 100 + day) * 10000 + Abs(year)
        sign == IF year < 0 THEN -1 ELSE 1
    IN  IF mode = "YMD" THEN <<sign, r \div 10000, (r % 10000) * 100>>
        ELSE <<sign, r \div 1000000, r % 1000000>>

(* The year, month and day that a number says. *)
extract_date(mode, x) ==
    LET first == x[3] \div 10000
        y == IF mode = "YMD" THEN x[2] ELSE x[3] % 10000
    IN  <<x[1] * y,
          IF mode = "MDY" THEN x[2] ELSE first,
          CASE mode = "YMD" -> (x[3] \div 100) % 100
            [] mode = "DMY" -> x[2]
            [] mode = "MDY" -> first>>
Valid(date) == check_date(date[1], date[2], date[3])

(* J->D and D->J: numbers, or NaN. *)
dateFromJ(mode, j) ==
    LET t == JDN2(j) IN IF Valid(t) THEN build_date(mode, t[1], t[2], t[3]) ELSE <<NaN>>
dateToJ(mode, x) ==
    LET t == extract_date(mode, x) IN IF Valid(t) THEN JDN(t[1], t[2], t[3]) ELSE NaN

(* A year given as such or by a date in it. *)
find_year(mode, x) ==
    LET t == IF x[3] = 0 THEN <<x[1] * x[2], 1, 1>>
             ELSE extract_date(mode, x)
    IN  IF Valid(t) THEN <<t[1]>> ELSE <<>>

(* LEAP? *)
date_isleap(mode, x) ==
    LET y == find_year(mode, x) IN y # <<>> /\ isleap(y[1])

(* The month and the day of Easter, in either calendar. *)
EasterGregorian(year) ==
    LET a == year % 19
        b == year \div 100
        c == year % 100
        d == b \div 4
        e == b % 4
        f == (b + 8) \div 25
        g == (b - f + 1) \div 3
        h == (19 * a + b - d - g + 15) % 30
        i == c \div 4
        k == c % 4
        l == (32 + 2 * e + 2 * i - h - k) % 7
        m == (a + 11 * h + 22 * l) \div 451
        n == h + l - 7 * m + 114
    IN  <<n \div 31, (n % 31) + 1>>

EasterJulian(year) ==
    LET a == Remainder(year, 4)
        b == Remainder(year, 7)
        c == Remainder(year, 19)
        d == Remainder(19 * c + 15, 30)
        e == Remainder(2 * a + 4 * b - d + 34, 7)
        n == d + e + 114
    IN  <<Quotient(n, 31), Remainder(n, 31) + 1>>

\* Mutant: the reform of 1582 whatever the mode.
easter1582(year) == IF year > 1582 THEN EasterGregorian(year) ELSE EasterJulian(year)

easter(year) == IF year > (IF jg1582 THEN 1582 ELSE 1752)
                THEN EasterGregorian(year) ELSE EasterJulian(year)

-----------------------------------------------------------------------------
Init == jg1582 \in BOOLEAN /\ J \in Starts

(* The next day: 1 added to X. *)
Add == /\ J \notin Ends
       /\ J' = J + 1
       /\ UNCHANGED jg1582

(* The bound: there X is left alone. *)
Done == J \in Ends /\ UNCHANGED vars

Next == Add \/ Done
Spec == Init /\ [][Next]_vars

-----------------------------------------------------------------------------
(* Properties *)

(* From day number to day number the dates are those of the calendar, over    *)
(* leap days, centuries and the reform (JDN2).                               *)
C == INSTANCE Calendar WITH late <- ~jg1582, date <- JDN2(J)
CalendarSpec == C!Spec

(* Every day number up to the end of 9999 has a date, and that date as a       *)
(* number says the day again in any mode; of a month's dates those are taken   *)
(* that the calendar has, and LEAP? says if 29 February is one of them, of a   *)
(* year or of a date (check_date, build_date, extract_date, dateFromJ,         *)
(* dateToJ, date_isleap).                                                      *)
DatesAndDays ==
    LET t == JDN2(J)
        isDate(m, d) == check_date(t[1], m, d)
    IN  /\ \A mode \in Modes :
               LET x == dateFromJ(mode, J)
               IN  /\ dateToJ(mode, x) = J
                   /\ date_isleap(mode, x) <=> isDate(2, 29)
        /\ date_isleap("YMD", <<IF t[1] < 0 THEN -1 ELSE 1, Abs(t[1]), 0>>) <=> isDate(2, 29)
        /\ t[3] = 1 => \A m \in 0 .. 13, d \in 0 .. 32 :
               isDate(m, d) <=> m \in 1 .. 12 /\ d \in C!DaysOf(t[1], m)

\* bound: the years whose Easter is found
EasterYears == 0 .. 9999

(* Easter of the years 0 to 9999 is a Sunday from 22 March to 25 April in the  *)
(* calendar of the year (easter, day_of_week).                                 *)
EasterOnSunday ==
    J \in Starts => \A y \in EasterYears :
        LET x == easter(y)
        IN  /\ check_date(y, x[1], x[2])
            /\ day_of_week(y, x[1], x[2]) = 7
            /\ x \in ({3} \X (22 .. 31)) \cup ({4} \X (1 .. 25))
=============================================================================
