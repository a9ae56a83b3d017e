----------------------------- MODULE Dates_proofs -----------------------------
(***************************************************************************)
(* The dates of day numbers are those of the calendar, and day numbers,      *)
(* dates and decimal numbers say the same, for every day number and either   *)
(* reform.  A day number is taken apart into century, year, month and day of *)
(* years that begin in March; each part is linear arithmetic with divisions  *)
(* by constants, and a step from one day to the next carries from part to    *)
(* part.                                                                     *)
(***************************************************************************)
EXTENDS Dates, TLAPS

-----------------------------------------------------------------------------
(* Centuries, years and months *)

(* The days since 1 March of a first year of 400 fall into a century and a day*)
(* of it; only every fourth century has a day more (CenturyOf, InCentury).  *)
LEMMA CenturyPart ==
    ASSUME NEW a \in Nat
    PROVE  /\ CenturyOf(a) \in Nat /\ InCentury(a) \in Nat
           /\ InCentury(a) <= 36524 /\ (InCentury(a) = 36524 => CenturyOf(a) % 4 = 3)
<1>1. PICK b \in Nat : /\ b = CenturyOf(a)
                       /\ 146097 * b <= 4 * a + 3 /\ 4 * a + 3 < 146097 * (b + 1)
  <2>1. CenturyOf(a) \in Nat
    BY SMTT(30) DEF CenturyOf, Quotient
  <2>2. 146097 * CenturyOf(a) <= 4 * a + 3 /\ 4 * a + 3 < 146097 * (CenturyOf(a) + 1)
    BY SMTT(30) DEF CenturyOf, Quotient
  <2>. QED  BY <2>1, <2>2, SMT
<1>2. PICK q \in Int, r \in 0 .. 3 : q = Quotient(b * 146097, 4) /\ 146097 * b = 4 * q + r
  BY SMTT(30) DEF Quotient
<1>3. r = 3 => b % 4 = 3
  BY <1>2, SMTT(30) DEF Quotient
<1>4. a - q \in Nat /\ a - q <= 36524 /\ (a - q = 36524 => r = 3)
  <2>1. 146097 * b <= 4 * a + 3 /\ 4 * a + 3 < 146097 * (b + 1)
    BY <1>1, SMT
  <2>2. 146097 * b = 4 * q + r
    BY <1>2, SMT
  <2>. QED  BY <2>1, <2>2, SMT
<1>5. CenturyOf(a) = b
  BY <1>1, SMT
<1>6. InCentury(a) = a - q
  BY <1>1, <1>2, SMT DEF InCentury
<1>7. PICK c \in Nat : c = a - q /\ c <= 36524 /\ (c = 36524 => r = 3)
  BY <1>4, SMT
<1>8. InCentury(a) = c
  BY <1>6, <1>7, SMT
<1>9. c = 36524 => b % 4 = 3
  BY <1>3, <1>7, SMT
<1>. QED  BY <1>5, <1>7, <1>8, <1>9, SMT

(* The next day is in the same century, or begins the next one.             *)
LEMMA CenturyStep ==
    ASSUME NEW a \in Nat
    PROVE  \/ /\ CenturyOf(a + 1) = CenturyOf(a)
              /\ InCentury(a + 1) = InCentury(a) + 1
           \/ /\ CenturyOf(a + 1) = CenturyOf(a) + 1
              /\ InCentury(a) = IF CenturyOf(a) % 4 = 3 THEN 36524 ELSE 36523
              /\ InCentury(a + 1) = 0
  BY SMTT(60) DEF CenturyOf, InCentury, Quotient

(* The days of a century fall into years from March on, each fourth a day   *)
(* longer (YearOf, InYear).                                                 *)
LEMMA YearPart ==
    ASSUME NEW c \in Nat
    PROVE  /\ YearOf(c) \in Nat /\ InYear(c) \in Nat
           /\ InYear(c) <= 365 /\ (InYear(c) = 365 => YearOf(c) % 4 = 3)
<1>1. YearOf(c) \in Nat /\ InYear(c) \in Nat
  BY SMTT(30) DEF YearOf, InYear, Quotient
<1>2. InYear(c) <= 365 /\ (InYear(c) = 365 => YearOf(c) % 4 = 3)
  BY SMTT(30) DEF YearOf, InYear, Quotient
<1>. QED  BY <1>1, <1>2, SMT

(* A century has a hundred years; the last one begins on its 36160th day.   *)
LEMMA YearInCentury ==
    ASSUME NEW c \in Nat, c <= 36524
    PROVE  /\ YearOf(c) <= 99
           /\ YearOf(c) = 99 => InYear(c) = c - 36159
           /\ c >= 36523 => YearOf(c) = 99
<1>1. YearOf(c) <= 99
  BY SMTT(30) DEF YearOf, Quotient
<1>2. YearOf(c) = 99 => InYear(c) = c - 36159
  BY SMTT(30) DEF InYear, Quotient
<1>3. c >= 36523 => YearOf(c) = 99
  BY SMTT(30) DEF YearOf, Quotient
<1>. QED  BY <1>1, <1>2, <1>3, SMT

(* The next day is in the same year, or begins the next one.                *)
LEMMA YearStep ==
    ASSUME NEW c \in Nat
    PROVE  \/ /\ YearOf(c + 1) = YearOf(c)
              /\ InYear(c + 1) = InYear(c) + 1
           \/ /\ YearOf(c + 1) = YearOf(c) + 1
              /\ InYear(c) = IF YearOf(c) % 4 = 3 THEN 365 ELSE 364
              /\ InYear(c + 1) = 0
  BY SMTT(60) DEF YearOf, InYear, Quotient

(* The days of the months from March on. *)
MonthDays(m) == IF m \in {1, 3, 6, 8} THEN 30 ELSE 31

(* The days of a year fall into the months from March to February (MonthOf, *)
(* InMonth).                                                                *)
LEMMA MonthPart ==
    ASSUME NEW e \in Nat, e <= 365
    PROVE  \E m \in 0 .. 11, k \in Nat :
               /\ MonthOf(e) = m /\ InMonth(e) = k
               /\ k < MonthDays(m)
               /\ m = 11 <=> e >= 337
               /\ m = 11 => k = e - 337
<1>1. MonthOf(e) \in 0 .. 11 /\ InMonth(e) \in Nat
  BY SMTT(30) DEF MonthOf, InMonth, Quotient
<1>2. InMonth(e) < MonthDays(MonthOf(e))
  BY SMTT(30) DEF MonthOf, InMonth, MonthDays, Quotient
<1>3. MonthOf(e) = 11 <=> e >= 337
  BY SMTT(30) DEF MonthOf, Quotient
<1>4. MonthOf(e) = 11 => InMonth(e) = e - 337
  BY SMTT(30) DEF InMonth, Quotient
<1>. QED  BY <1>1, <1>2, <1>3, <1>4, SMT

(* The next day is in the same month, or begins the next one.               *)
LEMMA MonthStep ==
    ASSUME NEW e \in Nat, e <= 364
    PROVE  \/ /\ MonthOf(e + 1) = MonthOf(e)
              /\ InMonth(e + 1) = InMonth(e) + 1
           \/ /\ MonthOf(e + 1) = MonthOf(e) + 1
              /\ MonthOf(e) < 11
              /\ InMonth(e) = MonthDays(MonthOf(e)) - 1
              /\ InMonth(e + 1) = 0
  BY SMTT(60) DEF MonthOf, InMonth, MonthDays, Quotient

-----------------------------------------------------------------------------
(* From day to day *)

DayAfter(t) == C!Tomorrow(t[1], t[2], t[3])

(* Within a year from March on, DateOf goes on as the calendar does.        *)
LEMMA WithinYear ==
    ASSUME NEW b \in Nat, NEW c \in Nat, NEW d \in Nat, NEW e \in Nat,
           DateOf(b, c) # C!LastJulian,
           YearOf(c) = d, InYear(c) = e, YearOf(c + 1) = d, InYear(c + 1) = e + 1,
           e <= 364, e = 364 => C!Leap(100 * b + d - 4799)
    PROVE  DateOf(b, c + 1) = DayAfter(DateOf(b, c))
<1>1. PICK m \in 0 .. 11, k \in Nat :
         /\ MonthOf(e) = m /\ InMonth(e) = k /\ k < MonthDays(m)
         /\ m = 11 <=> e >= 337
         /\ m = 11 => k = e - 337
  BY MonthPart, SMT
<1>2. PICK m1 \in 0 .. 11, k1 \in Nat :
         /\ MonthOf(e + 1) = m1 /\ InMonth(e + 1) = k1
         /\ \/ m1 = m /\ k1 = k + 1 /\ k + 1 < MonthDays(m)
            \/ m1 = m + 1 /\ m < 11 /\ k = MonthDays(m) - 1 /\ k1 = 0
  BY <1>1, MonthPart, MonthStep, e + 1 \in Nat, e + 1 <= 365, SMT
<1> DEFINE y == 100 * b + d - 4800
<1>3. DateOf(b, c) = <<y + m \div 10, m + 3 - 12 * (m \div 10), k + 1>>
  BY <1>1, SMT DEF DateOf, Quotient
<1>4. DateOf(b, c + 1) = <<y + m1 \div 10, m1 + 3 - 12 * (m1 \div 10), k1 + 1>>
  BY <1>2, SMT DEF DateOf, Quotient
<1>5. m = 11 => C!MonthLength(y + 1, 2) = IF C!Leap(y + 1) THEN 29 ELSE 28
  BY SMT DEF C!MonthLength
<1>6. ASSUME m # 11 PROVE C!MonthLength(y + m \div 10, m + 3 - 12 * (m \div 10)) = MonthDays(m)
  BY <1>6, SMT DEF C!MonthLength, MonthDays
<1>7. CASE m1 = m + 1
  <2>1. m < 11 /\ k = MonthDays(m) - 1 /\ k1 = 0
    BY <1>2, <1>7, SMT
  <2>2. C!MonthLength(y + m \div 10, m + 3 - 12 * (m \div 10)) = k + 1
    BY <2>1, <1>6, SMT DEF MonthDays
  <2>3. DayAfter(DateOf(b, c)) = IF m + 3 - 12 * (m \div 10) < 12
                                 THEN <<y + m \div 10, m + 4 - 12 * (m \div 10), 1>>
                                 ELSE <<y + m \div 10 + 1, 1, 1>>
    BY <2>2, <1>3, SMT DEF DayAfter, C!Tomorrow
  <2>. QED  BY <2>1, <2>3, <1>4, <1>7, SMT
<1>8. CASE m1 = m
  <2>1. k1 = k + 1 /\ k + 1 < MonthDays(m)
    BY <1>2, <1>8, SMT
  <2>2. k + 1 < C!MonthLength(y + m \div 10, m + 3 - 12 * (m \div 10))
    <3>1. CASE m # 11
      BY <2>1, <3>1, <1>6, SMT
    <3>2. CASE m = 11
      BY <1>1, <1>5, <3>2, SMT
    <3>. QED  BY <3>1, <3>2, SMT
  <2>3. DayAfter(DateOf(b, c)) = <<y + m \div 10, m + 3 - 12 * (m \div 10), k + 2>>
    BY <2>2, <1>3, SMT DEF DayAfter, C!Tomorrow
  <2>. QED  BY <2>1, <2>3, <1>4, <1>8, SMT
<1>. QED  BY <1>2, <1>7, <1>8, SMT

(* From the last of February, DateOf goes on with 1 March.                  *)
LEMMA OverYear ==
    ASSUME NEW b \in Nat, NEW c \in Nat, NEW d \in Nat, NEW e \in Nat,
           NEW b1 \in Nat, NEW c1 \in Nat, NEW d1 \in Nat,
           DateOf(b, c) # C!LastJulian,
           YearOf(c) = d, InYear(c) = e, YearOf(c1) = d1, InYear(c1) = 0,
           100 * b1 + d1 = 100 * b + d + 1,
           e = IF C!Leap(100 * b + d - 4799) THEN 365 ELSE 364
    PROVE  DateOf(b1, c1) = DayAfter(DateOf(b, c))
<1> DEFINE y == 100 * b + d - 4799
<1>1. MonthOf(e) = 11 /\ InMonth(e) = e - 337
  BY MonthPart, SMT
<1>2. DateOf(b, c) = <<y, 2, e - 336>>
  BY <1>1, SMT DEF DateOf, Quotient
<1>3. MonthOf(0) = 0 /\ InMonth(0) = 0
  BY SMT DEF MonthOf, InMonth, Quotient
<1>4. DateOf(b1, c1) = <<y, 3, 1>>
  BY <1>3, SMT DEF DateOf, Quotient
<1>5. C!MonthLength(y, 2) = e - 336
  BY SMT DEF C!MonthLength
<1>. QED  BY <1>2, <1>4, <1>5, SMT DEF DayAfter, C!Tomorrow

(* Where in the years from March on a date of the reform's month is.         *)
LEMMA ReformMonth ==
    ASSUME NEW b \in Nat, NEW c \in Nat, NEW d \in Nat, NEW e \in Nat, NEW n \in Nat,
           YearOf(c) = d, InYear(c) = e, e <= 365,
           DateOf(b, c) = <<C!LastJulian[1], C!LastJulian[2], n>>
    PROVE  /\ jg1582 => 100 * b + d = 6382 /\ e = n + 213
           /\ ~jg1582 => 100 * b + d = 6552 /\ e = n + 183
<1>1. PICK m \in 0 .. 11, k \in Nat : MonthOf(e) = m /\ InMonth(e) = k
  BY MonthPart, SMT
<1>2. DateOf(b, c) = <<100 * b + d - 4800 + m \div 10, m + 3 - 12 * (m \div 10), k + 1>>
  BY <1>1, SMT DEF DateOf, Quotient
<1>3. e = k + (153 * m + 2) \div 5
  BY <1>1, SMT DEF InMonth, Quotient
<1>4. CASE jg1582
  <2>1. m = 7 /\ k + 1 = n /\ 100 * b + d = 6382
    BY <1>2, <1>4, SMT DEF C!LastJulian
  <2>. QED  BY <1>3, <1>4, <2>1, SMT
<1>5. CASE ~jg1582
  <2>1. m = 6 /\ k + 1 = n /\ 100 * b + d = 6552
    BY <1>2, <1>5, SMT DEF C!LastJulian
  <2>. QED  BY <1>3, <1>5, <2>1, SMT
<1>. QED  BY <1>4, <1>5, SMT

(* The last Julian date is at its place in the year.                         *)
LEMMA LastJulianDay ==
    ASSUME NEW b \in Nat, NEW c \in Nat, NEW d \in Nat, NEW e \in Nat,
           YearOf(c) = d, InYear(c) = e, e <= 365,
           DateOf(b, c) = C!LastJulian
    PROVE  /\ jg1582 => 100 * b + d = 6382 /\ e = 217
           /\ ~jg1582 => 100 * b + d = 6552 /\ e = 185
<1>1. CASE jg1582
  <2>1. DateOf(b, c) = <<C!LastJulian[1], C!LastJulian[2], 4>>
    BY <1>1, SMT DEF C!LastJulian
  <2>. QED  BY <1>1, <2>1, ReformMonth, 4 \in Nat, SMT
<1>2. CASE ~jg1582
  <2>1. DateOf(b, c) = <<C!LastJulian[1], C!LastJulian[2], 2>>
    BY <1>2, SMT DEF C!LastJulian
  <2>. QED  BY <1>2, <2>1, ReformMonth, 2 \in Nat, SMT
<1>. QED  BY <1>1, <1>2, SMT

(* Before the reform the calendar's leap years are those that 4 divides.    *)
LEMMA JulianLeap ==
    ASSUME NEW j \in Nat, ~Reformed(j), NEW c \in Nat, c = j + 32082,
           NEW d \in Nat, NEW e \in Nat, e = c - Quotient(1461 * d, 4)
    PROVE  C!Leap(100 * 0 + d - 4799) <=> d % 4 = 3
<1>1. CASE jg1582
  <2>1. c <= 2331242
    BY <1>1, SMT DEF Reformed
  <2>2. d <= 6382
    BY <2>1, SMT DEF Quotient
  <2>. QED  BY <1>1, <2>2, SMT DEF C!Leap, C!LastJulian
<1>2. CASE ~jg1582
  <2>1. c <= 2393303
    BY <1>2, SMT DEF Reformed
  <2>2. d <= 6552
    BY <2>1, SMT DEF Quotient
  <2>. QED  BY <1>2, <2>2, SMT DEF C!Leap, C!LastJulian
<1>. QED  BY <1>1, <1>2, SMT

(* After it, the centuries that 400 does not divide are left out.           *)
LEMMA GregorianLeap ==
    ASSUME NEW j \in Nat, Reformed(j), NEW a \in Nat, a = j + 32044,
           NEW b \in Nat, NEW c \in Nat, c = a - Quotient(b * 146097, 4), c <= 36524,
           NEW d \in Nat, d <= 99
    PROVE  C!Leap(100 * b + d - 4799) <=> d % 4 = 3 /\ (d = 99 => b % 4 = 3)
<1>1. (100 * b + d - 4799) % 4 = 0 <=> d % 4 = 3
  BY SMT
<1>2. (100 * b + d - 4799) % 100 = 0 <=> d = 99
  BY SMT
<1>3. d = 99 => ((100 * b + d - 4799) % 400 = 0 <=> b % 4 = 3)
  BY SMT
<1>4. d = 99 => 100 * b + d - 4799 > C!LastJulian[1]
  <2>1. CASE jg1582
    <3>1. a >= 2331205
      BY <2>1, SMT DEF Reformed
    <3>2. b >= 63
      BY <3>1, SMT DEF Quotient
    <3>. QED  BY <2>1, <3>2, SMT DEF C!LastJulian
  <2>2. CASE ~jg1582
    <3>1. a >= 2393266
      BY <2>2, SMT DEF Reformed
    <3>2. b >= 65
      BY <3>1, SMT DEF Quotient
    <3>. QED  BY <2>2, <3>2, SMT DEF C!LastJulian
  <2>. QED  BY <2>1, <2>2, SMT
<1>. QED  BY <1>1, <1>2, <1>3, <1>4, SMT DEF C!Leap

(* NextDay, while both days are before the reform.                          *)
LEMMA JulianStep ==
    ASSUME NEW j \in Nat, ~Reformed(j + 1)
    PROVE  JDN2(j + 1) = DayAfter(JDN2(j))
<1>1. PICK c \in Nat : c = j + 32082
  BY SMT
<1>2. JDN2(j) = DateOf(0, c) /\ JDN2(j + 1) = DateOf(0, c + 1)
  BY <1>1, SMT DEF JDN2, Reformed
<1>3. PICK d \in Nat, e \in Nat : /\ YearOf(c) = d /\ InYear(c) = e
                                  /\ e <= 365 /\ (e = 365 => d % 4 = 3)
  BY YearPart, SMT
<1>4. e = c - Quotient(1461 * d, 4)
  BY <1>3, SMT DEF InYear
<1>5. C!Leap(100 * 0 + d - 4799) <=> d % 4 = 3
  BY <1>1, <1>4, JulianLeap, SMT DEF Reformed
<1>6. DateOf(0, c) # C!LastJulian
  <2>1. jg1582 => c < 2331242
    BY <1>1, SMT DEF Reformed
  <2>2. ~jg1582 => c < 2393303
    BY <1>1, SMT DEF Reformed
  <2>3. ~(d = 6382 /\ e = 217 /\ c < 2331242)
    BY <1>4, SMT DEF Quotient
  <2>4. ~(d = 6552 /\ e = 185 /\ c < 2393303)
    BY <1>4, SMT DEF Quotient
  <2>. QED  BY <1>3, <2>1, <2>2, <2>3, <2>4, LastJulianDay, 0 \in Nat, 100 * 0 + d = d, SMT
<1>7. CASE YearOf(c + 1) = YearOf(c) /\ InYear(c + 1) = InYear(c) + 1
  <2>1. e <= 364
    BY <1>3, <1>7, YearPart, c + 1 \in Nat, SMT
  <2>2. e = 364 => C!Leap(100 * 0 + d - 4799)
    BY <1>3, <1>5, <1>7, YearPart, c + 1 \in Nat, SMT
  <2>. QED  BY <1>2, <1>3, <1>6, <1>7, <2>1, <2>2, WithinYear, 0 \in Nat, SMT
<1>8. CASE /\ YearOf(c + 1) = YearOf(c) + 1
           /\ InYear(c) = IF YearOf(c) % 4 = 3 THEN 365 ELSE 364
           /\ InYear(c + 1) = 0
  <2>1. 100 * 0 + (d + 1) = 100 * 0 + d + 1 /\ d + 1 \in Nat /\ c + 1 \in Nat /\ 0 \in Nat
    BY SMT
  <2>2. e = IF C!Leap(100 * 0 + d - 4799) THEN 365 ELSE 364
    BY <1>3, <1>5, <1>8, SMT
  <2>3. YearOf(c + 1) = d + 1 /\ InYear(c + 1) = 0
    BY <1>3, <1>8, SMT
  <2>4. YearOf(c) = d /\ InYear(c) = e
    BY <1>3, SMT
  <2>5. DateOf(0, c + 1) = DayAfter(DateOf(0, c))
    BY <1>6, <2>1, <2>2, <2>3, <2>4, OverYear, SMT
  <2>. QED  BY <1>2, <2>5, SMT
<1>. QED  BY <1>7, <1>8, YearStep, SMT

(* NextDay, over the reform.                                                *)
LEMMA ReformStep ==
    ASSUME NEW j \in Nat, Reformed(j + 1), ~Reformed(j)
    PROVE  JDN2(j + 1) = DayAfter(JDN2(j))
<1>1. CASE jg1582
  <2>1. j = 2299160
    BY <1>1, SMT DEF Reformed
  <2>2. JDN2(j) = DateOf(0, 2331242) /\ JDN2(j + 1) = DateOf(CenturyOf(2331205), InCentury(2331205))
    BY <2>1, SMT DEF JDN2
  <2>3. CenturyOf(2331205) = 63 /\ InCentury(2331205) = 30178
    BY SMT DEF CenturyOf, InCentury, Quotient
  <2>4. YearOf(2331242) = 6382 /\ InYear(2331242) = 217 /\ YearOf(30178) = 82 /\ InYear(30178) = 228
    BY SMT DEF YearOf, InYear, Quotient
  <2>5. MonthOf(217) = 7 /\ InMonth(217) = 3 /\ MonthOf(228) = 7 /\ InMonth(228) = 14
    BY SMT DEF MonthOf, InMonth, Quotient
  <2>6. DateOf(0, 2331242) = <<1582, 10, 4>> /\ DateOf(63, 30178) = <<1582, 10, 15>>
    BY <2>4, <2>5, SMT DEF DateOf, Quotient
  <2>. QED  BY <1>1, <2>2, <2>3, <2>6, SMT DEF DayAfter, C!Tomorrow, C!LastJulian, C!FirstGregorian
<1>2. CASE ~jg1582
  <2>1. j = 2361221
    BY <1>2, SMT DEF Reformed
  <2>2. JDN2(j) = DateOf(0, 2393303) /\ JDN2(j + 1) = DateOf(CenturyOf(2393266), InCentury(2393266))
    BY <2>1, SMT DEF JDN2
  <2>3. CenturyOf(2393266) = 65 /\ InCentury(2393266) = 19190
    BY SMT DEF CenturyOf, InCentury, Quotient
  <2>4. YearOf(2393303) = 6552 /\ InYear(2393303) = 185 /\ YearOf(19190) = 52 /\ InYear(19190) = 197
    BY SMT DEF YearOf, InYear, Quotient
  <2>5. MonthOf(185) = 6 /\ InMonth(185) = 1 /\ MonthOf(197) = 6 /\ InMonth(197) = 13
    BY SMT DEF MonthOf, InMonth, Quotient
  <2>6. DateOf(0, 2393303) = <<1752, 9, 2>> /\ DateOf(65, 19190) = <<1752, 9, 14>>
    BY <2>4, <2>5, SMT DEF DateOf, Quotient
  <2>. QED  BY <1>2, <2>2, <2>3, <2>6, SMT DEF DayAfter, C!Tomorrow, C!LastJulian, C!FirstGregorian
<1>. QED  BY <1>1, <1>2, SMT

(* NextDay, when both days are after the reform.                            *)
LEMMA GregorianStep ==
    ASSUME NEW j \in Nat, Reformed(j)
    PROVE  JDN2(j + 1) = DayAfter(JDN2(j))
<1>1. PICK a \in Nat : a = j + 32044
  BY SMT
<1>2. PICK b \in Nat, c \in Nat : /\ CenturyOf(a) = b /\ InCentury(a) = c
                                  /\ c <= 36524 /\ (c = 36524 => b % 4 = 3)
  BY CenturyPart, SMT
<1>3. PICK d \in Nat, e \in Nat : /\ YearOf(c) = d /\ InYear(c) = e
                                  /\ e <= 365 /\ (e = 365 => d % 4 = 3)
  BY YearPart, SMT
<1>4. JDN2(j) = DateOf(b, c) /\ JDN2(j + 1) = DateOf(CenturyOf(a + 1), InCentury(a + 1))
  BY <1>1, <1>2, SMT DEF JDN2, Reformed
<1>5. /\ d <= 99
      /\ d = 99 => e = c - 36159
      /\ c >= 36523 => d = 99
  BY <1>2, <1>3, YearInCentury, SMT
<1>6. c = a - Quotient(b * 146097, 4) /\ e = c - Quotient(1461 * d, 4)
  BY <1>2, <1>3, SMT DEF InCentury, InYear
<1>7. C!Leap(100 * b + d - 4799) <=> d % 4 = 3 /\ (d = 99 => b % 4 = 3)
  BY <1>1, <1>2, <1>5, <1>6, GregorianLeap, SMT
<1>8. DateOf(b, c) # C!LastJulian
  <2>1. jg1582 => a >= 2331205
    BY <1>1, SMT DEF Reformed
  <2>2. ~jg1582 => a >= 2393266
    BY <1>1, SMT DEF Reformed
  <2>3. ~(100 * b + d = 6382 /\ e = 217 /\ a >= 2331205)
    BY <1>5, <1>6, SMT DEF Quotient
  <2>4. ~(100 * b + d = 6552 /\ e = 185 /\ a >= 2393266)
    BY <1>5, <1>6, SMT DEF Quotient
  <2>. QED  BY <1>3, <2>1, <2>2, <2>3, <2>4, LastJulianDay, SMT
<1>9. CASE CenturyOf(a + 1) = b /\ InCentury(a + 1) = c + 1
  <2>1. JDN2(j + 1) = DateOf(b, c + 1) /\ c + 1 <= 36524
    BY <1>4, <1>9, CenturyPart, a + 1 \in Nat, SMT
  <2>2. CASE YearOf(c + 1) = d /\ InYear(c + 1) = e + 1
    <3>1. e <= 364
      BY <2>2, YearPart, c + 1 \in Nat, SMT
    <3>2. e = 364 => C!Leap(100 * b + d - 4799)
      <4>1. e = 364 => d % 4 = 3
        BY <2>2, YearPart, c + 1 \in Nat, SMT
      <4>2. e = 364 /\ d = 99 => c + 1 = 36524
        BY <1>5, SMT
      <4>3. c + 1 = 36524 => b % 4 = 3
        BY <1>9, CenturyPart, a + 1 \in Nat, SMT
      <4>. QED  BY <1>7, <4>1, <4>2, <4>3, SMT
    <3>3. DateOf(b, c + 1) = DayAfter(DateOf(b, c))
      BY <1>3, <1>8, <2>2, <3>1, <3>2, WithinYear, SMT
    <3>. QED  BY <1>4, <2>1, <3>3, SMT
  <2>3. CASE /\ YearOf(c + 1) = d + 1
             /\ e = IF d % 4 = 3 THEN 365 ELSE 364
             /\ InYear(c + 1) = 0
    <3>1. d # 99
      BY <1>5, <2>1, <2>3, YearInCentury, c + 1 \in Nat, SMT
    <3>2. e = IF C!Leap(100 * b + d - 4799) THEN 365 ELSE 364
      BY <1>7, <2>3, <3>1, SMT
    <3>3. PICK c1 \in Nat, d1 \in Nat : c1 = c + 1 /\ d1 = d + 1
      BY SMT
    <3>4. YearOf(c1) = d1 /\ InYear(c1) = 0 /\ 100 * b + d1 = 100 * b + d + 1
      BY <2>3, <3>3, SMT
    <3>5. DateOf(b, c1) = DayAfter(DateOf(b, c))
      BY <1>3, <1>8, <3>2, <3>4, OverYear, SMTT(30)
    <3>. QED  BY <1>4, <2>1, <3>3, <3>5, SMT
  <2>. QED  BY <1>3, <2>2, <2>3, YearStep, SMT
<1>10. CASE /\ CenturyOf(a + 1) = b + 1
            /\ InCentury(a + 1) = 0
            /\ c = IF b % 4 = 3 THEN 36524 ELSE 36523
  <2>1. JDN2(j + 1) = DateOf(b + 1, 0)
    BY <1>4, <1>10, SMT
  <2>2. YearOf(0) = 0 /\ InYear(0) = 0
    BY SMT DEF YearOf, InYear, Quotient
  <2>3. d = 99 /\ e = IF b % 4 = 3 THEN 365 ELSE 364
    BY <1>5, <1>10, SMT
  <2>4. e = IF C!Leap(100 * b + d - 4799) THEN 365 ELSE 364
    BY <1>7, <2>3, SMT
  <2>5. 100 * (b + 1) + 0 = 100 * b + d + 1 /\ b + 1 \in Nat /\ 0 \in Nat
    BY <2>3, SMT
  <2>6. DateOf(b + 1, 0) = DayAfter(DateOf(b, c))
    BY <1>3, <1>8, <2>2, <2>4, <2>5, OverYear, SMT
  <2>. QED  BY <1>4, <2>1, <2>6, SMT
<1>. QED  BY <1>2, <1>9, <1>10, CenturyStep, SMT

(* Every day number's date is followed by the calendar's next day. *)
THEOREM NextDay ==
    ASSUME NEW j \in Nat
    PROVE  JDN2(j + 1) = C!Tomorrow(JDN2(j)[1], JDN2(j)[2], JDN2(j)[3])
<1>1. CASE ~Reformed(j + 1)
  BY <1>1, JulianStep, SMT DEF DayAfter
<1>2. CASE Reformed(j + 1) /\ ~Reformed(j)
  BY <1>2, ReformStep, SMT DEF DayAfter
<1>3. CASE Reformed(j)
  BY <1>3, GregorianStep, SMT DEF DayAfter
<1>. QED  BY <1>1, <1>2, <1>3, SMT

-----------------------------------------------------------------------------
(* Dates and day numbers *)

(* The parts of a year make a date of the calendar.                         *)
LEMMA DateInYear ==
    ASSUME NEW b \in Nat, NEW c \in Nat, NEW d \in Nat, NEW e \in Nat,
           YearOf(c) = d, InYear(c) = e, e <= 365,
           e = 365 => C!Leap(100 * b + d - 4799)
    PROVE  /\ DateOf(b, c) = <<DateOf(b, c)[1], DateOf(b, c)[2], DateOf(b, c)[3]>>
           /\ DateOf(b, c)[1] = 100 * b + d - 4800 + (IF e >= 306 THEN 1 ELSE 0)
           /\ DateOf(b, c)[2] \in 1 .. 12 /\ DateOf(b, c)[3] \in 1 .. 31
           /\ DateOf(b, c)[3] <= C!MonthLength(DateOf(b, c)[1], DateOf(b, c)[2])
<1>1. PICK m \in 0 .. 11, k \in Nat :
         /\ MonthOf(e) = m /\ InMonth(e) = k /\ k < MonthDays(m)
         /\ m = 11 <=> e >= 337
         /\ m = 11 => k = e - 337
  BY MonthPart, SMT
<1>2. DateOf(b, c) = <<100 * b + d - 4800 + m \div 10, m + 3 - 12 * (m \div 10), k + 1>>
  BY <1>1, SMT DEF DateOf, Quotient
<1>3. PICK y \in Int, n \in 1 .. 12 : y = 100 * b + d - 4800 + m \div 10 /\ n = m + 3 - 12 * (m \div 10)
  BY SMT
<1>4. m \div 10 = IF e >= 306 THEN 1 ELSE 0
  BY <1>1, SMT DEF MonthOf, Quotient
<1>5. k + 1 \in 1 .. 31
  BY <1>1, SMT DEF MonthDays
<1>6. k + 1 <= C!MonthLength(y, n)
  <2>1. CASE m = 11
    BY <1>1, <1>3, <2>1, SMT DEF C!MonthLength
  <2>2. CASE m # 11
    BY <1>1, <1>3, <2>2, SMT DEF C!MonthLength, MonthDays
  <2>. QED  BY <2>1, <2>2, SMT
<1>7. DateOf(b, c) = <<y, n, k + 1>>
  BY <1>2, <1>3, SMT
<1>8. DateOf(b, c)[1] = y /\ DateOf(b, c)[2] = n /\ DateOf(b, c)[3] = k + 1
  BY <1>7, SMT
<1>9. y = 100 * b + d - 4800 + (IF e >= 306 THEN 1 ELSE 0)
  BY <1>3, <1>4, SMT
<1>. QED  BY <1>5, <1>6, <1>7, <1>8, <1>9, SMT

(* Day numbers before the reform have dates of the calendar from -4712 on.  *)
LEMMA JulianDate ==
    ASSUME NEW j \in Nat, ~Reformed(j)
    PROVE  /\ JDN2(j)[1] \in Int /\ -4712 <= JDN2(j)[1] /\ JDN2(j)[1] <= 9999
           /\ JDN2(j)[2] \in 1 .. 12
           /\ JDN2(j)[3] \in C!DaysOf(JDN2(j)[1], JDN2(j)[2])
<1>1. PICK b \in Nat, c \in Nat : b = 0 /\ c = j + 32082
  BY SMT
<1>2. JDN2(j) = DateOf(b, c)
  BY <1>1, SMT DEF JDN2
<1>3. PICK d \in Nat, e \in Nat : /\ YearOf(c) = d /\ InYear(c) = e
                                  /\ e <= 365 /\ (e = 365 => d % 4 = 3)
  BY YearPart, SMT
<1>4. e = c - Quotient(1461 * d, 4)
  BY <1>3, SMT DEF InYear
<1>5. /\ DateOf(b, c) = <<DateOf(b, c)[1], DateOf(b, c)[2], DateOf(b, c)[3]>>
      /\ DateOf(b, c)[1] = 100 * b + d - 4800 + (IF e >= 306 THEN 1 ELSE 0)
      /\ DateOf(b, c)[2] \in 1 .. 12 /\ DateOf(b, c)[3] \in 1 .. 31
      /\ DateOf(b, c)[3] <= C!MonthLength(DateOf(b, c)[1], DateOf(b, c)[2])
  <2>1. C!Leap(100 * b + d - 4799) <=> d % 4 = 3
    BY <1>1, <1>4, JulianLeap, SMT
  <2>2. e = 365 => C!Leap(100 * b + d - 4799)
    BY <1>3, <2>1, SMT
  <2>. QED  BY <1>3, <2>2, DateInYear, SMT
<1>6. PICK y \in Int, m \in 1 .. 12, k \in 1 .. 31 :
          /\ DateOf(b, c) = <<y, m, k>>
          /\ y = 100 * b + d - 4800 + (IF e >= 306 THEN 1 ELSE 0)
          /\ k <= C!MonthLength(y, m)
  BY <1>5, SMT
<1>7. -4712 <= y /\ y <= 9999
  <2>1. c >= 32082 /\ c < 2400000
    BY <1>1, SMT DEF Reformed
  <2>2. d >= 88 \/ (d = 87 /\ e >= 306)
    BY <1>1, <1>3, <1>4, <2>1, SMT DEF Quotient
  <2>3. d <= 7000
    BY <1>4, <2>1, SMT DEF Quotient
  <2>. QED  BY <1>1, <1>6, <2>2, <2>3, SMT
<1>8. k \notin C!Skipped(y, m)
  <2> SUFFICES ASSUME k \in C!Skipped(y, m)
               PROVE  FALSE
    OBVIOUS
  <2>1. y = C!LastJulian[1] /\ m = C!LastJulian[2] /\ k > C!LastJulian[3]
    BY SMT DEF C!Skipped, C!LastJulian, C!FirstGregorian
  <2>2. DateOf(b, c) = <<C!LastJulian[1], C!LastJulian[2], k>>
    BY <1>6, <2>1, SMT
  <2>3. /\ jg1582 => 100 * b + d = 6382 /\ e = k + 213
        /\ ~jg1582 => 100 * b + d = 6552 /\ e = k + 183
    BY <1>3, <2>2, ReformMonth, k \in Nat, SMT
  <2>4. CASE jg1582
    <3>1. c < 2331243 /\ e >= 218 /\ d = 6382
      BY <1>1, <2>1, <2>3, <2>4, SMT DEF Reformed, C!LastJulian
    <3>. QED  BY <1>4, <3>1, SMT DEF Quotient
  <2>5. CASE ~jg1582
    <3>1. c < 2393304 /\ e >= 186 /\ d = 6552
      BY <1>1, <2>1, <2>3, <2>5, SMT DEF Reformed, C!LastJulian
    <3>. QED  BY <1>4, <3>1, SMT DEF Quotient
  <2>. QED  BY <2>4, <2>5, SMT
<1>9. C!MonthLength(y, m) \in Nat
  BY SMT DEF C!MonthLength
<1>10. k \in C!DaysOf(y, m)
  BY <1>6, <1>8, <1>9, SMT DEF C!DaysOf
<1>. QED  BY <1>2, <1>6, <1>7, <1>10, SMT

(* So have day numbers after it, up to the end of 9999 with a year that the   *)
(* commands take.                                                           *)
LEMMA GregorianDate ==
    ASSUME NEW j \in Nat, Reformed(j)
    PROVE  /\ JDN2(j)[1] \in Int /\ -4712 <= JDN2(j)[1]
           /\ j <= 5373484 => JDN2(j)[1] <= 9999
           /\ JDN2(j)[2] \in 1 .. 12
           /\ JDN2(j)[3] \in C!DaysOf(JDN2(j)[1], JDN2(j)[2])
<1>1. PICK a \in Nat : a = j + 32044
  BY SMT
<1>2. PICK b \in Nat, c \in Nat : /\ CenturyOf(a) = b /\ InCentury(a) = c
                                  /\ c <= 36524 /\ (c = 36524 => b % 4 = 3)
  BY CenturyPart, SMT
<1>3. PICK d \in Nat, e \in Nat : /\ YearOf(c) = d /\ InYear(c) = e
                                  /\ e <= 365 /\ (e = 365 => d % 4 = 3)
  BY YearPart, SMT
<1>4. JDN2(j) = DateOf(b, c)
  BY <1>1, <1>2, SMT DEF JDN2
<1>5. d <= 99 /\ (d = 99 => e = c - 36159)
  BY <1>2, <1>3, YearInCentury, SMT
<1>6. c = a - Quotient(b * 146097, 4) /\ e = c - Quotient(1461 * d, 4)
  BY <1>2, <1>3, SMT DEF InCentury, InYear
<1>7. /\ DateOf(b, c) = <<DateOf(b, c)[1], DateOf(b, c)[2], DateOf(b, c)[3]>>
      /\ DateOf(b, c)[1] = 100 * b + d - 4800 + (IF e >= 306 THEN 1 ELSE 0)
      /\ DateOf(b, c)[2] \in 1 .. 12 /\ DateOf(b, c)[3] \in 1 .. 31
      /\ DateOf(b, c)[3] <= C!MonthLength(DateOf(b, c)[1], DateOf(b, c)[2])
  <2>1. C!Leap(100 * b + d - 4799) <=> d % 4 = 3 /\ (d = 99 => b % 4 = 3)
    BY <1>1, <1>2, <1>5, <1>6, GregorianLeap, SMT
  <2>2. e = 365 => C!Leap(100 * b + d - 4799)
    BY <1>2, <1>3, <1>5, <2>1, SMT
  <2>. QED  BY <1>3, <2>2, DateInYear, SMT
<1>8. PICK y \in Int, m \in 1 .. 12, k \in 1 .. 31 :
          /\ DateOf(b, c) = <<y, m, k>>
          /\ y = 100 * b + d - 4800 + (IF e >= 306 THEN 1 ELSE 0)
          /\ k <= C!MonthLength(y, m)
  BY <1>7, SMT
<1>9. jg1582 => a >= 2331205
  BY <1>1, SMT DEF Reformed
<1>10. ~jg1582 => a >= 2393266
  BY <1>1, SMT DEF Reformed
<1>11. -4712 <= y /\ (j <= 5373484 => y <= 9999)
  <2>1. a >= 2331205 /\ (j <= 5373484 => a <= 5405528)
    BY <1>1, <1>9, <1>10, SMT
  <2>2. b >= 63
    BY <1>2, <1>6, <2>1, SMT DEF Quotient
  <2>3. a <= 5405528 => b <= 147
    BY <1>2, <1>6, SMT DEF Quotient
  <2>4. a <= 5405528 /\ b = 147 /\ d = 99 => e < 306
    BY <1>5, <1>6, SMT DEF Quotient
  <2>. QED  BY <1>5, <1>8, <2>1, <2>2, <2>3, <2>4, SMT
<1>12. k \notin C!Skipped(y, m)
  <2> SUFFICES ASSUME k \in C!Skipped(y, m)
               PROVE  FALSE
    OBVIOUS
  <2>1. /\ y = C!LastJulian[1] /\ m = C!LastJulian[2]
        /\ k < C!FirstGregorian[3]
    BY SMT DEF C!Skipped, C!LastJulian, C!FirstGregorian
  <2>2. DateOf(b, c) = <<C!LastJulian[1], C!LastJulian[2], k>>
    BY <1>8, <2>1, SMT
  <2>3. /\ jg1582 => 100 * b + d = 6382 /\ e = k + 213
        /\ ~jg1582 => 100 * b + d = 6552 /\ e = k + 183
    BY <1>3, <2>2, ReformMonth, k \in Nat, SMT
  <2>4. CASE jg1582
    <3>1. a >= 2331205 /\ e <= 227 /\ b = 63 /\ d = 82
      BY <1>5, <1>9, <2>1, <2>3, <2>4, SMT DEF C!FirstGregorian
    <3>. QED  BY <1>6, <3>1, SMT DEF Quotient
  <2>5. CASE ~jg1582
    <3>1. a >= 2393266 /\ e <= 196 /\ b = 65 /\ d = 52
      BY <1>5, <1>10, <2>1, <2>3, <2>5, SMT DEF C!FirstGregorian
    <3>. QED  BY <1>6, <3>1, SMT DEF Quotient
  <2>. QED  BY <2>4, <2>5, SMT
<1>13. C!MonthLength(y, m) \in Nat
  BY SMT DEF C!MonthLength
<1>14. k \in C!DaysOf(y, m)
  BY <1>8, <1>12, <1>13, SMT DEF C!DaysOf
<1>. QED  BY <1>4, <1>8, <1>11, <1>14, SMT

(* JDN undoes JDN2 before the reform.                                       *)
LEMMA JulianDay ==
    ASSUME NEW j \in Nat, ~Reformed(j)
    PROVE  JDN(JDN2(j)[1], JDN2(j)[2], JDN2(j)[3]) = j
<1>1. PICK c \in Nat : c = j + 32082
  BY SMT
<1>2. JDN2(j) = DateOf(0, c)
  BY <1>1, SMT DEF JDN2
<1>3. PICK d \in Nat, e \in Nat : YearOf(c) = d /\ InYear(c) = e /\ e <= 365
  BY YearPart, SMT
<1>4. e = c - (1461 * d) \div 4
  BY <1>3, SMT DEF InYear, Quotient
<1>5. PICK m \in 0 .. 11, k \in Nat : MonthOf(e) = m /\ InMonth(e) = k /\ k < MonthDays(m)
  BY <1>3, MonthPart, SMT
<1>6. DateOf(0, c) = <<d - 4800 + m \div 10, m + 3 - 12 * (m \div 10), k + 1>>
  BY <1>3, <1>5, SMT DEF DateOf, Quotient
<1>7. e = k + (153 * m + 2) \div 5
  BY <1>5, SMT DEF InMonth, Quotient
<1>8. ~isGregorian(d - 4800 + m \div 10, m + 3 - 12 * (m \div 10), k + 1)
  <2>1. CASE jg1582
    <3>1. d < 6382 \/ (d = 6382 /\ e <= 217)
      BY <1>1, <1>4, <2>1, SMT DEF Reformed
    <3>2. d = 6382 => m < 7 \/ (m = 7 /\ k <= 3)
      BY <1>7, <3>1, SMT
    <3>. QED  BY <2>1, <3>1, <3>2, SMT DEF isGregorian
  <2>2. CASE ~jg1582
    <3>1. d < 6552 \/ (d = 6552 /\ e <= 185)
      BY <1>1, <1>4, <2>2, SMT DEF Reformed
    <3>2. d = 6552 => m < 6 \/ (m = 6 /\ k <= 1)
      BY <1>7, <3>1, SMT
    <3>. QED  BY <2>2, <3>1, <3>2, SMT DEF isGregorian
  <2>. QED  BY <2>1, <2>2, SMT
<1>9. JDN(d - 4800 + m \div 10, m + 3 - 12 * (m \div 10), k + 1)
        = k + 1 - 32083 + (153 * m + 2) \div 5 + 365 * d + d \div 4
  <2>1. CASE m \div 10 = 0
    BY <1>8, <2>1, SMT DEF JDN, Quotient
  <2>2. CASE m \div 10 = 1
    BY <1>8, <2>2, SMT DEF JDN, Quotient
  <2>. QED  BY <2>1, <2>2, SMT
<1>10. 365 * d + d \div 4 = (1461 * d) \div 4
  BY SMT
<1>. QED  BY <1>1, <1>2, <1>4, <1>6, <1>7, <1>9, <1>10, SMT

(* JDN undoes JDN2 after the reform.                                        *)
LEMMA GregorianDay ==
    ASSUME NEW j \in Nat, Reformed(j)
    PROVE  JDN(JDN2(j)[1], JDN2(j)[2], JDN2(j)[3]) = j
<1>1. PICK a \in Nat : a = j + 32044
  BY SMT
<1>2. PICK b \in Nat, c \in Nat : CenturyOf(a) = b /\ InCentury(a) = c /\ c <= 36524
  BY CenturyPart, SMT
<1>3. PICK d \in Nat, e \in Nat : YearOf(c) = d /\ InYear(c) = e /\ e <= 365
  BY YearPart, SMT
<1>4. JDN2(j) = DateOf(b, c)
  BY <1>1, <1>2, SMT DEF JDN2
<1>5. d <= 99
  BY <1>2, <1>3, YearInCentury, SMT
<1>6. e = c - (1461 * d) \div 4
  BY <1>3, SMT DEF InYear, Quotient
<1>7. c = a - (b * 146097) \div 4
  BY <1>2, SMT DEF InCentury, Quotient
<1>8. PICK m \in 0 .. 11, k \in Nat : MonthOf(e) = m /\ InMonth(e) = k /\ k < MonthDays(m)
  BY <1>3, MonthPart, SMT
<1>9. PICK y \in Nat : y = 100 * b + d
  BY SMT
<1>10. DateOf(b, c) = <<y - 4800 + m \div 10, m + 3 - 12 * (m \div 10), k + 1>>
  BY <1>3, <1>8, <1>9, SMT DEF DateOf, Quotient
<1>11. e = k + (153 * m + 2) \div 5
  BY <1>8, SMT DEF InMonth, Quotient
<1>12. isGregorian(y - 4800 + m \div 10, m + 3 - 12 * (m \div 10), k + 1)
  <2>1. CASE jg1582
    <3>1. a >= 2331205
      BY <1>1, <2>1, SMT DEF Reformed
    <3>2. y > 6382 \/ (y = 6382 /\ e >= 228)
      <4>1. b >= 63
        BY <1>2, <1>7, <3>1, SMT
      <4>2. b = 63 => d > 82 \/ (d = 82 /\ e >= 228)
        BY <1>3, <1>6, <1>7, <3>1, SMT
      <4>. QED  BY <1>9, <4>1, <4>2, SMT
    <3>3. y = 6382 => m > 7 \/ (m = 7 /\ k >= 14)
      BY <1>8, <1>11, <3>2, SMT DEF MonthDays
    <3>. QED  BY <2>1, <3>2, <3>3, SMT DEF isGregorian
  <2>2. CASE ~jg1582
    <3>1. a >= 2393266
      BY <1>1, <2>2, SMT DEF Reformed
    <3>2. y > 6552 \/ (y = 6552 /\ e >= 197)
      <4>1. b >= 65
        BY <1>2, <1>7, <3>1, SMT
      <4>2. b = 65 => d > 52 \/ (d = 52 /\ e >= 197)
        BY <1>3, <1>6, <1>7, <3>1, SMT
      <4>. QED  BY <1>9, <4>1, <4>2, SMT
    <3>3. y = 6552 => m > 6 \/ (m = 6 /\ k >= 13)
      BY <1>8, <1>11, <3>2, SMT DEF MonthDays
    <3>. QED  BY <2>2, <3>2, <3>3, SMT DEF isGregorian
  <2>. QED  BY <2>1, <2>2, SMT
<1>13. JDN(y - 4800 + m \div 10, m + 3 - 12 * (m \div 10), k + 1)
        = y \div 400 - y \div 100 - 32045 + k + 1 + (153 * m + 2) \div 5 + 365 * y + y \div 4
  <2>1. CASE m \div 10 = 0
    BY <1>12, <2>1, SMT DEF JDN, Quotient
  <2>2. CASE m \div 10 = 1
    BY <1>12, <2>2, SMT DEF JDN, Quotient
  <2>. QED  BY <2>1, <2>2, SMT
<1>14. y \div 100 = b /\ y \div 400 = b \div 4
  BY <1>5, <1>9, SMT
<1>15. 365 * y + y \div 4 - b + b \div 4 = (b * 146097) \div 4 + (1461 * d) \div 4
  BY <1>9, SMT
<1>. QED  BY <1>1, <1>4, <1>6, <1>7, <1>10, <1>11, <1>13, <1>14, <1>15, SMT

(* A day number's date has that day number, and is a date that the commands  *)
(* accept.                                                                   *)
THEOREM DayOfDate ==
    ASSUME NEW j \in Nat, j <= 5373484
    PROVE  /\ JDN(JDN2(j)[1], JDN2(j)[2], JDN2(j)[3]) = j
           /\ check_date(JDN2(j)[1], JDN2(j)[2], JDN2(j)[3])
<1>1. JDN(JDN2(j)[1], JDN2(j)[2], JDN2(j)[3]) = j
  BY JulianDay, GregorianDay, SMT
<1>2. /\ -4712 <= JDN2(j)[1] /\ JDN2(j)[1] <= 9999
  BY JulianDate, GregorianDate, SMT
<1>3. JDN2(j) = <<JDN2(j)[1], JDN2(j)[2], JDN2(j)[3]>>
  BY SMT DEF JDN2, DateOf
<1>. QED  BY <1>1, <1>2, <1>3, SMT DEF check_date

YearsWritten  == {y \in Int : -9999 <= y /\ y <= 9999}
MonthsWritten == 1 .. 12
DaysWritten   == 1 .. 31
DayNumbers    == {j \in Nat : j <= 5373484}

(* What build_date puts into a number, extract_date takes out of it.        *)
LEMMA ExtractBuilt ==
    ASSUME NEW mode \in Modes, NEW y \in YearsWritten, NEW m \in MonthsWritten, NEW d \in DaysWritten
    PROVE  extract_date(mode, build_date(mode, y, m, d)) = <<y, m, d>>
<1>0. /\ y \in Int /\ -9999 <= y /\ y <= 9999
      /\ m \in 1 .. 12 /\ d \in 1 .. 31
  BY SMT DEF YearsWritten, MonthsWritten, DaysWritten
<1>1. PICK n \in Nat, s \in {-1, 1} :
          n = Abs(y) /\ n <= 9999 /\ s = (IF y < 0 THEN -1 ELSE 1) /\ s * n = y
  <2>1. CASE y < 0
    <3>1. Abs(y) = -y
      BY <2>1 DEF Abs
    <3>2. -y \in Nat /\ -y <= 9999 /\ (-1) * (-y) = y
      BY <1>0, <2>1, SMT
    <3>. QED  BY <2>1, <3>1, <3>2, SMT
  <2>2. CASE ~(y < 0)
    <3>1. Abs(y) = y
      BY <2>2 DEF Abs
    <3>2. y \in Nat /\ y <= 9999 /\ 1 * y = y
      BY <1>0, <2>2, SMT
    <3>. QED  BY <2>2, <3>1, <3>2, SMT
  <2>. QED  BY <2>1, <2>2
<1>2. CASE mode = "YMD"
  <2>1. build_date(mode, y, m, d) = <<s, n, m * 10000 + d * 100>>
    BY <1>0, <1>1, <1>2, SMT DEF build_date
  <2>2. extract_date(mode, <<s, n, m * 10000 + d * 100>>) = <<s * n, m, d>>
    BY <1>0, <1>1, <1>2, SMT DEF extract_date
  <2>. QED  BY <1>0, <1>1, <2>1, <2>2, SMT
<1>3. CASE mode = "DMY"
  <2>1. build_date(mode, y, m, d) = <<s, d, m * 10000 + n>>
    BY <1>0, <1>1, <1>3, SMT DEF build_date
  <2>2. extract_date(mode, <<s, d, m * 10000 + n>>) = <<s * n, m, d>>
    BY <1>0, <1>1, <1>3, SMT DEF extract_date
  <2>. QED  BY <1>0, <1>1, <2>1, <2>2, SMT
<1>4. CASE mode = "MDY"
  <2>1. build_date(mode, y, m, d) = <<s, m, d * 10000 + n>>
    <3>1. ((m * 100 + d) * 10000 + n) \div 1000000 = m
      BY <1>0, <1>1, SMT
    <3>2. ((m * 100 + d) * 10000 + n) % 1000000 = d * 10000 + n
      BY <1>0, <1>1, SMT
    <3>. QED  BY <1>0, <1>1, <1>4, <3>1, <3>2, SMT DEF build_date
  <2>2. extract_date(mode, <<s, m, d * 10000 + n>>) = <<s * n, m, d>>
    BY <1>0, <1>1, <1>4, SMT DEF extract_date
  <2>. QED  BY <1>0, <1>1, <2>1, <2>2, SMT
<1>. QED  BY <1>2, <1>3, <1>4, SMT DEF Modes

(* The date of a day number.                                                *)
LEMMA DateRange ==
    ASSUME NEW j \in DayNumbers
    PROVE  \E y \in Int, m \in 1 .. 12, d \in 1 .. 31 :
               JDN2(j) = <<y, m, d>> /\ -4712 <= y /\ y <= 9999 /\ check_date(y, m, d)
<1>0. j \in Nat /\ j <= 5373484
  BY SMT DEF DayNumbers
<1>1. PICK y \in Int, m \in 1 .. 12, d \in 1 .. 31 :
          JDN2(j) = <<y, m, d>> /\ -4712 <= y /\ y <= 9999
  <2>1. /\ JDN2(j)[1] \in Int /\ -4712 <= JDN2(j)[1] /\ JDN2(j)[1] <= 9999
        /\ JDN2(j)[2] \in 1 .. 12
        /\ JDN2(j)[3] \in C!DaysOf(JDN2(j)[1], JDN2(j)[2])
    BY <1>0, JulianDate, GregorianDate, SMT
  <2>2. C!MonthLength(JDN2(j)[1], JDN2(j)[2]) <= 31 /\ C!MonthLength(JDN2(j)[1], JDN2(j)[2]) \in Nat
    BY SMT DEF C!MonthLength
  <2>3. JDN2(j)[3] \in 1 .. 31
    BY <2>1, <2>2, SMT DEF C!DaysOf
  <2>4. JDN2(j) = <<JDN2(j)[1], JDN2(j)[2], JDN2(j)[3]>>
    BY <1>0, SMT DEF JDN2, DateOf
  <2>. QED  BY <2>1, <2>3, <2>4, SMT
<1>2. check_date(y, m, d)
  BY <1>0, <1>1, DayOfDate, SMT
<1>. QED  BY <1>1, <1>2

(* J->D and D->J are inverses in every mode up to the end of 9999. *)
THEOREM JulianDayNumbers ==
    ASSUME NEW mode \in Modes, NEW j \in DayNumbers
    PROVE  dateToJ(mode, dateFromJ(mode, j)) = j
<1>1. PICK y \in Int, m \in 1 .. 12, d \in 1 .. 31 :
          JDN2(j) = <<y, m, d>> /\ -4712 <= y /\ y <= 9999 /\ check_date(y, m, d)
  BY DateRange
<1>2. JDN(y, m, d) = j
  <2>1. j \in Nat /\ j <= 5373484
    BY DEF DayNumbers
  <2>. QED  BY <1>1, <2>1, DayOfDate
<1>3. dateFromJ(mode, j) = build_date(mode, y, m, d)
  BY <1>1, SMT DEF dateFromJ, Valid
<1>4. y \in YearsWritten /\ m \in MonthsWritten /\ d \in DaysWritten
  BY <1>1, SMT DEF YearsWritten, MonthsWritten, DaysWritten
<1>5. extract_date(mode, build_date(mode, y, m, d)) = <<y, m, d>>
  BY <1>4, ExtractBuilt
<1>. QED  BY <1>1, <1>2, <1>3, <1>5, SMT DEF dateToJ, Valid

-----------------------------------------------------------------------------
(* The walk keeps to day numbers.                                            *)
LEMMA DaysNatural == Spec => [](J \in Nat)
<1>1. Init => J \in Nat
  BY DaysAssumption, SMT DEF Init
<1>2. J \in Nat /\ [Next]_vars => (J \in Nat)'
  BY SMT DEF Next, Add, Done, vars
<1>. QED  BY <1>1, <1>2, PTL DEF Spec

(* The walk through the day numbers is a walk through the calendar, whichever *)
(* reform is chosen and wherever it begins.                                  *)
THEOREM CalendarKept == Spec => CalendarSpec
<1>1. Init => C!Init
  <2> SUFFICES ASSUME Init
               PROVE  C!Init
    OBVIOUS
  <2>1. (~jg1582) \in BOOLEAN
    BY SMT DEF Init
  <2>2. J \in Nat /\ J <= 5373484
    BY DaysAssumption, SMT DEF Init
  <2>3. /\ JDN2(J)[1] \in Int /\ -4712 <= JDN2(J)[1] /\ JDN2(J)[1] <= 9999
        /\ JDN2(J)[2] \in 1 .. 12
        /\ JDN2(J)[3] \in C!DaysOf(JDN2(J)[1], JDN2(J)[2])
    BY <2>2, JulianDate, GregorianDate, SMT
  <2>. QED  BY <2>1, <2>3, SMT DEF C!Init
<1>2. J \in Nat /\ [Next]_vars => [C!Next]_<<~jg1582, JDN2(J)>>
  <2> SUFFICES ASSUME J \in Nat, [Next]_vars
               PROVE  [C!Next]_<<~jg1582, JDN2(J)>>
    OBVIOUS
  <2>1. CASE Add
    <3>1. jg1582' = jg1582 /\ J' = J + 1
      BY <2>1, SMT DEF Add
    <3>2. JDN2(J)' = JDN2(J + 1)
      BY <3>1, SMT DEF JDN2, Reformed
    <3>3. JDN2(J + 1) = C!Tomorrow(JDN2(J)[1], JDN2(J)[2], JDN2(J)[3])
      BY NextDay, SMT
    <3>. QED  BY <3>1, <3>2, <3>3, SMT DEF C!Next
  <2>2. CASE UNCHANGED vars
    <3>1. jg1582' = jg1582 /\ J' = J
      BY <2>2, SMT DEF vars
    <3>2. JDN2(J)' = JDN2(J)
      BY <3>1, SMT DEF JDN2, Reformed
    <3>. QED  BY <3>1, <3>2, SMT
  <2>. QED  BY <2>1, <2>2, SMT DEF Next, Done
<1>. QED  BY <1>1, <1>2, DaysNatural, PTL DEF Spec, CalendarSpec, C!Spec

-----------------------------------------------------------------------------
(* Dates taken and refused *)

(* The day e of a year is day k of month n, both counted from 0.              *)
OfMonth(e, n, k) ==
    e \in Nat /\ MonthOf(e) = n /\ InMonth(e) = k /\ e <= 365 /\ (e = 365 <=> n = 11 /\ k = 28)

(* The days before a month, and the day of it, give back month and day.     *)
LEMMA MonthBack ==
    ASSUME NEW m \in 0 .. 11, NEW k \in Nat, k < MonthDays(m), m = 11 => k <= 28,
           NEW e, e = (153 * m + 2) \div 5 + k
    PROVE  OfMonth(e, m, k)
<1>1. e \in Nat /\ e <= 365 /\ (e = 365 <=> m = 11 /\ k = 28)
  BY SMTT(30) DEF MonthDays
<1>2. MonthOf(e) = m
  BY <1>1, SMTT(30) DEF MonthOf, MonthDays, Quotient
<1>3. InMonth(e) = k
  BY <1>1, <1>2, SMT DEF InMonth, Quotient
<1>. QED  BY <1>1, <1>2, <1>3 DEF OfMonth

(* Day c of a century is day e of year d, and day a is day c of century b.    *)
OfYear(c, d, e)    == c \in Nat /\ YearOf(c) = d /\ InYear(c) = e
OfCentury(a, b, c) == a \in Nat /\ CenturyOf(a) = b /\ InCentury(a) = c
CenturyDay(b, c)   == 36524 * b + b \div 4 + c

(* The days before a year and those of it give them back.                   *)
LEMMA YearBack ==
    ASSUME NEW d \in Nat, NEW e \in Nat, e <= 365, e = 365 => d % 4 = 3,
           NEW c, c = 365 * d + d \div 4 + e
    PROVE  OfYear(c, d, e)
<1>1. c \in Nat
  BY SMT
<1>2. YearOf(c) = d
  BY <1>1, SMTT(30) DEF YearOf, Quotient
<1>3. InYear(c) = e
  BY <1>1, <1>2, SMTT(30) DEF InYear, Quotient
<1>. QED  BY <1>1, <1>2, <1>3 DEF OfYear

(* The days before a century and those of it give them back.                *)
LEMMA CenturyBack ==
    ASSUME NEW b \in Nat, NEW c \in Nat, c <= 36524, c = 36524 => b % 4 = 3,
           NEW a, a = CenturyDay(b, c)
    PROVE  OfCentury(a, b, c)
<1>0. a = 36524 * b + b \div 4 + c
  BY DEF CenturyDay
<1>1. a \in Nat
  BY <1>0, SMT
<1>2. CenturyOf(a) = b
  BY <1>0, <1>1, SMTT(30) DEF CenturyOf, Quotient
<1>3. InCentury(a) = c
  BY <1>0, <1>1, <1>2, SMTT(30) DEF InCentury, Quotient
<1>. QED  BY <1>1, <1>2, <1>3 DEF OfCentury

(* The parts of a date, in years from March on.                             *)
Parts(y, m, d, Y, n, k, e) ==
    /\ Y > 0 /\ y = Y - 4800 + n \div 10 /\ m = n + 3 - 12 * (n \div 10) /\ d = k + 1
    /\ k < MonthDays(n) /\ (n = 11 => k <= 28)
    /\ e = (153 * n + 2) \div 5 + k /\ e <= 365
    /\ e = 365 => n = 11 /\ k = 28
    /\ n = 11 /\ k = 28 => C!Leap(y)
    /\ MonthOf(e) = n /\ InMonth(e) = k

Dated(y, m, d) == \E Y \in Nat, n \in 0 .. 11, k \in Nat, e \in Nat : Parts(y, m, d, Y, n, k, e)

LEMMA DateParts ==
    ASSUME NEW y \in Int, -4712 <= y, NEW m \in 1 .. 12, NEW d \in 1 .. C!MonthLength(y, m)
    PROVE  Dated(y, m, d)
<1>1. PICK n \in 0 .. 11 : m = n + 3 - 12 * (n \div 10) /\ n \div 10 \in {0, 1}
  <2>1. CASE m <= 2
    <3>1. m + 9 \in 0 .. 11 /\ (m + 9) \div 10 = 1
      BY <2>1, SMT
    <3>. QED  BY <3>1, SMT
  <2>2. CASE m > 2
    <3>1. m - 3 \in 0 .. 11 /\ (m - 3) \div 10 = 0
      BY <2>2, SMT
    <3>. QED  BY <3>1, SMT
  <2>. QED  BY <2>1, <2>2, SMT
<1>2. PICK Y \in Nat : Y > 0 /\ y = Y - 4800 + n \div 10
  <2>1. y + 4800 - n \div 10 \in Nat /\ y + 4800 - n \div 10 > 0
    BY <1>1, SMT
  <2>. QED  BY <1>1, <2>1, SMT
<1>3. d \in Nat /\ d >= 1 /\ d <= C!MonthLength(y, m) /\ C!MonthLength(y, m) \in Nat
  <2>1. C!MonthLength(y, m) \in 28 .. 31
    BY SMT DEF C!MonthLength
  <2>. QED  BY <2>1, SMT
<1>4. PICK k \in Nat : d = k + 1
  <2>1. d - 1 \in Nat
    BY <1>3, SMT
  <2>. QED  BY <2>1, SMT
<1>5. /\ k < MonthDays(n) /\ (n = 11 => k <= 28) /\ (n = 11 /\ k = 28 => C!Leap(y))
  <2>1. CASE n = 11
    <3>1. m = 2
      BY <1>1, <2>1, SMT
    <3>2. C!MonthLength(y, m) = IF C!Leap(y) THEN 29 ELSE 28
      BY <3>1 DEF C!MonthLength
    <3>. QED  BY <1>3, <1>4, <2>1, <3>2, SMT DEF MonthDays
  <2>2. CASE n # 11
    <3>1. m # 2 /\ (n \in {1, 3, 6, 8} <=> m \in {4, 6, 9, 11})
      BY <1>1, <2>2, SMT
    <3>2. C!MonthLength(y, m) = MonthDays(n)
      BY <3>1 DEF C!MonthLength, MonthDays
    <3>. QED  BY <1>3, <1>4, <2>2, <3>2, SMT
  <2>. QED  BY <2>1, <2>2
<1>6. PICK e \in Nat : e = (153 * n + 2) \div 5 + k
  BY SMT
<1>7. MonthOf(e) = n /\ InMonth(e) = k /\ e <= 365 /\ (e = 365 <=> n = 11 /\ k = 28)
  <2>1. k < MonthDays(n) /\ (n = 11 => k <= 28)
    BY <1>5
  <2>2. OfMonth(e, n, k)
    BY <1>6, <2>1, MonthBack
  <2>. QED  BY <2>2 DEF OfMonth
<1>8. Parts(y, m, d, Y, n, k, e)
  BY <1>1, <1>2, <1>4, <1>5, <1>6, <1>7, SMT DEF Parts
<1>. QED  BY <1>8 DEF Dated

(* C's quotients are those of integers, but for the sign.                   *)
QuotientsOf(x) ==
    /\ Quotient(x, 4) = x \div 4 /\ Quotient(x, 5) = x \div 5 /\ Quotient(x, 400) = x \div 400
    /\ x > 0 => Quotient(-x, 100) = -(x \div 100)

LEMMA Quotients ==
    ASSUME NEW x \in Nat
    PROVE  QuotientsOf(x)
<1>1. Quotient(x, 4) = x \div 4 /\ Quotient(x, 5) = x \div 5 /\ Quotient(x, 400) = x \div 400
  <2>1. x >= 0
    BY SMT
  <2>. QED  BY <2>1, Zenon DEF Quotient
<1>2. ASSUME x > 0 PROVE Quotient(-x, 100) = -(x \div 100)
  <2>1. ~(-x >= 0)
    BY <1>2, SMT
  <2>2. Quotient(-x, 100) = -((-(-x)) \div 100)
    BY <2>1, Zenon DEF Quotient
  <2>3. -(-x) = x
    BY SMT
  <2>. QED  BY <2>2, <2>3
<1>. QED  BY <1>1, <1>2 DEF QuotientsOf

(* JDN of a date's parts.                                                   *)
LEMMA DayOfParts ==
    ASSUME NEW y, NEW m, NEW d, NEW Y \in Nat, NEW n \in 0 .. 11, NEW k \in Nat, NEW e \in Nat,
           Parts(y, m, d, Y, n, k, e)
    PROVE  JDN(y, m, d) = (IF isGregorian(y, m, d) THEN Y \div 400 - Y \div 100 - 32045 ELSE -32083)
                            + e + 1 + 365 * Y + Y \div 4
<1>1. /\ Y > 0 /\ y = Y - 4800 + n \div 10 /\ m = n + 3 - 12 * (n \div 10) /\ d = k + 1
      /\ e = (153 * n + 2) \div 5 + k
  BY DEF Parts
<1>2. n \div 10 \in {0, 1}
  BY SMT
<1>3. Quotient(14 - m, 12) = n \div 10
  BY <1>1, SMT DEF Quotient
<1>4. y + 4800 - n \div 10 = Y /\ m + 12 * (n \div 10) - 3 = n
  BY <1>1, <1>2, SMT
<1>5. /\ Quotient(Y, 400) = Y \div 400 /\ Quotient(-Y, 100) = -(Y \div 100)
      /\ Quotient(Y, 4) = Y \div 4 /\ Quotient(153 * n + 2, 5) = (153 * n + 2) \div 5
  <2>1. 153 * n + 2 \in Nat
    BY SMT
  <2>2. QuotientsOf(Y) /\ QuotientsOf(153 * n + 2)
    BY <2>1, Quotients
  <2>. QED  BY <1>1, <2>2, Zenon DEF QuotientsOf
<1>6. JDN(y, m, d) = (IF isGregorian(y, m, d) THEN Quotient(-Y, 100) + Quotient(Y, 400) - 32045 ELSE -32083)
                        + d + Quotient(153 * n + 2, 5) + 365 * Y + Quotient(Y, 4)
  BY <1>3, <1>4 DEF JDN
<1>. QED  BY <1>1, <1>5, <1>6, SMT

(* JDN2 of the day number of a date of the old calendar is the date.        *)
LEMMA JulianBack ==
    ASSUME NEW y \in Int, NEW m, NEW d, NEW Y \in Nat, NEW n \in 0 .. 11, NEW k \in Nat, NEW e \in Nat,
           Parts(y, m, d, Y, n, k, e), ~isGregorian(y, m, d), d \notin C!Skipped(y, m)
    PROVE  JDN2(JDN(y, m, d)) = <<y, m, d>>
<1>1. /\ Y > 0 /\ y = Y - 4800 + n \div 10 /\ m = n + 3 - 12 * (n \div 10) /\ d = k + 1
      /\ e = (153 * n + 2) \div 5 + k /\ e <= 365 /\ (e = 365 => n = 11 /\ k = 28)
      /\ (n = 11 /\ k = 28 => C!Leap(y)) /\ k < MonthDays(n)
      /\ MonthOf(e) = n /\ InMonth(e) = k
  BY DEF Parts
<1>2. PICK c \in Nat : c = 365 * Y + Y \div 4 + e
  BY SMT
<1>3. PICK j \in Int : j = c - 32082
  BY SMT
<1>4. JDN(y, m, d) = j
  <2>1. JDN(y, m, d) = -32083 + e + 1 + 365 * Y + Y \div 4
    BY DayOfParts
  <2>. QED  BY <1>2, <1>3, <2>1, SMT
<1>5. e = 365 => Y % 4 = 3
  <2>1. e = 365 => y % 4 = 0 /\ y = Y - 4799
    BY <1>1, SMT DEF C!Leap
  <2>. QED  BY <2>1, SMT
<1>6. YearOf(c) = Y /\ InYear(c) = e
  <2>1. e <= 365
    BY <1>1
  <2>2. OfYear(c, Y, e)
    BY <1>2, <1>5, <2>1, YearBack
  <2>. QED  BY <2>2 DEF OfYear
<1>7. ~Reformed(j)
  <2>1. CASE jg1582
    <3>1. ~(y > 1582) /\ ~(y = 1582 /\ (m > 10 \/ (m = 10 /\ d >= 15)))
      BY <2>1 DEF isGregorian
    <3>4. ~(y = 1582 /\ m = 10 /\ d \in 5 .. 14)
      BY <2>1, SMT DEF C!Skipped, C!LastJulian, C!FirstGregorian
    <3>2. Y < 6382 \/ (Y = 6382 /\ e <= 217)
      <4>1. Y <= 6382
        BY <1>1, <3>1, SMT
      <4>2. Y = 6382 => n < 7 \/ (n = 7 /\ k < 4)
        BY <1>1, <3>1, <3>4, SMT
      <4>3. n < 7 => e < 214
        BY <1>1, SMT DEF MonthDays
      <4>. QED  BY <1>1, <4>1, <4>2, <4>3, SMT
    <3>3. c < 2331243
      BY <1>1, <1>2, <3>2, SMT
    <3>. QED  BY <1>3, <2>1, <3>3, SMT DEF Reformed
  <2>2. CASE ~jg1582
    <3>1. ~(y > 1752) /\ ~(y = 1752 /\ (m > 9 \/ (m = 9 /\ d >= 14)))
      BY <2>2 DEF isGregorian
    <3>4. ~(y = 1752 /\ m = 9 /\ d \in 3 .. 13)
      BY <2>2, SMT DEF C!Skipped, C!LastJulian, C!FirstGregorian
    <3>2. Y < 6552 \/ (Y = 6552 /\ e <= 185)
      <4>1. Y <= 6552
        BY <1>1, <3>1, SMT
      <4>2. Y = 6552 => n < 6 \/ (n = 6 /\ k < 2)
        BY <1>1, <3>1, <3>4, SMT
      <4>3. n < 6 => e < 184
        BY <1>1, SMT DEF MonthDays
      <4>. QED  BY <1>1, <4>1, <4>2, <4>3, SMT
    <3>3. c < 2393304
      BY <1>1, <1>2, <3>2, SMT
    <3>. QED  BY <1>3, <2>2, <3>3, SMT DEF Reformed
  <2>. QED  BY <2>1, <2>2
<1>8. JDN2(j) = DateOf(0, c)
  BY <1>3, <1>7, SMT DEF JDN2
<1>9. DateOf(0, c) = <<Y - 4800 + n \div 10, n + 3 - 12 * (n \div 10), k + 1>>
  BY <1>1, <1>6, SMT DEF DateOf, Quotient
<1>. QED  BY <1>1, <1>4, <1>8, <1>9

(* And of a date of the new one.                                            *)
LEMMA GregorianBack ==
    ASSUME NEW y \in Int, NEW m, NEW d, NEW Y \in Nat, NEW n \in 0 .. 11, NEW k \in Nat, NEW e \in Nat,
           Parts(y, m, d, Y, n, k, e), isGregorian(y, m, d)
    PROVE  JDN2(JDN(y, m, d)) = <<y, m, d>>
<1>1. /\ Y > 0 /\ y = Y - 4800 + n \div 10 /\ m = n + 3 - 12 * (n \div 10) /\ d = k + 1
      /\ e = (153 * n + 2) \div 5 + k /\ e <= 365 /\ (e = 365 => n = 11 /\ k = 28)
      /\ (n = 11 /\ k = 28 => C!Leap(y))
      /\ MonthOf(e) = n /\ InMonth(e) = k
  BY DEF Parts
<1>2. PICK b \in Nat, f \in Nat : Y = 100 * b + f /\ f <= 99
  <2>1. Y \div 100 \in Nat /\ Y - 100 * (Y \div 100) \in 0 .. 99
    BY SMT
  <2>2. Y = 100 * (Y \div 100) + (Y - 100 * (Y \div 100))
    BY <2>1, SMT
  <2>. QED  BY <2>1, <2>2, SMT
<1>3. Y \div 100 = b /\ Y \div 400 = b \div 4 /\ Y \div 4 = 25 * b + f \div 4
  BY <1>2, SMT
<1>4. PICK c \in Nat : c = 365 * f + f \div 4 + e
  BY SMT
<1>5. PICK a \in Nat : a = 36524 * b + b \div 4 + c
  BY SMT
<1>6. PICK j \in Int : j = a - 32044
  BY SMT
<1>7. JDN(y, m, d) = j
  <2>1. JDN(y, m, d) = Y \div 400 - Y \div 100 - 32045 + e + 1 + 365 * Y + Y \div 4
    BY DayOfParts
  <2>. QED  BY <1>2, <1>3, <1>4, <1>5, <1>6, <2>1, SMT
<1>8. y >= 1582 /\ (y > C!LastJulian[1] \/ m # 2)
  <2>1. CASE jg1582
    BY <2>1, SMT DEF isGregorian, C!LastJulian
  <2>2. CASE ~jg1582
    BY <2>2, SMT DEF isGregorian, C!LastJulian
  <2>. QED  BY <2>1, <2>2
<1>9. e = 365 => f % 4 = 3 /\ (f = 99 => b % 4 = 3)
  <2>1. e = 365 => m = 2 /\ y = Y - 4799 /\ C!Leap(y)
    BY <1>1, SMT
  <2>2. e = 365 => y % 4 = 0 /\ (y % 100 = 0 => y % 400 = 0)
    BY <1>8, <2>1 DEF C!Leap
  <2>3. e = 365 => (100 * b + f - 4799) % 4 = 0 /\ ((100 * b + f - 4799) % 100 = 0 => (100 * b + f - 4799) % 400 = 0)
    BY <1>2, <2>1, <2>2
  <2>4. (100 * b + f - 4799) % 4 = 0 <=> f % 4 = 3
    BY <1>2, SMT
  <2>5. f = 99 => (100 * b + f - 4799) % 100 = 0
    BY <1>2, SMT
  <2>6. f = 99 => ((100 * b + f - 4799) % 400 = 0 => b % 4 = 3)
    <3>1. (100 * b - 4700) % 400 = 0 => b % 4 = 3
      <4> SUFFICES ASSUME (100 * b - 4700) % 400 = 0 PROVE b % 4 = 3
        OBVIOUS
      <4> DEFINE q == (100 * b - 4700) \div 400
      <4>1. q \in Int /\ 100 * b - 4700 = 400 * q
        BY SMT
      <4> HIDE DEF q
      <4>2. b = 4 * q + 47
        BY <4>1, SMT
      <4>. QED  BY <4>1, <4>2, SMT
    <3>2. f = 99 => 100 * b + f - 4799 = 100 * b - 4700
      BY SMT
    <3>. QED  BY <3>1, <3>2
  <2>. QED  BY <2>3, <2>4, <2>5, <2>6
<1>10. YearOf(c) = f /\ InYear(c) = e
  <2>1. e <= 365 /\ (e = 365 => f % 4 = 3)
    BY <1>1, <1>9
  <2>2. OfYear(c, f, e)
    BY <1>4, <2>1, YearBack
  <2>. QED  BY <2>2 DEF OfYear
<1>11. CenturyOf(a) = b /\ InCentury(a) = c
  <2>1. c <= 36524 /\ (c = 36524 => b % 4 = 3)
    BY <1>1, <1>2, <1>4, <1>9, SMT
  <2>2. a = CenturyDay(b, c)
    BY <1>5 DEF CenturyDay
  <2>3. OfCentury(a, b, c)
    BY <2>1, <2>2, CenturyBack
  <2>. QED  BY <2>3 DEF OfCentury
<1>12. Reformed(j)
  <2>0. b \div 4 \in Nat /\ f \div 4 \in Nat /\ a = 36524 * b + b \div 4 + 365 * f + f \div 4 + e
    BY <1>4, <1>5, SMT
  <2>1. CASE jg1582
    <3>1. y > 1582 \/ (y = 1582 /\ (m > 10 \/ (m = 10 /\ d >= 15)))
      BY <2>1 DEF isGregorian
    <3>2. Y > 6382 \/ (Y = 6382 /\ e >= 228)
      <4>1. Y >= 6382 /\ (Y = 6382 => n > 7 \/ (n = 7 /\ k >= 14))
        BY <1>1, <3>1, SMT
      <4>2. n > 7 => e >= 245
        BY <1>1, SMT
      <4>. QED  BY <1>1, <4>1, <4>2, SMT
    <3>3. b > 63 \/ (b = 63 /\ (f > 82 \/ (f = 82 /\ e >= 228)))
      BY <1>2, <3>2, SMT
    <3>4. a >= 2331205
      BY <1>2, <2>0, <3>3, SMT
    <3>. QED  BY <1>6, <2>1, <3>4, SMT DEF Reformed
  <2>2. CASE ~jg1582
    <3>1. y > 1752 \/ (y = 1752 /\ (m > 9 \/ (m = 9 /\ d >= 14)))
      BY <2>2 DEF isGregorian
    <3>2. Y > 6552 \/ (Y = 6552 /\ e >= 197)
      <4>1. Y >= 6552 /\ (Y = 6552 => n > 6 \/ (n = 6 /\ k >= 13))
        BY <1>1, <3>1, SMT
      <4>2. n > 6 => e >= 214
        BY <1>1, SMT
      <4>. QED  BY <1>1, <4>1, <4>2, SMT
    <3>3. b > 65 \/ (b = 65 /\ (f > 52 \/ (f = 52 /\ e >= 197)))
      BY <1>2, <3>2, SMT
    <3>4. a >= 2393266
      BY <1>2, <2>0, <3>3, SMT
    <3>. QED  BY <1>6, <2>2, <3>4, SMT DEF Reformed
  <2>. QED  BY <2>1, <2>2
<1>13. JDN2(j) = DateOf(b, c)
  <2>1. j + 32044 = a
    BY <1>6, SMT
  <2>. QED  BY <1>11, <1>12, <2>1 DEF JDN2
<1>14. DateOf(b, c) = <<Y - 4800 + n \div 10, n + 3 - 12 * (n \div 10), k + 1>>
  BY <1>1, <1>2, <1>10, SMT DEF DateOf, Quotient
<1>. QED  BY <1>1, <1>7, <1>13, <1>14

(* The dates of the calendar are accepted ...                               *)
LEMMA DatesAccepted ==
    ASSUME NEW y \in Int, -4712 <= y, y <= 9999, NEW m \in 1 .. 12, NEW d \in C!DaysOf(y, m)
    PROVE  check_date(y, m, d)
<1>1. d \in 1 .. C!MonthLength(y, m) /\ d \notin C!Skipped(y, m)
  BY DEF C!DaysOf
<1>2. Dated(y, m, d)
  BY <1>1, DateParts
<1>3. PICK Y \in Nat, n \in 0 .. 11, k \in Nat, e \in Nat : Parts(y, m, d, Y, n, k, e)
  BY <1>2 DEF Dated
<1>4. JDN2(JDN(y, m, d)) = <<y, m, d>>
  <2>1. CASE isGregorian(y, m, d)
    BY <1>3, <2>1, GregorianBack
  <2>2. CASE ~isGregorian(y, m, d)
    BY <1>1, <1>3, <2>2, JulianBack
  <2>. QED  BY <2>1, <2>2
<1>. QED  BY <1>4 DEF check_date

(* ... and no others.                                                       *)
InRange(y)       == y \in Int /\ -4712 <= y /\ y <= 9999
Written(y, m, d) == y \in Int /\ -4712 <= y /\ y <= 9999 /\ m \in 0 .. 13 /\ d \in 0 .. 32
NearDays(j)      == j \in Int /\ j >= -32

LEMMA DaysCounted ==
    ASSUME NEW y, NEW m, NEW d, Written(y, m, d)
    PROVE  NearDays(JDN(y, m, d))
<1>0. y \in Int /\ -4712 <= y /\ m \in 0 .. 13 /\ d \in 0 .. 32
  BY DEF Written
<1>11. SUFFICES JDN(y, m, d) \in Int /\ JDN(y, m, d) >= -32
  BY DEF NearDays
<1> DEFINE a == Quotient(14 - m, 12)
           Y == y + 4800 - a
           n == m + 12 * a - 3
<1>1. a \in {0, 1} /\ n \in 0 .. 11 /\ (a = 1 => n >= 9)
  <2>1. 14 - m >= 0 /\ (14 - m) \div 12 \in {0, 1} /\ ((14 - m) \div 12 = 1 <=> m <= 2)
    BY <1>0, SMT
  <2>2. a = (14 - m) \div 12
    BY <2>1 DEF Quotient
  <2>. QED  BY <1>0, <2>1, <2>2, SMT
<1> HIDE DEF a
<1>2. Y \in Nat /\ Y >= 87 /\ (Y = 87 => a = 1) /\ (y >= 1582 => Y >= 6381)
  BY <1>0, <1>1, SMT
<1>9. m + 12 * a - 3 = n /\ y + 4800 - a = Y
  OBVIOUS
<1> HIDE DEF Y, n
<1>3. /\ Quotient(Y, 400) = Y \div 400 /\ Quotient(-Y, 100) = -(Y \div 100)
      /\ Quotient(Y, 4) = Y \div 4
  <2>1. QuotientsOf(Y)
    BY <1>2, Quotients
  <2>2. Y > 0
    BY <1>2, SMT
  <2>. QED  BY <2>1, <2>2 DEF QuotientsOf
<1>10. Quotient(153 * n + 2, 5) = (153 * n + 2) \div 5
  <2>1. 153 * n + 2 \in Nat
    BY <1>1, SMT
  <2>2. QuotientsOf(153 * n + 2)
    BY <2>1, Quotients
  <2>. QED  BY <2>2 DEF QuotientsOf
<1>4. JDN(y, m, d) = (IF isGregorian(y, m, d) THEN -(Y \div 100) + Y \div 400 - 32045 ELSE -32083)
                        + d + (153 * n + 2) \div 5 + 365 * Y + Y \div 4
  BY <1>3, <1>10 DEF JDN, a, Y, n
<1>5. isGregorian(y, m, d) => y >= 1582
  BY <1>0, SMT DEF isGregorian
<1>6. (153 * n + 2) \div 5 \in Nat /\ (n >= 9 => (153 * n + 2) \div 5 >= 275) /\ d \in Nat
  BY <1>0, <1>1, SMT
<1>7. CASE isGregorian(y, m, d)
  <2>1. JDN(y, m, d) = -(Y \div 100) + Y \div 400 - 32045
                        + d + (153 * n + 2) \div 5 + 365 * Y + Y \div 4
    BY <1>4, <1>7
  <2>. QED  BY <1>2, <1>5, <1>6, <1>7, <2>1, SMT
<1>8. CASE ~isGregorian(y, m, d)
  <2>1. JDN(y, m, d) = -32083 + d + (153 * n + 2) \div 5 + 365 * Y + Y \div 4
    BY <1>4, <1>8
  <2>2. Y = 87 \/ Y >= 88
    BY <1>2, SMT
  <2>. QED  BY <1>1, <1>2, <1>6, <2>1, <2>2, SMT
<1>. QED  BY <1>7, <1>8

(* Before day 0 lie dates of the year before.                               *)
LEMMA BeforeDays ==
    ASSUME NEW j \in -32 .. -1
    PROVE  JDN2(j)[1] = -4713
<1>1. ~Reformed(j)
  BY SMT DEF Reformed
<1>2. PICK c \in Nat : c = j + 32082 /\ c >= 32050 /\ c <= 32081
  <2>1. j + 32082 \in Nat /\ j + 32082 >= 32050 /\ j + 32082 <= 32081
    BY SMT
  <2>. QED  BY <2>1
<1>3. JDN2(j) = DateOf(0, c)
  BY <1>1, <1>2 DEF JDN2
<1>4. YearOf(c) = 87
  BY <1>2, SMTT(30) DEF YearOf, Quotient
<1>5. InYear(c) = c - 31776
  BY <1>2, <1>4, SMT DEF InYear, Quotient
<1>6. PICK e \in Nat : e = InYear(c) /\ e >= 274 /\ e <= 305
  BY <1>2, <1>5, SMT
<1>7. MonthOf(e) \in 0 .. 9
  BY <1>6, SMTT(30) DEF MonthOf, Quotient
<1>8. Quotient(MonthOf(e), 10) = 0
  BY <1>7, SMT DEF Quotient
<1>9. DateOf(0, c)[1] = 100 * 0 + YearOf(c) - 4800 + Quotient(MonthOf(e), 10)
  BY <1>6 DEF DateOf
<1>. QED  BY <1>3, <1>4, <1>8, <1>9, SMT

LEMMA AcceptedDates ==
    ASSUME NEW y, NEW m, NEW d, Written(y, m, d), check_date(y, m, d)
    PROVE  m \in 1 .. 12 /\ d \in C!DaysOf(y, m)
<1>0. NearDays(JDN(y, m, d))
  BY DaysCounted, Zenon
<1>1. PICK j : j = JDN(y, m, d) /\ NearDays(j)
  BY <1>0, Zenon
<1>7. j \in Int /\ j >= -32
  BY <1>1 DEF NearDays
<1>8. y \in Int /\ -4712 <= y /\ y <= 9999 /\ m \in 0 .. 13 /\ d \in 0 .. 32
  BY DEF Written
<1>2. JDN2(j) = <<y, m, d>>
  BY <1>1 DEF check_date
<1>3. JDN2(j)[1] = y /\ JDN2(j)[2] = m /\ JDN2(j)[3] = d
  BY <1>2
<1>4. j \in Nat
  <2>1. ~(j \in -32 .. -1)
    <3> SUFFICES ASSUME j \in -32 .. -1 PROVE FALSE
      OBVIOUS
    <3>1. JDN2(j)[1] = -4713
      BY BeforeDays
    <3>. QED  BY <1>3, <1>8, <3>1, SMT
  <2>. QED  BY <1>7, <2>1, SMT
<1>5. CASE ~Reformed(j)
  BY <1>8, <1>3, <1>4, <1>5, JulianDate
<1>6. CASE Reformed(j)
  BY <1>8, <1>3, <1>4, <1>6, GregorianDate
<1>. QED  BY <1>5, <1>6

(* Only the days of a month are dates of it.                                *)
IsMonth(m, d, y) == check_date(y, m, d) <=> m \in 1 .. 12 /\ d \in C!DaysOf(y, m)

LEMMA DatesOfMonths ==
    ASSUME NEW y, InRange(y), NEW m \in 0 .. 13, NEW d \in 0 .. 32
    PROVE  IsMonth(m, d, y)
<1>0. y \in Int /\ -4712 <= y /\ y <= 9999
  BY DEF InRange
<1>1. Written(y, m, d)
  BY <1>0 DEF Written
<1>2. ASSUME check_date(y, m, d) PROVE m \in 1 .. 12 /\ d \in C!DaysOf(y, m)
  BY <1>1, <1>2, AcceptedDates
<1>3. ASSUME m \in 1 .. 12, d \in C!DaysOf(y, m) PROVE check_date(y, m, d)
  BY <1>0, <1>3, DatesAccepted
<1>. QED  BY <1>2, <1>3 DEF IsMonth

(* A year is a leap year if it has a 29 February.                           *)
LEMMA LeapDay ==
    ASSUME NEW y, InRange(y)
    PROVE  isleap(y) <=> check_date(y, 2, 29)
<1>0. y \in Int
  BY DEF InRange
<1>1. isleap(y) <=> C!Leap(y)
  <2>1. isGregorian(y, 1, 1) <=> y > C!LastJulian[1]
    BY <1>0, SMT DEF isGregorian, C!LastJulian
  <2>. QED  BY <2>1 DEF isleap, C!Leap
<1>2. C!Leap(y) <=> 29 \in C!DaysOf(y, 2)
  <2>1. C!Skipped(y, 2) = {}
    BY SMT DEF C!Skipped, C!LastJulian
  <2>2. C!MonthLength(y, 2) = IF C!Leap(y) THEN 29 ELSE 28
    BY DEF C!MonthLength
  <2>. QED  BY <2>1, <2>2, SMT DEF C!DaysOf
<1>3. IsMonth(2, 29, y)
  BY DatesOfMonths
<1>. QED  BY <1>1, <1>2, <1>3 DEF IsMonth

(* LEAP? of a year or of a date.                                            *)
LEMMA LeapOfYear ==
    ASSUME NEW y, InRange(y)
    PROVE  date_isleap("YMD", <<IF y < 0 THEN -1 ELSE 1, Abs(y), 0>>) <=> isleap(y)
<1>0. y \in Int /\ -4712 <= y /\ y <= 9999
  BY DEF InRange
<1> DEFINE x == <<IF y < 0 THEN -1 ELSE 1, Abs(y), 0>>
<1>1. x[1] * x[2] = y /\ x[3] = 0
  <2>1. CASE y < 0
    BY <1>0, <2>1, SMT DEF Abs
  <2>2. CASE ~(y < 0)
    BY <1>0, <2>2, SMT DEF Abs
  <2>. QED  BY <2>1, <2>2
<1> HIDE DEF x
<1>2. Valid(<<y, 1, 1>>)
  <2>1. IsMonth(1, 1, y)
    BY DatesOfMonths
  <2>2. 1 \in C!DaysOf(y, 1)
    <3>1. C!Skipped(y, 1) = {}
      BY SMT DEF C!Skipped, C!LastJulian
    <3>2. C!MonthLength(y, 1) = 31
      BY DEF C!MonthLength
    <3>. QED  BY <3>1, <3>2, SMT DEF C!DaysOf
  <2>. QED  BY <2>1, <2>2 DEF IsMonth, Valid
<1>3. find_year("YMD", x) = <<y>>
  BY <1>1, <1>2 DEF find_year
<1>4. date_isleap("YMD", x) <=> isleap(y)
  BY <1>3 DEF date_isleap
<1>. QED  BY <1>4 DEF x

(* A date has a month or a day in its fraction.                             *)
LEMMA BuiltFraction ==
    ASSUME NEW mode \in Modes, NEW y \in YearsWritten, NEW m \in MonthsWritten, NEW d \in DaysWritten
    PROVE  build_date(mode, y, m, d)[3] # 0
<1>0. m \in 1 .. 12 /\ d \in 1 .. 31
  BY DEF MonthsWritten, DaysWritten
<1>1. PICK n \in Nat : n = Abs(y) /\ n <= 9999
  BY SMT DEF Abs, YearsWritten
<1>2. CASE mode = "YMD"
  <2>1. build_date(mode, y, m, d)[3] = (((n * 100 + m) * 100 + d) % 10000) * 100
    BY <1>1, <1>2, SMT DEF build_date
  <2>2. PICK r \in Nat : r = m * 100 + d /\ r > 0 /\ r < 10000
    BY <1>0, SMT
  <2>3. (n * 100 + m) * 100 + d = 10000 * n + r
    BY <1>0, <1>1, <2>2, SMT
  <2>4. (10000 * n + r) % 10000 = r
    BY <1>1, <2>2, SMT
  <2>. QED  BY <2>1, <2>2, <2>3, <2>4, SMT
<1>3. CASE mode = "DMY"
  <2>1. build_date(mode, y, m, d)[3] = ((d * 100 + m) * 10000 + n) % 1000000
    BY <1>1, <1>3, SMT DEF build_date
  <2>2. ((d * 100 + m) * 10000 + n) % 1000000 = m * 10000 + n
    BY <1>0, <1>1, SMT
  <2>. QED  BY <1>0, <1>1, <2>1, <2>2, SMT
<1>4. CASE mode = "MDY"
  <2>1. build_date(mode, y, m, d)[3] = ((m * 100 + d) * 10000 + n) % 1000000
    BY <1>1, <1>4, SMT DEF build_date
  <2>2. ((m * 100 + d) * 10000 + n) % 1000000 = d * 10000 + n
    BY <1>0, <1>1, SMT
  <2>. QED  BY <1>0, <1>1, <2>1, <2>2, SMT
<1>. QED  BY <1>2, <1>3, <1>4 DEF Modes

LEMMA LeapOfDate ==
    ASSUME NEW mode \in Modes, NEW j \in DayNumbers
    PROVE  date_isleap(mode, dateFromJ(mode, j)) <=> isleap(JDN2(j)[1])
<1>1. PICK y \in Int, m \in 1 .. 12, d \in 1 .. 31 :
          JDN2(j) = <<y, m, d>> /\ -4712 <= y /\ y <= 9999 /\ check_date(y, m, d)
  BY DateRange
<1>3. dateFromJ(mode, j) = build_date(mode, y, m, d)
  BY <1>1 DEF dateFromJ, Valid
<1>4. y \in YearsWritten /\ m \in MonthsWritten /\ d \in DaysWritten
  BY <1>1, SMT DEF YearsWritten, MonthsWritten, DaysWritten
<1>5. extract_date(mode, build_date(mode, y, m, d)) = <<y, m, d>>
  BY <1>4, ExtractBuilt
<1>6. build_date(mode, y, m, d)[3] # 0
  BY <1>4, BuiltFraction
<1>7. find_year(mode, dateFromJ(mode, j)) = <<y>>
  BY <1>1, <1>3, <1>5, <1>6 DEF find_year, Valid
<1>. QED  BY <1>1, <1>7 DEF date_isleap

(* What DatesAndDays says of the number in X holds of every day number up to  *)
(* the end of 9999.                                                          *)
LEMMA DatesOfDay ==
    ASSUME J \in DayNumbers
    PROVE  DatesAndDays
<1>1. PICK y \in Int, m \in 1 .. 12, d \in 1 .. 31 :
          JDN2(J) = <<y, m, d>> /\ -4712 <= y /\ y <= 9999 /\ check_date(y, m, d)
  BY DateRange
<1>2. InRange(y) /\ JDN2(J)[1] = y
  BY <1>1 DEF InRange
<1>3. isleap(y) <=> check_date(y, 2, 29)
  BY <1>2, LeapDay
<1>4. \A mode \in Modes : dateToJ(mode, dateFromJ(mode, J)) = J
  BY JulianDayNumbers
<1>5. \A mode \in Modes : date_isleap(mode, dateFromJ(mode, J)) <=> check_date(y, 2, 29)
  BY <1>2, <1>3, LeapOfDate
<1>6. date_isleap("YMD", <<IF y < 0 THEN -1 ELSE 1, Abs(y), 0>>) <=> check_date(y, 2, 29)
  BY <1>2, <1>3, LeapOfYear
<1>7. \A n \in 0 .. 13, k \in 0 .. 32 : check_date(y, n, k) <=> n \in 1 .. 12 /\ k \in C!DaysOf(y, n)
  BY <1>2, DatesOfMonths DEF IsMonth
<1> HIDE DEF InRange
<1>. QED  BY <1>2, <1>4, <1>5, <1>6, <1>7, Zenon DEF DatesAndDays

(* Wherever a walk begins and ends, in either calendar: at every day number   *)
(* up to the end of 9999 conversions invert in every mode, the dates taken    *)
(* are those of the calendar, and LEAP? tells leap years (dateFromJ, dateToJ, *)
(* check_date, date_isleap).                                                 *)
THEOREM DatesSound == Spec => [](J <= 5373484 => DatesAndDays)
<1>1. J \in Nat => (J <= 5373484 => DatesAndDays)
  BY DatesOfDay DEF DayNumbers
<1>. QED  BY <1>1, DaysNatural, PTL

-----------------------------------------------------------------------------
(* Easter *)

(* The reform came before the spring of the year.                           *)
New(y) == y > (IF jg1582 THEN 1582 ELSE 1752)

(* Day n - 92 after the last of February, as Easter's rules count it.        *)
SpringDay(y, n) ==
    LET Y == y + 4800
    IN  (IF New(y) THEN Y \div 400 - Y \div 100 - 32045 ELSE -32083) + n - 92 + 365 * Y + Y \div 4
Sunday(j)    == j \in Int /\ (j + 1) % 7 = 0
EasterDay(n) == <<n \div 31, (n % 31) + 1>>
Easters(y, x, n) == n \in 114 .. 148 /\ x = EasterDay(n) /\ Sunday(SpringDay(y, n))

LEMMA DayOfSpring ==
    ASSUME NEW y \in Nat, NEW m \in {3, 4}, NEW d \in 1 .. 31, NEW n \in Nat, n = 31 * m + d - 1
    PROVE  JDN(y, m, d) = SpringDay(y, n)
<1>1. Quotient(14 - m, 12) = 0
  BY SMT DEF Quotient
<1>2. PICK Y \in Nat : Y = y + 4800 /\ Y > 0
  BY SMT
<1>3. y + 4800 - 0 = Y /\ m + 12 * 0 - 3 = m - 3 /\ m - 3 \in {0, 1}
  BY <1>2, SMT
<1>4. Quotient(153 * (m - 3) + 2, 5) = 31 * (m - 3)
  BY SMT DEF Quotient
<1>5. Quotient(Y, 400) = Y \div 400 /\ Quotient(-Y, 100) = -(Y \div 100) /\ Quotient(Y, 4) = Y \div 4
  BY <1>2, Quotients DEF QuotientsOf
<1>6. isGregorian(y, m, d) <=> New(y)
  BY SMT DEF isGregorian, New
<1>7. JDN(y, m, d) = (IF New(y) THEN -(Y \div 100) + Y \div 400 - 32045 ELSE -32083)
                        + d + 31 * (m - 3) + 365 * Y + Y \div 4
  BY <1>1, <1>3, <1>4, <1>5, <1>6 DEF JDN
<1>8. SpringDay(y, n) = (IF New(y) THEN Y \div 400 - Y \div 100 - 32045 ELSE -32083)
                           + n - 92 + 365 * Y + Y \div 4
  BY <1>2 DEF SpringDay
<1>9. Y \div 4 \in Int /\ Y \div 100 \in Int /\ Y \div 400 \in Int
  BY SMT
<1>10. CASE New(y)
  BY <1>7, <1>8, <1>9, <1>10, SMT
<1>11. CASE ~New(y)
  BY <1>7, <1>8, <1>9, <1>11, SMT
<1>. QED  BY <1>10, <1>11

(* A day of spring from 22 March to 25 April.                               *)
IsEaster(y, x) ==
    /\ check_date(y, x[1], x[2]) /\ day_of_week(y, x[1], x[2]) = 7
    /\ x \in ({3} \X (22 .. 31)) \cup ({4} \X (1 .. 25))

LEMMA DayOfEaster ==
    ASSUME NEW y \in EasterYears, NEW x, NEW n, Easters(y, x, n)
    PROVE  IsEaster(y, x)
<1>. y \in 0 .. 9999
  BY DEF EasterYears
<1>1. n \in 114 .. 148 /\ x = <<n \div 31, (n % 31) + 1>> /\ Sunday(SpringDay(y, n))
  BY DEF Easters, EasterDay
<1>2. PICK m \in {3, 4}, d \in 1 .. 31 :
          /\ x = <<m, d>> /\ n = 31 * m + d - 1
          /\ (m = 3 /\ d >= 22) \/ (m = 4 /\ d <= 25)
  <2>1. n \div 31 \in {3, 4} /\ (n % 31) + 1 \in 1 .. 31 /\ n = 31 * (n \div 31) + ((n % 31) + 1) - 1
    BY <1>1, SMT
  <2>2. (n \div 31 = 3 /\ (n % 31) + 1 >= 22) \/ (n \div 31 = 4 /\ (n % 31) + 1 <= 25)
    BY <1>1, SMT
  <2>. QED  BY <1>1, <2>1, <2>2
<1>3. check_date(y, m, d)
  <2>1. InRange(y)
    BY SMT DEF InRange
  <2>2. m \in 0 .. 13 /\ d \in 0 .. 32 /\ m \in 1 .. 12
    BY <1>2, SMT
  <2>3. IsMonth(m, d, y)
    BY <2>1, <2>2, DatesOfMonths
  <2>4. d \in C!DaysOf(y, m)
    <3>1. C!Skipped(y, m) = {}
      BY <1>2, SMT DEF C!Skipped, C!LastJulian
    <3>2. C!MonthLength(y, m) = IF m = 4 THEN 30 ELSE 31
      BY <1>2, SMT DEF C!MonthLength
    <3>. QED  BY <1>2, <3>1, <3>2, SMT DEF C!DaysOf
  <2>. QED  BY <2>2, <2>3, <2>4 DEF IsMonth
<1>4. JDN(y, m, d) = SpringDay(y, n)
  <2>1. y \in Nat /\ n \in Nat
    BY <1>1, SMT
  <2>. QED  BY <1>2, <2>1, DayOfSpring
<1>5. day_of_week(y, m, d) = 7
  BY <1>1, <1>4 DEF Sunday, day_of_week
<1>6. x \in ({3} \X (22 .. 31)) \cup ({4} \X (1 .. 25))
  BY <1>2, SMT
<1>. QED  BY <1>2, <1>3, <1>5, <1>6 DEF IsEaster

(* C's remainders of naturals.                                              *)
DividesBy(x, c) == Quotient(x, c) = x \div c /\ Remainder(x, c) = x % c

LEMMA Remainders ==
    ASSUME NEW x \in Nat, NEW c \in {4, 7, 19, 30, 31}
    PROVE  DividesBy(x, c)
<1>1. x >= 0
  BY SMT
<1>2. Quotient(x, c) = x \div c
  BY <1>1, Zenon DEF Quotient
<1>3. x - c * (x \div c) = x % c
  BY SMT
<1>. QED  BY <1>2, <1>3 DEF DividesBy, Remainder

(* The old rule: the full moon is never 29 days after 21 March, and the       *)
(* Sunday after it is at most 7 days away.                                   *)
LEMMA JulianEaster ==
    ASSUME NEW y \in EasterYears, ~New(y)
    PROVE  \E n : Easters(y, EasterJulian(y), n)
<1>. y \in Nat
  BY SMT DEF EasterYears
<1>1. PICK a \in 0 .. 3, q \in Nat : a = y % 4 /\ y = 4 * q + a
  <2>1. y % 4 \in 0 .. 3 /\ y \div 4 \in Nat /\ y = 4 * (y \div 4) + (y % 4)
    BY SMT
  <2>. QED  BY <2>1
<1>2. PICK b \in 0 .. 6, s \in Nat : b = y % 7 /\ y = 7 * s + b
  <2>1. y % 7 \in 0 .. 6 /\ y \div 7 \in Nat /\ y = 7 * (y \div 7) + (y % 7)
    BY SMT
  <2>. QED  BY <2>1
<1>3. PICK c \in 0 .. 18 : c = y % 19
  BY SMT
<1>4. PICK d \in 0 .. 28 : d = (19 * c + 15) % 30
  BY SMT
<1>5. PICK w \in Nat : w = 2 * a + 4 * b - d + 34
  <2>1. 2 * a + 4 * b - d + 34 \in Nat
    BY SMT
  <2>. QED  BY <2>1
<1>6. PICK e \in 0 .. 6, r \in Int : e = w % 7 /\ w = 7 * r + e
  <2>1. w % 7 \in 0 .. 6 /\ w \div 7 \in Int /\ w = 7 * (w \div 7) + (w % 7)
    BY SMT
  <2>. QED  BY <2>1
<1>7. PICK n \in 114 .. 148 : n = d + e + 114
  BY SMT
<1>8. EasterJulian(y) = EasterDay(n)
  <2>0. y \in Nat /\ 19 * c + 15 \in Nat /\ n \in Nat
    BY SMT
  <2>1. Remainder(y, 4) = a /\ Remainder(y, 7) = b /\ Remainder(y, 19) = c
    <3>1. DividesBy(y, 4)
      BY <2>0, Remainders
    <3>2. DividesBy(y, 7)
      BY <2>0, Remainders
    <3>3. DividesBy(y, 19)
      BY <2>0, Remainders
    <3>4. Remainder(y, 4) = y % 4 /\ Remainder(y, 7) = y % 7 /\ Remainder(y, 19) = y % 19
      BY <3>1, <3>2, <3>3 DEF DividesBy
    <3>5. a = y % 4 /\ b = y % 7 /\ c = y % 19
      <4>1. a = y % 4
        BY <1>1, Zenon
      <4>2. b = y % 7
        BY <1>2, Zenon
      <4>. QED  BY <1>3, <4>1, <4>2
    <3>. QED  BY <3>4, <3>5
  <2>2. Remainder(19 * c + 15, 30) = d
    <3>1. DividesBy(19 * c + 15, 30)
      BY <2>0, Remainders
    <3>. QED  BY <1>4, <3>1 DEF DividesBy
  <2>3. Remainder(w, 7) = e
    <3>1. DividesBy(w, 7)
      BY Remainders
    <3>. QED  BY <1>6, <3>1 DEF DividesBy
  <2>4. Quotient(n, 31) = n \div 31 /\ Remainder(n, 31) = n % 31
    <3>1. DividesBy(n, 31)
      BY <2>0, Remainders
    <3>. QED  BY <3>1 DEF DividesBy
  <2>5. EasterJulian(y) = LET g == Remainder(19 * c + 15, 30)
                              h == Remainder(2 * a + 4 * b - g + 34, 7)
                          IN  <<Quotient(g + h + 114, 31), Remainder(g + h + 114, 31) + 1>>
    BY <2>1 DEF EasterJulian
  <2>6. EasterJulian(y) = LET h == Remainder(2 * a + 4 * b - d + 34, 7)
                          IN  <<Quotient(d + h + 114, 31), Remainder(d + h + 114, 31) + 1>>
    BY <2>2, <2>5
  <2>7. EasterJulian(y) = <<Quotient(n, 31), Remainder(n, 31) + 1>>
    BY <1>5, <1>7, <2>3, <2>6
  <2>. QED  BY <2>4, <2>7 DEF EasterDay
<1>9. Sunday(SpringDay(y, n))
  <2>1. PICK Y \in Nat : Y = y + 4800 /\ Y \div 4 = q + 1200
    BY <1>1, SMT
  <2>2. SpringDay(y, n) = -32083 + n - 92 + 365 * Y + Y \div 4
    BY <2>1 DEF SpringDay
  <2>3. PICK z \in Int : z = 245882 + 52 * y + 3 * s - q + b - r
    BY SMT
  <2>4. SpringDay(y, n) = 7 * z - 1
    BY <1>1, <1>2, <1>5, <1>6, <1>7, <2>1, <2>2, <2>3, SMTT(30)
  <2>. QED  BY <2>4, SMT DEF Sunday
<1>. QED  BY <1>8, <1>9 DEF Easters

(* The new rule: h days after 21 March comes the full moon and l after the     *)
(* next day the Sunday, a week less if that were beyond 25 April.            *)
FromSunday(a, h, l) ==
    LET n == h + l - 7 * ((a + 11 * h + 22 * l) \div 451) + 114
    IN  <<n \div 31, (n % 31) + 1>>
FromMoon(a, h, e, i, k) == FromSunday(a, h, (32 + 2 * e + 2 * i - h - k) % 7)
FromCentury(a, b, c) ==
    LET f == (b + 8) \div 25
        g == (b - f + 1) \div 3
    IN  FromMoon(a, (19 * a + b - (b \div 4) - g + 15) % 30, b % 4, c \div 4, c % 4)

LEMMA GregorianEaster ==
    ASSUME NEW y \in EasterYears, New(y)
    PROVE  \E n : Easters(y, EasterGregorian(y), n)
<1>. y \in Nat
  BY SMT DEF EasterYears
<1>1. PICK a \in 0 .. 18 : a = y % 19
  BY SMT
<1>2. PICK b \in Nat, c \in 0 .. 99 : b = y \div 100 /\ c = y % 100 /\ y = 100 * b + c
  <2>1. y \div 100 \in Nat /\ y % 100 \in 0 .. 99 /\ y = 100 * (y \div 100) + (y % 100)
    BY SMT
  <2>. QED  BY <2>1, SMTT(30)
<1>3. PICK d \in Nat, e \in 0 .. 3 : d = b \div 4 /\ e = b % 4 /\ b = 4 * d + e
  <2>1. b \div 4 \in Nat /\ b % 4 \in 0 .. 3 /\ b = 4 * (b \div 4) + (b % 4)
    BY SMT
  <2>. QED  BY <2>1
<1>4. PICK f \in Int : f = (b + 8) \div 25
  BY SMT
<1>5. PICK g \in Int : g = (b - f + 1) \div 3
  BY SMT
<1>6. PICK h \in 0 .. 29 : h = (19 * a + b - d - g + 15) % 30
  <2>1. PICK v \in Int : v = 19 * a + b - d - g + 15
    BY SMT
  <2>2. v % 30 \in 0 .. 29
    BY SMT
  <2>. QED  BY <2>1, <2>2
<1>7. PICK i \in Nat, k \in 0 .. 3 : i = c \div 4 /\ k = c % 4 /\ c = 4 * i + k
  <2>1. c \div 4 \in Nat /\ c % 4 \in 0 .. 3 /\ c = 4 * (c \div 4) + (c % 4)
    BY SMT
  <2>. QED  BY <2>1
<1>8. PICK w \in Int : w = 32 + 2 * e + 2 * i - h - k
  BY SMT
<1>9. PICK l \in 0 .. 6, r \in Int : l = w % 7 /\ w = 7 * r + l
  <2>1. w % 7 \in 0 .. 6 /\ w \div 7 \in Int /\ w = 7 * (w \div 7) + (w % 7)
    BY SMT
  <2>. QED  BY <2>1
<1>10. PICK m \in {0, 1} : m = (a + 11 * h + 22 * l) \div 451
  BY SMT
<1>11. PICK n \in 114 .. 148 : n = h + l - 7 * m + 114
  <2>1. h + l - 7 * m + 114 \in 114 .. 148
    BY <1>10, SMT
  <2>. QED  BY <2>1
<1>12. EasterGregorian(y) = EasterDay(n)
  <2>1. y % 19 = a /\ y \div 100 = b /\ y % 100 = c
    <3>1. y % 19 = a
      BY <1>1
    <3>2. b = y \div 100 /\ c = y % 100
      BY <1>2, Zenon
    <3>. QED  BY <3>1, <3>2
  <2>2. b \div 4 = d /\ b % 4 = e /\ c \div 4 = i /\ c % 4 = k
    BY <1>3, <1>7
  <2>3. l = (32 + 2 * e + 2 * i - h - k) % 7
    BY <1>8, <1>9
  <2>4. EasterGregorian(y) = FromCentury(y % 19, y \div 100, y % 100)
    BY DEF EasterGregorian, FromCentury, FromMoon, FromSunday
  <2>5. FromCentury(a, b, c) = FromMoon(a, (19 * a + b - d - g + 15) % 30, e, i, k)
    BY <1>4, <1>5, <2>2 DEF FromCentury
  <2>6. FromMoon(a, h, e, i, k) = FromSunday(a, h, l)
    BY <2>3 DEF FromMoon
  <2>7. FromSunday(a, h, l) = EasterDay(n)
    BY <1>10, <1>11 DEF FromSunday, EasterDay
  <2>. QED  BY <1>6, <2>1, <2>4, <2>5, <2>6, <2>7
<1>13. Sunday(SpringDay(y, n))
  <2>1. PICK Y \in Nat : /\ Y = y + 4800
                         /\ Y \div 4 = 25 * b + 1200 + i /\ Y \div 100 = b + 48 /\ Y \div 400 = d + 12
    <3>1. (y + 4800) \div 4 = 25 * b + 1200 + i
      BY <1>2, <1>7, SMTT(30)
    <3>2. (y + 4800) \div 100 = b + 48
      BY <1>2, SMTT(30)
    <3>3. (y + 4800) \div 400 = d + 12
      BY <1>2, <1>3, SMTT(30)
    <3>4. y + 4800 \in Nat
      BY SMT
    <3>. QED  BY <3>1, <3>2, <3>3, <3>4
  <2>2. SpringDay(y, n) = d + 12 - (b + 48) - 32045 + n - 92 + 365 * Y + 25 * b + 1200 + i
    <3>1. SpringDay(y, n) = Y \div 400 - Y \div 100 - 32045 + n - 92 + 365 * Y + Y \div 4
      BY <2>1 DEF SpringDay
    <3>. QED  BY <2>1, <3>1, SMT
  <2>3. PICK z \in Int : z = 20871 * d + 5218 * e + 209 * i + 52 * k - r - m + 245882
    BY SMT
  <2>4. SpringDay(y, n) = 7 * z - 1
    <3>1. n = 146 + 2 * e + 2 * i - k - 7 * r - 7 * m
      BY <1>8, <1>9, <1>11, SMT
    <3>2. 365 * Y = 1752000 + 146000 * d + 36500 * e + 1460 * i + 365 * k
      BY <1>2, <1>3, <1>7, <2>1, SMT
    <3>. QED  BY <1>3, <2>2, <2>3, <3>1, <3>2, SMTT(30)
  <2>. QED  BY <2>4, SMT DEF Sunday
<1>. QED  BY <1>12, <1>13 DEF Easters

(* Easter of the years 0 to 9999 is a Sunday from 22 March to 25 April,       *)
(* whichever reform is chosen (easter, day_of_week, check_date).             *)
THEOREM EasterSunday == Spec => []EasterOnSunday
<1>1. ASSUME NEW y \in EasterYears
      PROVE  IsEaster(y, easter(y))
  <2>1. easter(y) = IF New(y) THEN EasterGregorian(y) ELSE EasterJulian(y)
    BY DEF easter, New
  <2>2. \E n : Easters(y, easter(y), n)
    <3>1. CASE New(y)
      BY <2>1, <3>1, GregorianEaster
    <3>2. CASE ~New(y)
      BY <2>1, <3>2, JulianEaster
    <3>. QED  BY <3>1, <3>2
  <2>. QED  BY <2>2, DayOfEaster
<1>2. EasterOnSunday
  BY <1>1 DEF EasterOnSunday, IsEaster
<1>. QED  BY <1>2, PTL
=============================================================================
