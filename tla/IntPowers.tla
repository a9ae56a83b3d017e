------------------------------ MODULE IntPowers ------------------------------
(***************************************************************************)
(* Integer mode: the bits of words, roots, logarithms and powers.  What a    *)
(* loop of the code makes of its variables is written as a function of them, *)
(* applied as often as the loop turns at most; once its condition is false   *)
(* it leaves them alone.                                                     *)
(***************************************************************************)
EXTENDS IntWords

(* What n turns of a loop make of s. *)
Turned(body, s, n) ==
    LET after[k \in Nat] == IF k = 0 THEN s ELSE body[after[k - 1]]
    IN  after[n]

-----------------------------------------------------------------------------
(* Bits *)

BitOf(x, k) == (x \div TwoTo[k]) % 2

(* The word of n bits, the first of them at the top. *)
WordOf(bits, n) ==
    Turned([s \in [i : Nat, word : Nat] |->
                IF s.i < n THEN [i |-> s.i + 1, word |-> 2 * s.word + bits[s.i + 1]] ELSE s],
           [i |-> 0, word |-> 0], n).word

intMirror(x) == WordOf([k \in 1 .. int_len |-> BitOf(x, k - 1)], int_len)

(* int_justify: the word and by how many bits it was shifted *)
justify(op, v) ==
    LET shifted(n) == introt(IF op = "LJ" THEN "SL" ELSE "SR", n, v, 0)[1]
        at_end(n)  == IF op = "LJ" THEN IsTop(shifted(n)) ELSE shifted(n) % 2 = 1
        c == CHOOSE n \in 0 .. int_len : at_end(n) /\ \A i \in 0 .. n - 1 : ~at_end(i)
    IN  IF v = 0 THEN <<v, 0>> ELSE <<shifted(c), c>>

intmsks(op, arg) ==
    LET n == IF arg >= int_len THEN int_len ELSE arg
    IN  IF op = "MASKL" THEN (TwoTo[n] - 1) * TwoTo[int_len - n] ELSE TwoTo[n] - 1

(* intBooleanOp and intNot, bit by bit *)
Bitwise2(op, a, b) == CASE op = "AND"  -> a * b     [] op = "NAND" -> 1 - (a * b)
                        [] op = "OR"   -> a + b - (a * b)
                        [] op = "NOR"  -> 1 - (a + b - (a * b))
                        [] op = "XOR"  -> (a + b) % 2
                        [] op = "XNOR" -> 1 - ((a + b) % 2)
intBooleanOp(op, y, x) ==
    WordOf([k \in 1 .. int_len |-> Bitwise2(op, BitOf(y, int_len - k), BitOf(x, int_len - k))],
           int_len)
intNot(x)  == mask_value(-x - 1)
intSign(x) == IF magnitude(x) = 0 THEN build_value(0, 0) ELSE build_value(1, sign(x))

(* intbits: the word with a bit set, cleared, flipped; beyond the word none is *)
intbits(op, arg, x) ==
    LET m   == IF arg >= int_len THEN 0 ELSE TwoTo[arg]
        set == m # 0 /\ BitOf(x, arg) = 1
    IN  CASE op = "SB" -> IF set THEN x ELSE x + m
          [] op = "CB" -> IF set THEN x - m ELSE x
          [] op = "FB" -> IF set THEN x - m ELSE x + m

-----------------------------------------------------------------------------
(* Roots, logarithms and powers *)

(* The approximations fall until the last one. *)
Newton(v) ==
    LET h == (v \div 2) + 1
    IN  Turned([s \in [n0 : Nat, n1 : Nat \ {0}] |->
                   IF s.n1 < s.n0 THEN [n0 |-> s.n1, n1 |-> (s.n1 + (v \div s.n1)) \div 2] ELSE s],
               [n0 |-> h, n1 |-> (v \div h) + (h \div 2)], h).n1

(* Mutant of intSqrt: the last approximation is taken as it is. *)
intSqrtNearest(x) ==
    LET v == magnitude(x)
        n == IF v = 0 THEN 0 ELSE Newton(v)
    IN  IF sign(x) = 1 THEN Failure("DOMAIN")
        ELSE Result(build_value(n, 0), IF v = 0 THEN KEEP ELSE Bit(n * n # v), KEEP)

(* The square is one of a machine word. *)
intSqrt(x) ==
    LET v == magnitude(x)
        n == IF v = 0 THEN 0 ELSE Newton(v)
        square == (n * n) % TwoTo[M]
    IN  IF sign(x) = 1 THEN Failure("DOMAIN")
        ELSE Result(build_value(IF square > v THEN n - 1 ELSE n, 0),
                    IF v = 0 THEN KEEP ELSE Bit(square # v), KEEP)

(* vy to the power vx: squares may overflow as long as they are not used. *)
int_power_helper(vy, vx, overflow) ==
    LET times(s) == multiply_with_overflow(s.r, s.vy, Bit(s.o = 1 \/ s.next = 1))
        square(s) == multiply_with_overflow(s.vy, s.vy, s.next)
        body == [s \in [vy : Nat, vx : Nat, r : Nat, o : {0, 1}, next : {0, 1}] |->
                    IF s.vx = 0 THEN s
                    ELSE [vy |-> square(s)[1], vx |-> s.vx \div 2,
                          r |-> IF s.vx % 2 = 1 THEN times(s)[1] ELSE s.r,
                          o |-> IF s.vx % 2 = 1 THEN times(s)[2] ELSE s.o,
                          next |-> square(s)[2]]]
        last == Turned(body, [vy |-> vy, vx |-> vx, r |-> 1, o |-> overflow, next |-> 0], int_len)
    IN  <<last.r, last.o>>

intPower(y, x) ==
    LET vx == magnitude(x)
        vy == magnitude(y)
        p  == int_power_helper(vy, vx, 0)
    IN  CASE vx = 0 /\ vy = 0 -> Failure("DOMAIN")
          [] vx = 0 /\ vy # 0 -> Result(1, 0, 0)
          [] vx # 0 /\ vy = 0 -> Result(0, 0, 0)
          [] vx # 0 /\ vy # 0 /\ sign(x) = 1 -> Result(0, 1, 0)
          [] OTHER -> Result(build_value(p[1], Bit(sign(y) = 1 /\ vx % 2 = 1)), 0, p[2])

(* intLog2 and intLog10: how often the base goes into v, and what is left. *)
FloorLog(base, v) ==
    Turned([s \in [v : Nat, r : Nat, c : {0, 1}] |->
               IF s.v < base THEN s
               ELSE [v |-> s.v \div base, r |-> s.r + 1,
                     c |-> Bit(s.c = 1 \/ s.v % base # 0)]],
           [v |-> v, r |-> 0, c |-> 0], int_len)

intLog(base, x) ==
    LET v == magnitude(x)
        l == FloorLog(base, v)
    IN  IF v = 0 \/ sign(x) = 1 THEN Failure("DOMAIN")
        ELSE Result(build_value(l.r, 0), Bit(l.c = 1 \/ l.v # 1), KEEP)

int2pow(x) ==
    LET v  == magnitude(x)
        ws == IF Unsigned THEN int_len ELSE int_len - 1
    IN  IF sign(x) = 1 /\ v # 0 THEN Result(0, Bit(v = 1), 0)
        ELSE IF v >= ws THEN Result(0, Bit(v = ws), 1)
        ELSE Result(TwoTo[v], Bit(sign(x) = 1 /\ v = 1), 0)

int10pow(x) ==
    LET small == int_len <= 3 \/ (~Unsigned /\ int_len = 4)
        p     == int_power_helper(10, x, Bit(small))
    IN  IF magnitude(x) = 0 THEN Result(1, 0, 0)
        ELSE IF sign(x) = 1 THEN Result(0, 1, KEEP)
        ELSE Result(build_value(p[1], 0), 0, p[2])

int_1pow(x) == LET odd == magnitude(x) % 2
               IN  Result(build_value(1, odd), KEEP, Bit(Unsigned /\ odd = 1))

(* The n-th number of Fibonacci in the machine word, for n > 0. *)
Fibonacci(n) ==
    LET tbm == IF ~Unsigned THEN topbit_mask ELSE (2 * topbit_mask) % TwoTo[M]
        sum(s) == (s.a0 + s.a1) % TwoTo[M]
    IN  Turned([s \in [a0 : Nat, a1 : Nat, o : {0, 1}] |->
                   [a0 |-> s.a1, a1 |-> sum(s),
                    o |-> Bit(s.o = 1 \/ sum(s) < s.a1
                              \/ (tbm # 0 /\ (sum(s) \div tbm) % 2 = 1))]],
               [a0 |-> 0, a1 |-> 1, o |-> 0], n - 1)
intFib(x) ==
    LET v == magnitude(x)
        f == Fibonacci(v)
    IN  IF v >= 100 THEN Result(0, KEEP, 1)
        ELSE IF v <= 1 THEN Result(build_value(v, 0), KEEP, 0)
        ELSE Result(build_value(f.a1, Bit(sign(x) = 1 /\ v % 2 = 0)), KEEP, f.o)

-----------------------------------------------------------------------------
(* Properties *)

(* The bits of a word the other way round, and back; what justification      *)
(* shifted is shifted back by its count; a mask on the left mirrors the one   *)
(* on the right, and the word behind it is the rest by a power of two        *)
(* (intMirror, int_justify, intmsks, intBooleanOp).                          *)
BitsTold ==
    /\ intMirror(intMirror(X)) = X
    /\ intMirror(introt("SR", 1, X, Carry)[1]) = introt("SL", 1, intMirror(X), Carry)[1]
    /\ LET j == justify("LJ", X) IN introt("SR", j[2], j[1], Carry)[1] = X
    /\ LET j == justify("RJ", X) IN introt("SL", j[2], j[1], Carry)[1] = X
    /\ \A n \in 0 .. int_len : /\ intmsks("MASKL", n) = intMirror(intmsks("MASKR", n))
                                /\ intBooleanOp("AND", X, intmsks("MASKR", n)) = X % TwoTo[n]

(* b to the power n and the n-th number of Fibonacci, no further than Far. *)
Far == TwoTo[M + 1]
UpToFar(n) == IF n > Far THEN Far ELSE n
PowerTo(b, n) == Turned([p \in Nat |-> UpToFar(p * b)], 1, n)
FibTo(n) == Turned([f \in [this : Nat, next : Nat] |->
                       [this |-> f.next, next |-> UpToFar(f.this + f.next)]],
                   [this |-> 0, next |-> 1], n).this

(* n is the square root of x, rounded down, and the carry tells that it was. *)
RootTold(r, x) ==
    LET n == Signed(r.v)
    IN  /\ n * n <= x /\ x < (n + 1) * (n + 1)
        /\ (r.c = 1 => n * n # x) /\ (r.c = 0 => n * n = x)

(* The root of every word that has one is rounded down (intSqrt: "Integer    *)
(* floor(sqrt())").                                                          *)
RootsFloored == (Unsigned \/ int_len > 1) /\ sign(X) = 0 => RootTold(intSqrt(X), Signed(X))

(* Roots and logarithms are rounded down and the carry tells that something  *)
(* was cut off; powers and Fibonacci numbers are exact or report an overflow *)
(* (intSqrt, intLog2, intLog10, intPower, int2pow, int10pow, intFib).  Left   *)
(* aside are signed words of one bit, which have no 1, and the root of the    *)
(* machine's largest word, for which see RootsFloored.                        *)
PowersTold ==
    Unsigned \/ int_len > 1 =>
    LET x == Signed(X)
        v == magnitude(X)
        Odd(n) == n % 2 = 1
    IN  /\ sign(X) = 0 /\ X # TwoTo[M] - 1 => RootTold(intSqrt(X), x)
        /\ x > 0 => \A base \in {2, 10} :
              LET r == intLog(base, X)
                  n == Signed(r.v)
              IN  /\ PowerTo(base, n) <= x /\ x < PowerTo(base, n + 1)
                  /\ r.c = 1 <=> PowerTo(base, n) # x
        /\ x > 0 => LET p == PowerTo(magnitude(Y), v)
                   IN  ToldNearly(intPower(Y, X), IF sign(Y) = 1 /\ Odd(v) THEN -p ELSE p)
        /\ x > 0 => ToldNearly(int2pow(X), PowerTo(2, v))
        /\ x > 0 => ToldNearly(int10pow(X), PowerTo(10, v))
        /\ v < 100 => ToldNearly(intFib(X), IF x < 0 /\ ~Odd(v) THEN -FibTo(v) ELSE FibTo(v))

(* What is done to the bits of one word and what is computed from it by its   *)
(* bits, roots, logarithms and powers (intMirror, int_justify, intmsks,       *)
(* intSqrt, intLog2, intLog10, intPower, int2pow, int10pow, intFib).          *)
BitsAndPowersTold == BitsTold /\ PowersTold
=============================================================================
