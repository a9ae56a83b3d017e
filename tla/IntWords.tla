------------------------------ MODULE IntWords ------------------------------
(***************************************************************************)
(* Integer mode: words of 1 to 64 bits in four sign modes, their sums,        *)
(* products, quotients, shifts and rotations.                                *)
(* The functions are pure but for the mode, the word size and the flags.     *)
(* The C machine's words are M bits, those of its half-words HALF; on the    *)
(* calculator 64 and 16.                                                     *)
(*                                                                          *)
(* An operand is a word of int_len bits as X and Y hold it, written as the   *)
(* number 0 .. 2^int_len - 1.  A command's result is a record: the word, the *)
(* carry and the overflow it leaves (KEEP where it leaves them alone), and   *)
(* the error it reports.                                                     *)
(***************************************************************************)
EXTENDS Integers

CONSTANTS
    HALF,       \* bits of a half-word
    Lengths,    \* the word sizes considered
    Operands    \* bound: the numbers keyed in

M == 4 * HALF

ASSUME IntegerSizes ==
    /\ HALF \in Nat \ {0}
    /\ Lengths \subseteq 1 .. M
    /\ Operands \subseteq Nat

VARIABLES
    int_mode,   \* how words stand for signed numbers
    int_len,    \* word_size()
    Carry,      \* the carry flag
    Y, X        \* the operands

vars == <<int_mode, int_len, Carry, Y, X>>

Modes == {"2COMP", "1COMP", "UNSIGNED", "SGNMANT"}

KEEP == 2
Result(v, c, o) == [v |-> v, c |-> c, o |-> o, e |-> "none"]
Failure(e)      == [v |-> 0, c |-> KEEP, o |-> KEEP, e |-> e]
Bit(b)          == IF b THEN 1 ELSE 0

-----------------------------------------------------------------------------
(* Words *)

TwoTo[n \in Nat] == IF n = 0 THEN 1 ELSE 2 * TwoTo[n - 1]

topbit_mask   == TwoTo[int_len - 1]
mask_value(v) == v % (2 * topbit_mask)
IsTop(v)      == mask_value(v) >= topbit_mask
Unsigned      == int_mode = "UNSIGNED"

(* extract_value: the magnitude and the sign *)
magnitude(v) == IF Unsigned \/ ~IsTop(v) THEN v
                ELSE CASE int_mode = "2COMP"   -> mask_value(-v)
                       [] int_mode = "1COMP"   -> mask_value(-v - 1)
                       [] int_mode = "SGNMANT" -> v - topbit_mask
sign(v)      == Bit(~Unsigned /\ IsTop(v))

build_value(m, s) ==
    IF s = 0 \/ Unsigned THEN mask_value(m)
    ELSE CASE int_mode = "2COMP"   -> mask_value(-m)
           [] int_mode = "1COMP"   -> mask_value(-m - 1)
           [] int_mode = "SGNMANT" -> (m % topbit_mask) + topbit_mask

-----------------------------------------------------------------------------
(* Addition and subtraction *)

(* Mutant of calc_overflow: the lowest number counts as too low. *)
calc_overflowLowest(xv, yv, neg) ==
    LET tbm == topbit_mask
        u   == xv + yv
    IN  Bit(CASE Unsigned -> u >= 2 * tbm
              [] int_mode = "2COMP" -> IsTop(u) \/ (xv = tbm /\ yv # 0)
                                       \/ (yv = tbm /\ xv # 0)
              [] OTHER -> IsTop(u))

(* Does the sum of two magnitudes, of a negative number if neg, overflow? *)
calc_overflow(xv, yv, neg) ==
    LET tbm == topbit_mask
        u   == xv + yv
    IN  Bit(CASE Unsigned -> u >= 2 * tbm
              [] int_mode = "2COMP" ->
                     ~(neg = 1 /\ u = tbm)
                     /\ (IsTop(u) \/ (xv = tbm /\ yv # 0) \/ (yv = tbm /\ xv # 0))
              [] OTHER -> IsTop(u))

(* A signed sum in sign and mantissa form; its sign is read off one bit. *)
SignMantissa(v) == IF IsTop(v) THEN topbit_mask + (-v % topbit_mask) ELSE mask_value(v)
Signed(v)       == IF sign(v) = 1 THEN -magnitude(v) ELSE magnitude(v)

intAdd(y, x) ==
    LET o == IF sign(x) = sign(y)
             THEN calc_overflow(magnitude(x), magnitude(y), sign(x)) ELSE 0
        c == Bit(mask_value(y + x) < y)
    IN  IF int_mode = "SGNMANT"
        THEN Result(SignMantissa(Signed(y) + Signed(x)), o, o)
        ELSE Result(mask_value(y + x + (IF int_mode = "1COMP" THEN c ELSE 0)), c, o)

intSubtract(y, x) ==
    LET xv == magnitude(x)
        yv == magnitude(y)
        b  == Bit(y < x)
        o  == IF sign(x) # sign(y) THEN calc_overflow(xv, yv, sign(y)) ELSE 0
    IN  IF int_mode = "SGNMANT"
        THEN Result(SignMantissa(Signed(y) - Signed(x)),
                    Bit(\/ sign(x) = 0 /\ sign(y) = 0 /\ xv > yv
                        \/ sign(x) = 1 /\ sign(y) = 1 /\ xv < yv), o)
        ELSE Result(mask_value(y - x - (IF int_mode = "1COMP" THEN b ELSE 0)),
                    b, IF Unsigned /\ b = 1 THEN 1 ELSE o)

intChs(x) ==
    IF Unsigned \/ (int_mode = "2COMP" /\ x = topbit_mask)
    THEN Result(mask_value(-magnitude(x)), KEEP, 1)
    ELSE Result(build_value(magnitude(x), 1 - sign(x)), KEEP, 0)

intAbs(x) == IF int_mode = "2COMP" /\ x = topbit_mask THEN Result(x, KEEP, 1)
             ELSE Result(build_value(magnitude(x), 0), KEEP, 0)

-----------------------------------------------------------------------------
(* Multiplication and division *)

(* Mutant of multiply_with_overflow: a product with the sign's bit passes. *)
multiply_with_overflowUnsigned(x, y, o) ==
    LET t == mask_value(x * y)
    IN  <<t, Bit(o = 1 \/ (y # 0 /\ t \div y # x))>>

(* The product and whether it overflows: the flag once set stays. *)
multiply_with_overflow(x, y, o) ==
    LET t == mask_value(x * y)
    IN  <<t, Bit(o = 1 \/ (y # 0 /\ ((~Unsigned /\ IsTop(t)) \/ t \div y # x)))>>

intMultiply(y, x) ==
    LET u == multiply_with_overflow(magnitude(x), magnitude(y), 0)
    IN  Result(IF Unsigned THEN u[1]
               ELSE build_value(u[1] % topbit_mask, (sign(x) + sign(y)) % 2),
               KEEP, u[2])

DivideByZero(num, sn, sd) == Failure(IF num = 0 THEN "DOMAIN"
                                     ELSE IF sn = sd THEN "INFINITY" ELSE "MINFINITY")

intDivide(y, x) ==
    LET xv == magnitude(x)
        yv == magnitude(y)
        r  == mask_value(yv \div xv)
    IN  IF xv = 0 THEN DivideByZero(yv, sign(y), sign(x))
        ELSE Result(build_value(r, (sign(x) + sign(y)) % 2),
                    Bit(r * xv # yv \/ (~Unsigned /\ IsTop(r))),
                    Bit(int_mode = "2COMP" /\ sign(x) = 1 /\ xv = 1 /\ y = topbit_mask))

(* RMDR; for MOD (mod41) the result has the sign of the divisor. *)
intMod(y, x, mod41) ==
    LET xv == magnitude(x)
        r  == magnitude(y) % xv
    IN  IF xv = 0 THEN DivideByZero(magnitude(y), sign(y), sign(x))
        ELSE IF mod41 /\ sign(x) # sign(y)
             THEN Result(build_value(IF r = 0 THEN r ELSE xv - r, sign(x)), KEEP, KEEP)
             ELSE Result(build_value(r, sign(y)), KEEP, KEEP)

(* The greatest common divisor of a and b is int_gcd[b][a]. *)
int_gcd[b \in Nat] == [a \in Nat |-> IF b = 0 THEN a ELSE int_gcd[a % b][b]]

intGCD(y, x) ==
    LET xv == magnitude(x)
        yv == magnitude(y)
    IN  Result(build_value(IF xv = 0 THEN yv ELSE IF yv = 0 THEN xv
                           ELSE int_gcd[yv][xv], 0), KEEP, KEEP)

intLCM(y, x) ==
    LET xv == magnitude(x)
        yv == magnitude(y)
    IN  IF xv = 0 \/ yv = 0 THEN Result(0, KEEP, KEEP)
        ELSE intMultiply(mask_value(xv \div int_gcd[yv][xv]), build_value(yv, 0))

(* The lower and the higher of two numbers; which of two zeros is not told. *)
intMin(y, x) == IF sign(x) # sign(y) THEN (IF sign(x) = 1 THEN x ELSE y)
                ELSE IF sign(x) = 1 THEN (IF magnitude(x) > magnitude(y) THEN x ELSE y)
                ELSE IF magnitude(x) < magnitude(y) THEN x ELSE y
intMax(y, x) == IF sign(x) # sign(y) THEN (IF sign(x) = 1 THEN y ELSE x)
                ELSE IF sign(x) = 1 THEN (IF magnitude(x) > magnitude(y) THEN y ELSE x)
                ELSE IF magnitude(x) < magnitude(y) THEN y ELSE x

-----------------------------------------------------------------------------
(* Shifts and rotates by one bit: the word and the carry *)

intLSL(x, c) == <<mask_value(2 * x), Bit(IsTop(x))>>
intLSR(x, c) == <<x \div 2, x % 2>>
(* In the longest word the C machine's shift copies the sign of any mode. *)
intASR(x, c) ==
    <<IF int_mode = "SGNMANT"
      THEN (x % topbit_mask) \div 2 + (IF IsTop(x) THEN topbit_mask ELSE 0)
      ELSE x \div 2 + (IF IsTop(x) /\ (~Unsigned \/ int_len = M) THEN topbit_mask ELSE 0),
      x % 2>>
intRL(x, c)  == <<mask_value(2 * x) + Bit(IsTop(x)), Bit(IsTop(x))>>
intRR(x, c)  == <<x \div 2 + (x % 2) * topbit_mask, x % 2>>
intRLC(x, c) == <<mask_value(2 * x) + c, Bit(IsTop(x))>>
intRRC(x, c) == <<x \div 2 + c * topbit_mask, x % 2>>

OneBit(op, xc) ==
    CASE op = "RL" -> intRL(xc[1], xc[2])   [] op = "RR"  -> intRR(xc[1], xc[2])
      [] op = "RLC" -> intRLC(xc[1], xc[2]) [] op = "RRC" -> intRRC(xc[1], xc[2])
      [] op = "SL" -> intLSL(xc[1], xc[2])  [] op = "SR"  -> intLSR(xc[1], xc[2])
      [] op = "ASR" -> intASR(xc[1], xc[2])

(* Mutant of Repetitions: a rotation through the carry takes as many bits as *)
(* one without.                                                              *)
RepetitionsWord(op, arg) ==
    IF arg <= int_len THEN arg
    ELSE CASE op \in {"RL", "RR", "RLC", "RRC"} -> arg % int_len
           [] OTHER -> int_len

(* Rotations by more than a word are taken modulo what they turn around. *)
Repetitions(op, arg) ==
    IF arg <= int_len THEN arg
    ELSE CASE op \in {"RL", "RR"}   -> arg % int_len
           [] op \in {"RLC", "RRC"} -> arg % (int_len + 1)
           [] OTHER -> int_len

(* introt: the word and the carry *)
introt(op, arg, x, c) ==
    LET turned[n \in Nat] == IF n = 0 THEN <<x, c>> ELSE OneBit(op, turned[n - 1])
    IN  turned[Repetitions(op, arg)]

-----------------------------------------------------------------------------
(* The operands are keyed in; the word size may be changed in between.       *)

Init ==
    /\ int_mode \in Modes
    /\ int_len \in Lengths
    /\ Carry \in {0, 1}
    /\ Y = 0 /\ X = 0

Enter(v) ==
    /\ Y' = X
    /\ X' = mask_value(v)
    /\ UNCHANGED <<int_mode, int_len, Carry>>

(* WSIZE: the registers are cut to the word. *)
intws(arg) ==
    /\ int_len' = arg
    /\ Y' = Y % TwoTo[arg]
    /\ X' = X % TwoTo[arg]
    /\ UNCHANGED <<int_mode, Carry>>

Next == (\E v \in Operands : Enter(v)) \/ (\E arg \in Lengths : intws(arg))

Spec == Init /\ [][Next]_vars

-----------------------------------------------------------------------------
(* What the commands promise, in signed numbers                              *)

MaxInt == IF Unsigned THEN (2 * topbit_mask) - 1 ELSE topbit_mask - 1
MinInt == CASE Unsigned -> 0
            [] int_mode = "2COMP" -> -topbit_mask
            [] OTHER -> 1 - topbit_mask
InRange(n) == MinInt <= n /\ n <= MaxInt

(* The result r is n, or it says that it is not. *)
Told(r, n) == IF InRange(n) THEN r.o = 0 /\ Signed(r.v) = n ELSE r.o = 1
(* The same but for the lowest number of two's complement, which may be      *)
(* reported as an overflow.                                                  *)
ToldNearly(r, n) == Told(r, n) \/ (n = -topbit_mask /\ r.o = 1)

(* X and Y are words of the present size, after a change of it, too (intws). *)
WordsFit ==
    /\ int_mode \in Modes /\ int_len \in Lengths /\ Carry \in {0, 1}
    /\ X \in 0 .. (2 * topbit_mask) - 1 /\ Y \in 0 .. (2 * topbit_mask) - 1

(* Sums, differences and changes of sign are exact or report an overflow, in *)
(* every mode and word size; without a sign they wrap round (intAdd,         *)
(* intSubtract, intChs, intAbs).                                             *)
SumsTold ==
    LET x == Signed(X)
        y == Signed(Y)
    IN  /\ Told(intAdd(Y, X), y + x)
        /\ Told(intSubtract(Y, X), y - x)
        /\ Told(intAbs(X), IF x < 0 THEN -x ELSE x)
        /\ Unsigned \/ Told(intChs(X), -x)
        /\ int_mode \in {"UNSIGNED", "2COMP"} =>
               /\ intAdd(Y, X).v = mask_value(Y + X)
               /\ intSubtract(Y, X).v = mask_value(Y - X)

(* Products are exact or report an overflow; a quotient and its remainder    *)
(* give back the dividend, the carry tells that there is a remainder (or     *)
(* that the quotient is as large as the lowest number); the                  *)
(* common divisor divides both and every other one divides it (intMultiply,  *)
(* intDivide, intMod, intGCD, intLCM).                                       *)
WordQuotientsTold ==
    LET x == Signed(X)
        y == Signed(Y)
        q == intDivide(Y, X)
        r == Signed(intMod(Y, X, FALSE).v)
        m == Signed(intMod(Y, X, TRUE).v)
        g == intGCD(Y, X).v
        Abs(n) == IF n < 0 THEN -n ELSE n
    IN  /\ ToldNearly(intMultiply(Y, X), y * x)
        /\ x # 0 =>
              /\ Abs(r) < Abs(x) /\ Abs(m) < Abs(x)
              /\ q.o = 0 => (Signed(q.v) * x) + r = y /\ (q.c = 1 <=> r # 0 \/ (y = -topbit_mask /\ Abs(x) = 1))
              /\ q.o = 1 => y = -topbit_mask /\ x = -1
              /\ (y - m) % Abs(x) = 0 /\ (m # 0 => (m < 0 <=> x < 0))
        /\ x # 0 /\ y # 0 =>
              /\ Signed(intLCM(Y, X).v) * g = Abs(x * y) \/ intLCM(Y, X).o = 1
              /\ \A d \in 1 .. magnitude(X) :
                    magnitude(X) % d = 0 /\ magnitude(Y) % d = 0 <=> magnitude(g) % d = 0

(* Shifts are products and quotients by powers of two, however far they go;  *)
(* a rotation is undone by the one the other way round, and one through the  *)
(* carry turns over a bit more than the word (introt).                       *)
RotationsTold ==
    /\ \A n \in 0 .. (2 * int_len) + 2 :
          /\ introt("SL", n, X, Carry)[1] = mask_value(X * TwoTo[n])
          /\ introt("SR", n, X, Carry)[1] = X \div TwoTo[n]
          /\ Unsigned \/ introt("ASR", n, X, Carry)[1] =
                CASE ~IsTop(X) -> X \div TwoTo[n]
                  [] IsTop(X) /\ int_mode = "2COMP" -> mask_value((X - (2 * topbit_mask)) \div TwoTo[n])
                  [] OTHER -> build_value(magnitude(X) \div TwoTo[n], 1)
          /\ introt("RR", n, introt("RL", n, X, Carry)[1], 0)[1] = X
          /\ LET t == introt("RLC", n, X, Carry)
             IN  introt("RRC", n, t[1], t[2]) = <<X, Carry>>
    /\ introt("RLC", int_len + 1, X, Carry) = <<X, Carry>>
=============================================================================
