------------------------------ MODULE IntFacts ------------------------------
(***************************************************************************)
(* What the theorems about integer mode speak of: loops as functions, words  *)
(* and what they stand for, quotients, shifts and roots, and the numbers     *)
(* that digits of half a word are the digits of.                             *)
(***************************************************************************)
EXTENDS IntArith

(* What a step does n times over is a function of n.                         *)
Iterable(S, g, a) ==
    \E f \in [Nat -> S] : f[0] = a /\ \A n \in Nat : f[n + 1] = g[f[n]]

\* What a word is in each mode, its sign and its magnitude.
Reads(w) ==
    LET t == topbit_mask IN
    /\ mask_value(w) = w /\ (IsTop(w) <=> w >= t)
    /\ IF Unsigned \/ w < t THEN sign(w) = 0 /\ magnitude(w) = w /\ Signed(w) = w
       ELSE /\ sign(w) = 1 /\ Signed(w) = -magnitude(w)
            /\ magnitude(w) = CASE int_mode = "2COMP" -> 2 * t - w
                                [] int_mode = "1COMP" -> 2 * t - 1 - w
                                [] int_mode = "SGNMANT" -> w - t

\* A word of the present size.
IsWord(w) == w \in 0 .. 2 * topbit_mask - 1

\* What the common divisor and multiple are told by.
Divides(d, n) == n % d = 0

\* g has the divisors that a and b have in common.
CommonDivisors(g, a, b) ==
    \A d \in Nat \ {0} : Divides(d, a) /\ Divides(d, b) <=> Divides(d, g)

\* A dividend of magnitude b made of its quotient q and its remainder s by a
\* divisor of magnitude a, the divisor's sign being gx and the dividend's gy.
MakesDividend(a, b, q, s, gx, gy) ==
    LET x == IF gx = 1 THEN -a ELSE a
        y == IF gy = 1 THEN -b ELSE b
        k == IF gx = gy \/ s = 0 THEN s ELSE a - s
        m == IF gx = 1 THEN -k ELSE k
    IN  /\ ((IF gx = gy THEN q ELSE -q) * x) + (IF gy = 1 THEN -s ELSE s) = y
        /\ (y - m) % a = 0
        /\ k \in 0 .. a - 1

\* A number without its sign.
Absolute(n) == IF n < 0 THEN -n ELSE n

\* The commands that turn a word by one bit, and what they turn.
BitCommands == {"RL", "RR", "RLC", "RRC", "SL", "SR", "ASR"}
WordsWithCarry == (0 .. 2 * topbit_mask - 1) \X {0, 1}

\* f holds what n turns make of a word and the carry.
Turns(f, op, x, c) ==
    /\ f[0] = <<x, c>>
    /\ \A n \in Nat : f[n] \in WordsWithCarry /\ f[n + 1] = OneBit(op, f[n])

\* The word that an arithmetic shift makes of what is left of a number, which
\* was negative (in 1COMP and SGNMANT its magnitude) or not.
Shifted(neg, q) ==
    IF ~neg THEN q
    ELSE CASE int_mode = "2COMP"   -> q + 2 * topbit_mask
           [] int_mode = "1COMP"   -> (2 * topbit_mask - 1) - q
           [] int_mode = "SGNMANT" -> topbit_mask + q
LeftOver(neg, q) ==
    IF neg /\ int_mode = "2COMP" THEN -topbit_mask <= q /\ q < 0
    ELSE 0 <= q /\ q < topbit_mask

\* r is the root of v, rounded down; the rest are consequences the provers need.
IsRoot(r, v) == /\ r \in Nat /\ r * r \in Nat /\ r * r <= v /\ v <= r * r + 2 * r
                /\ r <= v /\ (v > 0 => r > 0)

\* b to the n, and the numbers of Fibonacci.
Power(b, n) == Turned([p \in Nat |-> p * b], 1, n)
FibPair(n) == Turned([f \in [this : Nat, next : Nat] |->
                         [this |-> f.next, next |-> f.this + f.next]],
                     [this |-> 0, next |-> 1], n)
Fib(n) == FibPair(n).this

\* The value of a digit's place.
Place(k) == TwoTo[HALF * k]

\* What the columns below n come to; the columns of digits from a on.
ValueOf(col, n) ==
    Turned([s \in [i : Nat, v : Int] |-> [i |-> s.i + 1, v |-> s.v + col[s.i] * Place(s.i)]],
           [i |-> 0, v |-> 0], n).v
From(d, a) == [i \in Nat |-> IF a + i \in Places THEN d[a + i] ELSE 0]
Columns == [Nat -> Int]

\* The digit of the quotient at place j, and what is left of un.
DigitAt(un, vn, n, j) ==
    LET top  == un[j + n] * B + un[j + n - 1]
        qhat == Estimated(top, un[j + n - 2], vn[n - 1], vn[n - 2])
    IN  IF MultiplySubtract(un, vn, n, qhat, j).c >= 0 THEN qhat ELSE qhat - 1
LeftAt(un, vn, n, j) ==
    LET top  == un[j + n] * B + un[j + n - 1]
        qhat == Estimated(top, un[j + n - 2], vn[n - 1], vn[n - 2])
        rest == MultiplySubtract(un, vn, n, qhat, j)
    IN  IF rest.c >= 0 THEN rest.d ELSE AddBack(rest.d, vn, n, j)

\* What all the digits come to.
Number(d) == ValueOf(From(d, 0), 9)

\* The magnitude of the double word y, z.
DoubleWord(y, z) ==
    LET neg == ~Unsigned /\ IsTop(y)
        n   == y * TwoTo[int_len] + z
    IN  CASE ~neg -> n
          [] neg /\ int_mode = "2COMP" -> TwoTo[2 * int_len] - n
          [] neg /\ int_mode = "1COMP" -> TwoTo[2 * int_len] - n - 1
          [] neg /\ int_mode = "SGNMANT" -> (y - topbit_mask) * TwoTo[int_len] + z

\* The variables of a loop that takes b bit by bit, the lowest first.
BitLoop == [x : Nat, y : Nat, b : Nat]

=============================================================================
