------------------------------ MODULE IntArith ------------------------------
(***************************************************************************)
(* Integer mode, the rest of it: double words, residues and primes.          *)
(***************************************************************************)
EXTENDS IntPowers

-----------------------------------------------------------------------------
(* Double words.  Digits of HALF bits, from 0 on, the least significant first: *)
(* as many as a double word has and one more.                                *)

B      == TwoTo[HALF]
Places == 0 .. 8
Halves == [Places -> 0 .. B - 1]
Zeros  == [k \in Places |-> 0]

breakup(v) == [k \in 0 .. 3 |-> (v \div TwoTo[HALF * k]) % B]
packup(d, k) == d[k] + B * (d[k + 1] + B * (d[k + 2] + B * d[k + 3]))
Halfwords(lo, hi) == [k \in Places |-> IF k < 4 THEN breakup(lo)[k]
                                       ELSE IF k < 8 THEN breakup(hi)[k - 4] ELSE 0]

(* d with n digits from a on that columns make up, which may be more than a  *)
(* digit or negative: c is carried or borrowed from column to column.        *)
Carried(d, a, n, column) ==
    Turned([s \in [i : Nat, c : Int, d : Halves] |->
               IF s.i < n
               THEN LET t == column[s.i] + s.c
                    IN  [i |-> s.i + 1, c |-> t \div B, d |-> [s.d EXCEPT ![a + s.i] = t % B]]
               ELSE s],
           [i |-> 0, c |-> 0, d |-> d], n)

(* The digits of the product; the sums are unsigned ints of two half-words.  *)
Product(xa, ya) ==
    LET term(i, k) == IF k - i \in 0 .. 3 THEN xa[i] * ya[k - i] ELSE 0
        column(k)  == term(0, k) + term(1, k) + term(2, k) + term(3, k)
        t[k \in 0 .. 7] == (column(k) + (IF k = 0 THEN 0 ELSE t[k - 1] \div B)) % (B * B)
    IN  [k \in 0 .. 7 |-> t[k] % B]

(* The words of a double word that the machine words lo and hi make up. *)
LowWord(lo)      == mask_value(lo)
HighWord(lo, hi) == mask_value(IF int_len = M THEN hi
                               ELSE hi * TwoTo[M - int_len] + lo \div TwoTo[int_len])

(* The high and the low word with the sign of the result put in. *)
Negated(h, l) ==
    CASE int_mode = "2COMP"   -> <<mask_value(IF l = 0 THEN -h ELSE -h - 1),
                                   mask_value(-l)>>
      [] int_mode = "1COMP"   -> <<mask_value(-h - 1), mask_value(-l - 1)>>
      [] OTHER -> <<IF IsTop(h) THEN h ELSE h + topbit_mask, l>>

(* DBLx: the high word to X and the low one to Y. *)
intDblMul(y, x) ==
    LET r == Product(breakup(magnitude(x)), breakup(magnitude(y)))
        l == packup(r, 0)
        h == packup(r, 4)
    IN  IF sign(x) = sign(y) THEN <<HighWord(l, h), LowWord(l)>>
        ELSE Negated(HighWord(l, h), LowWord(l))

(* divmnu: Knuth's algorithm D.  The quotient is written as a number.        *)

(* The estimate of a digit of the quotient, corrected: two turns at most, as *)
(* v1 is at least half of B.                                                 *)
Estimated(top, u, v1, v2) ==
    Turned([s \in [q : Nat, r : Nat] |->
               IF s.r < B /\ (s.q >= B \/ s.q * v2 > B * s.r + u)
               THEN [q |-> s.q - 1, r |-> s.r + v1] ELSE s],
           [q |-> top \div v1, r |-> top % v1], 2).q

(* Mutant of AddBack: what was subtracted too much stays subtracted. *)
AddBackNot(un, vn, n, j) == un

(* un less qhat times vn, from digit j on, with what is borrowed at the end; *)
(* un plus vn, from digit j on, with the carry dropped.                       *)
MultiplySubtract(un, vn, n, qhat, j) ==
    Carried(un, j, n + 1, [i \in 0 .. n |-> un[j + i] - qhat * vn[i]])
AddBack(un, vn, n, j) == Carried(un, j, n + 1, [i \in 0 .. n |-> un[j + i] + vn[i]]).d

(* The lowest digits of the quotient, and the remainder. *)
LongDivision(un, vn, n, digits) ==
    Turned([s \in [q : Int, un : Halves, j : 0 .. 9 - n] |->
               IF s.j = 0 THEN s
               ELSE LET j    == s.j - 1
                        top  == s.un[j + n] * B + s.un[j + n - 1]
                        qhat == Estimated(top, s.un[j + n - 2], vn[n - 1], vn[n - 2])
                        rest == MultiplySubtract(s.un, vn, n, qhat, j)
                    IN  IF rest.c >= 0
                        THEN [q |-> s.q + qhat * TwoTo[HALF * j], un |-> rest.d, j |-> j]
                        ELSE [q |-> s.q + (qhat - 1) * TwoTo[HALF * j],
                              un |-> AddBack(rest.d, vn, n, j), j |-> j]],
           [q |-> 0, un |-> un, j |-> digits], digits)

ShortDivision(u, v, digits) ==
    Turned([s \in [q : Nat, k : Nat, j : 0 .. 9] |->
               IF s.j = 0 THEN s
               ELSE LET t == s.k * B + u[s.j - 1]
                    IN  [q |-> s.q + (t \div v) * TwoTo[HALF * (s.j - 1)], k |-> t % v, j |-> s.j - 1]],
           [q |-> 0, k |-> 0, j |-> digits], digits)

nlz(d) == CHOOSE s \in 0 .. HALF : d * TwoTo[s] < B /\ (s = HALF \/ d * TwoTo[s + 1] >= B)
Normalised(d, s) == Carried(Zeros, 0, 9, [k \in Places |-> d[k] * TwoTo[s]]).d

(* The number of digits to use: no zeros above, but at least n. *)
Significant(d, n) == CHOOSE m \in n .. 8 : /\ m = n \/ d[m - 1] # 0
                                           /\ \A k \in m .. 8 : d[k] = 0

(* Quotient and remainder of the digits u by the digits v: four digits. *)
divmnu(u, v) ==
    LET n     == Significant(v, 1)
        m     == Significant(u, n)
        s     == nlz(v[n - 1])
        short == ShortDivision(u, v[0], m)
        long  == LongDivision(Normalised(u, s), Normalised(v, s), n, m - n + 1)
    IN  IF n = 1 THEN <<short.q % TwoTo[M], short.k>>
        ELSE <<long.q % TwoTo[M], packup(long.un, 0) \div TwoTo[s]>>

(* divmod: the double word y, z by x; their signs, the magnitudes' quotient  *)
(* and remainder.                                                            *)
divmod(z, y, x) ==
    LET sy == Bit(~Unsigned /\ IsTop(y))
        hl == IF sy = 0 THEN <<y, z>>
              ELSE IF int_mode = "SGNMANT" THEN <<y - topbit_mask, z>>
              ELSE Negated(y, z)
        d  == magnitude(x)
        lo == (hl[2] + hl[1] * TwoTo[int_len]) % TwoTo[M]
        hi == IF int_len = M THEN hl[1] ELSE hl[1] \div TwoTo[M - int_len]
        qr == divmnu(Halfwords(lo, hi), Halfwords(d, 0))
    IN  IF d = 0 THEN DivideByZero(lo + hi, sign(x), sy)
        ELSE [v |-> IF lo + hi = 0 THEN <<0, 0>> ELSE qr, sx |-> sign(x), sy |-> sy,
              e |-> "none"]

intDblDiv(z, y, x) ==
    LET r == divmod(z, y, x)
    IN  IF r.e # "none" THEN r
        ELSE Result(build_value(r.v[1], Bit(r.sx # r.sy)), Bit(r.v[2] # 0), 0)
intDblRmdr(z, y, x) ==
    LET r == divmod(z, y, x)
    IN  IF r.e # "none" THEN r ELSE Result(build_value(r.v[2], r.sy), KEEP, KEEP)

-----------------------------------------------------------------------------
(* Residues and primes *)

(* The sums are words of w - 1 at most, the numbers have up to two words.     *)
mulmod(a, b, c, w) ==
    Turned([s \in [x : Nat, y : Nat, b : Nat] |->
               IF s.b = 0 THEN s
               ELSE [x |-> IF s.b % 2 = 1 THEN ((s.x + s.y) % w) % c ELSE s.x,
                     y |-> ((s.y + s.y) % w) % c, b |-> s.b \div 2]],
           [x |-> 0, y |-> a % c, b |-> b], 2 * M).x % c
expmod(a, b, c, w) ==
    Turned([s \in [x : Nat, y : Nat, b : Nat] |->
               IF s.b = 0 THEN s
               ELSE [x |-> IF s.b % 2 = 1 THEN mulmod(s.x, s.y, c, w) ELSE s.x,
                     y |-> mulmod(s.y, s.y, c, w), b |-> s.b \div 2]],
           [x |-> 1, y |-> a, b |-> b], 2 * M).x % c

(* xMOD and ^MOD (op) *)
intmodop(op, z, y, x) ==
    IF sign(x) = 1 \/ sign(y) = 1 \/ sign(z) = 1 \/ magnitude(x) <= 1 THEN Failure("DOMAIN")
    ELSE Result(build_value(IF op = "MULMOD"
                            THEN mulmod(magnitude(z), magnitude(y), magnitude(x), TwoTo[M])
                            ELSE expmod(magnitude(z), magnitude(y), magnitude(x), TwoTo[M]), 0),
                KEEP, KEEP)

(* isPrime: small primes tried, then Miller and Rabin's test to 15 bases.     *)
(* Its numbers have a bit to spare in the machine word: their sums are exact. *)
primes == <<2, 3, 5, 7, 11, 13, 17, 19, 23, 29, 31, 37, 41, 43, 47, 53>>
PRIME_ITERATION == 15

OddPart(p) == Turned([s \in Nat |-> IF s % 2 = 0 THEN s \div 2 ELSE s], p, 2 * M)
Squared(mod, temp, p) ==
    Turned([s \in [mod : Nat, temp : Nat] |->
               IF s.temp # p - 1 /\ s.mod # 1 /\ s.mod # p - 1
               THEN [mod |-> mulmod(s.mod, s.mod, p, 2 * p), temp |-> 2 * s.temp] ELSE s],
           [mod |-> mod, temp |-> temp], 2 * M)

(* Mutant of Witness: the squares of the residue are not looked at. *)
WitnessUnsquared(a, p) ==
    LET m == expmod(a, OddPart(p - 1), p, 2 * p) IN m # 1 /\ m # p - 1

(* Does the base a show that p is no prime? *)
Witness(a, p) ==
    LET t == Squared(expmod(a, OddPart(p - 1), p, 2 * p), OddPart(p - 1), p)
    IN  t.mod # p - 1 /\ t.temp % 2 = 0

isPrime(p) ==
    IF p < 2 THEN FALSE
    ELSE IF \E i \in DOMAIN primes : p % primes[i] = 0
         THEN \E i \in DOMAIN primes : p = primes[i]
    ELSE p < 59 * 59 - 1 \/ \A i \in 1 .. PRIME_ITERATION : ~Witness(primes[i], p)

-----------------------------------------------------------------------------
(* Properties *)

Sample == {mask_value(v) : v \in Operands}

(* The double word z, y divided by x: where the quotient is a word, it and   *)
(* the remainder give the dividend back; the long division by half-words is   *)
(* estimated, corrected and, rarely, corrected again (intDblDiv, intDblRmdr, *)
(* divmnu).                                                                  *)
DoubleWordQuotientsTold ==
    \A z \in Sample :
        LET neg == ~Unsigned /\ IsTop(Y)
            n   == CASE ~neg -> (Y * TwoTo[int_len]) + z
                     [] neg /\ int_mode = "2COMP" -> (TwoTo[2 * int_len]) - ((Y * TwoTo[int_len]) + z)
                     [] neg /\ int_mode = "1COMP" -> (TwoTo[2 * int_len]) - ((Y * TwoTo[int_len]) + z) - 1
                     [] neg /\ int_mode = "SGNMANT" -> ((Y - topbit_mask) * TwoTo[int_len]) + z
            d   == magnitude(X)
        IN  d # 0 /\ n \div d <= MaxInt =>
                /\ magnitude(intDblDiv(z, Y, X).v) * d + magnitude(intDblRmdr(z, Y, X).v) = n
                /\ magnitude(intDblRmdr(z, Y, X).v) < d
                /\ n \div d # 0 => sign(intDblDiv(z, Y, X).v) = Bit(neg # (sign(X) = 1))
                /\ intDblDiv(z, Y, X).c = Bit(n % d # 0)

(* The product of two words is the double word in X and Y (intDblMul).       *)
DoubleProductExact ==
    Unsigned => LET r == intDblMul(Y, X) IN (r[1] * TwoTo[int_len]) + r[2] = Y * X

(* b to the power n modulo c *)
PowerModulo(b, n, c) == Turned([p \in Nat |-> (p * b) % c], 1, n)

(* Products and powers modulo x are the true ones while x is at most half    *)
(* the range of the machine word (mulmod, expmod).                           *)
ResiduesTold ==
    X > 1 /\ 2 * X <= TwoTo[M] /\ Unsigned =>
        \A z \in Sample : /\ intmodop("MULMOD", z, Y, X).v = (z * Y) % X
                          /\ intmodop("EXPMOD", z, Y, X).v = PowerModulo(z, Y, X)

(* The remainders of double words, whether the divisor goes into them half-   *)
(* word by half-word or bit by bit (intDblDiv, intDblRmdr, mulmod, expmod).   *)
RemaindersTold == DoubleWordQuotientsTold /\ ResiduesTold

(* PRIME? tells the primes (isPrime; the number tried is one of two words).   *)
PrimesTold == LET p == (Y * 2 * topbit_mask) + X
              IN  isPrime(p) <=> p >= 2 /\ \A d \in 2 .. TwoTo[M] : d * d <= p => p % d # 0
=============================================================================
