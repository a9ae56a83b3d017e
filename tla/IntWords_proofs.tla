--------------------------- MODULE IntWords_proofs ---------------------------
(***************************************************************************)
(* Integer mode, for words of any size: X and Y remain words of the present  *)
(* size, and what the commands make of them is the number it should be or     *)
(* the flags tell that it is not.  First the functions that loops compute,   *)
(* the powers of two and division by them; then words and their signs, sums, *)
(* products and quotients, shifts and rotations; then the bits of a word,    *)
(* roots, logarithms, powers and the numbers of Fibonacci; last double words *)
(* in digits of half a word, their long division, and residues.              *)
(***************************************************************************)
EXTENDS IntFacts, WellFoundedInduction, TLAPS

-----
(* Natural numbers *)

LEMMA LeastNatural ==
    ASSUME NEW T, T \subseteq Nat, T # {}
    PROVE  \E n \in T : \A m \in T : n <= m
<1>1. PICK n \in T : \A m \in T : ~(<<m, n>> \in OpToRel(<, Nat)) BY WFMin, NatLessThanWellFounded
<1>2. ASSUME NEW m \in T PROVE n <= m
  <2>1. m \in Nat /\ n \in Nat BY Zenon
  <2>2. ~(m < n) BY <1>1, <2>1, Zenon DEF OpToRel
  <2> QED BY <2>1, <2>2, SMT
<1> QED BY <1>2

\* A set of natural numbers that 0 is in and that each one hands on to the next.
LEMMA AllNaturals ==
    ASSUME NEW T, 0 \in T, \A n \in Nat : n \in T => n + 1 \in T
    PROVE  \A n \in Nat : n \in T
<1> SUFFICES ASSUME Nat \ T # {} PROVE FALSE BY Zenon
<1>1. PICK n \in Nat \ T : \A m \in Nat \ T : n <= m
  <2> DEFINE U == Nat \ T
  <2>1. U \subseteq Nat /\ U # {} OBVIOUS
  <2> HIDE DEF U
  <2>2. \E n \in U : \A m \in U : n <= m BY <2>1, LeastNatural
  <2> QED BY <2>2 DEF U
<1>2. n # 0 OBVIOUS
<1>3. n - 1 \in Nat /\ ~(n <= n - 1) /\ (n - 1) + 1 = n BY <1>2, SMT
<1>4. n - 1 \in T BY <1>1, <1>3
<1> QED BY <1>3, <1>4

LEMMA Iteration ==
    ASSUME NEW S, NEW g \in [S -> S], NEW a \in S
    PROVE  Iterable(S, g, a)
<1> DEFINE Upto(f, n) == /\ f \in [0 .. n -> S] /\ f[0] = a
                         /\ \A i \in 0 .. n : i < n => f[i + 1] = g[f[i]]
           T == {n \in Nat : \E f : Upto(f, n)}
           U == {n \in Nat : \A m \in Nat : n <= m => \A f, h : Upto(f, n) /\ Upto(h, m) => f[n] = h[n]}
<1>1. 0 \in T
  <2>1. Upto([i \in 0 .. 0 |-> a], 0) BY SMT
  <2> QED BY <2>1
<1>2. ASSUME NEW n \in Nat, n \in T PROVE n + 1 \in T
  <2>1. PICK f : Upto(f, n) BY <1>2
  <2> DEFINE h == [i \in 0 .. n + 1 |-> IF i <= n THEN f[i] ELSE g[f[n]]]
  <2>2. f \in [0 .. n -> S] /\ f[0] = a /\ \A i \in 0 .. n : i < n => f[i + 1] = g[f[i]] BY <2>1
  <2>3. n \in 0 .. n /\ f[n] \in S /\ g[f[n]] \in S BY <2>2, SMT
  <2>4. h \in [0 .. n + 1 -> S]
    <3>1. ASSUME NEW i \in 0 .. n + 1 PROVE (IF i <= n THEN f[i] ELSE g[f[n]]) \in S
      <4>1. i <= n => i \in 0 .. n BY SMT
      <4> QED BY <2>2, <2>3, <4>1
    <3> QED BY <3>1
  <2>5. h[0] = a
    <3>1. 0 \in 0 .. n + 1 /\ 0 <= n BY SMT
    <3> QED BY <2>2, <3>1
  <2>6. ASSUME NEW i \in 0 .. n + 1, i < n + 1 PROVE h[i + 1] = g[h[i]]
    <3>1. /\ i \in 0 .. n /\ i + 1 \in 0 .. n + 1 /\ i <= n
          /\ i = n \/ (i < n /\ i + 1 <= n)
          /\ i = n => ~(i + 1 <= n) BY <2>6, SMT
    <3>2. h[i] = f[i] /\ h[i + 1] = IF i + 1 <= n THEN f[i + 1] ELSE g[f[n]] BY <3>1
    <3> HIDE DEF h
    <3> QED BY <2>2, <3>1, <3>2, Zenon
  <2> HIDE DEF h
  <2>7. Upto(h, n + 1) BY <2>4, <2>5, <2>6
  <2> HIDE DEF Upto
  <2> QED BY <2>7
<1>3. \A n \in Nat : n \in T
  <2> HIDE DEF T
  <2> QED BY <1>1, <1>2, AllNaturals
<1>4. 0 \in U BY SMT
<1>5. ASSUME NEW n \in Nat, n \in U PROVE n + 1 \in U
  <2> SUFFICES ASSUME NEW m \in Nat, n + 1 <= m, NEW f, NEW h, Upto(f, n + 1), Upto(h, m)
               PROVE  f[n + 1] = h[n + 1] OBVIOUS
  <2> DEFINE r == [i \in 0 .. n |-> f[i]]
  <2>1. /\ n \in 0 .. n + 1 /\ n < n + 1 /\ n \in 0 .. m /\ n < m /\ n <= m /\ n \in 0 .. n
        /\ 0 \in 0 .. n /\ \A i \in 0 .. n : i \in 0 .. n + 1 /\ (i < n => i + 1 \in 0 .. n /\ i < n + 1)
    BY SMT
  <2>2. Upto(r, n)
    <3>1. r \in [0 .. n -> S] /\ r[0] = a BY <2>1, Zenon
    <3>2. ASSUME NEW i \in 0 .. n, i < n PROVE r[i + 1] = g[r[i]]
      <4>1. f[i + 1] = g[f[i]] /\ i + 1 \in 0 .. n BY <2>1, <3>2
      <4> QED BY <4>1
    <3> HIDE DEF r
    <3> QED BY <3>1, <3>2
  <2>3. r[n] = f[n] BY <2>1
  <2>4. f[n + 1] = g[f[n]] /\ h[n + 1] = g[h[n]] BY <2>1
  <2>5. r[n] = h[n]
    <3> HIDE DEF Upto, r
    <3> QED BY <1>5, <2>1, <2>2
  <2> QED BY <2>3, <2>4, <2>5
<1>6. \A n \in Nat : n \in U
  <2> HIDE DEF U
  <2> QED BY <1>4, <1>5, AllNaturals
<1> DEFINE F(n) == CHOOSE f : Upto(f, n)
           k == [n \in Nat |-> F(n)[n]]
<1>7. ASSUME NEW n \in Nat PROVE Upto(F(n), n)
  <2> HIDE DEF Upto
  <2> QED BY <1>3
<1>8. k \in [Nat -> S]
  <2>1. ASSUME NEW n \in Nat PROVE F(n)[n] \in S
    <3>1. F(n) \in [0 .. n -> S] /\ n \in 0 .. n
      <4> HIDE DEF F
      <4>1. F(n) \in [0 .. n -> S] BY <1>7
      <4> QED BY <4>1
    <3> HIDE DEF F
    <3> QED BY <3>1
  <2> HIDE DEF F
  <2> QED BY <2>1
<1>9. k[0] = a
  <2> HIDE DEF F
  <2> QED BY <1>7
<1>10. ASSUME NEW n \in Nat PROVE k[n + 1] = g[k[n]]
  <2> HIDE DEF F
  <2>1. n + 1 \in Nat /\ n <= n + 1 /\ n \in 0 .. n + 1 /\ n < n + 1 BY SMT
  <2>2. Upto(F(n), n) /\ Upto(F(n + 1), n + 1) BY <1>7, <2>1
  <2>3. F(n)[n] = F(n + 1)[n]
    <3> HIDE DEF Upto
    <3> QED BY <1>6, <2>1, <2>2
  <2>4. F(n + 1)[n + 1] = g[F(n + 1)[n]] BY <2>1, <2>2
  <2> QED BY <2>1, <2>3, <2>4
<1> HIDE DEF k
<1> QED BY <1>8, <1>9, <1>10 DEF Iterable

-----
(* The powers of two *)

LEMMA PowersOfTwo ==
    /\ TwoTo \in [Nat -> Nat \ {0}] /\ TwoTo[0] = 1
    /\ \A n \in Nat : TwoTo[n + 1] = 2 * TwoTo[n]
<1> DEFINE Fix(f) == f = [n \in Nat |-> IF n = 0 THEN 1 ELSE 2 * f[n - 1]]
           g == [m \in Nat \ {0} |-> 2 * m]
<1>1. PICK f \in [Nat -> Nat \ {0}] : f[0] = 1 /\ \A n \in Nat : f[n + 1] = g[f[n]]
  <2> DEFINE S == Nat \ {0}
             a == 1
  <2>1. g \in [S -> S] /\ a \in S BY SMT
  <2> HIDE DEF g, S, a
  <2>2. Iterable(S, g, a) BY <2>1, Iteration
  <2> QED BY <2>2 DEF S, a, Iterable
<1>2. \A n \in Nat : f[n + 1] = 2 * f[n] BY <1>1
<1>3. Fix(f)
  <2>1. ASSUME NEW n \in Nat PROVE f[n] = IF n = 0 THEN 1 ELSE 2 * f[n - 1]
    <3>1. n # 0 => n - 1 \in Nat /\ (n - 1) + 1 = n BY SMT
    <3> QED BY <1>1, <1>2, <3>1
  <2>2. f = [n \in Nat |-> f[n]] BY <1>1
  <2> QED BY <2>1, <2>2
<1>4. TwoTo = CHOOSE h : Fix(h) BY DEF TwoTo
<1>5. Fix(TwoTo)
  <2> HIDE DEF Fix
  <2> QED BY <1>3, <1>4
<1>6. \A n \in Nat : TwoTo[n] = IF n = 0 THEN 1 ELSE 2 * TwoTo[n - 1] BY <1>5
<1>7. TwoTo[0] = 1 BY <1>6
<1>8. ASSUME NEW n \in Nat PROVE TwoTo[n + 1] = 2 * TwoTo[n]
  <2>1. n + 1 \in Nat /\ n + 1 # 0 /\ (n + 1) - 1 = n BY SMT
  <2> QED BY <1>6, <2>1
<1>9. \A n \in Nat : TwoTo[n] \in Nat \ {0}
  <2> DEFINE T == {n \in Nat : TwoTo[n] \in Nat \ {0}}
  <2>1. 0 \in T BY <1>7
  <2>2. \A n \in Nat : n \in T => n + 1 \in T BY <1>8
  <2>3. \A n \in Nat : n \in T
    <3> HIDE DEF T
    <3> QED BY <2>1, <2>2, AllNaturals
  <2> QED BY <2>3
<1>10. TwoTo = [n \in Nat |-> TwoTo[n]]
  <2>1. DOMAIN TwoTo = Nat /\ TwoTo = [n \in Nat |-> IF n = 0 THEN 1 ELSE 2 * TwoTo[n - 1]] BY <1>5
  <2> QED BY <1>6, <2>1
<1> QED BY <1>7, <1>8, <1>9, <1>10

LEMMA LengthIs ==
    ASSUME NEW n \in Lengths
    PROVE  /\ n \in Nat /\ n - 1 \in Nat /\ n <= M
           /\ TwoTo[n - 1] \in Nat \ {0} /\ TwoTo[n] = 2 * TwoTo[n - 1]
<1>1. n \in Nat /\ n - 1 \in Nat /\ (n - 1) + 1 = n /\ n <= M BY IntegerSizes, SMT DEF M
<1> QED BY <1>1, PowersOfTwo

-----
(* Division *)

LEMMA QuotientIs ==
    ASSUME NEW m \in Nat \ {0}, NEW q \in Int, NEW r \in 0 .. m - 1
    PROVE  (m * q + r) % m = r /\ (m * q + r) \div m = q
<1> DEFINE a == m * q + r
           p == a \div m
           s == a % m
<1>1. a \in Int /\ m * q \in Int BY SMT
<1> HIDE DEF a
<1>2. p \in Int /\ s \in 0 .. m - 1 /\ a = m * p + s BY <1>1, SMT
<1> HIDE DEF p, s
<1>3. m * p + s = m * q + r BY <1>2 DEF a
<1>4. m * (p - q) = r - s
  <2>1. m * (p - q) = m * p - m * q /\ m * p \in Int BY <1>2, SMT
  <2> QED BY <1>1, <1>2, <1>3, <2>1, SMT
<1>5. p - q = 0
  <2> DEFINE d == p - q
  <2>1. d \in Int /\ m * d = r - s BY <1>2, <1>4
  <2> HIDE DEF d
  <2>2. d >= 1 => m * d >= m BY <2>1, SMT
  <2>3. d <= -1 => m * d <= -m BY <2>1, SMT
  <2>4. d = 0 BY <1>2, <2>1, <2>2, <2>3, SMT
  <2> QED BY <2>4 DEF d
<1>6. p = q BY <1>2, <1>5, SMT
<1>7. s = r BY <1>1, <1>2, <1>3, <1>6, SMT
<1> QED BY <1>6, <1>7 DEF p, s, a

LEMMA Remainders ==
    ASSUME NEW m \in Nat \ {0}, NEW a \in Int
    PROVE  /\ a % m \in 0 .. m - 1
           /\ a >= 0 /\ a < m => a % m = a
           /\ a >= m /\ a < 2 * m => a % m = a - m
           /\ a < 0 /\ a >= -m => a % m = a + m
           /\ a < -m /\ a >= -(2 * m) => a % m = a + 2 * m
<1>1. a % m \in 0 .. m - 1 BY SMT
<1>2. a >= 0 /\ a < m => a % m = a
  <2> SUFFICES ASSUME a >= 0, a < m PROVE a % m = a OBVIOUS
  <2>1. a \in 0 .. m - 1 /\ m * 0 + a = a BY SMT
  <2> QED BY <2>1, QuotientIs
<1>3. a >= m /\ a < 2 * m => a % m = a - m
  <2> SUFFICES ASSUME a >= m, a < 2 * m PROVE a % m = a - m OBVIOUS
  <2>1. a - m \in 0 .. m - 1 /\ m * 1 + (a - m) = a BY SMT
  <2> QED BY <2>1, QuotientIs
<1>4. a < 0 /\ a >= -m => a % m = a + m
  <2> SUFFICES ASSUME a < 0, a >= -m PROVE a % m = a + m OBVIOUS
  <2>1. a + m \in 0 .. m - 1 /\ m * (-1) + (a + m) = a BY SMT
  <2> QED BY <2>1, QuotientIs
<1>5. a < -m /\ a >= -(2 * m) => a % m = a + 2 * m
  <2> SUFFICES ASSUME a < -m, a >= -(2 * m) PROVE a % m = a + 2 * m OBVIOUS
  <2>1. a + 2 * m \in 0 .. m - 1 /\ m * (-2) + (a + 2 * m) = a BY SMT
  <2> QED BY <2>1, QuotientIs
<1> QED BY <1>1, <1>2, <1>3, <1>4, <1>5

-----
(* X and Y are words *)

THEOREM RegistersAreWords == Spec => []WordsFit
<1>1. Init => WordsFit
  <2> SUFFICES ASSUME Init PROVE WordsFit OBVIOUS
  <2>1. int_len \in Lengths BY DEF Init
  <2>2. TwoTo[int_len - 1] \in Nat \ {0} BY <2>1, LengthIs
  <2>3. 0 \in 0 .. (2 * topbit_mask) - 1 BY <2>2, SMT DEF topbit_mask
  <2> QED BY <2>3 DEF Init, WordsFit
<1>2. WordsFit /\ [Next]_vars => WordsFit'
  <2> SUFFICES ASSUME WordsFit, [Next]_vars PROVE WordsFit' OBVIOUS
  <2> USE DEF WordsFit
  <2>1. ASSUME NEW v \in Operands, Enter(v) PROVE WordsFit'
    <3>1. v \in Int /\ TwoTo[int_len - 1] \in Nat \ {0} BY IntegerSizes, LengthIs
    <3>2. 2 * topbit_mask \in Nat \ {0} BY <3>1 DEF topbit_mask
    <3>3. X' \in 0 .. (2 * topbit_mask) - 1 BY <2>1, <3>1, <3>2, Remainders DEF Enter, mask_value
    <3>4. topbit_mask' = topbit_mask BY <2>1 DEF Enter, topbit_mask
    <3> QED BY <2>1, <3>3, <3>4 DEF Enter
  <2>2. ASSUME NEW arg \in Lengths, intws(arg) PROVE WordsFit'
    <3>1. TwoTo[arg] \in Nat \ {0} /\ TwoTo[arg] = 2 * TwoTo[arg - 1] BY LengthIs
    <3>2. X \in Int /\ Y \in Int
      <4>1. 2 * topbit_mask \in Int BY LengthIs DEF topbit_mask
      <4> QED BY <4>1
    <3>3. topbit_mask' = TwoTo[arg - 1] BY <2>2 DEF intws, topbit_mask
    <3>4. X' \in 0 .. TwoTo[arg] - 1 /\ Y' \in 0 .. TwoTo[arg] - 1
      BY <2>2, <3>1, <3>2, Remainders DEF intws
    <3> QED BY <2>2, <3>1, <3>3, <3>4 DEF intws
  <2>3. CASE UNCHANGED vars BY <2>3 DEF vars, topbit_mask
  <2> QED BY <2>1, <2>2, <2>3 DEF Next
<1> QED BY <1>1, <1>2, PTL DEF Spec

-----
(* Words and their signs *)

LEMMA TopBit ==
    ASSUME WordsFit
    PROVE  topbit_mask \in Nat \ {0} /\ int_mode \in Modes
BY LengthIs DEF WordsFit, topbit_mask

LEMMA Masks ==
    ASSUME WordsFit, NEW a \in Int
    PROVE  LET t == topbit_mask IN
           /\ mask_value(a) \in 0 .. 2 * t - 1
           /\ a >= 0 /\ a < 2 * t => mask_value(a) = a
           /\ a >= 2 * t /\ a < 4 * t => mask_value(a) = a - 2 * t
           /\ a < 0 /\ a >= -(2 * t) => mask_value(a) = a + 2 * t
           /\ a < -(2 * t) /\ a >= -(4 * t) => mask_value(a) = a + 4 * t
<1> DEFINE t == topbit_mask
           m == 2 * t
<1>1. t \in Nat \ {0} BY TopBit
<1> HIDE DEF t
<1>2. m \in Nat \ {0} /\ 2 * m = 4 * t BY <1>1
<1> HIDE DEF m
<1>3. /\ a % m \in 0 .. m - 1
      /\ a >= 0 /\ a < m => a % m = a
      /\ a >= m /\ a < 2 * m => a % m = a - m
      /\ a < 0 /\ a >= -m => a % m = a + m
      /\ a < -m /\ a >= -(2 * m) => a % m = a + 2 * m BY <1>2, Remainders
<1> QED BY <1>2, <1>3 DEF m, t, mask_value

LEMMA WordsRead ==
    ASSUME WordsFit, NEW w \in 0 .. 2 * topbit_mask - 1
    PROVE  Reads(w)
<1> DEFINE t == topbit_mask
<1>1. t \in Nat \ {0} /\ int_mode \in Modes BY TopBit
<1>2. w \in Int /\ w >= 0 /\ w < 2 * t BY <1>1
<1>3. mask_value(w) = w BY <1>2, Masks
<1>4. IsTop(w) <=> w >= t BY <1>3 DEF IsTop
<1>5. ASSUME ~Unsigned, w >= t
      PROVE  mask_value(-w) = 2 * t - w /\ mask_value(-w - 1) = 2 * t - 1 - w
  <2> DEFINE b == -w
             c == -w - 1
  <2>1. /\ b \in Int /\ b < 0 /\ b >= -(2 * t) /\ b + 2 * t = 2 * t - w
        /\ c \in Int /\ c < 0 /\ c >= -(2 * t) /\ c + 2 * t = 2 * t - 1 - w BY <1>1, <1>2, <1>5
  <2>2. mask_value(b) = b + 2 * t /\ mask_value(c) = c + 2 * t
    <3> HIDE DEF b, c
    <3> QED BY <2>1, Masks
  <2> QED BY <2>1, <2>2
<1> HIDE DEF t
<1>6. CASE Unsigned \/ ~(w >= t)
  <2>1. sign(w) = 0 /\ magnitude(w) = w BY <1>4, <1>6 DEF sign, magnitude, Bit
  <2> QED BY <1>1, <1>2, <1>3, <1>4, <1>6, <2>1 DEF Reads, Signed, t
<1>7. CASE ~Unsigned /\ w >= t
  <2>1. sign(w) = 1 BY <1>4, <1>7 DEF sign, Bit
  <2>2. magnitude(w) = CASE int_mode = "2COMP" -> mask_value(-w)
                         [] int_mode = "1COMP" -> mask_value(-w - 1)
                         [] int_mode = "SGNMANT" -> w - t BY <1>4, <1>7, Zenon DEF magnitude, t
  <2> HIDE DEF t
  <2>3. int_mode \in {"2COMP", "1COMP", "SGNMANT"} BY <1>1, <1>7 DEF Modes, Unsigned
  <2>4. magnitude(w) = CASE int_mode = "2COMP" -> 2 * t - w
                         [] int_mode = "1COMP" -> 2 * t - 1 - w
                         [] int_mode = "SGNMANT" -> w - t BY <1>5, <1>7, <2>2, <2>3
  <2>5. ~(w < t) /\ ~Unsigned BY <1>1, <1>2, <1>7
  <2> QED BY <1>3, <1>4, <2>1, <2>4, <2>5 DEF Reads, Signed, t
<1> QED BY <1>6, <1>7

-----
(* Sums and differences *)

\* What a word stands for, mode by mode.
LEMMA NumbersOfWords ==
    ASSUME WordsFit, NEW w, IsWord(w)
    PROVE  LET t == topbit_mask IN
           /\ w \in Int /\ w >= 0 /\ w < 2 * t /\ magnitude(w) \in Int
           /\ sign(w) \in {0, 1} /\ Signed(w) = (IF sign(w) = 1 THEN -magnitude(w) ELSE magnitude(w))
           /\ int_mode = "UNSIGNED" => sign(w) = 0 /\ magnitude(w) = w
           /\ int_mode # "UNSIGNED" /\ w < t => sign(w) = 0 /\ magnitude(w) = w
           /\ int_mode # "UNSIGNED" /\ w >= t => sign(w) = 1
           /\ int_mode = "2COMP" /\ w >= t => magnitude(w) = 2 * t - w
           /\ int_mode = "1COMP" /\ w >= t => magnitude(w) = 2 * t - 1 - w
           /\ int_mode = "SGNMANT" /\ w >= t => magnitude(w) = w - t
<1> DEFINE t == topbit_mask
<1>1. t \in Nat \ {0} /\ int_mode \in Modes BY TopBit
<1>2. Reads(w) BY WordsRead DEF IsWord
<1>3. w \in Int /\ w >= 0 /\ w < 2 * t BY <1>1 DEF IsWord
<1> HIDE DEF t
<1>4. CASE int_mode = "UNSIGNED" \/ w < t BY <1>1, <1>2, <1>3, <1>4 DEF Reads, Unsigned, Modes, t
<1>5. CASE int_mode # "UNSIGNED" /\ ~(w < t)
  <2>1. int_mode \in {"2COMP", "1COMP", "SGNMANT"} /\ w >= t BY <1>1, <1>3, <1>5 DEF Modes
  <2>2. /\ sign(w) = 1 /\ Signed(w) = -magnitude(w)
        /\ magnitude(w) = CASE int_mode = "2COMP" -> 2 * t - w
                            [] int_mode = "1COMP" -> 2 * t - 1 - w
                            [] int_mode = "SGNMANT" -> w - t BY <1>2, <1>5 DEF Reads, Unsigned, t
  <2> QED BY <1>1, <1>3, <1>5, <2>1, <2>2 DEF t
<1> QED BY <1>4, <1>5

LEMMA TopOfSum ==
    ASSUME WordsFit, NEW u \in Int, u >= 0, u <= 2 * topbit_mask
    PROVE  IsTop(u) <=> u >= topbit_mask /\ u < 2 * topbit_mask
<1> DEFINE t == topbit_mask
<1>1. t \in Nat \ {0} BY TopBit
<1>2. /\ u < 2 * t => mask_value(u) = u
      /\ u >= 2 * t /\ u < 4 * t => mask_value(u) = u - 2 * t BY Masks
<1> HIDE DEF t
<1> QED BY <1>1, <1>2 DEF IsTop, t

\* Overflow of the sum of two magnitudes.
LEMMA OverflowOfSum ==
    ASSUME WordsFit, NEW a \in Int, NEW b \in Int, NEW neg \in {0, 1}, a >= 0, b >= 0,
           IF Unsigned THEN neg = 0 /\ a < 2 * topbit_mask /\ b < 2 * topbit_mask
           ELSE IF int_mode = "2COMP" THEN a <= topbit_mask /\ b <= topbit_mask
           ELSE a < topbit_mask /\ b < topbit_mask
    PROVE  calc_overflow(a, b, neg) =
              Bit(IF neg = 1 THEN -(a + b) < MinInt ELSE a + b > MaxInt)
<1> DEFINE t == topbit_mask
           u == a + b
<1>1. t \in Nat \ {0} /\ int_mode \in Modes BY TopBit
<1>2. u \in Int /\ u >= 0 OBVIOUS
<1>3. CASE Unsigned
  <2>1. int_mode # "2COMP" BY <1>3 DEF Unsigned
  <2>3. calc_overflow(a, b, neg) = Bit(u >= 2 * t) BY <1>3, <2>1, Zenon DEF calc_overflow
  <2>2. MaxInt = 2 * t - 1 /\ neg = 0 BY <1>3 DEF MaxInt
  <2> HIDE DEF t
  <2> QED BY <1>1, <2>2, <2>3 DEF Bit, t
<1>4. CASE int_mode = "2COMP"
  <2>1. ~Unsigned BY <1>4 DEF Unsigned
  <2>2. u <= 2 * t BY <1>1, <1>4, <2>1
  <2>3. IsTop(u) <=> u >= t /\ u < 2 * t
    <3> HIDE DEF u
    <3> QED BY <1>2, <2>2, TopOfSum
  <2>4. calc_overflow(a, b, neg) =
            Bit(~(neg = 1 /\ u = t) /\ (IsTop(u) \/ (a = t /\ b # 0) \/ (b = t /\ a # 0)))
    BY <1>4, <2>1, Zenon DEF calc_overflow, t
  <2>5. MaxInt = t - 1 /\ MinInt = -t BY <1>4, <2>1 DEF MaxInt, MinInt, t
  <2> HIDE DEF t
  <2> QED BY <1>1, <1>4, <2>1, <2>2, <2>3, <2>4, <2>5 DEF Bit, t
<1>5. CASE int_mode \in {"1COMP", "SGNMANT"}
  <2>1. ~Unsigned BY <1>5 DEF Unsigned
  <2>2. u <= 2 * t BY <1>1, <1>5, <2>1
  <2>3. IsTop(u) <=> u >= t /\ u < 2 * t
    <3> HIDE DEF u
    <3> QED BY <1>2, <2>2, TopOfSum
  <2>4. calc_overflow(a, b, neg) = Bit(IsTop(u)) BY <1>5, <2>1 DEF calc_overflow
  <2>5. MaxInt = t - 1 /\ MinInt = 1 - t BY <1>5, <2>1 DEF MaxInt, MinInt, t
  <2> HIDE DEF t
  <2> QED BY <1>1, <1>5, <2>1, <2>2, <2>3, <2>4, <2>5 DEF Bit, t
<1> QED BY <1>1, <1>3, <1>4, <1>5 DEF Modes, Unsigned

\* What a result says of the number it should be.
LEMMA ToldIs ==
    ASSUME NEW r, NEW n, InRange(n) => r.o = 0 /\ Signed(r.v) = n,
           ~InRange(n) => r.o = 1
    PROVE  Told(r, n)
BY DEF Told

LEMMA RangeIs ==
    ASSUME WordsFit
    PROVE  LET t == topbit_mask IN
           /\ MinInt \in Int /\ MaxInt \in Int
           /\ int_mode = "UNSIGNED" => MinInt = 0 /\ MaxInt = 2 * t - 1
           /\ int_mode = "2COMP" => MinInt = -t /\ MaxInt = t - 1
           /\ int_mode \in {"1COMP", "SGNMANT"} => MinInt = 1 - t /\ MaxInt = t - 1
BY TopBit DEF MinInt, MaxInt, Unsigned

\* Signs and magnitudes of numbers in range.
LEMMA Magnitudes ==
    ASSUME WordsFit, NEW w, IsWord(w)
    PROVE  LET t == topbit_mask IN
           /\ magnitude(w) \in Nat /\ sign(w) \in {0, 1}
           /\ Unsigned => sign(w) = 0 /\ magnitude(w) < 2 * t
           /\ ~Unsigned => /\ magnitude(w) <= t
                           /\ sign(w) = 0 \/ int_mode # "2COMP" => magnitude(w) < t
           /\ int_mode = "2COMP" /\ sign(w) = 1 => magnitude(w) > 0
<1> DEFINE t == topbit_mask
<1>1. t \in Nat \ {0} /\ int_mode \in Modes BY TopBit
<1>2. /\ w \in Int /\ w >= 0 /\ w < 2 * t /\ magnitude(w) \in Int
      /\ sign(w) \in {0, 1}
      /\ int_mode = "UNSIGNED" => sign(w) = 0 /\ magnitude(w) = w
      /\ int_mode # "UNSIGNED" /\ w < t => sign(w) = 0 /\ magnitude(w) = w
      /\ int_mode # "UNSIGNED" /\ w >= t => sign(w) = 1
      /\ int_mode = "2COMP" /\ w >= t => magnitude(w) = 2 * t - w
      /\ int_mode = "1COMP" /\ w >= t => magnitude(w) = 2 * t - 1 - w
      /\ int_mode = "SGNMANT" /\ w >= t => magnitude(w) = w - t BY NumbersOfWords
<1> HIDE DEF t
<1> QED BY <1>1, <1>2 DEF Modes, Unsigned, t

\* A number in range, in sign and mantissa form.
LEMMA MantissaOf ==
    ASSUME WordsFit, int_mode = "SGNMANT", NEW n \in Int, InRange(n)
    PROVE  Signed(SignMantissa(n)) = n
<1> DEFINE t == topbit_mask
           v == SignMantissa(n)
<1>1. t \in Nat \ {0} /\ -t < n /\ n < t BY TopBit, RangeIs DEF InRange
<1>2. /\ n >= 0 /\ n < 2 * t => mask_value(n) = n
      /\ n < 0 /\ n >= -(2 * t) => mask_value(n) = n + 2 * t BY Masks
<1>3. IsTop(n) <=> n < 0
  <2> HIDE DEF t
  <2> QED BY <1>1, <1>2 DEF IsTop, t
<1>4. n < 0 => -n % t = -n
  <2> DEFINE k == -n
  <2>1. k \in Int /\ (n < 0 => k >= 0 /\ k < t) BY <1>1
  <2> HIDE DEF k, t
  <2>2. k >= 0 /\ k < t => k % t = k BY <1>1, <2>1, Remainders
  <2> QED BY <2>1, <2>2 DEF k
<1>5. v = IF n < 0 THEN t - n ELSE n
  <2>1. v = IF n < 0 THEN t + (-n % t) ELSE mask_value(n) BY <1>3 DEF SignMantissa
  <2> HIDE DEF t, v
  <2> QED BY <1>1, <1>2, <1>4, <2>1
<1> HIDE DEF v
<1>6. IsWord(v)
  <2> HIDE DEF t
  <2> QED BY <1>1, <1>5 DEF IsWord, t
<1>7. /\ v \in Int /\ magnitude(v) \in Int
      /\ Signed(v) = (IF sign(v) = 1 THEN -magnitude(v) ELSE magnitude(v))
      /\ int_mode # "UNSIGNED" /\ v < t => sign(v) = 0 /\ magnitude(v) = v
      /\ int_mode # "UNSIGNED" /\ v >= t => sign(v) = 1
      /\ int_mode = "SGNMANT" /\ v >= t => magnitude(v) = v - t BY <1>6, NumbersOfWords
<1> HIDE DEF t
<1> QED BY <1>1, <1>5, <1>7 DEF v

LEMMA AdditionTold ==
    ASSUME WordsFit, NEW y, NEW x, IsWord(y), IsWord(x)
    PROVE  Told(intAdd(y, x), Signed(y) + Signed(x))
<1> DEFINE t == topbit_mask
           a == magnitude(x)
           b == magnitude(y)
           n == Signed(y) + Signed(x)
           o == IF sign(x) = sign(y) THEN calc_overflow(a, b, sign(x)) ELSE 0
<1>1. t \in Nat \ {0} /\ int_mode \in Modes BY TopBit
<1>2. /\ x \in Int /\ x >= 0 /\ x < 2 * t /\ a \in Int
      /\ sign(x) \in {0, 1} /\ Signed(x) = (IF sign(x) = 1 THEN -a ELSE a)
      /\ int_mode = "UNSIGNED" => sign(x) = 0 /\ a = x
      /\ int_mode # "UNSIGNED" /\ x < t => sign(x) = 0 /\ a = x
      /\ int_mode # "UNSIGNED" /\ x >= t => sign(x) = 1
      /\ int_mode = "2COMP" /\ x >= t => a = 2 * t - x
      /\ int_mode = "1COMP" /\ x >= t => a = 2 * t - 1 - x
      /\ int_mode = "SGNMANT" /\ x >= t => a = x - t BY NumbersOfWords
<1>3. /\ y \in Int /\ y >= 0 /\ y < 2 * t /\ b \in Int
      /\ sign(y) \in {0, 1} /\ Signed(y) = (IF sign(y) = 1 THEN -b ELSE b)
      /\ int_mode = "UNSIGNED" => sign(y) = 0 /\ b = y
      /\ int_mode # "UNSIGNED" /\ y < t => sign(y) = 0 /\ b = y
      /\ int_mode # "UNSIGNED" /\ y >= t => sign(y) = 1
      /\ int_mode = "2COMP" /\ y >= t => b = 2 * t - y
      /\ int_mode = "1COMP" /\ y >= t => b = 2 * t - 1 - y
      /\ int_mode = "SGNMANT" /\ y >= t => b = y - t BY NumbersOfWords
<1>4. /\ MinInt \in Int /\ MaxInt \in Int
      /\ int_mode = "UNSIGNED" => MinInt = 0 /\ MaxInt = 2 * t - 1
      /\ int_mode = "2COMP" => MinInt = -t /\ MaxInt = t - 1
      /\ int_mode \in {"1COMP", "SGNMANT"} => MinInt = 1 - t /\ MaxInt = t - 1 BY RangeIs
<1>5. o = Bit(~InRange(n))
  <2>1. CASE sign(x) = sign(y)
    <3> HIDE DEF t, a, b
    <3>1. calc_overflow(a, b, sign(x)) =
              Bit(IF sign(x) = 1 THEN -(a + b) < MinInt ELSE a + b > MaxInt)
      <4>1. a >= 0 /\ b >= 0 /\ sign(x) \in {0, 1} BY <1>1, <1>2, <1>3 DEF Modes
      <4>2. IF Unsigned THEN sign(x) = 0 /\ a < 2 * t /\ b < 2 * t
            ELSE IF int_mode = "2COMP" THEN a <= t /\ b <= t
            ELSE a < t /\ b < t BY <1>1, <1>2, <1>3, <2>1 DEF Modes, Unsigned
      <4> QED BY <1>2, <1>3, <4>1, <4>2, OverflowOfSum DEF t
    <3>2. (IF sign(x) = 1 THEN -(a + b) < MinInt ELSE a + b > MaxInt) <=> ~InRange(n)
      <4>1. n = IF sign(x) = 1 THEN -(a + b) ELSE a + b BY <1>2, <1>3, <2>1
      <4> HIDE DEF n
      <4>2. n > MaxInt \/ n < MinInt <=> ~InRange(n) BY <1>2, <1>3, <1>4, <4>1 DEF InRange
      <4>3. sign(x) = 1 => n <= MaxInt BY <1>1, <1>2, <1>3, <1>4, <4>1, <2>1 DEF Modes
      <4>4. sign(x) = 0 => n >= MinInt BY <1>1, <1>2, <1>3, <1>4, <4>1, <2>1 DEF Modes
      <4> QED BY <1>2, <1>3, <1>4, <4>1, <4>2, <4>3, <4>4
    <3> QED BY <2>1, <3>1, <3>2 DEF Bit
  <2>2. CASE sign(x) # sign(y)
    <3> HIDE DEF t, a, b
    <3>1. InRange(n) BY <1>1, <1>2, <1>3, <1>4, <2>2 DEF InRange, Modes
    <3> QED BY <2>2, <3>1 DEF Bit
  <2> QED BY <2>1, <2>2
<1>6. CASE int_mode = "SGNMANT"
  <2>1. intAdd(y, x) = Result(SignMantissa(n), o, o) BY <1>6, Zenon DEF intAdd
  <2>2. n \in Int
    <3> HIDE DEF a, b
    <3> QED BY <1>2, <1>3
  <2> HIDE DEF n, o
  <2>3. InRange(n) => Signed(SignMantissa(n)) = n BY <1>6, <2>2, MantissaOf
  <2>4. intAdd(y, x).o = o /\ intAdd(y, x).v = SignMantissa(n) BY <2>1 DEF Result
  <2> QED BY <1>5, <2>3, <2>4, ToldIs DEF Bit, n
<1>7. CASE int_mode # "SGNMANT"
  <2> DEFINE s == y + x
             c == Bit(mask_value(s) < y)
             v == mask_value(s + (IF int_mode = "1COMP" THEN c ELSE 0))
  <2>1. intAdd(y, x) = Result(v, c, o) BY <1>7, Zenon DEF intAdd
  <2> HIDE DEF t, a, b
  <2>2. s \in Int /\ s >= 0 /\ s <= 4 * t - 2 /\ s >= y /\ s >= x /\ s < y + 2 * t
    BY <1>1, <1>2, <1>3
  <2>3. mask_value(s) = IF s < 2 * t THEN s ELSE s - 2 * t
    <3> HIDE DEF s
    <3>1. /\ s >= 0 /\ s < 2 * t => mask_value(s) = s
          /\ s >= 2 * t /\ s < 4 * t => mask_value(s) = s - 2 * t BY <2>2, Masks DEF t
    <3> QED BY <1>1, <2>2, <3>1
  <2>4. c = IF s < 2 * t THEN 0 ELSE 1
    <3> HIDE DEF s
    <3> QED BY <1>1, <1>3, <2>2, <2>3 DEF Bit
  <2>5. v = IF s < 2 * t THEN s
            ELSE IF int_mode = "1COMP" THEN s + 1 - 2 * t ELSE s - 2 * t
    <3> DEFINE d == s + (IF int_mode = "1COMP" THEN c ELSE 0)
    <3>1. d = IF s < 2 * t THEN s ELSE IF int_mode = "1COMP" THEN s + 1 ELSE s
      <4> HIDE DEF s, c
      <4> QED BY <2>2, <2>4
    <3> HIDE DEF s, d
    <3>2. d \in Int /\ d >= 0 /\ d < 4 * t /\ (d < 2 * t <=> s < 2 * t) BY <1>1, <2>2, <3>1
    <3>3. /\ d >= 0 /\ d < 2 * t => mask_value(d) = d
          /\ d >= 2 * t /\ d < 4 * t => mask_value(d) = d - 2 * t BY <3>2, Masks DEF t
    <3>4. v = mask_value(d) BY DEF d
    <3> HIDE DEF v
    <3> QED BY <1>1, <2>2, <3>1, <3>2, <3>3, <3>4
  <2>6. InRange(n) => Signed(v) = n
    <3> HIDE DEF v, c
    <3>1. IsWord(v)
      <4> HIDE DEF s
      <4> QED BY <1>1, <2>2, <2>5 DEF IsWord, t
    <3>2. /\ v \in Int /\ v >= 0 /\ v < 2 * t /\ magnitude(v) \in Int
          /\ sign(v) \in {0, 1} /\ Signed(v) = (IF sign(v) = 1 THEN -magnitude(v) ELSE magnitude(v))
          /\ int_mode = "UNSIGNED" => sign(v) = 0 /\ magnitude(v) = v
          /\ int_mode # "UNSIGNED" /\ v < t => sign(v) = 0 /\ magnitude(v) = v
          /\ int_mode # "UNSIGNED" /\ v >= t => sign(v) = 1
          /\ int_mode = "2COMP" /\ v >= t => magnitude(v) = 2 * t - v
          /\ int_mode = "1COMP" /\ v >= t => magnitude(v) = 2 * t - 1 - v
      BY <3>1, NumbersOfWords DEF t
    <3>3. CASE int_mode = "UNSIGNED" BY <1>1, <1>2, <1>3, <1>4, <2>5, <3>2, <3>3 DEF InRange
    <3>4. CASE int_mode = "2COMP" BY <1>1, <1>2, <1>3, <1>4, <2>5, <3>2, <3>4 DEF InRange
    <3>5. CASE int_mode = "1COMP" BY <1>1, <1>2, <1>3, <1>4, <2>5, <3>2, <3>5 DEF InRange
    <3> QED BY <1>1, <1>7, <3>3, <3>4, <3>5 DEF Modes
  <2>7. intAdd(y, x).o = o /\ intAdd(y, x).v = v BY <2>1 DEF Result
  <2> HIDE DEF n, o, v
  <2> QED BY <1>5, <2>6, <2>7, ToldIs DEF Bit, n
<1> QED BY <1>6, <1>7
LEMMA SubtractionTold ==
    ASSUME WordsFit, NEW y, NEW x, IsWord(y), IsWord(x)
    PROVE  Told(intSubtract(y, x), Signed(y) - Signed(x))
<1> DEFINE t == topbit_mask
           a == magnitude(x)
           b == magnitude(y)
           n == Signed(y) - Signed(x)
           f == IF sign(x) # sign(y) THEN calc_overflow(a, b, sign(y)) ELSE 0
           o == IF Unsigned /\ Bit(y < x) = 1 THEN 1 ELSE f
<1>1. t \in Nat \ {0} /\ int_mode \in Modes BY TopBit
<1>2. /\ x \in Int /\ x >= 0 /\ x < 2 * t /\ a \in Int
      /\ sign(x) \in {0, 1} /\ Signed(x) = (IF sign(x) = 1 THEN -a ELSE a)
      /\ int_mode = "UNSIGNED" => sign(x) = 0 /\ a = x
      /\ int_mode # "UNSIGNED" /\ x < t => sign(x) = 0 /\ a = x
      /\ int_mode # "UNSIGNED" /\ x >= t => sign(x) = 1
      /\ int_mode = "2COMP" /\ x >= t => a = 2 * t - x
      /\ int_mode = "1COMP" /\ x >= t => a = 2 * t - 1 - x
      /\ int_mode = "SGNMANT" /\ x >= t => a = x - t BY NumbersOfWords
<1>3. /\ y \in Int /\ y >= 0 /\ y < 2 * t /\ b \in Int
      /\ sign(y) \in {0, 1} /\ Signed(y) = (IF sign(y) = 1 THEN -b ELSE b)
      /\ int_mode = "UNSIGNED" => sign(y) = 0 /\ b = y
      /\ int_mode # "UNSIGNED" /\ y < t => sign(y) = 0 /\ b = y
      /\ int_mode # "UNSIGNED" /\ y >= t => sign(y) = 1
      /\ int_mode = "2COMP" /\ y >= t => b = 2 * t - y
      /\ int_mode = "1COMP" /\ y >= t => b = 2 * t - 1 - y
      /\ int_mode = "SGNMANT" /\ y >= t => b = y - t BY NumbersOfWords
<1>4. /\ MinInt \in Int /\ MaxInt \in Int
      /\ int_mode = "UNSIGNED" => MinInt = 0 /\ MaxInt = 2 * t - 1
      /\ int_mode = "2COMP" => MinInt = -t /\ MaxInt = t - 1
      /\ int_mode \in {"1COMP", "SGNMANT"} => MinInt = 1 - t /\ MaxInt = t - 1 BY RangeIs
<1>5. o = Bit(~InRange(n))
  <2>1. CASE Unsigned
    <3> HIDE DEF t
    <3>1. f = 0 /\ n = y - x BY <1>2, <1>3, <2>1 DEF Unsigned
    <3>2. InRange(n) <=> ~(y < x) BY <1>1, <1>2, <1>3, <1>4, <2>1, <3>1 DEF InRange, Unsigned
    <3> HIDE DEF f, n
    <3> QED BY <2>1, <3>1, <3>2 DEF Bit
  <2>2. CASE ~Unsigned /\ sign(x) # sign(y)
    <3> HIDE DEF t, a, b
    <3>1. calc_overflow(a, b, sign(y)) =
              Bit(IF sign(y) = 1 THEN -(a + b) < MinInt ELSE a + b > MaxInt)
      <4>1. a >= 0 /\ b >= 0 /\ sign(y) \in {0, 1} BY <1>1, <1>2, <1>3 DEF Modes
      <4>2. IF int_mode = "2COMP" THEN a <= t /\ b <= t ELSE a < t /\ b < t
        BY <1>1, <1>2, <1>3, <2>2 DEF Modes, Unsigned
      <4> QED BY <1>2, <1>3, <2>2, <4>1, <4>2, OverflowOfSum DEF t
    <3>2. (IF sign(y) = 1 THEN -(a + b) < MinInt ELSE a + b > MaxInt) <=> ~InRange(n)
      <4>1. n = IF sign(y) = 1 THEN -(a + b) ELSE a + b BY <1>2, <1>3, <2>2
      <4> HIDE DEF n
      <4>2. n > MaxInt \/ n < MinInt <=> ~InRange(n) BY <1>2, <1>3, <1>4, <4>1 DEF InRange
      <4>3. sign(y) = 1 => n <= MaxInt BY <1>1, <1>2, <1>3, <1>4, <4>1, <2>2 DEF Modes, Unsigned
      <4>4. sign(y) = 0 => n >= MinInt BY <1>1, <1>2, <1>3, <1>4, <4>1, <2>2 DEF Modes, Unsigned
      <4> QED BY <1>2, <1>3, <1>4, <4>1, <4>2, <4>3, <4>4
    <3> HIDE DEF n
    <3> QED BY <2>2, <3>1, <3>2 DEF Bit
  <2>3. CASE ~Unsigned /\ sign(x) = sign(y)
    <3> HIDE DEF t, a, b
    <3>1. InRange(n) BY <1>1, <1>2, <1>3, <1>4, <2>3 DEF InRange, Modes, Unsigned
    <3> QED BY <2>3, <3>1 DEF Bit
  <2> QED BY <2>1, <2>2, <2>3
<1>6. CASE int_mode = "SGNMANT"
  <2>1. /\ intSubtract(y, x).v = SignMantissa(n)
        /\ intSubtract(y, x).o = f BY <1>6 DEF intSubtract, Result
  <2>2. n \in Int
    <3> HIDE DEF a, b
    <3> QED BY <1>2, <1>3
  <2>3. o = f BY <1>6 DEF Unsigned
  <2> HIDE DEF n, o, f
  <2>4. InRange(n) => Signed(SignMantissa(n)) = n BY <1>6, <2>2, MantissaOf
  <2> QED BY <1>5, <2>1, <2>3, <2>4, ToldIs DEF Bit, n
<1>7. CASE int_mode # "SGNMANT"
  <2> DEFINE c == Bit(y < x)
             d == y - x - (IF int_mode = "1COMP" THEN c ELSE 0)
             v == mask_value(d)
  <2>1. intSubtract(y, x).v = v /\ intSubtract(y, x).o = o BY <1>7 DEF intSubtract, Result
  <2> HIDE DEF t, a, b
  <2>2. v = IF ~(y < x) THEN y - x
            ELSE IF int_mode = "1COMP" THEN y - x - 1 + 2 * t ELSE y - x + 2 * t
    <3>1. d = IF ~(y < x) THEN y - x ELSE IF int_mode = "1COMP" THEN y - x - 1 ELSE y - x
      BY <1>2, <1>3 DEF Bit
    <3> HIDE DEF d
    <3>2. d \in Int /\ d >= -(2 * t) /\ d < 2 * t /\ (d >= 0 <=> ~(y < x)) BY <1>1, <1>2, <1>3, <3>1
    <3>3. /\ d >= 0 /\ d < 2 * t => mask_value(d) = d
          /\ d < 0 /\ d >= -(2 * t) => mask_value(d) = d + 2 * t BY <3>2, Masks DEF t
    <3> QED BY <1>1, <1>2, <1>3, <3>1, <3>2, <3>3
  <2>6. InRange(n) => Signed(v) = n
    <3> HIDE DEF v, c
    <3>1. IsWord(v) BY <1>1, <1>2, <1>3, <2>2 DEF IsWord, t
    <3>2. /\ v \in Int /\ v >= 0 /\ v < 2 * t /\ magnitude(v) \in Int
          /\ sign(v) \in {0, 1} /\ Signed(v) = (IF sign(v) = 1 THEN -magnitude(v) ELSE magnitude(v))
          /\ int_mode = "UNSIGNED" => sign(v) = 0 /\ magnitude(v) = v
          /\ int_mode # "UNSIGNED" /\ v < t => sign(v) = 0 /\ magnitude(v) = v
          /\ int_mode # "UNSIGNED" /\ v >= t => sign(v) = 1
          /\ int_mode = "2COMP" /\ v >= t => magnitude(v) = 2 * t - v
          /\ int_mode = "1COMP" /\ v >= t => magnitude(v) = 2 * t - 1 - v
      BY <3>1, NumbersOfWords DEF t
    <3>3. CASE int_mode = "UNSIGNED" BY <1>1, <1>2, <1>3, <1>4, <2>2, <3>2, <3>3 DEF InRange
    <3>4. CASE int_mode = "2COMP" BY <1>1, <1>2, <1>3, <1>4, <2>2, <3>2, <3>4 DEF InRange
    <3>5. CASE int_mode = "1COMP" BY <1>1, <1>2, <1>3, <1>4, <2>2, <3>2, <3>5 DEF InRange
    <3> QED BY <1>1, <1>7, <3>3, <3>4, <3>5 DEF Modes
  <2> HIDE DEF n, o, v
  <2> QED BY <1>5, <2>1, <2>6, ToldIs DEF Bit, n
<1> QED BY <1>6, <1>7

\* The word built from a magnitude that has room and a sign.
LEMMA WordsBuilt ==
    ASSUME WordsFit, NEW a \in Nat, NEW g \in {0, 1},
           Unsigned => g = 0, InRange(IF g = 1 THEN -a ELSE a)
    PROVE  /\ IsWord(build_value(a, g))
           /\ Signed(build_value(a, g)) = (IF g = 1 THEN -a ELSE a)
<1> DEFINE t == topbit_mask
           v == build_value(a, g)
           n == IF g = 1 THEN -a ELSE a
<1>1. t \in Nat \ {0} /\ int_mode \in Modes BY TopBit
<1>2. /\ MinInt \in Int /\ MaxInt \in Int
      /\ int_mode = "UNSIGNED" => MinInt = 0 /\ MaxInt = 2 * t - 1
      /\ int_mode = "2COMP" => MinInt = -t /\ MaxInt = t - 1
      /\ int_mode \in {"1COMP", "SGNMANT"} => MinInt = 1 - t /\ MaxInt = t - 1 BY RangeIs
<1>3. n \in Int /\ MinInt <= n /\ n <= MaxInt BY DEF InRange
<1>4. \A k \in Int : /\ k >= 0 /\ k < 2 * t => mask_value(k) = k
                     /\ k < 0 /\ k >= -(2 * t) => mask_value(k) = k + 2 * t BY Masks
<1>5. -a \in Int /\ -a - 1 \in Int /\ a \in Int OBVIOUS
<1> HIDE DEF t
<1>6. a <= t \/ (Unsigned /\ a < 2 * t) BY <1>1, <1>2, <1>3 DEF Modes, Unsigned
<1>7. a < 2 * t BY <1>1, <1>6
<1>8. CASE g = 0 \/ Unsigned
  <2>1. v = a BY <1>1, <1>4, <1>5, <1>7, <1>8 DEF build_value
  <2>2. IsWord(a) BY <1>1, <1>7 DEF IsWord, t
  <2>3. Reads(a) /\ g = 0 BY <1>8, <2>2, WordsRead DEF IsWord
  <2>4. Unsigned \/ a < t BY <1>1, <1>2, <1>3, <2>3 DEF Modes, Unsigned
  <2> QED BY <2>1, <2>2, <2>3, <2>4 DEF Reads, t
<1>9. CASE g = 1 /\ ~Unsigned
  <2>1. v = CASE int_mode = "2COMP" -> mask_value(-a)
              [] int_mode = "1COMP" -> mask_value(-a - 1)
              [] int_mode = "SGNMANT" -> (a % t) + t
    <3>1. ~(g = 0 \/ Unsigned)
      <4>1. 1 # 0 OBVIOUS
      <4> QED BY <1>9, <4>1, Zenon
    <3> QED BY <3>1, Zenon DEF build_value, t
  <2>2. a < t \/ (int_mode = "2COMP" /\ a = t) BY <1>1, <1>2, <1>3, <1>9 DEF Modes, Unsigned
  <2>3. a < t => a % t = a BY <1>1, Remainders
  <2> HIDE DEF v
  <2>4. v = CASE int_mode = "2COMP" -> IF a = 0 THEN 0 ELSE 2 * t - a
              [] int_mode = "1COMP" -> 2 * t - 1 - a
              [] int_mode = "SGNMANT" -> a + t
    <3>1. CASE int_mode = "2COMP" BY <1>1, <1>4, <1>5, <1>7, <2>1, <3>1
    <3>2. CASE int_mode = "1COMP" BY <1>1, <1>4, <1>5, <1>7, <2>1, <3>2
    <3>3. CASE int_mode = "SGNMANT" BY <1>1, <2>1, <2>2, <2>3, <3>3
    <3> QED BY <1>1, <1>9, <3>1, <3>2, <3>3 DEF Modes, Unsigned
  <2>5. IsWord(v) BY <1>1, <1>9, <2>2, <2>4 DEF IsWord, Modes, Unsigned, t
  <2>6. /\ v \in Int /\ v >= 0 /\ v < 2 * t /\ magnitude(v) \in Int
        /\ sign(v) \in {0, 1} /\ Signed(v) = (IF sign(v) = 1 THEN -magnitude(v) ELSE magnitude(v))
        /\ int_mode # "UNSIGNED" /\ v < t => sign(v) = 0 /\ magnitude(v) = v
        /\ int_mode # "UNSIGNED" /\ v >= t => sign(v) = 1
        /\ int_mode = "2COMP" /\ v >= t => magnitude(v) = 2 * t - v
        /\ int_mode = "1COMP" /\ v >= t => magnitude(v) = 2 * t - 1 - v
        /\ int_mode = "SGNMANT" /\ v >= t => magnitude(v) = v - t BY <2>5, NumbersOfWords DEF t
  <2>7. Signed(v) = -a BY <1>1, <1>9, <2>2, <2>4, <2>6 DEF Modes, Unsigned
  <2> QED BY <1>9, <2>5, <2>7 DEF v
<1> QED BY <1>8, <1>9

LEMMA SignChangeTold ==
    ASSUME WordsFit, NEW x, IsWord(x)
    PROVE  /\ Unsigned \/ Told(intChs(x), -Signed(x))
           /\ Told(intAbs(x), IF Signed(x) < 0 THEN -Signed(x) ELSE Signed(x))
<1> DEFINE t == topbit_mask
           a == magnitude(x)
           n == Signed(x)
<1>1. t \in Nat \ {0} /\ int_mode \in Modes BY TopBit
<1>2. /\ x \in Int /\ x >= 0 /\ x < 2 * t /\ a \in Int
      /\ sign(x) \in {0, 1} /\ n = (IF sign(x) = 1 THEN -a ELSE a)
      /\ int_mode = "UNSIGNED" => sign(x) = 0 /\ a = x
      /\ int_mode # "UNSIGNED" /\ x < t => sign(x) = 0 /\ a = x
      /\ int_mode # "UNSIGNED" /\ x >= t => sign(x) = 1
      /\ int_mode = "2COMP" /\ x >= t => a = 2 * t - x
      /\ int_mode = "1COMP" /\ x >= t => a = 2 * t - 1 - x
      /\ int_mode = "SGNMANT" /\ x >= t => a = x - t BY NumbersOfWords
<1>3. /\ MinInt \in Int /\ MaxInt \in Int
      /\ int_mode = "UNSIGNED" => MinInt = 0 /\ MaxInt = 2 * t - 1
      /\ int_mode = "2COMP" => MinInt = -t /\ MaxInt = t - 1
      /\ int_mode \in {"1COMP", "SGNMANT"} => MinInt = 1 - t /\ MaxInt = t - 1 BY RangeIs
<1>4. a \in Nat /\ n \in Int /\ (n < 0 => n = -a) /\ (~(n < 0) => n = a)
  <2> HIDE DEF t, a, n
  <2> QED BY <1>1, <1>2 DEF Modes
<1>5. CASE int_mode = "2COMP" /\ x = t
  <2>1. intChs(x).o = 1 /\ intAbs(x).o = 1 BY <1>5 DEF intChs, intAbs, Result, t
  <2>2. n = -t
    <3> HIDE DEF t, a, n
    <3> QED BY <1>1, <1>2, <1>5
  <2> HIDE DEF t, n
  <2>3. ~InRange(-n) /\ n < 0 BY <1>1, <1>3, <1>5, <2>2 DEF InRange
  <2> QED BY <2>1, <2>3 DEF Told, n
<1>6. CASE ~(int_mode = "2COMP" /\ x = t)
  <2> HIDE DEF t, n, a
  <2>1. a <= MaxInt /\ (~Unsigned => InRange(-n))
    BY <1>1, <1>2, <1>3, <1>6 DEF InRange, Modes, Unsigned
  <2>2. Told(intAbs(x), IF n < 0 THEN -n ELSE n)
    <3> DEFINE v == build_value(a, 0)
    <3>1. intAbs(x).o = 0 /\ intAbs(x).v = v BY <1>6 DEF intAbs, Result, t, a
    <3>2. InRange(a) BY <1>1, <1>3, <1>4, <2>1 DEF InRange, Modes
    <3>3. Signed(v) = a
      <4> DEFINE g == 0
      <4>1. g \in {0, 1} /\ (Unsigned => g = 0) /\ InRange(IF g = 1 THEN -a ELSE a) BY <3>2
      <4>2. Signed(build_value(a, g)) = (IF g = 1 THEN -a ELSE a)
        <5> HIDE DEF g
        <5> QED BY <1>4, <4>1, WordsBuilt
      <4> QED BY <4>2
    <3>4. a = IF n < 0 THEN -n ELSE n BY <1>2, <1>4
    <3> HIDE DEF v
    <3> QED BY <3>1, <3>2, <3>3, <3>4 DEF Told
  <2>3. ASSUME ~Unsigned PROVE Told(intChs(x), -n)
    <3> DEFINE g == 1 - sign(x)
               v == build_value(a, g)
    <3>1. intChs(x).o = 0 /\ intChs(x).v = v BY <1>6, <2>3 DEF intChs, Result, t, a
    <3>2. g \in {0, 1} /\ -n = IF g = 1 THEN -a ELSE a BY <1>2, <1>4
    <3> HIDE DEF g
    <3>3. InRange(IF g = 1 THEN -a ELSE a) BY <2>1, <2>3, <3>2
    <3>4. Signed(v) = -n BY <1>4, <2>3, <3>2, <3>3, WordsBuilt
    <3> HIDE DEF v
    <3> QED BY <2>1, <2>3, <3>1, <3>4 DEF Told
  <2> QED BY <2>2, <2>3 DEF n
<1> QED BY <1>5, <1>6

(* Sums, differences, absolute values and changes of sign are exact or report *)
(* an overflow, for words of any size in each of the four modes.             *)
THEOREM SumsAreTold == Spec => []SumsTold
<1>1. WordsFit => SumsTold
  <2> SUFFICES ASSUME WordsFit PROVE SumsTold OBVIOUS
  <2>1. IsWord(X) /\ IsWord(Y) BY DEF WordsFit, IsWord
  <2>2. /\ Told(intAdd(Y, X), Signed(Y) + Signed(X))
        /\ Told(intSubtract(Y, X), Signed(Y) - Signed(X)) BY <2>1, AdditionTold, SubtractionTold
  <2>3. /\ Unsigned \/ Told(intChs(X), -Signed(X))
        /\ Told(intAbs(X), IF Signed(X) < 0 THEN -Signed(X) ELSE Signed(X)) BY <2>1, SignChangeTold
  <2>4. ASSUME int_mode \in {"UNSIGNED", "2COMP"}
        PROVE  /\ intAdd(Y, X).v = mask_value(Y + X)
               /\ intSubtract(Y, X).v = mask_value(Y - X)
    <3>1. int_mode # "SGNMANT" /\ int_mode # "1COMP" BY <2>4
    <3>2. Y + X + 0 = Y + X /\ Y - X - 0 = Y - X
      <4>1. topbit_mask \in Int BY TopBit
      <4>2. X \in Int /\ Y \in Int BY <2>1, <4>1 DEF IsWord
      <4> QED BY <4>2
    <3> QED BY <3>1, <3>2 DEF intAdd, intSubtract, Result
  <2> QED BY <2>2, <2>3, <2>4 DEF SumsTold
<1> QED BY <1>1, RegistersAreWords, PTL

-----
(* Products *)

LEMMA SignsOfProducts ==
    ASSUME NEW a \in Int, NEW b \in Int
    PROVE  /\ a * b \in Int /\ a * b = b * a
           /\ (-a) * b = -(a * b) /\ a * (-b) = -(a * b) /\ (-a) * (-b) = a * b
BY SMT

LEMMA ProductsGrow ==
    ASSUME NEW a \in Nat, NEW b \in Nat
    PROVE  a * b \in Nat /\ (b > 0 => a <= a * b) /\ (a > 0 => b <= a * b)
           /\ (a = 0 \/ b = 0 => a * b = 0)
<1>1. a * b \in Nat BY SMT
<1>2. b > 0 => a <= a * b BY SMT
<1>3. a > 0 => b <= a * b BY SMT
<1>4. a = 0 \/ b = 0 => a * b = 0 BY SMT
<1> QED BY <1>1, <1>2, <1>3, <1>4

\* Division with remainder.
LEMMA Divided ==
    ASSUME NEW b \in Nat, NEW a \in Nat \ {0}
    PROVE  /\ b \div a \in Nat /\ b % a \in 0 .. a - 1
           /\ b = a * (b \div a) + (b % a) /\ a * (b \div a) \in Nat
           /\ b \div a <= b /\ (a > 1 /\ b > 0 => b \div a < b) /\ (a = 1 => b \div a = b)
           /\ a * (b \div a) = (b \div a) * a
<1> DEFINE q == b \div a
           r == b % a
<1>1. q \in Nat /\ r \in 0 .. a - 1 /\ b = a * q + r BY SMT
<1> HIDE DEF q, r
<1>2. a * q \in Nat /\ q <= a * q /\ a * q = q * a BY <1>1, SMT
<1>3. a > 1 /\ q > 0 => q < a * q BY <1>1, SMT
<1>4. a = 1 => a * q = q BY <1>1, SMT
<1> QED BY <1>1, <1>2, <1>3, <1>4, SMT DEF q, r

LEMMA MaxIs ==
    ASSUME WordsFit
    PROVE  MaxInt \in Int /\ MaxInt = (IF Unsigned THEN 2 * topbit_mask - 1 ELSE topbit_mask - 1)
BY TopBit DEF MaxInt

\* The product of two magnitudes is flagged if and only if it is no magnitude.
LEMMA ProductOfMagnitudes ==
    ASSUME WordsFit, NEW a \in Nat, NEW b \in Nat
    PROVE  LET u == multiply_with_overflow(a, b, 0)
           IN  /\ u[2] = Bit(a * b > MaxInt)
               /\ a * b <= MaxInt => u[1] = a * b
<1> DEFINE t == topbit_mask
           p == a * b
           w == mask_value(p)
           u == multiply_with_overflow(a, b, 0)
<1>1. t \in Nat \ {0} BY TopBit
<1>2. p \in Nat BY ProductsGrow
<1>3. MaxInt \in Int /\ MaxInt = IF Unsigned THEN 2 * t - 1 ELSE t - 1 BY MaxIs
<1>4. w \in 0 .. 2 * t - 1 /\ (p < 2 * t => w = p)
  <2> HIDE DEF p
  <2> QED BY <1>2, Masks
<1>5. u = <<w, Bit(0 = 1 \/ (b # 0 /\ ((~Unsigned /\ IsTop(w)) \/ w \div b # a)))>>
  BY DEF multiply_with_overflow
<1>6. IsTop(w) <=> w >= t
  <2> HIDE DEF w, t
  <2>1. w \in Int /\ w >= 0 /\ w <= 2 * t /\ w < 2 * t BY <1>1, <1>4
  <2> QED BY <1>1, <2>1, TopOfSum DEF t
<1>7. ASSUME b # 0, p < 2 * t PROVE w \div b = a
  <2>1. w = p BY <1>4, <1>7
  <2>2. w = b * a + 0 /\ b \in Nat \ {0} /\ 0 \in 0 .. b - 1 /\ a \in Int
    <3>1. p = b * a /\ b * a \in Int BY SignsOfProducts
    <3> HIDE DEF w
    <3> QED BY <1>7, <2>1, <3>1
  <2> HIDE DEF w
  <2> QED BY <2>2, QuotientIs
<1>8. ASSUME p >= 2 * t PROVE b # 0 /\ w \div b # a
  <2>1. b # 0
    <3>1. b = 0 => p = 0 BY ProductsGrow
    <3> HIDE DEF p, t
    <3> QED BY <1>1, <1>8, <3>1
  <2>2. w \div b = a => w >= p
    <3>1. w \in Nat /\ b \in Nat \ {0} BY <1>1, <1>4, <2>1
    <3> HIDE DEF w
    <3>2. w \div b \in Nat /\ w % b \in 0 .. b - 1 /\ w = b * (w \div b) + (w % b) BY <3>1, Divided
    <3>3. b * a = p /\ b * a \in Nat BY SignsOfProducts, ProductsGrow
    <3> HIDE DEF p
    <3> QED BY <3>1, <3>2, <3>3
  <2> HIDE DEF w, p, t
  <2> QED BY <1>1, <1>2, <1>4, <1>8, <2>1, <2>2
<1>9. u[1] = w /\ u[2] = Bit(b # 0 /\ ((~Unsigned /\ IsTop(w)) \/ w \div b # a))
  <2>1. ~(0 = 1) OBVIOUS
  <2> HIDE DEF w
  <2> QED BY <1>5, <2>1
<1>10. b = 0 => p = 0 BY ProductsGrow
<1>11. (b # 0 /\ ((~Unsigned /\ IsTop(w)) \/ w \div b # a)) <=> p > MaxInt
  <2> DEFINE e == w \div b
  <2> HIDE DEF w, p, t, e
  <2>1. CASE p >= 2 * t
    <3>1. p > MaxInt BY <1>1, <1>2, <1>3, <2>1
    <3> QED BY <1>8, <2>1, <3>1
  <2>2. CASE p < 2 * t
    <3>1. w = p BY <1>4, <2>2
    <3>2. CASE b = 0 BY <1>1, <1>3, <1>10, <3>2
    <3>3. CASE b # 0
      <4>1. w \div b = a BY <1>7, <2>2, <3>3
      <4> QED BY <1>1, <1>2, <1>3, <1>6, <2>2, <3>1, <3>3, <4>1
    <3> QED BY <3>2, <3>3
  <2> QED BY <1>1, <1>2, <2>1, <2>2
<1>12. p <= MaxInt => w = p
  <2> HIDE DEF w, p, t
  <2> QED BY <1>1, <1>2, <1>3, <1>4
<1> HIDE DEF w, p, u
<1> QED BY <1>9, <1>11, <1>12, Zenon DEF Bit, p, u

\* The sign and the magnitude of a word make up its number.
LEMMA NumberIs ==
    ASSUME WordsFit, NEW w, IsWord(w)
    PROVE  /\ magnitude(w) \in Nat /\ sign(w) \in {0, 1} /\ Signed(w) \in Int
           /\ Signed(w) = (IF sign(w) = 1 THEN -magnitude(w) ELSE magnitude(w))
<1>1. magnitude(w) \in Nat /\ sign(w) \in {0, 1} BY Magnitudes
<1> QED BY <1>1 DEF Signed

LEMMA MultiplicationTold ==
    ASSUME WordsFit, NEW y, NEW x, IsWord(y), IsWord(x)
    PROVE  /\ ToldNearly(intMultiply(y, x), Signed(y) * Signed(x))
           /\ intMultiply(y, x).o = Bit(magnitude(x) * magnitude(y) > MaxInt)
<1> DEFINE t == topbit_mask
           a == magnitude(x)
           b == magnitude(y)
           p == a * b
           g == (sign(x) + sign(y)) % 2
           n == Signed(y) * Signed(x)
           u == multiply_with_overflow(a, b, 0)
           r == intMultiply(y, x)
<1>1. t \in Nat \ {0} /\ int_mode \in Modes BY TopBit
<1>2. /\ a \in Nat /\ sign(x) \in {0, 1}
      /\ Signed(x) = (IF sign(x) = 1 THEN -a ELSE a)
      /\ b \in Nat /\ sign(y) \in {0, 1}
      /\ Signed(y) = (IF sign(y) = 1 THEN -b ELSE b) BY NumberIs
<1>3. Unsigned => sign(x) = 0 /\ sign(y) = 0 BY Magnitudes
<1> HIDE DEF a, b
<1>4. p \in Nat BY <1>2, ProductsGrow
<1>5. g = (IF sign(x) = sign(y) THEN 0 ELSE 1) /\ g \in {0, 1} BY <1>2
<1>6. n = IF g = 1 THEN -p ELSE p
  <2>1. /\ b * a = p /\ (-b) * a = -p /\ b * (-a) = -p /\ (-b) * (-a) = p
    <3>1. a \in Int /\ b \in Int BY <1>2
    <3>2. b * a = p /\ (-b) * a = -(b * a) /\ b * (-a) = -(b * a) /\ (-b) * (-a) = b * a
      BY <3>1, SignsOfProducts
    <3> QED BY <3>2
  <2> HIDE DEF p, g
  <2> QED BY <1>2, <1>5, <2>1
<1>7. u[2] = Bit(p > MaxInt) /\ (p <= MaxInt => u[1] = p) BY <1>2, ProductOfMagnitudes
<1>8. r.o = u[2] /\ r.v = IF Unsigned THEN u[1] ELSE build_value(u[1] % t, g)
  <2> HIDE DEF u, g
  <2> QED BY DEF intMultiply, Result, u, g, a, b, t
<1>9. /\ MinInt \in Int /\ MaxInt \in Int
      /\ int_mode = "UNSIGNED" => MinInt = 0 /\ MaxInt = 2 * t - 1
      /\ int_mode = "2COMP" => MinInt = -t /\ MaxInt = t - 1
      /\ int_mode \in {"1COMP", "SGNMANT"} => MinInt = 1 - t /\ MaxInt = t - 1 BY RangeIs
<1> HIDE DEF p, g, n, u, r, t
<1>10. CASE p > MaxInt
  <2>1. r.o = 1 BY <1>7, <1>8, <1>10 DEF Bit
  <2>2. ~InRange(n) \/ n = -t
    BY <1>1, <1>3, <1>4, <1>5, <1>6, <1>9, <1>10 DEF InRange, Modes, Unsigned
  <2> QED BY <1>10, <2>1, <2>2 DEF ToldNearly, Told, t, n, r, p, a, b, Bit
<1>11. CASE p <= MaxInt
  <2>1. r.o = 0 /\ u[1] = p BY <1>4, <1>7, <1>8, <1>9, <1>11 DEF Bit
  <2>2. InRange(n) /\ (Unsigned => g = 0)
    BY <1>1, <1>3, <1>4, <1>5, <1>6, <1>9, <1>11 DEF InRange, Modes, Unsigned
  <2>3. Signed(r.v) = n
    <3>1. CASE Unsigned
      <4>1. r.v = p /\ n = p BY <1>6, <1>8, <2>1, <2>2, <3>1
      <4>2. p \in Int /\ p >= 0 /\ p < 2 * t BY <1>1, <1>4, <1>9, <1>11, <3>1 DEF Unsigned
      <4>3. IsWord(p) BY <1>1, <4>2 DEF IsWord, t
      <4>4. Reads(p) BY <4>3, WordsRead DEF IsWord
      <4> QED BY <3>1, <4>1, <4>4 DEF Reads
    <3>2. CASE ~Unsigned
      <4>1. p % t = p
        <5>1. p \in Int /\ p >= 0 /\ p < t BY <1>1, <1>4, <1>9, <1>11, <3>2 DEF Modes, Unsigned
        <5> QED BY <1>1, <5>1, Remainders
      <4>2. r.v = build_value(p, g) BY <1>8, <2>1, <3>2, <4>1
      <4> QED BY <1>4, <1>5, <1>6, <2>2, <4>2, WordsBuilt
    <3> QED BY <3>1, <3>2
  <2>4. ~(p > MaxInt) BY <1>4, <1>9, <1>11
  <2> QED BY <2>1, <2>2, <2>3, <2>4 DEF ToldNearly, Told, n, r, p, a, b, Bit
<1> QED BY <1>4, <1>9, <1>10, <1>11

-----
(* Quotients and remainders of words *)

\* What a word's magnitude may be.
LEMMA MagnitudeRange ==
    ASSUME WordsFit, NEW w, IsWord(w)
    PROVE  LET t == topbit_mask
               a == magnitude(w)
           IN  /\ a < 2 * t
               /\ ~Unsigned => a <= t
               /\ ~Unsigned /\ a = t <=> int_mode = "2COMP" /\ w = t
               /\ int_mode = "2COMP" /\ w = t => sign(w) = 1
<1> DEFINE t == topbit_mask
           a == magnitude(w)
<1>1. t \in Nat \ {0} /\ int_mode \in Modes BY TopBit
<1>2. /\ w \in Int /\ w >= 0 /\ w < 2 * t /\ a \in Int
      /\ int_mode = "UNSIGNED" => sign(w) = 0 /\ a = w
      /\ int_mode # "UNSIGNED" /\ w < t => sign(w) = 0 /\ a = w
      /\ int_mode # "UNSIGNED" /\ w >= t => sign(w) = 1
      /\ int_mode = "2COMP" /\ w >= t => a = 2 * t - w
      /\ int_mode = "1COMP" /\ w >= t => a = 2 * t - 1 - w
      /\ int_mode = "SGNMANT" /\ w >= t => a = w - t BY NumbersOfWords
<1> HIDE DEF t, a
<1>3. a < 2 * t /\ (~Unsigned => a <= t) BY <1>1, <1>2 DEF Modes, Unsigned
<1>4. ~Unsigned /\ a = t <=> int_mode = "2COMP" /\ w = t
  <2>1. CASE int_mode = "2COMP" BY <1>1, <1>2, <2>1 DEF Unsigned
  <2>2. CASE int_mode \in {"1COMP", "SGNMANT"} BY <1>1, <1>2, <2>2 DEF Unsigned
  <2>3. CASE Unsigned BY <2>3 DEF Unsigned
  <2> QED BY <1>1, <2>1, <2>2, <2>3 DEF Modes, Unsigned
<1>5. int_mode = "2COMP" /\ w = t => sign(w) = 1 BY <1>1, <1>2
<1> QED BY <1>3, <1>4, <1>5 DEF t, a

\* A magnitude below the top bit, with any sign, is in range.
LEMMA SmallInRange ==
    ASSUME WordsFit, NEW a \in Nat, NEW g \in {0, 1},
           a < topbit_mask \/ (Unsigned /\ a < 2 * topbit_mask), Unsigned => g = 0
    PROVE  InRange(IF g = 1 THEN -a ELSE a)
<1> DEFINE t == topbit_mask
<1>1. t \in Nat \ {0} /\ int_mode \in Modes BY TopBit
<1>2. /\ MinInt \in Int /\ MaxInt \in Int
      /\ int_mode = "UNSIGNED" => MinInt = 0 /\ MaxInt = 2 * t - 1
      /\ int_mode = "2COMP" => MinInt = -t /\ MaxInt = t - 1
      /\ int_mode \in {"1COMP", "SGNMANT"} => MinInt = 1 - t /\ MaxInt = t - 1 BY RangeIs
<1> HIDE DEF t
<1>3. a < t \/ (Unsigned /\ a < 2 * t) BY DEF t
<1> QED BY <1>1, <1>2, <1>3 DEF InRange, Modes, Unsigned

LEMMA RemainderTold ==
    ASSUME WordsFit, NEW y, NEW x, IsWord(y), IsWord(x), magnitude(x) # 0
    PROVE  LET a == magnitude(x)
               b == magnitude(y)
           IN  Signed(intMod(y, x, FALSE).v) = IF sign(y) = 1 THEN -(b % a) ELSE b % a
<1> DEFINE t == topbit_mask
           a == magnitude(x)
           b == magnitude(y)
           r == b % a
<1>1. t \in Nat \ {0} BY TopBit
<1>2. a \in Nat \ {0} /\ b \in Nat /\ sign(y) \in {0, 1} BY NumberIs
<1>3. r \in Nat /\ r < a
  <2>1. r \in 0 .. a - 1
    <3> HIDE DEF a, b
    <3> QED BY <1>2, Divided
  <2> HIDE DEF r, a
  <2> QED BY <1>2, <2>1
<1>4. a < 2 * t /\ (~Unsigned => a <= t) /\ (Unsigned => sign(y) = 0) BY MagnitudeRange, Magnitudes
<1>5. intMod(y, x, FALSE).v = build_value(r, sign(y)) BY DEF intMod, Result
<1> HIDE DEF a, b, r, t
<1>6. r < t \/ (Unsigned /\ r < 2 * t) BY <1>1, <1>2, <1>3, <1>4
<1>7. InRange(IF sign(y) = 1 THEN -r ELSE r) BY <1>2, <1>3, <1>4, <1>6, SmallInRange DEF t
<1>8. Signed(build_value(r, sign(y))) = IF sign(y) = 1 THEN -r ELSE r
  BY <1>2, <1>3, <1>4, <1>7, WordsBuilt
<1> QED BY <1>5, <1>8 DEF a, b, r

LEMMA ModuloTold ==
    ASSUME WordsFit, NEW y, NEW x, IsWord(y), IsWord(x), magnitude(x) # 0
    PROVE  LET a == magnitude(x)
               b == magnitude(y)
               k == IF sign(x) = sign(y) \/ b % a = 0 THEN b % a ELSE a - (b % a)
           IN  Signed(intMod(y, x, TRUE).v) = IF sign(x) = 1 THEN -k ELSE k
<1> DEFINE t == topbit_mask
           a == magnitude(x)
           b == magnitude(y)
           r == b % a
           k == IF sign(x) = sign(y) \/ r = 0 THEN r ELSE a - r
<1>1. t \in Nat \ {0} BY TopBit
<1>2. a \in Nat \ {0} /\ b \in Nat /\ sign(x) \in {0, 1} BY NumberIs
<1>3. r \in Nat /\ r < a
  <2>1. r \in 0 .. a - 1
    <3> HIDE DEF a, b
    <3> QED BY <1>2, Divided
  <2> HIDE DEF r, a
  <2> QED BY <1>2, <2>1
<1>4. a < 2 * t /\ (~Unsigned => a <= t) /\ (Unsigned => sign(x) = 0) BY MagnitudeRange, Magnitudes
<1>5. intMod(y, x, TRUE).v = build_value(k, sign(x))
  <2> HIDE DEF r
  <2>1. CASE sign(x) = sign(y) BY <2>1 DEF intMod, Result, r
  <2>2. CASE sign(x) # sign(y) BY <2>2 DEF intMod, Result, r
  <2> QED BY <2>1, <2>2
<1> HIDE DEF a, b, r, t
<1>6. k \in Nat /\ k < a BY <1>2, <1>3
<1> HIDE DEF k
<1>7. k < t \/ (Unsigned /\ k < 2 * t) BY <1>1, <1>2, <1>4, <1>6
<1>8. InRange(IF sign(x) = 1 THEN -k ELSE k) BY <1>2, <1>4, <1>6, <1>7, SmallInRange DEF t
<1>9. Signed(build_value(k, sign(x))) = IF sign(x) = 1 THEN -k ELSE k
  BY <1>2, <1>4, <1>6, <1>8, WordsBuilt
<1> QED BY <1>5, <1>9 DEF a, b, r, k

\* The quotient: its carry, its overflow and its number.
LEMMA QuotientTold ==
    ASSUME WordsFit, NEW y, NEW x, IsWord(y), IsWord(x), magnitude(x) # 0
    PROVE  LET t == topbit_mask
               a == magnitude(x)
               b == magnitude(y)
               q == b \div a
               r == intDivide(y, x)
           IN  /\ r.o = Bit(int_mode = "2COMP" /\ sign(x) = 1 /\ a = 1 /\ y = t)
               /\ r.c = Bit(b % a # 0 \/ (int_mode = "2COMP" /\ y = t /\ a = 1))
               /\ r.o = 0 => Signed(r.v) = IF sign(x) = sign(y) THEN q ELSE -q
<1> DEFINE t == topbit_mask
           a == magnitude(x)
           b == magnitude(y)
           q == b \div a
           s == b % a
           w == mask_value(q)
           g == (sign(x) + sign(y)) % 2
           r == intDivide(y, x)
<1>1. t \in Nat \ {0} BY TopBit
<1>2. a \in Nat \ {0} /\ b \in Nat /\ sign(x) \in {0, 1} /\ sign(y) \in {0, 1} BY NumberIs
<1>3. /\ q \in Nat /\ s \in 0 .. a - 1 /\ b = a * q + s /\ a * q \in Nat /\ a * q = q * a
      /\ q <= b /\ (a > 1 /\ b > 0 => q < b) /\ (a = 1 => q = b)
  <2> HIDE DEF a, b
  <2> QED BY <1>2, Divided
<1>4. /\ b < 2 * t /\ (~Unsigned => b <= t)
      /\ ~Unsigned /\ b = t <=> int_mode = "2COMP" /\ y = t
      /\ int_mode = "2COMP" /\ y = t => sign(y) = 1 BY MagnitudeRange
<1>5. Unsigned => sign(x) = 0 /\ sign(y) = 0 BY Magnitudes
<1>6. w = q
  <2> HIDE DEF t, b, q
  <2>1. q \in Int /\ q >= 0 /\ q < 2 * t BY <1>1, <1>2, <1>3, <1>4
  <2> QED BY <2>1, Masks DEF t
<1>7. /\ r.v = build_value(w, g)
      /\ r.c = Bit(w * a # b \/ (~Unsigned /\ IsTop(w)))
      /\ r.o = Bit(int_mode = "2COMP" /\ sign(x) = 1 /\ a = 1 /\ y = t) BY DEF intDivide, Result
<1> HIDE DEF t, a, b, q, s, w, r
<1>8. g = (IF sign(x) = sign(y) THEN 0 ELSE 1) /\ g \in {0, 1} BY <1>2
<1>9. IsTop(w) <=> q >= t
  <2>1. q \in Int /\ q >= 0 /\ q <= 2 * t /\ q < 2 * t BY <1>1, <1>2, <1>3, <1>4
  <2> QED BY <1>1, <1>6, <2>1, TopOfSum DEF t
<1> HIDE DEF g
<1>10. ~Unsigned => (q >= t <=> int_mode = "2COMP" /\ y = t /\ a = 1)
  <2> SUFFICES ASSUME ~Unsigned PROVE q >= t <=> b = t /\ a = 1 BY <1>4
  <2>1. CASE a = 1 BY <1>1, <1>2, <1>3, <1>4, <2>1
  <2>2. CASE a > 1
    <3>1. b > 0 => q < b BY <1>3, <2>2
    <3> QED BY <1>1, <1>2, <1>3, <1>4, <2>2, <3>1
  <2> QED BY <1>2, <2>1, <2>2
<1>11. int_mode = "2COMP" => ~Unsigned BY DEF Unsigned
<1>12. w * a # b <=> s # 0 BY <1>2, <1>3, <1>6
<1>13. r.c = Bit(s # 0 \/ (int_mode = "2COMP" /\ y = t /\ a = 1)) BY <1>7, <1>9, <1>10, <1>11, <1>12
<1>14. ASSUME r.o = 0 PROVE Signed(r.v) = IF g = 1 THEN -q ELSE q
  <2>1. ~(int_mode = "2COMP" /\ sign(x) = 1 /\ a = 1 /\ y = t) BY <1>7, <1>14 DEF Bit
  <2>2. Unsigned => g = 0 BY <1>5, <1>8
  <2>3. InRange(IF g = 1 THEN -q ELSE q)
    <3>1. CASE q < t \/ Unsigned
      <4>1. q < t \/ (Unsigned /\ q < 2 * t) BY <1>1, <1>2, <1>3, <1>4, <3>1
      <4> QED BY <1>3, <1>8, <2>2, <4>1, SmallInRange DEF t
    <3>2. CASE ~(q < t) /\ ~Unsigned
      <4>1. int_mode = "2COMP" /\ y = t /\ a = 1 /\ q = t BY <1>1, <1>3, <1>4, <1>10, <3>2
      <4>2. g = 1 BY <1>2, <1>4, <1>8, <2>1, <4>1
      <4>3. MinInt = -t /\ MaxInt = t - 1 BY <4>1, RangeIs DEF t
      <4> QED BY <1>1, <4>1, <4>2, <4>3 DEF InRange
    <3> QED BY <3>1, <3>2
  <2> QED BY <1>3, <1>6, <1>7, <1>8, <2>2, <2>3, WordsBuilt
<1>15. r.o = 0 => Signed(r.v) = IF sign(x) = sign(y) THEN q ELSE -q
  <2>1. 1 # 0 OBVIOUS
  <2> QED BY <1>8, <1>14, <2>1, Zenon
<1> QED BY <1>7, <1>13, <1>15, Zenon DEF t, a, b, q, s, r

-----
(* The greatest common divisor *)

LEMMA Multiples ==
    ASSUME NEW d \in Nat \ {0}, NEW k \in Int
    PROVE  (d * k) % d = 0 /\ (d * k) \div d = k
<1>1. d * k + 0 = d * k /\ 0 \in 0 .. d - 1 BY SMT
<1> QED BY <1>1, QuotientIs

LEMMA DividesIs ==
    ASSUME NEW d \in Nat \ {0}, NEW n \in Nat
    PROVE  /\ Divides(d, n) => n \div d \in Nat /\ n = d * (n \div d)
           /\ \A k \in Int : n = d * k => Divides(d, n)
           /\ Divides(d, n) /\ n > 0 => d <= n
           /\ Divides(n + 1, n) => n = 0
           /\ Divides(d, 0)
<1>1. Divides(d, n) => n \div d \in Nat /\ n = d * (n \div d)
  <2>1. n \div d \in Nat /\ n % d \in 0 .. d - 1 /\ n = d * (n \div d) + (n % d)
        /\ d * (n \div d) \in Nat BY Divided
  <2> DEFINE q == n \div d
             r == n % d
  <2> HIDE DEF q, r
  <2>2. r = 0 => q \in Nat /\ n = d * q BY <2>1 DEF q, r
  <2> QED BY <2>2 DEF q, r, Divides
<1>2. \A k \in Int : n = d * k => Divides(d, n) BY Multiples DEF Divides
<1>3. Divides(d, n) /\ n > 0 => d <= n
  <2> DEFINE q == n \div d
  <2>1. Divides(d, n) => q \in Nat /\ n = d * q BY <1>1
  <2> HIDE DEF q
  <2>2. q \in Nat /\ q > 0 => d <= d * q BY ProductsGrow
  <2>3. q = 0 => d * q = 0 BY SMT
  <2> QED BY <2>1, <2>2, <2>3
<1>4. Divides(n + 1, n) => n = 0
  <2>1. n + 1 \in Nat \ {0} /\ n >= 0 /\ n < n + 1 /\ n \in Int OBVIOUS
  <2>2. n % (n + 1) = n BY <2>1, Remainders
  <2> QED BY <2>2 DEF Divides
<1>5. Divides(d, 0)
  <2>1. 0 \in Int /\ 0 >= 0 /\ 0 < d OBVIOUS
  <2>2. 0 % d = 0 BY <2>1, Remainders
  <2> QED BY <2>2 DEF Divides
<1> QED BY <1>1, <1>2, <1>3, <1>4, <1>5

\* The divisors of a number tell it.
LEMMA SameDivisors ==
    ASSUME NEW g \in Nat, NEW a \in Nat,
           \A d \in Nat \ {0} : Divides(d, a) <=> Divides(d, g)
    PROVE  g = a
<1>1. CASE g = 0
  <2>1. a + 1 \in Nat \ {0} OBVIOUS
  <2>2. Divides(a + 1, a) BY <1>1, <2>1, DividesIs
  <2> QED BY <1>1, <2>2, DividesIs
<1>2. CASE a = 0
  <2>1. g + 1 \in Nat \ {0} OBVIOUS
  <2>2. Divides(g + 1, g) BY <1>2, <2>1, DividesIs
  <2> QED BY <1>2, <2>2, <2>1, DividesIs
<1>3. CASE g # 0 /\ a # 0
  <2>1. g \in Nat \ {0} /\ a \in Nat \ {0} /\ g > 0 /\ a > 0 BY <1>3
  <2>2. Divides(a, a) /\ Divides(g, g)
    <3>1. a = a * 1 /\ g = g * 1 /\ 1 \in Int OBVIOUS
    <3> QED BY <2>1, <3>1, DividesIs
  <2>3. Divides(a, g) /\ Divides(g, a) BY <2>1, <2>2
  <2>4. a <= g /\ g <= a BY <2>1, <2>3, DividesIs
  <2> QED BY <2>4
<1> QED BY <1>1, <1>2, <1>3

\* A step of Euclid's algorithm keeps the common divisors.
LEMMA EuclidStep ==
    ASSUME NEW a \in Nat, NEW b \in Nat \ {0}, NEW d \in Nat \ {0}
    PROVE  Divides(d, a) /\ Divides(d, b) <=> Divides(d, b) /\ Divides(d, a % b)
<1> DEFINE q == a \div b
           r == a % b
<1>1. q \in Nat /\ r \in 0 .. b - 1 /\ a = b * q + r /\ b * q \in Nat BY Divided
<1> HIDE DEF q, r
<1>2. r \in Nat BY <1>1
<1> SUFFICES ASSUME Divides(d, b) PROVE Divides(d, a) <=> Divides(d, r) BY DEF r
<1> DEFINE k == b \div d
<1>3. k \in Nat /\ b = d * k BY DividesIs
<1> HIDE DEF k
<1>4. b * q = d * (k * q) /\ k * q \in Nat BY <1>1, <1>3, SMT
<1>5. ASSUME Divides(d, a) PROVE Divides(d, r)
  <2> DEFINE m == a \div d
  <2>1. m \in Nat /\ a = d * m BY <1>5, DividesIs
  <2> HIDE DEF m
  <2> DEFINE e == k * q
  <2>2. e \in Nat /\ b * q = d * e BY <1>4
  <2> HIDE DEF e
  <2>3. d * (m - e) = d * m - d * e /\ m - e \in Int BY <2>1, <2>2, SMT
  <2>4. d * m = d * e + r BY <1>1, <2>1, <2>2
  <2>5. d * m \in Int /\ d * e \in Int BY <2>1, <2>2
  <2>6. r = d * (m - e) BY <1>2, <2>3, <2>4, <2>5
  <2> QED BY <1>2, <2>3, <2>6, DividesIs
<1>6. ASSUME Divides(d, r) PROVE Divides(d, a)
  <2> DEFINE m == r \div d
             e == k * q
  <2>1. m \in Nat /\ r = d * m BY <1>2, <1>6, DividesIs
  <2>2. e \in Nat /\ b * q = d * e BY <1>4
  <2> HIDE DEF m, e
  <2>3. d * (e + m) = d * e + d * m /\ e + m \in Int BY <2>1, <2>2, SMT
  <2>4. a = d * (e + m) BY <1>1, <2>1, <2>2, <2>3
  <2> QED BY <2>3, <2>4, DividesIs
<1> QED BY <1>5, <1>6

LEMMA EuclidTurns ==
    /\ \A a \in Nat : int_gcd[0][a] = a
    /\ \A a \in Nat, b \in Nat \ {0} : int_gcd[b][a] = int_gcd[a % b][b]
<1> DEFINE Fix(f) == f = [b \in Nat |-> [a \in Nat |-> IF b = 0 THEN a ELSE f[a % b][b]]]
           Set(a, b) == {g \in Nat : CommonDivisors(g, a, b)}
           G(a, b) == CHOOSE g : g \in Set(a, b)
           h == [b \in Nat |-> [a \in Nat |-> G(a, b)]]
<1>1. ASSUME NEW a \in Nat PROVE G(a, 0) = a
  <2>1. \A g \in Nat : CommonDivisors(g, a, 0) <=> g = a
    <3> TAKE g \in Nat
    <3>1. CommonDivisors(g, a, 0) <=> \A d \in Nat \ {0} : Divides(d, a) <=> Divides(d, g)
      <4>1. \A d \in Nat \ {0} : Divides(d, 0) BY DividesIs
      <4> QED BY <4>1 DEF CommonDivisors
    <3> QED BY <3>1, SameDivisors
  <2>2. \A g : g \in Set(a, 0) <=> g = a BY <2>1
  <2> HIDE DEF Set
  <2> QED BY <2>2
<1>2. ASSUME NEW a \in Nat, NEW b \in Nat \ {0} PROVE G(a, b) = G(b, a % b)
  <2>1. \A g : CommonDivisors(g, a, b) <=> CommonDivisors(g, b, a % b)
    BY EuclidStep DEF CommonDivisors
  <2>2. Set(a, b) = Set(b, a % b) BY <2>1
  <2> HIDE DEF Set
  <2> QED BY <2>2
<1>3. ASSUME NEW a \in Nat, NEW b \in Nat \ {0} PROVE a % b \in Nat
  <2>1. a % b \in 0 .. b - 1 BY Divided
  <2> QED BY <2>1
<1> HIDE DEF G
<1>4. Fix(h)
  <2>1. ASSUME NEW b \in Nat, NEW a \in Nat PROVE G(a, b) = IF b = 0 THEN a ELSE h[a % b][b]
    <3>1. CASE b = 0 BY <1>1, <3>1
    <3>2. CASE b # 0
      <4>1. b \in Nat \ {0} /\ a % b \in Nat BY <1>3, <3>2
      <4>2. h[a % b][b] = G(b, a % b) BY <4>1
      <4> QED BY <1>2, <3>2, <4>1, <4>2
    <3> QED BY <3>1, <3>2
  <2> DEFINE k == h
  <2>2. \A b \in Nat, a \in Nat : G(a, b) = IF b = 0 THEN a ELSE k[a % b][b] BY <2>1
  <2>3. k = [b \in Nat |-> [a \in Nat |-> G(a, b)]] OBVIOUS
  <2> HIDE DEF k
  <2>4. [b \in Nat |-> [a \in Nat |-> G(a, b)]]
            = [b \in Nat |-> [a \in Nat |-> IF b = 0 THEN a ELSE k[a % b][b]]]
    <3>1. ASSUME NEW b \in Nat
          PROVE  [a \in Nat |-> G(a, b)] = [a \in Nat |-> IF b = 0 THEN a ELSE k[a % b][b]] BY <2>2
    <3> QED BY <3>1
  <2>5. Fix(k) BY <2>3, <2>4
  <2> HIDE DEF Fix, h
  <2> QED BY <2>5 DEF k
<1>5. int_gcd = CHOOSE f : Fix(f) BY DEF int_gcd
<1>6. Fix(int_gcd)
  <2> HIDE DEF Fix, h
  <2> QED BY <1>4, <1>5
<1>7. \A b \in Nat : int_gcd[b] = [a \in Nat |-> IF b = 0 THEN a ELSE int_gcd[a % b][b]] BY <1>6
<1>8. \A b \in Nat, a \in Nat : int_gcd[b][a] = IF b = 0 THEN a ELSE int_gcd[a % b][b] BY <1>7
<1> QED BY <1>8

LEMMA GreatestCommonDivisor ==
    ASSUME NEW a \in Nat, NEW b \in Nat
    PROVE  /\ int_gcd[b][a] \in Nat
           /\ CommonDivisors(int_gcd[b][a], a, b)
<1> DEFINE Right(c) == \A e \in Nat : int_gcd[c][e] \in Nat /\ CommonDivisors(int_gcd[c][e], e, c)
           T == {c \in Nat : ~Right(c)}
<1> SUFFICES ASSUME T # {} PROVE FALSE OBVIOUS
<1> HIDE DEF Right
<1>1. PICK c \in T : \A m \in T : c <= m
  <2>1. T \subseteq Nat OBVIOUS
  <2> HIDE DEF T
  <2> QED BY <2>1, LeastNatural
<1>2. c \in Nat /\ ~Right(c) OBVIOUS
<1>3. \A m \in Nat : m < c => Right(m)
  <2> TAKE m \in Nat
  <2> SUFFICES ASSUME m < c, ~Right(m) PROVE FALSE OBVIOUS
  <2>1. c <= m BY <1>1
  <2> QED BY <1>2, <2>1
<1> HIDE DEF T
<1>4. CASE c = 0
  <2>1. ASSUME NEW e \in Nat PROVE CommonDivisors(e, e, 0) BY DividesIs DEF CommonDivisors
  <2>2. Right(0) BY <2>1, EuclidTurns DEF Right
  <2> QED BY <1>2, <1>4, <2>2
<1>5. CASE c # 0
  <2>1. c \in Nat \ {0} BY <1>2, <1>5
  <2>2. ASSUME NEW e \in Nat PROVE int_gcd[c][e] \in Nat /\ CommonDivisors(int_gcd[c][e], e, c)
    <3>1. e % c \in 0 .. c - 1 BY <2>1, Divided
    <3>2. e % c \in Nat /\ e % c < c
      <4> DEFINE r == e % c
      <4> HIDE DEF r
      <4>1. r \in 0 .. c - 1 BY <3>1 DEF r
      <4>2. r \in Nat /\ r < c BY <1>2, <4>1
      <4> QED BY <4>2 DEF r
    <3>3. Right(e % c) BY <1>3, <3>2
    <3>4. int_gcd[e % c][c] \in Nat /\ CommonDivisors(int_gcd[e % c][c], c, e % c)
      BY <1>2, <3>3 DEF Right
    <3>5. int_gcd[c][e] = int_gcd[e % c][c] BY <2>1, EuclidTurns
    <3>6. \A d \in Nat \ {0} : Divides(d, e) /\ Divides(d, c)
                               <=> Divides(d, c) /\ Divides(d, e % c) BY <2>1, EuclidStep
    <3>7. \A d \in Nat \ {0} : Divides(d, c) /\ Divides(d, e % c)
                               <=> Divides(d, int_gcd[e % c][c]) BY <3>4, Zenon DEF CommonDivisors
    <3>8. CommonDivisors(int_gcd[e % c][c], e, c) BY <3>6, <3>7, Zenon DEF CommonDivisors
    <3> QED BY <3>4, <3>5, <3>8
  <2> QED BY <1>2, <2>2 DEF Right
<1> QED BY <1>4, <1>5

-----
(* What a division and the common divisor promise *)

LEMMA SignedDivision ==
    ASSUME NEW a \in Nat \ {0}, NEW b \in Nat, NEW q \in Nat, NEW s \in 0 .. a - 1,
           b = a * q + s, NEW gx \in {0, 1}, NEW gy \in {0, 1}
    PROVE  MakesDividend(a, b, q, s, gx, gy)
<1> DEFINE x == IF gx = 1 THEN -a ELSE a
           y == IF gy = 1 THEN -b ELSE b
           k == IF gx = gy \/ s = 0 THEN s ELSE a - s
           m == IF gx = 1 THEN -k ELSE k
           p == a * q
<1>1. p \in Nat /\ q * a = p /\ q * (-a) = -p /\ (-q) * a = -p /\ (-q) * (-a) = p
      /\ a * (-q) = -p
  <2>1. a \in Int /\ q \in Int OBVIOUS
  <2> QED BY <2>1, ProductsGrow, SignsOfProducts
<1>2. a * (q + 1) = p + a /\ a * (-q - 1) = -p - a BY SMT
<1> DEFINE z == (IF gx = gy THEN q ELSE -q) * x
<1>3. z = IF gy = 1 THEN -p ELSE p
  <2>1. CASE gx = 0
    <3>1. x = a BY <2>1
    <3> HIDE DEF x, p
    <3> QED BY <1>1, <2>1, <3>1
  <2>2. CASE gx = 1
    <3>1. x = -a BY <2>2
    <3> HIDE DEF x, p
    <3> QED BY <1>1, <2>2, <3>1
  <2> QED BY <2>1, <2>2
<1> HIDE DEF z
<1>4. b = p + s OBVIOUS
<1> HIDE DEF p, x
<1>5. z + (IF gy = 1 THEN -s ELSE s) = y BY <1>1, <1>3, <1>4
<1>6. k \in 0 .. a - 1 OBVIOUS
<1>7. \E e \in Int : y - m = a * e
  <2>1. CASE gx = gy
    <3>1. y - m = IF gy = 1 THEN -p ELSE p BY <1>1, <1>4, <2>1
    <3>2. y - m = a * q \/ y - m = a * (-q) BY <1>1, <3>1 DEF p
    <3> QED BY <3>2
  <2>2. CASE gx # gy /\ s = 0
    <3>1. y - m = IF gy = 1 THEN -p ELSE p BY <1>1, <1>4, <2>2
    <3>2. y - m = a * q \/ y - m = a * (-q) BY <1>1, <3>1 DEF p
    <3> QED BY <3>2
  <2>3. CASE gx # gy /\ s # 0
    <3>1. y - m = IF gy = 1 THEN -p - a ELSE p + a BY <1>1, <1>4, <2>3
    <3>2. y - m = a * (q + 1) \/ y - m = a * (-q - 1) BY <1>2, <3>1
    <3>3. q + 1 \in Int /\ -q - 1 \in Int OBVIOUS
    <3> QED BY <3>2, <3>3
  <2> QED BY <2>1, <2>2, <2>3
<1>8. (y - m) % a = 0
  <2>1. PICK e \in Int : y - m = a * e BY <1>7
  <2>2. (a * e) % a = 0 BY Multiples
  <2> QED BY <2>1, <2>2
<1> QED BY <1>5, <1>6, <1>8, Zenon DEF MakesDividend, z, x

LEMMA DivisionTold ==
    ASSUME WordsFit, NEW yw, NEW xw, IsWord(yw), IsWord(xw), Signed(xw) # 0
    PROVE  LET x == Signed(xw)
               y == Signed(yw)
               q == intDivide(yw, xw)
               r == Signed(intMod(yw, xw, FALSE).v)
               m == Signed(intMod(yw, xw, TRUE).v)
           IN  /\ Absolute(r) < Absolute(x) /\ Absolute(m) < Absolute(x)
               /\ q.o = 0 => /\ (Signed(q.v) * x) + r = y
                             /\ q.c = 1 <=> r # 0 \/ (y = -topbit_mask /\ Absolute(x) = 1)
               /\ q.o = 1 => y = -topbit_mask /\ x = -1
               /\ (y - m) % Absolute(x) = 0
               /\ m # 0 => (m < 0 <=> x < 0)
<1> DEFINE t == topbit_mask
           a == magnitude(xw)
           b == magnitude(yw)
           gx == sign(xw)
           gy == sign(yw)
           e == b \div a
           s == b % a
           x == Signed(xw)
           y == Signed(yw)
           q == intDivide(yw, xw)
           r == Signed(intMod(yw, xw, FALSE).v)
           m == Signed(intMod(yw, xw, TRUE).v)
           k == IF gx = gy \/ s = 0 THEN s ELSE a - s
<1>1. /\ t \in Nat \ {0}
      /\ a \in Nat /\ b \in Nat /\ gx \in {0, 1} /\ gy \in {0, 1}
      /\ x = (IF gx = 1 THEN -a ELSE a)
      /\ y = (IF gy = 1 THEN -b ELSE b) BY TopBit, NumberIs
<1>2. a # 0
  <2> HIDE DEF a
  <2> QED BY <1>1
<1>3. /\ e \in Nat /\ s \in 0 .. a - 1 /\ b = a * e + s
  <2> HIDE DEF a, b
  <2> QED BY <1>1, <1>2, Divided
<1>4. r = (IF gy = 1 THEN -s ELSE s) BY <1>2, RemainderTold
<1>5. m = (IF gx = 1 THEN -k ELSE k) BY <1>2, ModuloTold
<1> DEFINE low == int_mode = "2COMP" /\ yw = t
<1>6. /\ q.o = Bit(int_mode = "2COMP" /\ gx = 1 /\ a = 1 /\ yw = t)
      /\ q.c = Bit(s # 0 \/ (int_mode = "2COMP" /\ yw = t /\ a = 1))
      /\ q.o = 0 => Signed(q.v) = IF gx = gy THEN e ELSE -e BY <1>2, QuotientTold
<1>7. low <=> y = -t
  <2>1. /\ ~Unsigned /\ b = t <=> low
        /\ low => gy = 1 BY MagnitudeRange
  <2>2. Unsigned => gy = 0 BY Magnitudes
  <2> HIDE DEF t, b, gy, y, low
  <2>3. low => y = -t BY <1>1, <2>1
  <2>4. y = -t => gy = 1 /\ b = t BY <1>1
  <2> QED BY <2>1, <2>2, <2>3, <2>4
<1>8. q.o = Bit(low /\ gx = 1 /\ a = 1) /\ q.c = Bit(s # 0 \/ (low /\ a = 1)) BY <1>6
<1> DEFINE v == Signed(q.v)
<1>9. /\ ((IF gx = gy THEN e ELSE -e) * x) + r = y
      /\ (y - m) % a = 0
      /\ k \in 0 .. a - 1
  <2>1. MakesDividend(a, b, e, s, gx, gy)
    <3> HIDE DEF a, b, e, s, gx, gy
    <3>1. a \in Nat \ {0} BY <1>1, <1>2
    <3> QED BY <1>1, <1>3, <3>1, SignedDivision
  <2> HIDE DEF a, b, e, s, gx, gy, x, y, r, m
  <2> QED BY <1>1, <1>4, <1>5, <2>1, Zenon DEF MakesDividend
<1>10. q.o = 0 => v = IF gx = gy THEN e ELSE -e BY <1>6
<1>11. q.o = 0 => (v * x) + r = y
  <2> HIDE DEF q, v, x, r, y, e, gx, gy
  <2> QED BY <1>9, <1>10
<1> HIDE DEF t, a, b, gx, gy, e, s, x, y, q, r, m, k, v, low
<1>12. Absolute(x) = a /\ (x < 0 <=> gx = 1) BY <1>1, <1>2 DEF Absolute
<1>13. Absolute(r) < a /\ (r # 0 <=> s # 0) BY <1>1, <1>2, <1>3, <1>4 DEF Absolute
<1>14. Absolute(m) < a /\ (m # 0 => (m < 0 <=> gx = 1)) BY <1>1, <1>2, <1>5, <1>9 DEF Absolute
<1>15. q.c = 1 <=> r # 0 \/ (y = -t /\ Absolute(x) = 1) BY <1>7, <1>8, <1>12, <1>13 DEF Bit
<1>16. q.o = 1 => y = -t /\ x = -1 BY <1>1, <1>7, <1>8 DEF Bit
<1>17. (y - m) % Absolute(x) = 0 BY <1>9, <1>12
<1> QED BY <1>11, <1>12, <1>13, <1>14, <1>15, <1>16, <1>17, Zenon DEF t, x, y, q, r, m, v

\* A number no larger than the magnitude of a word is a word of that magnitude.
LEMMA MagnitudesAreWords ==
    ASSUME WordsFit, NEW w, IsWord(w), NEW c \in Nat, c <= magnitude(w)
    PROVE  /\ IsWord(c) /\ mask_value(c) = c /\ c < 2 * topbit_mask
           /\ magnitude(c) = c /\ build_value(c, 0) = c
           /\ c <= MaxInt => sign(c) = 0 /\ Signed(c) = c
<1> DEFINE t == topbit_mask
           a == magnitude(w)
<1>1. t \in Nat \ {0} /\ int_mode \in Modes /\ a \in Nat BY TopBit, Magnitudes
<1>2. a < 2 * t /\ (~Unsigned => a <= t) /\ (~Unsigned /\ a = t => int_mode = "2COMP")
  BY MagnitudeRange
<1>3. c <= a OBVIOUS
<1> HIDE DEF a
<1>4. c \in Int /\ c >= 0 /\ c < 2 * t BY <1>1, <1>2, <1>3
<1>5. mask_value(c) = c /\ IsWord(c) BY <1>1, <1>4, Masks DEF IsWord, t
<1>6. build_value(c, 0) = c BY <1>5 DEF build_value
<1>7. /\ int_mode = "UNSIGNED" => sign(c) = 0 /\ magnitude(c) = c
      /\ int_mode # "UNSIGNED" /\ c < t => sign(c) = 0 /\ magnitude(c) = c
      /\ int_mode = "2COMP" /\ c >= t => magnitude(c) = 2 * t - c
      /\ Signed(c) = (IF sign(c) = 1 THEN -magnitude(c) ELSE magnitude(c)) BY <1>5, NumbersOfWords
<1>8. magnitude(c) = c BY <1>1, <1>2, <1>3, <1>4, <1>7 DEF Unsigned, Modes
<1>9. MaxInt \in Int /\ MaxInt = (IF Unsigned THEN 2 * t - 1 ELSE t - 1) BY MaxIs
<1> HIDE DEF t
<1>10. c <= MaxInt => sign(c) = 0 /\ Signed(c) = c BY <1>1, <1>4, <1>7, <1>8, <1>9 DEF Unsigned
<1> QED BY <1>4, <1>5, <1>6, <1>8, <1>10 DEF t

\* The greatest common divisor of two words and their least common multiple.
LEMMA CommonDivisorTold ==
    ASSUME WordsFit, NEW yw, NEW xw, IsWord(yw), IsWord(xw),
           magnitude(xw) # 0, magnitude(yw) # 0
    PROVE  LET a == magnitude(xw)
               b == magnitude(yw)
               G == int_gcd[b][a]
               g == intGCD(yw, xw).v
           IN  /\ G \in Nat \ {0} /\ G <= a /\ CommonDivisors(G, a, b)
               /\ Divides(G, a) /\ Divides(G, b)
               /\ g = G /\ magnitude(g) = G /\ G < 2 * topbit_mask
<1> DEFINE t == topbit_mask
           a == magnitude(xw)
           b == magnitude(yw)
           G == int_gcd[b][a]
           g == intGCD(yw, xw).v
<1>1. a \in Nat \ {0} /\ b \in Nat \ {0} BY NumberIs
<1>3. g = build_value(G, 0) BY DEF intGCD, Result
<1> HIDE DEF a, b
<1>4. G \in Nat /\ CommonDivisors(G, a, b) BY <1>1, GreatestCommonDivisor
<1> HIDE DEF G, g
<1>5. G # 0
  <2> SUFFICES ASSUME G = 0 PROVE FALSE OBVIOUS
  <2> DEFINE d == (a + b) + 1
  <2>1. d \in Nat \ {0} /\ a \in Nat /\ a > 0 /\ d > a BY <1>1
  <2> HIDE DEF d
  <2>2. Divides(d, G) BY <2>1, DividesIs
  <2>3. Divides(d, a) BY <1>4, <2>1, <2>2 DEF CommonDivisors
  <2>4. d <= a BY <2>1, <2>3, DividesIs
  <2> QED BY <2>1, <2>4
<1>6. Divides(G, a) /\ Divides(G, b)
  <2>1. G = G * 1 /\ 1 \in Int /\ G \in Nat \ {0} BY <1>4, <1>5
  <2>2. Divides(G, G) BY <2>1, DividesIs
  <2> QED BY <1>4, <2>1, <2>2 DEF CommonDivisors
<1>7. G <= a
  <2>1. G \in Nat \ {0} /\ a \in Nat /\ a > 0 BY <1>1, <1>4, <1>5
  <2> QED BY <1>6, <2>1, DividesIs
<1>8. magnitude(G) = G /\ build_value(G, 0) = G /\ G < 2 * t
  BY <1>4, <1>7, MagnitudesAreWords DEF a, t
<1> QED BY <1>1, <1>3, <1>4, <1>5, <1>6, <1>7, <1>8, Zenon DEF t, a, b, G, g

LEMMA ProductOfThree ==
    ASSUME NEW k \in Nat, NEW b \in Nat, NEW G \in Nat
    PROVE  (k * b) * G = (G * k) * b
BY SMT

LEMMA CommonMultipleTold ==
    ASSUME WordsFit, NEW yw, NEW xw, IsWord(yw), IsWord(xw),
           magnitude(xw) # 0, magnitude(yw) # 0
    PROVE  LET l == intLCM(yw, xw)
           IN  \/ l.o = 1
               \/ Signed(l.v) * intGCD(yw, xw).v = magnitude(xw) * magnitude(yw)
<1> DEFINE a == magnitude(xw)
           b == magnitude(yw)
           G == int_gcd[b][a]
           k == a \div G
           l == intLCM(yw, xw)
           p == b * k
<1>1. a \in Nat \ {0} /\ b \in Nat \ {0} BY NumberIs
<1>2. G \in Nat \ {0} /\ Divides(G, a) /\ intGCD(yw, xw).v = G BY CommonDivisorTold
<1>3. l = intMultiply(mask_value(k), build_value(b, 0)) BY DEF intLCM
<1> HIDE DEF a, b, l
<1> HIDE DEF G
<1>4. k \in Nat /\ k <= a /\ a = G * k BY <1>1, <1>2, DividesIs, Divided
<1> HIDE DEF k
<1>5. k # 0 BY <1>1, <1>2, <1>4
<1>6. /\ IsWord(k) /\ mask_value(k) = k /\ magnitude(k) = k
      /\ k <= MaxInt => Signed(k) = k BY <1>4, MagnitudesAreWords DEF a
<1>7. /\ IsWord(b) /\ build_value(b, 0) = b /\ magnitude(b) = b
      /\ b <= MaxInt => Signed(b) = b
  <2>1. b \in Nat /\ b <= b BY <1>1
  <2> QED BY <2>1, MagnitudesAreWords DEF b
<1>8. l = intMultiply(k, b) BY <1>3, <1>6, <1>7
<1>9. ToldNearly(l, Signed(k) * Signed(b)) /\ l.o = Bit(p > MaxInt)
  BY <1>6, <1>7, <1>8, MultiplicationTold
<1>10. p \in Nat /\ b <= p /\ k <= p BY <1>1, <1>4, <1>5, ProductsGrow
<1> HIDE DEF p
<1>11. MaxInt \in Int BY MaxIs
<1>12. CASE p > MaxInt BY <1>9, <1>12 DEF Bit, l
<1>13. CASE ~(p > MaxInt)
  <2>1. k <= MaxInt /\ b <= MaxInt BY <1>1, <1>4, <1>10, <1>11, <1>13
  <2>2. l.o = 0 BY <1>9, <1>13 DEF Bit
  <2>3. Signed(l.v) = k * b BY <1>6, <1>7, <1>9, <2>1, <2>2 DEF ToldNearly, Told
  <2>4. (k * b) * G = a * b BY <1>1, <1>2, <1>4, ProductOfThree
  <2> QED BY <1>2, <2>3, <2>4 DEF l, a, b
<1> QED BY <1>12, <1>13

(* Products, quotients, remainders, common divisors and common multiples are  *)
(* exact or report an overflow, for words of any size in each of the modes.  *)
THEOREM WordQuotientsAreTold == Spec => []WordQuotientsTold
<1>1. WordsFit => WordQuotientsTold
  <2> SUFFICES ASSUME WordsFit PROVE WordQuotientsTold OBVIOUS
  <2> DEFINE t == topbit_mask
             a == magnitude(X)
             b == magnitude(Y)
             x == Signed(X)
             y == Signed(Y)
             q == intDivide(Y, X)
             r == Signed(intMod(Y, X, FALSE).v)
             m == Signed(intMod(Y, X, TRUE).v)
             g == intGCD(Y, X).v
             l == intLCM(Y, X)
             G == int_gcd[b][a]
  <2>1. IsWord(X) /\ IsWord(Y) BY DEF WordsFit, IsWord
  <2>2. /\ a \in Nat /\ b \in Nat
        /\ x = (IF sign(X) = 1 THEN -a ELSE a)
        /\ y = (IF sign(Y) = 1 THEN -b ELSE b) BY <2>1, NumberIs
  <2>3. ToldNearly(intMultiply(Y, X), y * x) BY <2>1, MultiplicationTold
  <2>4. ASSUME x # 0
        PROVE  /\ Absolute(r) < Absolute(x) /\ Absolute(m) < Absolute(x)
               /\ q.o = 0 => /\ (Signed(q.v) * x) + r = y
                             /\ q.c = 1 <=> r # 0 \/ (y = -t /\ Absolute(x) = 1)
               /\ q.o = 1 => y = -t /\ x = -1
               /\ (y - m) % Absolute(x) = 0
               /\ m # 0 => (m < 0 <=> x < 0) BY <2>1, <2>4, DivisionTold
  <2>5. ASSUME x # 0, y # 0
        PROVE  /\ Signed(l.v) * g = Absolute(x * y) \/ l.o = 1
               /\ \A d \in 1 .. a : a % d = 0 /\ b % d = 0 <=> magnitude(g) % d = 0
    <3> HIDE DEF a, b, x, y, g, l, G
    <3>1. a # 0 /\ b # 0 BY <2>2, <2>5
    <3>2. magnitude(g) = G /\ CommonDivisors(G, a, b)
      BY <2>1, <3>1, CommonDivisorTold DEF a, b, g, G
    <3>3. l.o = 1 \/ Signed(l.v) * g = a * b BY <2>1, <3>1, CommonMultipleTold DEF a, b, g, l
    <3>4. Absolute(x * y) = a * b
      <4>1. (x = a \/ x = -a) /\ (y = b \/ y = -b) /\ a \in Int /\ b \in Int BY <2>2
      <4>2. a * b \in Nat BY <2>2, ProductsGrow
      <4>3. (-a) * b = -(a * b) /\ a * (-b) = -(a * b) /\ (-a) * (-b) = a * b
        BY <4>1, SignsOfProducts
      <4> DEFINE p == a * b
      <4>4. x * y = p \/ x * y = -p BY <4>1, <4>3
      <4>5. p \in Nat BY <4>2
      <4> HIDE DEF p
      <4> QED BY <4>4, <4>5 DEF Absolute, p
    <3>5. \A d \in 1 .. a : a % d = 0 /\ b % d = 0 <=> magnitude(g) % d = 0
      <4> TAKE d \in 1 .. a
      <4>1. d \in Nat \ {0} BY <2>2
      <4> QED BY <3>2, <4>1 DEF CommonDivisors, Divides
    <3> QED BY <3>3, <3>4, <3>5
  <2> HIDE DEF x, y, q, r, m, g, l
  <2> QED BY <2>3, <2>4, <2>5, Zenon DEF WordQuotientsTold, Absolute, t, a, b, x, y, q, r, m, g, l
<1> QED BY <1>1, RegistersAreWords, PTL

-----
(* Shifts and rotations *)

\* What one turn by a bit makes of a word.
LEMMA OneTurn ==
    ASSUME WordsFit, NEW x, IsWord(x), NEW c \in {0, 1}
    PROVE  LET t    == topbit_mask
               twice == IF x < t THEN 2 * x ELSE 2 * x - 2 * t
               top   == IF x < t THEN 0 ELSE 1
           IN  /\ OneBit("SL", <<x, c>>) = <<mask_value(2 * x), top>>
               /\ mask_value(2 * x) = twice
               /\ OneBit("SR", <<x, c>>) = <<x \div 2, x % 2>>
               /\ OneBit("ASR", <<x, c>>) = intASR(x, c)
               /\ OneBit("RL", <<x, c>>) = <<twice + top, top>>
               /\ OneBit("RLC", <<x, c>>) = <<twice + c, top>>
               /\ OneBit("RR", <<x, c>>) = <<x \div 2 + (x % 2) * t, x % 2>>
               /\ OneBit("RRC", <<x, c>>) = <<x \div 2 + c * t, x % 2>>
<1> DEFINE t == topbit_mask
           twice == IF x < t THEN 2 * x ELSE 2 * x - 2 * t
           top   == IF x < t THEN 0 ELSE 1
<1>1. t \in Nat \ {0} /\ int_mode \in Modes BY TopBit
<1>2. x \in Int /\ x >= 0 /\ x < 2 * t BY <1>1 DEF IsWord
<1>3. mask_value(2 * x) = twice
  <2> DEFINE z == 2 * x
  <2>1. z \in Int /\ z >= 0 /\ (x < t => z < 2 * t) /\ (~(x < t) => z >= 2 * t /\ z < 4 * t)
    BY <1>1, <1>2
  <2>2. /\ z >= 0 /\ z < 2 * t => mask_value(z) = z
        /\ z >= 2 * t /\ z < 4 * t => mask_value(z) = z - 2 * t
    <3> HIDE DEF z
    <3> QED BY <2>1, Masks
  <2> HIDE DEF t
  <2> QED BY <2>1, <2>2
<1>4. Bit(IsTop(x)) = top
  <2>1. IsTop(x) <=> x >= t BY WordsRead DEF IsWord, Reads
  <2> HIDE DEF t
  <2> QED BY <1>1, <1>2, <2>1 DEF Bit
<1>5. <<x, c>>[1] = x /\ <<x, c>>[2] = c OBVIOUS
<1> HIDE DEF twice, top
<1>6. /\ OneBit("SL", <<x, c>>) = intLSL(x, c) /\ OneBit("SR", <<x, c>>) = intLSR(x, c)
      /\ OneBit("ASR", <<x, c>>) = intASR(x, c)
      /\ OneBit("RL", <<x, c>>) = intRL(x, c) /\ OneBit("RLC", <<x, c>>) = intRLC(x, c)
      /\ OneBit("RR", <<x, c>>) = intRR(x, c) /\ OneBit("RRC", <<x, c>>) = intRRC(x, c)
  BY <1>5 DEF OneBit
<1>7. /\ intLSL(x, c) = <<mask_value(2 * x), top>> /\ intLSR(x, c) = <<x \div 2, x % 2>>
      /\ intRL(x, c) = <<twice + top, top>> /\ intRLC(x, c) = <<twice + c, top>>
      /\ intRR(x, c) = <<x \div 2 + (x % 2) * t, x % 2>>
      /\ intRRC(x, c) = <<x \div 2 + c * t, x % 2>>
  BY <1>3, <1>4, Zenon DEF intLSL, intLSR, intRL, intRLC, intRR, intRRC, t
<1> QED BY <1>3, <1>6, <1>7, Zenon DEF t, twice, top

\* A turn by a bit makes words of words.
LEMMA TurnsAreWords ==
    ASSUME WordsFit, NEW op \in BitCommands, NEW p \in WordsWithCarry
    PROVE  OneBit(op, p) \in WordsWithCarry
<1> DEFINE t == topbit_mask
           x == p[1]
           c == p[2]
           twice == IF x < t THEN 2 * x ELSE 2 * x - 2 * t
           top   == IF x < t THEN 0 ELSE 1
           h == x \div 2
           e == x % 2
<1>1. t \in Nat \ {0} /\ int_mode \in Modes BY TopBit
<1>2. /\ p = <<x, c>> /\ IsWord(x) /\ c \in {0, 1}
      /\ x \in Int /\ x >= 0 /\ x < 2 * t BY <1>1 DEF WordsWithCarry, IsWord
<1> HIDE DEF x, c
<1>3. /\ OneBit("SL", <<x, c>>) = <<mask_value(2 * x), top>> /\ mask_value(2 * x) = twice
      /\ OneBit("SR", <<x, c>>) = <<h, e>>
      /\ OneBit("ASR", <<x, c>>) = intASR(x, c)
      /\ OneBit("RL", <<x, c>>) = <<twice + top, top>>
      /\ OneBit("RLC", <<x, c>>) = <<twice + c, top>>
      /\ OneBit("RR", <<x, c>>) = <<h + e * t, e>>
      /\ OneBit("RRC", <<x, c>>) = <<h + c * t, e>> BY <1>2, OneTurn
<1>4. h \in 0 .. t - 1 /\ e \in {0, 1} /\ x = 2 * h + e BY <1>1, <1>2
<1>5. twice \in 0 .. 2 * t - 2 /\ top \in {0, 1} BY <1>1, <1>2
<1>6. intASR(x, c) \in (0 .. 2 * t - 1) \X {0, 1}
  <2> DEFINE m == x % t
             k == m \div 2
  <2>1. m \in 0 .. t - 1 BY <1>1, <1>2, Remainders
  <2>2. k \in 0 .. t - 1
    <3> HIDE DEF m
    <3> QED BY <1>1, <2>1
  <2> HIDE DEF m, t, h, e, k
  <2>3. /\ k + t \in 0 .. 2 * t - 1 /\ k + 0 \in 0 .. 2 * t - 1
        /\ h + t \in 0 .. 2 * t - 1 /\ h + 0 \in 0 .. 2 * t - 1 BY <1>1, <1>4, <2>2
  <2>4. \E v \in {k + t, k + 0, h + t, h + 0} : intASR(x, c) = <<v, e>> BY DEF intASR, t, k, m, h, e
  <2> QED BY <1>4, <2>3, <2>4
<1> HIDE DEF t, h, e, twice, top
<1>7. e * t = (IF e = 1 THEN t ELSE 0) /\ c * t = (IF c = 1 THEN t ELSE 0) BY <1>1, <1>2, <1>4
<1>8. /\ h \in 0 .. 2 * t - 1 /\ h + e * t \in 0 .. 2 * t - 1 /\ h + c * t \in 0 .. 2 * t - 1
      /\ twice \in 0 .. 2 * t - 1 /\ twice + top \in 0 .. 2 * t - 1
      /\ twice + c \in 0 .. 2 * t - 1 BY <1>1, <1>2, <1>4, <1>5, <1>7
<1>9. OneBit(op, <<x, c>>) \in (0 .. 2 * t - 1) \X {0, 1}
  BY <1>3, <1>4, <1>5, <1>6, <1>8 DEF BitCommands
<1> QED BY <1>2, <1>9 DEF WordsWithCarry, t

LEMMA Turning ==
    ASSUME WordsFit, NEW op \in BitCommands, NEW x, IsWord(x), NEW c \in {0, 1}
    PROVE  \E f : /\ Turns(f, op, x, c)
                  /\ \A arg : introt(op, arg, x, c) = f[Repetitions(op, arg)]
<1> DEFINE Fix(f) == f = [n \in Nat |-> IF n = 0 THEN <<x, c>> ELSE OneBit(op, f[n - 1])]
           turned == CHOOSE f : Fix(f)
<1>1. <<x, c>> \in WordsWithCarry BY DEF WordsWithCarry, IsWord
<1>2. \E f : Fix(f)
  <2> DEFINE S == WordsWithCarry
             g == [p \in S |-> OneBit(op, p)]
             a == <<x, c>>
  <2>1. g \in [S -> S] /\ a \in S BY <1>1, TurnsAreWords
  <2>2. \A p \in S : g[p] = OneBit(op, p) OBVIOUS
  <2> HIDE DEF g, S, a
  <2>3. PICK f \in [Nat -> S] : f[0] = a /\ \A n \in Nat : f[n + 1] = g[f[n]]
    <3>1. Iterable(S, g, a) BY <2>1, Iteration
    <3> QED BY <3>1 DEF Iterable
  <2>4. ASSUME NEW n \in Nat PROVE f[n] = IF n = 0 THEN a ELSE OneBit(op, f[n - 1])
    <3>1. n # 0 => n - 1 \in Nat /\ (n - 1) + 1 = n BY SMT
    <3>2. n # 0 => f[n] = g[f[n - 1]] /\ f[n - 1] \in S BY <2>3, <3>1
    <3> QED BY <2>2, <2>3, <3>2
  <2>5. f = [n \in Nat |-> f[n]] BY <2>3
  <2>6. f = [n \in Nat |-> IF n = 0 THEN a ELSE OneBit(op, f[n - 1])] BY <2>4, <2>5
  <2> QED BY <2>6 DEF a
<1>3. Fix(turned)
  <2> HIDE DEF Fix
  <2> QED BY <1>2
<1>4. \A arg : introt(op, arg, x, c) = turned[Repetitions(op, arg)] BY DEF introt
<1> HIDE DEF turned
<1>5. \A n \in Nat : turned[n] = IF n = 0 THEN <<x, c>> ELSE OneBit(op, turned[n - 1]) BY <1>3
<1>6. turned[0] = <<x, c>> BY <1>5
<1>7. \A n \in Nat : turned[n + 1] = OneBit(op, turned[n])
  <2> TAKE n \in Nat
  <2>1. n + 1 \in Nat /\ n + 1 # 0 /\ (n + 1) - 1 = n BY SMT
  <2> QED BY <1>5, <2>1
<1>8. \A n \in Nat : turned[n] \in WordsWithCarry
  <2> DEFINE T == {n \in Nat : turned[n] \in WordsWithCarry}
  <2>1. 0 \in T BY <1>1, <1>6
  <2>2. \A n \in Nat : n \in T => n + 1 \in T BY <1>7, TurnsAreWords
  <2>3. \A n \in Nat : n \in T
    <3> HIDE DEF T
    <3> QED BY <2>1, <2>2, AllNaturals
  <2> QED BY <2>3
<1>9. Turns(turned, op, x, c) BY <1>6, <1>7, <1>8 DEF Turns
<1> QED BY <1>4, <1>9

\* Division and doubling under powers of two.
LEMMA Halved ==
    ASSUME NEW a \in Int, NEW p \in Nat \ {0}
    PROVE  (a \div p) \div 2 = a \div (2 * p)
<1> DEFINE q == a \div p
           r == a % p
           k == q \div 2
           e == q % 2
<1>1. q \in Int /\ r \in 0 .. p - 1 /\ a = p * q + r BY SMT
<1> HIDE DEF q, r
<1>2. k \in Int /\ e \in {0, 1} /\ q = 2 * k + e BY <1>1, SMT
<1> HIDE DEF k, e
<1> DEFINE s == p * e + r
<1>3. s \in 0 .. (2 * p) - 1 BY <1>1, <1>2, SMT
<1>4. a = (2 * p) * k + s
  <2>1. p * q = p * (2 * k) + p * e BY <1>2, SMT
  <2>2. p * (2 * k) = (2 * p) * k /\ (2 * p) * k \in Int /\ p * e \in Int BY <1>2, SMT
  <2> DEFINE u == (2 * p) * k
             v == p * e
             w == p * q
  <2>3. w = u + v /\ u \in Int /\ v \in Int /\ a = w + r /\ r \in Int BY <1>1, <2>1, <2>2
  <2> HIDE DEF u, v, w
  <2>4. a = u + (v + r) BY <2>3
  <2> QED BY <2>4 DEF u, v
<1> HIDE DEF s
<1>5. 2 * p \in Nat \ {0} BY SMT
<1>6. a \div (2 * p) = k
  <2> DEFINE m == 2 * p
  <2>1. m \in Nat \ {0} /\ s \in 0 .. m - 1 /\ a = m * k + s BY <1>3, <1>4, <1>5
  <2> HIDE DEF m
  <2>2. a \div m = k BY <1>2, <2>1, QuotientIs
  <2> QED BY <2>2 DEF m
<1> QED BY <1>6 DEF k, q

LEMMA Doubled ==
    ASSUME NEW z \in Int, NEW m \in Nat \ {0}
    PROVE  (2 * (z % m)) % m = (2 * z) % m
<1> DEFINE q == z \div m
           r == z % m
           y == 2 * r
           k == y \div m
           e == y % m
<1>1. q \in Int /\ r \in 0 .. m - 1 /\ z = m * q + r BY SMT
<1> HIDE DEF q, r
<1>2. y \in Int BY <1>1
<1> HIDE DEF y
<1>3. k \in Int /\ e \in 0 .. m - 1 /\ y = m * k + e BY <1>2, SMT
<1> HIDE DEF k, e
<1>4. 2 * z = m * (2 * q + k) + e
  <2>1. m * (2 * q + k) = 2 * (m * q) + m * k /\ m * q \in Int /\ m * k \in Int BY <1>1, <1>3, SMT
  <2> DEFINE u == m * q
             v == m * k
  <2>2. u \in Int /\ v \in Int /\ z = u + r /\ y = v + e /\ m * (2 * q + k) = 2 * u + v
    BY <1>1, <1>3, <2>1
  <2> DEFINE w == m * (2 * q + k)
  <2> HIDE DEF u, v, w
  <2>3. 2 * z = w + e BY <1>1, <1>3, <2>2 DEF y, w
  <2> QED BY <2>3 DEF w
<1>5. (2 * z) % m = e
  <2> DEFINE n == 2 * q + k
  <2>1. n \in Int /\ 2 * z = m * n + e BY <1>1, <1>3, <1>4
  <2> HIDE DEF n
  <2> QED BY <1>3, <2>1, QuotientIs
<1> QED BY <1>5 DEF e, y, r

LEMMA PowersAdd ==
    ASSUME NEW a \in Nat
    PROVE  \A b \in Nat : TwoTo[a + b] = TwoTo[a] * TwoTo[b]
<1> DEFINE T == {b \in Nat : TwoTo[a + b] = TwoTo[a] * TwoTo[b]}
<1>1. 0 \in T
  <2>1. a + 0 = a /\ TwoTo[0] = 1 /\ TwoTo[a] \in Nat BY PowersOfTwo
  <2>2. TwoTo[a] * 1 = TwoTo[a] BY <2>1
  <2> QED BY <2>1, <2>2
<1>2. ASSUME NEW b \in Nat, b \in T PROVE b + 1 \in T
  <2> DEFINE u == TwoTo[a]
             v == TwoTo[b]
             w == TwoTo[a + b]
  <2>1. a + b \in Nat /\ a + (b + 1) = (a + b) + 1 /\ b + 1 \in Nat OBVIOUS
  <2>2. /\ u \in Nat /\ v \in Nat /\ TwoTo[b + 1] = 2 * v
        /\ TwoTo[(a + b) + 1] = 2 * w BY <2>1, PowersOfTwo
  <2>3. w = u * v BY <1>2
  <2> HIDE DEF u, v, w
  <2>4. 2 * (u * v) = u * (2 * v) BY <2>2, SMT
  <2>5. TwoTo[a + (b + 1)] = u * TwoTo[b + 1] BY <2>1, <2>2, <2>3, <2>4
  <2> QED BY <2>1, <2>5 DEF u
<1> HIDE DEF T
<1>3. \A b \in Nat : b \in T BY <1>1, <1>2, AllNaturals
<1> QED BY <1>3 DEF T

\* How often a command turns the word.
LEMMA RepetitionsAre ==
    ASSUME WordsFit, NEW n \in Nat
    PROVE  /\ int_len \in Nat \ {0} /\ TwoTo[int_len] = 2 * topbit_mask
           /\ \A op \in {"SL", "SR", "ASR"} : Repetitions(op, n) = IF n <= int_len THEN n ELSE int_len
           /\ Repetitions("RL", n) = Repetitions("RR", n) /\ Repetitions("RL", n) \in Nat
           /\ Repetitions("RLC", n) = Repetitions("RRC", n) /\ Repetitions("RLC", n) \in Nat
           /\ Repetitions("RLC", int_len + 1) = 0
<1>1. int_len \in Nat \ {0} /\ TwoTo[int_len] = 2 * topbit_mask
  <2>1. int_len \in Lengths BY DEF WordsFit
  <2>2. int_len \in Nat /\ int_len - 1 \in Nat BY <2>1, LengthIs
  <2> QED BY <2>1, <2>2, LengthIs DEF topbit_mask
<1>2. \A op \in {"SL", "SR", "ASR"} : Repetitions(op, n) = IF n <= int_len THEN n ELSE int_len
  BY DEF Repetitions
<1>3. int_len + 1 \in Nat \ {0} BY <1>1
<1>4. n % int_len \in Nat /\ n % (int_len + 1) \in Nat
  <2> DEFINE m == int_len + 1
  <2> HIDE DEF m
  <2>1. n % int_len \in 0 .. int_len - 1 /\ n % m \in 0 .. m - 1 BY <1>1, <1>3, Remainders DEF m
  <2>2. n % int_len \in Nat /\ n % m \in Nat BY <2>1
  <2> QED BY <2>2 DEF m
<1>5. (int_len + 1) % (int_len + 1) = 0 /\ ~(int_len + 1 <= int_len)
  <2> DEFINE m == int_len + 1
  <2>1. m \in Nat \ {0} /\ ~(m <= int_len) BY <1>1
  <2> HIDE DEF m
  <2>2. m % m = m - m BY <2>1, Remainders
  <2>3. m % m = 0 BY <2>1, <2>2
  <2> QED BY <2>1, <2>3 DEF m
<1>6. \A k : /\ Repetitions("RL", k) = IF k <= int_len THEN k ELSE k % int_len
             /\ Repetitions("RR", k) = IF k <= int_len THEN k ELSE k % int_len
             /\ Repetitions("RLC", k) = IF k <= int_len THEN k ELSE k % (int_len + 1)
             /\ Repetitions("RRC", k) = IF k <= int_len THEN k ELSE k % (int_len + 1)
  BY DEF Repetitions
<1>7. Repetitions("RLC", int_len + 1) = 0 BY <1>5, <1>6
<1> QED BY <1>1, <1>2, <1>4, <1>6, <1>7

\* The words among what Turns holds.
LEMMA TurnedWord ==
    ASSUME WordsFit, NEW f, NEW op \in BitCommands, NEW x, NEW c, Turns(f, op, x, c),
           NEW n \in Nat
    PROVE  /\ IsWord(f[n][1]) /\ f[n][2] \in {0, 1} /\ f[n] = <<f[n][1], f[n][2]>>
           /\ f[n + 1] = OneBit(op, <<f[n][1], f[n][2]>>)
<1>1. f[n] \in WordsWithCarry /\ f[n + 1] = OneBit(op, f[n]) BY DEF Turns
<1> QED BY <1>1 DEF WordsWithCarry, IsWord

\* Powers of two that are no less than the number of words.
LEMMA BeyondTheWord ==
    ASSUME WordsFit, NEW n \in Nat, n >= int_len
    PROVE  \E k \in Nat \ {0} : TwoTo[n] = (2 * topbit_mask) * k /\ 2 * topbit_mask <= TwoTo[n]
<1> DEFINE t == topbit_mask
           m == 2 * t
           d == n - int_len
           k == TwoTo[d]
<1>1. t \in Nat \ {0} /\ int_len \in Nat \ {0} /\ TwoTo[int_len] = m BY TopBit, RepetitionsAre
<1>2. d \in Nat /\ int_len + d = n BY <1>1
<1>3. TwoTo[n] = m * k /\ k \in Nat \ {0}
  <2> HIDE DEF d, m
  <2>1. TwoTo[int_len + d] = TwoTo[int_len] * TwoTo[d] BY <1>1, <1>2, PowersAdd
  <2> QED BY <1>1, <1>2, <2>1, PowersOfTwo
<1>4. m \in Nat BY <1>1
<1> HIDE DEF m, k
<1>5. m <= m * k BY <1>3, <1>4, ProductsGrow
<1> QED BY <1>3, <1>5 DEF m, t

LEMMA ShiftedLeft ==
    ASSUME WordsFit, NEW x, IsWord(x), NEW c \in {0, 1}, NEW n \in Nat
    PROVE  introt("SL", n, x, c)[1] = mask_value(x * TwoTo[n])
<1> DEFINE t == topbit_mask
           m == 2 * t
<1>1. t \in Nat \ {0} /\ x \in Int /\ x >= 0 /\ x < m /\ m \in Nat \ {0} BY TopBit DEF IsWord
<1>2. PICK f : Turns(f, "SL", x, c) /\ introt("SL", n, x, c) = f[Repetitions("SL", n)]
  BY Turning DEF BitCommands
<1>3. \A z : mask_value(z) = z % m BY DEF mask_value
<1> DEFINE T == {k \in Nat : f[k][1] = (x * TwoTo[k]) % m}
<1>4. 0 \in T
  <2>1. x * 1 = x BY <1>1
  <2>2. x % m = x
    <3> HIDE DEF m
    <3> QED BY <1>1, Remainders
  <2>3. f[0][1] = x /\ TwoTo[0] = 1 BY <1>2, PowersOfTwo DEF Turns
  <2> QED BY <2>1, <2>2, <2>3
<1>5. ASSUME NEW k \in Nat, k \in T PROVE k + 1 \in T
  <2> DEFINE w == f[k][1]
             z == x * TwoTo[k]
  <2>1. IsWord(w) /\ f[k][2] \in {0, 1} /\ f[k + 1] = OneBit("SL", <<w, f[k][2]>>)
    BY <1>2, TurnedWord DEF BitCommands
  <2>2. f[k + 1][1] = mask_value(2 * w)
    <3> HIDE DEF w
    <3>1. \E top : OneBit("SL", <<w, f[k][2]>>) = <<mask_value(2 * w), top>> BY <2>1, OneTurn
    <3> QED BY <2>1, <3>1
  <2>3. w = z % m BY <1>5
  <2>4. z \in Int /\ 2 * z = x * TwoTo[k + 1]
    <3>1. TwoTo[k] \in Int /\ TwoTo[k + 1] = 2 * TwoTo[k] BY PowersOfTwo
    <3> DEFINE v == TwoTo[k]
    <3> HIDE DEF v
    <3>2. 2 * (x * v) = x * (2 * v) /\ x * v \in Int BY <1>1, <3>1, SMT DEF v
    <3> QED BY <3>1, <3>2 DEF v
  <2> HIDE DEF w, z, m
  <2>5. (2 * w) % m = (2 * z) % m BY <1>1, <2>3, <2>4, Doubled
  <2>6. f[k + 1][1] = (x * TwoTo[k + 1]) % m BY <1>3, <2>2, <2>4, <2>5
  <2> QED BY <2>6
<1> HIDE DEF T
<1>6. \A k \in Nat : k \in T BY <1>4, <1>5, AllNaturals
<1>7. \A k \in Nat : f[k][1] = (x * TwoTo[k]) % m BY <1>6 DEF T
<1>8. Repetitions("SL", n) = (IF n <= int_len THEN n ELSE int_len) /\ int_len \in Nat
  BY RepetitionsAre
<1>9. CASE n <= int_len BY <1>2, <1>3, <1>7, <1>8, <1>9
<1>10. CASE ~(n <= int_len)
  <2>1. ASSUME NEW k \in Nat, k >= int_len PROVE (x * TwoTo[k]) % m = 0
    <3>1. PICK e \in Nat \ {0} : TwoTo[k] = m * e BY <2>1, BeyondTheWord
    <3> HIDE DEF m
    <3>2. x * (m * e) = m * (x * e) /\ x * e \in Int BY <1>1, <3>1, SMT
    <3> DEFINE d == x * e
    <3>3. d \in Int /\ x * TwoTo[k] = m * d BY <3>1, <3>2
    <3> HIDE DEF d
    <3>4. (m * d) % m = 0 BY <1>1, <3>3, Multiples
    <3> QED BY <3>3, <3>4
  <2>2. (x * TwoTo[int_len]) % m = 0 /\ (x * TwoTo[n]) % m = 0
    <3>1. n >= int_len /\ int_len >= int_len BY <1>8, <1>10
    <3> HIDE DEF m
    <3> QED BY <1>8, <2>1, <3>1
  <2> QED BY <1>2, <1>3, <1>7, <1>8, <1>10, <2>2
<1> QED BY <1>9, <1>10

\* Repeated halving divides by a power of two.
LEMMA HalvedAgain ==
    ASSUME NEW a \in Int, NEW k \in Nat
    PROVE  /\ (a \div TwoTo[k]) \div 2 = a \div TwoTo[k + 1] /\ a \div TwoTo[0] = a
           /\ a \div TwoTo[k] \in Int
           /\ a >= 0 => a \div TwoTo[k] >= 0 /\ a \div TwoTo[k] <= a
           /\ a < 0 => a \div TwoTo[k] < 0 /\ a \div TwoTo[k] >= a
<1>1. TwoTo[k] \in Nat \ {0} /\ TwoTo[k + 1] = 2 * TwoTo[k] /\ TwoTo[0] = 1 BY PowersOfTwo
<1> DEFINE p == TwoTo[k]
<1>2. (a \div p) \div 2 = a \div (2 * p) BY <1>1, Halved
<1>3. a \div 1 = a BY SMT
<1> DEFINE q == a \div p
           r == a % p
<1>4. q \in Int /\ r \in 0 .. p - 1 /\ a = p * q + r
  <2> HIDE DEF p
  <2>1. p \in Nat \ {0} BY <1>1 DEF p
  <2> QED BY <2>1, SMT
<1> HIDE DEF q, r, p
<1>5. q >= 0 => p * q >= q /\ p * q \in Int
  <2>1. p \in Nat \ {0} BY <1>1 DEF p
  <2> QED BY <1>4, <2>1, SMT
<1>6. q <= -1 => p * q <= -p /\ p * q <= q /\ p * q \in Int
  <2>1. p \in Nat \ {0} BY <1>1 DEF p
  <2>2. q <= -1 => p * q <= -p BY <1>4, <2>1, SMT
  <2>3. q <= -1 => p * q <= q BY <1>4, <2>1, SMT
  <2> QED BY <1>4, <2>1, <2>2, <2>3
<1>7. a >= 0 => q >= 0 /\ q <= a
  <2>1. p \in Nat \ {0} BY <1>1 DEF p
  <2> QED BY <1>4, <1>5, <1>6, <2>1
<1>8. a < 0 => q < 0 /\ q >= a
  <2>1. p \in Nat \ {0} BY <1>1 DEF p
  <2>2. q >= 0 => a >= 0 BY <1>4, <1>5, <2>1
  <2>3. q < 0 => ((p * q) + p) - q <= 1 BY <1>4, <2>1, SMT
  <2> DEFINE w == p * q
  <2>4. w \in Int BY <1>4, <2>1
  <2>5. q < 0 => (w + p) - q <= 1 BY <2>3
  <2> HIDE DEF w
  <2>6. a = w + r BY <1>4 DEF w
  <2> QED BY <1>4, <2>1, <2>2, <2>4, <2>5, <2>6
<1> QED BY <1>1, <1>2, <1>3, <1>4, <1>7, <1>8 DEF p, q

\* A power of two that is as large as the word leaves nothing but the sign.
LEMMA DividedAway ==
    ASSUME WordsFit, NEW a \in Int, a >= -(2 * topbit_mask), a < 2 * topbit_mask,
           NEW n \in Nat, n >= int_len
    PROVE  a \div TwoTo[n] = IF a < 0 THEN -1 ELSE 0
<1> DEFINE m == 2 * topbit_mask
           p == TwoTo[n]
<1>1. m \in Nat \ {0} /\ p \in Nat \ {0} /\ m <= p /\ a >= -m /\ a < m
  BY TopBit, BeyondTheWord, PowersOfTwo
<1> HIDE DEF m, p
<1>2. CASE a < 0
  <2>1. p * (-1) + (a + p) = a /\ a + p \in 0 .. p - 1 /\ -1 \in Int BY <1>1, <1>2
  <2>2. a \div p = -1
    <3> DEFINE r == a + p
               q == -1
    <3>1. r \in 0 .. p - 1 /\ q \in Int /\ p * q + r = a BY <2>1
    <3> HIDE DEF r, q
    <3>2. a \div p = q BY <1>1, <3>1, QuotientIs
    <3> QED BY <3>2 DEF q
  <2> QED BY <1>2, <2>2 DEF p
<1>3. CASE ~(a < 0)
  <2>1. p * 0 + a = a /\ a \in 0 .. p - 1 /\ 0 \in Int BY <1>1, <1>3
  <2>2. a \div p = 0 BY <1>1, <2>1, QuotientIs
  <2> QED BY <1>3, <2>2 DEF p
<1> QED BY <1>2, <1>3

LEMMA ShiftedRight ==
    ASSUME WordsFit, NEW x, IsWord(x), NEW c \in {0, 1}, NEW n \in Nat
    PROVE  introt("SR", n, x, c)[1] = x \div TwoTo[n]
<1>1. x \in Int /\ x >= 0 /\ x < 2 * topbit_mask BY TopBit DEF IsWord
<1>2. PICK f : Turns(f, "SR", x, c) /\ introt("SR", n, x, c) = f[Repetitions("SR", n)]
  BY Turning DEF BitCommands
<1> DEFINE T == {k \in Nat : f[k][1] = x \div TwoTo[k]}
<1>3. 0 \in T
  <2>1. f[0][1] = x BY <1>2 DEF Turns
  <2> QED BY <1>1, <2>1, HalvedAgain
<1>4. ASSUME NEW k \in Nat, k \in T PROVE k + 1 \in T
  <2> DEFINE w == f[k][1]
  <2>1. IsWord(w) /\ f[k][2] \in {0, 1} /\ f[k + 1] = OneBit("SR", <<w, f[k][2]>>)
    BY <1>2, TurnedWord DEF BitCommands
  <2>2. w = x \div TwoTo[k] BY <1>4
  <2> HIDE DEF w
  <2>3. f[k + 1] = <<w \div 2, w % 2>> BY <2>1, OneTurn
  <2>4. f[k + 1][1] = w \div 2 BY <2>3
  <2>5. f[k + 1][1] = x \div TwoTo[k + 1] BY <1>1, <2>2, <2>4, HalvedAgain
  <2> QED BY <2>5
<1> HIDE DEF T
<1>5. \A k \in Nat : k \in T BY <1>3, <1>4, AllNaturals
<1>6. \A k \in Nat : f[k][1] = x \div TwoTo[k] BY <1>5 DEF T
<1>7. Repetitions("SR", n) = (IF n <= int_len THEN n ELSE int_len) /\ int_len \in Nat
  BY RepetitionsAre
<1>8. CASE n <= int_len BY <1>2, <1>6, <1>7, <1>8
<1>9. CASE ~(n <= int_len)
  <2>1. n >= int_len /\ int_len >= int_len /\ x >= -(2 * topbit_mask) BY <1>1, <1>7, <1>9, TopBit
  <2>2. x \div TwoTo[n] = x \div TwoTo[int_len] BY <1>1, <1>7, <2>1, DividedAway
  <2> QED BY <1>2, <1>6, <1>7, <1>9, <2>2
<1> QED BY <1>8, <1>9

LEMMA ShiftedOnce ==
    ASSUME WordsFit, ~Unsigned, NEW c \in {0, 1}, NEW neg \in BOOLEAN, NEW q \in Int,
           LeftOver(neg, q)
    PROVE  OneBit("ASR", <<Shifted(neg, q), c>>)[1] = Shifted(neg, q \div 2)
<1> DEFINE t == topbit_mask
           w == Shifted(neg, q)
           k == q \div 2
           e == q % 2
<1>1. t \in Nat \ {0} /\ int_mode \in {"2COMP", "1COMP", "SGNMANT"} BY TopBit DEF Modes, Unsigned
<1>2. k \in Int /\ e \in {0, 1} /\ q = 2 * k + e BY SMT
<1> HIDE DEF k, e
<1>3. /\ ~neg => w = q /\ 0 <= q /\ q < t
      /\ neg /\ int_mode = "2COMP" => w = q + 2 * t /\ -t <= q /\ q < 0
      /\ neg /\ int_mode = "1COMP" => w = (2 * t - 1) - q /\ 0 <= q /\ q < t
      /\ neg /\ int_mode = "SGNMANT" => w = t + q /\ 0 <= q /\ q < t BY <1>1 DEF Shifted, LeftOver
<1> HIDE DEF t, w
<1>4. w \in Int /\ w >= 0 /\ w < 2 * t /\ (w >= t <=> neg) BY <1>1, <1>3
<1>5. IsWord(w) BY <1>1, <1>4 DEF IsWord, t
<1>6. IsTop(w) <=> neg BY <1>4, <1>5, WordsRead DEF IsWord, Reads, t
<1>7. OneBit("ASR", <<w, c>>) = intASR(w, c) BY <1>5, OneTurn
<1> DEFINE high == IF neg THEN t ELSE 0
           m == w % t
<1>8. intASR(w, c)[1] = IF int_mode = "SGNMANT" THEN m \div 2 + high ELSE w \div 2 + high
  BY <1>6 DEF intASR, t
<1>9. CASE int_mode = "SGNMANT"
  <2>1. 0 <= q /\ q < t /\ w = (IF neg THEN t + q ELSE q) BY <1>3, <1>9
  <2>2. /\ w >= 0 /\ w < t => m = w
        /\ w >= t /\ w < 2 * t => m = w - t BY <1>1, <1>4, Remainders
  <2> HIDE DEF m
  <2>3. m = q BY <1>1, <2>1, <2>2
  <2>4. Shifted(neg, k) = IF neg THEN t + k ELSE k BY <1>9 DEF Shifted, t
  <2>5. m \div 2 = k BY <2>3 DEF k
  <2> QED BY <1>1, <1>2, <1>7, <1>8, <1>9, <2>4, <2>5 DEF w, k
<1>10. CASE ~neg /\ int_mode # "SGNMANT"
  <2>1. Shifted(neg, k) = k /\ w \div 2 = k /\ high = 0 BY <1>3, <1>10 DEF Shifted, k
  <2> HIDE DEF high
  <2> QED BY <1>2, <1>7, <1>8, <1>10, <2>1 DEF w, k
<1>11. CASE neg /\ int_mode = "2COMP"
  <2>1. Shifted(neg, k) = k + 2 * t /\ high = t BY <1>11 DEF Shifted, t
  <2>2. w = 2 * (k + t) + e BY <1>1, <1>2, <1>3, <1>11
  <2>3. w \div 2 = k + t BY <1>1, <1>2, <2>2
  <2> HIDE DEF high
  <2>4. intASR(w, c)[1] = k + 2 * t BY <1>1, <1>2, <1>8, <1>11, <2>1, <2>3
  <2> QED BY <1>7, <2>1, <2>4 DEF w, k
<1>12. CASE neg /\ int_mode = "1COMP"
  <2>1. Shifted(neg, k) = (2 * t - 1) - k /\ high = t BY <1>12 DEF Shifted, t
  <2>2. w = 2 * ((t - 1) - k) + (1 - e) BY <1>1, <1>2, <1>3, <1>12
  <2>3. w \div 2 = (t - 1) - k BY <1>1, <1>2, <2>2
  <2> HIDE DEF high
  <2>4. intASR(w, c)[1] = (2 * t - 1) - k BY <1>1, <1>2, <1>8, <1>12, <2>1, <2>3
  <2> QED BY <1>7, <2>1, <2>4 DEF w, k
<1> QED BY <1>1, <1>9, <1>10, <1>11, <1>12

LEMMA ShiftedArithmetically ==
    ASSUME WordsFit, ~Unsigned, NEW c \in {0, 1}, NEW neg \in BOOLEAN, NEW a \in Int,
           LeftOver(neg, a), NEW x, IsWord(x), x = Shifted(neg, a), NEW n \in Nat
    PROVE  /\ introt("ASR", n, x, c)[1] = Shifted(neg, a \div TwoTo[n])
           /\ LeftOver(neg, a \div TwoTo[n])
<1> DEFINE t == topbit_mask
<1>1. t \in Nat \ {0} BY TopBit
<1>2. PICK f : Turns(f, "ASR", x, c) /\ introt("ASR", n, x, c) = f[Repetitions("ASR", n)]
  BY Turning DEF BitCommands
<1>3. \A k \in Nat : a \div TwoTo[k] \in Int /\ LeftOver(neg, a \div TwoTo[k])
  <2> TAKE k \in Nat
  <2> DEFINE q == a \div TwoTo[k]
  <2>1. /\ q \in Int
        /\ a >= 0 => q >= 0 /\ q <= a
        /\ a < 0 => q < 0 /\ q >= a BY HalvedAgain
  <2> HIDE DEF q, t
  <2>2. LeftOver(neg, q) BY <1>1, <2>1 DEF LeftOver, t
  <2> QED BY <2>1, <2>2 DEF q
<1>4. f[0][1] = Shifted(neg, a \div TwoTo[0])
  <2>1. f[0][1] = x BY <1>2 DEF Turns
  <2>2. a \div TwoTo[0] = a /\ 0 \in Nat BY HalvedAgain
  <2> QED BY <2>1, <2>2
<1>5. ASSUME NEW k \in Nat, f[k][1] = Shifted(neg, a \div TwoTo[k])
      PROVE  f[k + 1][1] = Shifted(neg, a \div TwoTo[k + 1])
  <2> DEFINE q == a \div TwoTo[k]
             w == f[k][1]
  <2>1. f[k][2] \in {0, 1} /\ f[k + 1] = OneBit("ASR", <<w, f[k][2]>>)
    BY <1>2, TurnedWord DEF BitCommands
  <2>2. q \in Int /\ LeftOver(neg, q) BY <1>3
  <2>3. q \div 2 = a \div TwoTo[k + 1] BY HalvedAgain
  <2>4. w = Shifted(neg, q) BY <1>5
  <2> HIDE DEF q, w
  <2>5. OneBit("ASR", <<w, f[k][2]>>)[1] = Shifted(neg, q \div 2) BY <2>1, <2>2, <2>4, ShiftedOnce
  <2> QED BY <2>1, <2>3, <2>5
<1>6. \A k \in Nat : f[k][1] = Shifted(neg, a \div TwoTo[k])
  <2> DEFINE U == {k \in Nat : f[k][1] = Shifted(neg, a \div TwoTo[k])}
  <2>1. 0 \in U /\ \A k \in Nat : k \in U => k + 1 \in U BY <1>4, <1>5
  <2> HIDE DEF U
  <2>2. \A k \in Nat : k \in U BY <2>1, AllNaturals
  <2> QED BY <2>2 DEF U
<1>7. Repetitions("ASR", n) = (IF n <= int_len THEN n ELSE int_len) /\ int_len \in Nat
  BY RepetitionsAre
<1>8. CASE n <= int_len BY <1>2, <1>3, <1>6, <1>7, <1>8
<1>9. CASE ~(n <= int_len)
  <2>1. n >= int_len /\ int_len >= int_len BY <1>7, <1>9
  <2>2. a >= -(2 * t) /\ a < 2 * t
    <3> HIDE DEF t
    <3> QED BY <1>1 DEF LeftOver, t
  <2>3. a \div TwoTo[n] = a \div TwoTo[int_len] BY <1>7, <2>1, <2>2, DividedAway
  <2> QED BY <1>2, <1>3, <1>6, <1>7, <1>9, <2>3
<1> QED BY <1>8, <1>9

\* The arithmetic shift as the property has it.
LEMMA ArithmeticShiftTold ==
    ASSUME WordsFit, ~Unsigned, NEW x, IsWord(x), NEW c \in {0, 1}, NEW n \in Nat
    PROVE  introt("ASR", n, x, c)[1] =
               CASE ~IsTop(x) -> x \div TwoTo[n]
                 [] IsTop(x) /\ int_mode = "2COMP" -> mask_value((x - (2 * topbit_mask)) \div TwoTo[n])
                 [] OTHER -> build_value(magnitude(x) \div TwoTo[n], 1)
<1> DEFINE t == topbit_mask
           p == TwoTo[n]
           v == introt("ASR", n, x, c)[1]
<1>1. t \in Nat \ {0} /\ int_mode \in {"2COMP", "1COMP", "SGNMANT"} BY TopBit DEF Modes, Unsigned
<1>2. x \in Int /\ x >= 0 /\ x < 2 * t BY <1>1 DEF IsWord
<1>3. IsTop(x) <=> x >= t BY WordsRead DEF IsWord, Reads
<1>4. x >= t => magnitude(x) = CASE int_mode = "2COMP" -> 2 * t - x
                                 [] int_mode = "1COMP" -> 2 * t - 1 - x
                                 [] int_mode = "SGNMANT" -> x - t
  <2>1. x >= t => ~(x < t) BY <1>1, <1>2
  <2> QED BY <2>1, WordsRead DEF IsWord, Reads
<1>5. CASE ~IsTop(x)
  <2>1. x = Shifted(FALSE, x) /\ LeftOver(FALSE, x)
    <3>1. x < t BY <1>1, <1>2, <1>3, <1>5
    <3> QED BY <1>2, <3>1 DEF Shifted, LeftOver
  <2>2. v = Shifted(FALSE, x \div p) BY <1>2, <2>1, ShiftedArithmetically
  <2>3. v = x \div p BY <2>2 DEF Shifted
  <2> QED BY <1>5, <2>3
<1>6. CASE IsTop(x) /\ int_mode = "2COMP"
  <2> DEFINE a == x - 2 * t
             q == a \div p
  <2>1. a \in Int /\ x = Shifted(TRUE, a) /\ LeftOver(TRUE, a)
    <3> HIDE DEF t
    <3>1. x >= t BY <1>3, <1>6
    <3> QED BY <1>1, <1>2, <1>6, <3>1 DEF Shifted, LeftOver, t
  <2> HIDE DEF a
  <2>2. v = Shifted(TRUE, q) /\ LeftOver(TRUE, q) BY <2>1, ShiftedArithmetically
  <2>3. q \in Int BY <2>1, HalvedAgain
  <2> HIDE DEF q, v
  <2>4. v = q + 2 * t /\ q < 0 /\ q >= -t BY <1>1, <1>6, <2>2, <2>3 DEF Shifted, LeftOver
  <2>5. q >= -(2 * t)
    <3> HIDE DEF t
    <3> QED BY <1>1, <2>3, <2>4
  <2>6. mask_value(q) = q + 2 * t BY <2>3, <2>4, <2>5, Masks
  <2> QED BY <1>6, <2>4, <2>6 DEF q, a, v
<1>7. CASE IsTop(x) /\ int_mode # "2COMP"
  <2> DEFINE a == magnitude(x)
             q == a \div p
  <2>1. a \in Int /\ x = Shifted(TRUE, a) /\ LeftOver(TRUE, a)
    <3> HIDE DEF t, a
    <3>1. x >= t BY <1>3, <1>7
    <3>2. /\ int_mode = "1COMP" => a = 2 * t - 1 - x
          /\ int_mode = "SGNMANT" => a = x - t BY <1>4, <3>1 DEF a
    <3> QED BY <1>1, <1>2, <1>7, <3>1, <3>2 DEF Shifted, LeftOver, t
  <2> HIDE DEF a
  <2>2. v = Shifted(TRUE, q) /\ LeftOver(TRUE, q) BY <2>1, ShiftedArithmetically
  <2>3. q \in Int BY <2>1, HalvedAgain
  <2> HIDE DEF q, v
  <2>4. v = (IF int_mode = "1COMP" THEN (2 * t - 1) - q ELSE t + q) /\ q >= 0 /\ q < t
    BY <1>1, <1>7, <2>2, <2>3 DEF Shifted, LeftOver
  <2>5. build_value(q, 1) = v
    <3>1. CASE int_mode = "1COMP"
      <4> DEFINE b == -q - 1
      <4>1. b \in Int /\ b < 0 /\ b >= -(2 * t) /\ b + 2 * t = (2 * t - 1) - q
        <5> HIDE DEF t
        <5> QED BY <1>1, <2>3, <2>4
      <4>2. mask_value(b) = b + 2 * t
        <5> HIDE DEF b
        <5> QED BY <4>1, Masks
      <4>3. build_value(q, 1) = mask_value(b) BY <3>1 DEF build_value, Unsigned
      <4> QED BY <2>4, <3>1, <4>1, <4>2, <4>3
    <3>2. CASE int_mode = "SGNMANT"
      <4>1. q % t = q
        <5> HIDE DEF t
        <5> QED BY <1>1, <2>3, <2>4, Remainders
      <4>2. build_value(q, 1) = (q % t) + t BY <3>2 DEF build_value, Unsigned
      <4> HIDE DEF t
      <4> QED BY <1>1, <2>3, <2>4, <3>2, <4>1, <4>2
    <3> QED BY <1>1, <1>7, <3>1, <3>2
  <2> QED BY <1>7, <2>5, Zenon DEF q, a, v
<1> QED BY <1>5, <1>6, <1>7

\* A turn to the left and one to the right.
LEMMA TurnedThereAndBack ==
    ASSUME WordsFit, NEW x, IsWord(x), NEW c \in {0, 1}, NEW d \in {0, 1}
    PROVE  /\ OneBit("RR", <<OneBit("RL", <<x, c>>)[1], d>>)[1] = x
           /\ OneBit("RRC", OneBit("RLC", <<x, c>>)) = <<x, c>>
<1> DEFINE t == topbit_mask
           twice == IF x < t THEN 2 * x ELSE 2 * x - 2 * t
           top   == IF x < t THEN 0 ELSE 1
           u == twice + top
           v == twice + c
<1>1. t \in Nat \ {0} /\ x \in Int /\ x >= 0 /\ x < 2 * t BY TopBit DEF IsWord
<1>2. OneBit("RL", <<x, c>>) = <<u, top>> /\ OneBit("RLC", <<x, c>>) = <<v, top>> BY OneTurn
<1> HIDE DEF t
<1>3. top \in {0, 1} /\ u \in Int /\ u >= 0 /\ u < 2 * t /\ v \in Int /\ v >= 0 /\ v < 2 * t BY <1>1
<1>4. u \div 2 + (u % 2) * t = x
  <2>1. CASE x < t
    <3>1. u = 2 * x BY <1>1, <2>1
    <3> HIDE DEF u
    <3>2. u \div 2 = x /\ u % 2 = 0 BY <1>1, <3>1
    <3> QED BY <1>1, <3>2
  <2>2. CASE ~(x < t)
    <3>1. u = 2 * (x - t) + 1 BY <1>1, <2>2
    <3> HIDE DEF u
    <3>2. u \div 2 = x - t /\ u % 2 = 1 BY <1>1, <3>1
    <3> QED BY <1>1, <3>2
  <2> QED BY <2>1, <2>2
<1>5. v \div 2 + top * t = x /\ v % 2 = c
  <2>1. CASE x < t
    <3>1. v = 2 * x + c /\ top = 0 BY <1>1, <2>1
    <3> HIDE DEF v, top
    <3>2. v \div 2 = x /\ v % 2 = c BY <1>1, <3>1
    <3> QED BY <1>1, <3>1, <3>2
  <2>2. CASE ~(x < t)
    <3>1. v = 2 * (x - t) + c /\ top = 1 BY <1>1, <2>2
    <3> HIDE DEF v, top
    <3>2. v \div 2 = x - t /\ v % 2 = c BY <1>1, <3>1
    <3> QED BY <1>1, <3>1, <3>2
  <2> QED BY <2>1, <2>2
<1>6. IsWord(u) /\ IsWord(v)
  <2> HIDE DEF u, v
  <2> QED BY <1>1, <1>3 DEF IsWord, t
<1> HIDE DEF u, v, top
<1>7. OneBit("RR", <<u, d>>) = <<u \div 2 + (u % 2) * t, u % 2>> BY <1>6, OneTurn DEF t
<1>8. OneBit("RRC", <<v, top>>) = <<v \div 2 + top * t, v % 2>> BY <1>3, <1>6, OneTurn DEF t
<1>9. OneBit("RL", <<x, c>>)[1] = u BY <1>2
<1>10. OneBit("RR", <<u, d>>)[1] = x BY <1>4, <1>7
<1> QED BY <1>2, <1>5, <1>8, <1>9, <1>10

\* k turns to the right undo k turns to the left.
LEMMA RotatedBack ==
    ASSUME WordsFit, NEW x, IsWord(x), NEW c \in {0, 1}, NEW d \in {0, 1}, NEW k \in Nat,
           NEW f, Turns(f, "RL", x, c), NEW g, Turns(g, "RR", f[k][1], d)
    PROVE  g[k][1] = x
<1> DEFINE T == {i \in Nat : i <= k => g[i][1] = f[k - i][1]}
<1>1. 0 \in T
  <2>1. k - 0 = k /\ g[0][1] = f[k][1] BY DEF Turns
  <2> QED BY <2>1
<1>2. ASSUME NEW i \in Nat, i \in T PROVE i + 1 \in T
  <2> SUFFICES ASSUME i + 1 <= k PROVE g[i + 1][1] = f[k - (i + 1)][1] BY SMT
  <2> DEFINE j == k - (i + 1)
  <2>1. j \in Nat /\ j + 1 = k - i /\ i <= k BY SMT
  <2> HIDE DEF j
  <2>2. IsWord(f[j][1]) /\ f[j][2] \in {0, 1} /\ f[j + 1] = OneBit("RL", <<f[j][1], f[j][2]>>)
    BY <2>1, TurnedWord DEF BitCommands
  <2>3. g[i][2] \in {0, 1} /\ g[i + 1] = OneBit("RR", <<g[i][1], g[i][2]>>)
    BY TurnedWord DEF BitCommands
  <2>4. g[i][1] = f[j + 1][1] BY <1>2, <2>1
  <2>5. OneBit("RR", <<OneBit("RL", <<f[j][1], f[j][2]>>)[1], g[i][2]>>)[1] = f[j][1]
    BY <2>2, <2>3, TurnedThereAndBack
  <2> QED BY <2>2, <2>3, <2>4, <2>5 DEF j
<1> HIDE DEF T
<1>3. \A i \in Nat : i \in T BY <1>1, <1>2, AllNaturals
<1>4. g[k][1] = f[k - k][1] BY <1>3 DEF T
<1>5. k - k = 0 /\ f[0] = <<x, c>> BY DEF Turns
<1> QED BY <1>4, <1>5

LEMMA RotatedBackWithCarry ==
    ASSUME WordsFit, NEW x, IsWord(x), NEW c \in {0, 1}, NEW k \in Nat,
           NEW f, Turns(f, "RLC", x, c), NEW g, Turns(g, "RRC", f[k][1], f[k][2])
    PROVE  g[k] = <<x, c>>
<1> DEFINE T == {i \in Nat : i <= k => g[i] = f[k - i]}
<1>1. 0 \in T
  <2>1. k - 0 = k /\ g[0] = <<f[k][1], f[k][2]>> BY DEF Turns
  <2>2. f[k] = <<f[k][1], f[k][2]>>
    <3>1. "RLC" \in BitCommands BY DEF BitCommands
    <3> QED BY <3>1, TurnedWord, Zenon
  <2> QED BY <2>1, <2>2
<1>2. ASSUME NEW i \in Nat, i \in T PROVE i + 1 \in T
  <2> SUFFICES ASSUME i + 1 <= k PROVE g[i + 1] = f[k - (i + 1)] BY SMT
  <2> DEFINE j == k - (i + 1)
  <2>1. j \in Nat /\ j + 1 = k - i /\ i <= k BY SMT
  <2> HIDE DEF j
  <2>2. /\ IsWord(f[j][1]) /\ f[j][2] \in {0, 1} /\ f[j] = <<f[j][1], f[j][2]>>
        /\ f[j + 1] = OneBit("RLC", <<f[j][1], f[j][2]>>) BY <2>1, TurnedWord DEF BitCommands
  <2>3. g[i + 1] = OneBit("RRC", g[i]) BY DEF Turns
  <2>4. g[i] = f[j + 1] BY <1>2, <2>1
  <2>5. OneBit("RRC", OneBit("RLC", <<f[j][1], f[j][2]>>)) = <<f[j][1], f[j][2]>>
    BY <2>2, TurnedThereAndBack
  <2> QED BY <2>2, <2>3, <2>4, <2>5 DEF j
<1> HIDE DEF T
<1>3. \A i \in Nat : i \in T BY <1>1, <1>2, AllNaturals
<1>4. g[k] = f[k - k] BY <1>3 DEF T
<1>5. k - k = 0 /\ f[0] = <<x, c>> BY DEF Turns
<1> QED BY <1>4, <1>5

LEMMA RotationsUndone ==
    ASSUME WordsFit, NEW x, IsWord(x), NEW c \in {0, 1}, NEW n \in Nat
    PROVE  LET r == introt("RLC", n, x, c)
           IN  /\ introt("RR", n, introt("RL", n, x, c)[1], 0)[1] = x
               /\ introt("RRC", n, r[1], r[2]) = <<x, c>>
               /\ introt("RLC", int_len + 1, x, c) = <<x, c>>
<1>1. introt("RR", n, introt("RL", n, x, c)[1], 0)[1] = x
  <2> DEFINE k == Repetitions("RL", n)
             d == 0
  <2>1. k \in Nat /\ Repetitions("RR", n) = k /\ d \in {0, 1} BY RepetitionsAre
  <2> HIDE DEF k, d
  <2>2. PICK f : Turns(f, "RL", x, c) /\ introt("RL", n, x, c) = f[k] BY Turning DEF BitCommands, k
  <2>3. IsWord(f[k][1]) BY <2>1, <2>2, TurnedWord DEF BitCommands
  <2>4. PICK g : Turns(g, "RR", f[k][1], d) /\ introt("RR", n, f[k][1], d) = g[k]
    BY <2>1, <2>3, Turning DEF BitCommands
  <2>5. g[k][1] = x BY <2>1, <2>2, <2>4, RotatedBack
  <2> QED BY <2>2, <2>4, <2>5 DEF d
<1>2. ASSUME NEW r, r = introt("RLC", n, x, c) PROVE introt("RRC", n, r[1], r[2]) = <<x, c>>
  <2> DEFINE k == Repetitions("RLC", n)
  <2>1. k \in Nat /\ Repetitions("RRC", n) = k BY RepetitionsAre
  <2> HIDE DEF k
  <2>2. PICK f : Turns(f, "RLC", x, c) /\ introt("RLC", n, x, c) = f[k]
    BY Turning DEF BitCommands, k
  <2>3. IsWord(f[k][1]) /\ f[k][2] \in {0, 1} BY <2>1, <2>2, TurnedWord DEF BitCommands
  <2>4. PICK g : Turns(g, "RRC", f[k][1], f[k][2]) /\ introt("RRC", n, f[k][1], f[k][2]) = g[k]
    BY <2>1, <2>3, Turning DEF BitCommands
  <2>5. g[k] = <<x, c>> BY <2>1, <2>2, <2>4, RotatedBackWithCarry
  <2> QED BY <1>2, <2>2, <2>4, <2>5
<1>3. introt("RLC", int_len + 1, x, c) = <<x, c>>
  <2>1. PICK f : Turns(f, "RLC", x, c)
                 /\ introt("RLC", int_len + 1, x, c) = f[Repetitions("RLC", int_len + 1)]
    BY Turning DEF BitCommands
  <2>2. Repetitions("RLC", int_len + 1) = 0 BY RepetitionsAre
  <2> QED BY <2>1, <2>2 DEF Turns
<1> QED BY <1>1, <1>2, <1>3

(* However far they go, shifts are products and quotients by powers of two,   *)
(* and rotations are undone by those the other way round, for words of any   *)
(* size in each of the modes.                                                *)
THEOREM RotationsAreTold == Spec => []RotationsTold
<1>1. WordsFit => RotationsTold
  <2> SUFFICES ASSUME WordsFit PROVE RotationsTold OBVIOUS
  <2>1. IsWord(X) /\ Carry \in {0, 1} BY DEF WordsFit, IsWord
  <2>2. \A n \in 0 .. (2 * int_len) + 2 : n \in Nat OBVIOUS
  <2>3. ASSUME NEW n \in Nat
        PROVE  /\ introt("SL", n, X, Carry)[1] = mask_value(X * TwoTo[n])
               /\ introt("SR", n, X, Carry)[1] = X \div TwoTo[n] BY <2>1, ShiftedLeft, ShiftedRight
  <2>4. ASSUME NEW n \in Nat, ~Unsigned
        PROVE  introt("ASR", n, X, Carry)[1] =
                   CASE ~IsTop(X) -> X \div TwoTo[n]
                     [] IsTop(X) /\ int_mode = "2COMP" -> mask_value((X - (2 * topbit_mask)) \div TwoTo[n])
                     [] OTHER -> build_value(magnitude(X) \div TwoTo[n], 1)
    BY <2>1, <2>4, ArithmeticShiftTold
  <2>5. ASSUME NEW n \in Nat
        PROVE  LET r == introt("RLC", n, X, Carry)
               IN  /\ introt("RR", n, introt("RL", n, X, Carry)[1], 0)[1] = X
                   /\ introt("RRC", n, r[1], r[2]) = <<X, Carry>>
                   /\ introt("RLC", int_len + 1, X, Carry) = <<X, Carry>> BY <2>1, RotationsUndone
  <2>6. introt("RLC", int_len + 1, X, Carry) = <<X, Carry>>
    <3>1. int_len \in Nat BY RepetitionsAre
    <3> QED BY <2>5, <3>1
  <2> QED BY <2>2, <2>3, <2>4, <2>5, <2>6, Zenon DEF RotationsTold
<1> QED BY <1>1, RegistersAreWords, PTL

-----
(* What loops make of their variables *)

LEMMA TurnsFollow ==
    ASSUME NEW S, NEW g \in [S -> S], NEW a \in S
    PROVE  /\ \A n \in Nat : Turned(g, a, n) \in S
           /\ Turned(g, a, 0) = a
           /\ \A n \in Nat : Turned(g, a, n + 1) = g[Turned(g, a, n)]
<1> DEFINE Fix(f) == f = [n \in Nat |-> IF n = 0 THEN a ELSE g[f[n - 1]]]
           F == CHOOSE f : Fix(f)
<1>1. PICK f \in [Nat -> S] : f[0] = a /\ \A n \in Nat : f[n + 1] = g[f[n]]
  <2>1. Iterable(S, g, a) BY Iteration
  <2> QED BY <2>1 DEF Iterable
<1>2. Fix(f)
  <2>1. ASSUME NEW n \in Nat PROVE f[n] = IF n = 0 THEN a ELSE g[f[n - 1]]
    <3>1. n # 0 => n - 1 \in Nat /\ (n - 1) + 1 = n BY SMT
    <3>2. n # 0 => f[(n - 1) + 1] = g[f[n - 1]] BY <1>1, <3>1
    <3> QED BY <1>1, <3>1, <3>2
  <2>2. f = [n \in Nat |-> f[n]] BY <1>1
  <2> QED BY <2>1, <2>2
<1>3. Fix(F)
  <2> HIDE DEF Fix
  <2> QED BY <1>2
<1>4. \A n \in Nat : Turned(g, a, n) = F[n] BY DEF Turned
<1>5. \A n \in Nat : F[n] = IF n = 0 THEN a ELSE g[F[n - 1]] BY <1>3
<1> HIDE DEF F
<1>6. F[0] = a BY <1>5
<1>7. ASSUME NEW n \in Nat PROVE F[n + 1] = g[F[n]]
  <2>1. n + 1 \in Nat /\ n + 1 # 0 /\ (n + 1) - 1 = n BY SMT
  <2> QED BY <1>5, <2>1
<1> DEFINE T == {n \in Nat : F[n] \in S}
<1>8. \A n \in Nat : n \in T
  <2>1. 0 \in T BY <1>6
  <2>2. ASSUME NEW n \in Nat, n \in T PROVE n + 1 \in T
    <3>1. F[n + 1] \in S BY <1>7, <2>2
    <3> QED BY <3>1
  <2> HIDE DEF T
  <2> QED BY <2>1, <2>2, AllNaturals
<1> QED BY <1>4, <1>6, <1>7, <1>8

-----
(* The bits of a number *)

LEMMA HalvedFirst ==
    ASSUME NEW a \in Nat, NEW k \in Nat
    PROVE  (a \div 2) \div TwoTo[k] = a \div TwoTo[k + 1]
<1> DEFINE T == {n \in Nat : (a \div 2) \div TwoTo[n] = a \div TwoTo[n + 1]}
<1>1. a \div 2 \in Int /\ 1 = 0 + 1 BY SMT
<1>2. 0 \in T
  <2>1. (a \div 2) \div TwoTo[0] = a \div 2 BY <1>1, HalvedAgain
  <2>2. a \div TwoTo[0] = a /\ (a \div TwoTo[0]) \div 2 = a \div TwoTo[0 + 1] BY HalvedAgain
  <2> QED BY <2>1, <2>2
<1>3. ASSUME NEW n \in Nat, n \in T PROVE n + 1 \in T
  <2>1. n + 1 \in Nat BY SMT
  <2>2. ((a \div 2) \div TwoTo[n]) \div 2 = (a \div 2) \div TwoTo[n + 1] BY <1>1, HalvedAgain
  <2>3. (a \div TwoTo[n + 1]) \div 2 = a \div TwoTo[(n + 1) + 1] BY <2>1, HalvedAgain
  <2> QED BY <1>3, <2>1, <2>2, <2>3
<1> HIDE DEF T
<1>4. k \in T BY <1>2, <1>3, AllNaturals
<1> QED BY <1>4 DEF T

LEMMA BitsOfHalf ==
    ASSUME NEW x \in Nat
    PROVE  /\ x \div 2 \in Nat /\ x % 2 \in {0, 1} /\ x = 2 * (x \div 2) + (x % 2)
           /\ BitOf(x, 0) = x % 2
           /\ \A j \in Nat : BitOf(x, j) \in {0, 1} /\ BitOf(x, j + 1) = BitOf(x \div 2, j)
<1>1. x \div 2 \in Nat /\ x % 2 \in {0, 1} /\ x = 2 * (x \div 2) + (x % 2) /\ x \in Int
  <2>1. x \div 2 \in Nat /\ x % 2 \in 0 .. 2 - 1 /\ x = 2 * (x \div 2) + (x % 2) BY Divided
  <2>2. \A r \in 0 .. 2 - 1 : r \in {0, 1} BY SMT
  <2> QED BY <2>1, <2>2
<1>2. BitOf(x, 0) = x % 2
  <2>1. x \div TwoTo[0] = x BY <1>1, HalvedAgain
  <2> QED BY <2>1 DEF BitOf
<1>3. ASSUME NEW j \in Nat PROVE BitOf(x, j) \in {0, 1} /\ BitOf(x, j + 1) = BitOf(x \div 2, j)
  <2>1. x \div TwoTo[j] \in Int BY <1>1, HalvedAgain
  <2>2. (x \div TwoTo[j]) % 2 \in {0, 1} BY <2>1, SMT
  <2> QED BY <2>2, HalvedFirst DEF BitOf
<1> QED BY <1>1, <1>2, <1>3

LEMMA BitsOfDouble ==
    ASSUME NEW w \in Nat, NEW b \in {0, 1}
    PROVE  /\ 2 * w + b \in Nat /\ BitOf(2 * w + b, 0) = b
           /\ \A j \in Nat : BitOf(2 * w + b, j + 1) = BitOf(w, j)
<1>1. 2 * w + b \in Nat /\ (2 * w + b) \div 2 = w /\ (2 * w + b) % 2 = b BY SMT
<1> QED BY <1>1, BitsOfHalf

\* A bit is the first or one of the half.
LEMMA FirstOrLater ==
    ASSUME NEW j \in Nat
    PROVE  j = 0 \/ \E i \in Nat : j = i + 1 /\ i = j - 1
<1>1. j # 0 => j - 1 \in Nat /\ j = (j - 1) + 1 BY SMT
<1> QED BY <1>1

LEMMA BitsDecide ==
    ASSUME NEW k \in Nat, NEW v \in Nat, NEW w \in Nat, v < TwoTo[k], w < TwoTo[k],
           \A j \in 0 .. k - 1 : BitOf(v, j) = BitOf(w, j)
    PROVE  v = w
<1> DEFINE Same(n, x, y) == \A j \in Nat : j < n => BitOf(x, j) = BitOf(y, j)
           T == {n \in Nat : \A x, y \in Nat : x < TwoTo[n] /\ y < TwoTo[n] /\ Same(n, x, y) => x = y}
<1>1. 0 \in T
  <2>1. \A x \in Nat : x < 1 => x = 0 BY SMT
  <2> HIDE DEF Same
  <2> QED BY <2>1, PowersOfTwo
<1>2. ASSUME NEW n \in Nat, n \in T PROVE n + 1 \in T
  <2>1. ASSUME NEW x \in Nat, NEW y \in Nat, x < TwoTo[n + 1], y < TwoTo[n + 1], Same(n + 1, x, y)
        PROVE  x = y
    <3>1. TwoTo[n + 1] = 2 * TwoTo[n] /\ TwoTo[n] \in Nat BY PowersOfTwo
    <3>2. x \div 2 \in Nat /\ y \div 2 \in Nat /\ x \div 2 < TwoTo[n] /\ y \div 2 < TwoTo[n]
      BY <2>1, <3>1, SMT
    <3>3. ASSUME NEW j \in Nat, j < n PROVE BitOf(x \div 2, j) = BitOf(y \div 2, j)
      <4>1. j + 1 \in Nat /\ j + 1 < n + 1 BY <3>3, SMT
      <4>2. BitOf(x, j + 1) = BitOf(y, j + 1) BY <2>1, <4>1
      <4> QED BY <4>2, BitsOfHalf
    <3>4. x \div 2 = y \div 2
      <4>1. Same(n, x \div 2, y \div 2) BY <3>3
      <4> HIDE DEF Same
      <4> QED BY <1>2, <3>2, <4>1
    <3>5. x % 2 = y % 2
      <4>1. 0 < n + 1 BY SMT
      <4>2. BitOf(x, 0) = BitOf(y, 0) BY <2>1, <4>1
      <4> QED BY <4>2, BitsOfHalf
    <3> QED BY <3>4, <3>5, BitsOfHalf
  <2>2. n + 1 \in Nat BY SMT
  <2> HIDE DEF Same
  <2> QED BY <2>1, <2>2
<1>3. k \in T
  <2> HIDE DEF T
  <2> QED BY <1>1, <1>2, AllNaturals
<1>4. Same(k, v, w)
  <2>1. \A j \in Nat : j < k => j \in 0 .. k - 1 BY SMT
  <2> QED BY <2>1
<1> HIDE DEF Same
<1> QED BY <1>3, <1>4

LEMMA RestOfDouble ==
    ASSUME NEW x \in Nat, NEW m \in Nat \ {0}
    PROVE  /\ x % (2 * m) = 2 * ((x \div 2) % m) + (x % 2)
           /\ (x \div 2) % m \in Nat
<1> DEFINE h == x \div 2
           b == x % 2
           q == h \div m
           r == h % m
           n == 2 * m
<1>1. h \in Nat /\ b \in {0, 1} /\ x = 2 * h + b BY BitsOfHalf
<1> HIDE DEF h, b
<1>2. q \in Nat /\ r \in 0 .. m - 1 /\ h = m * q + r /\ m * q \in Nat BY <1>1, Divided
<1> HIDE DEF q, r
<1>3. n \in Nat \ {0} /\ 2 * r + b \in 0 .. n - 1 /\ n * q = 2 * (m * q) BY <1>1, <1>2, SMT
<1>4. x = n * q + (2 * r + b)
  <2> DEFINE p == m * q
             k == n * q
  <2>1. p \in Nat /\ h = p + r /\ k = 2 * p /\ r \in Int BY <1>2, <1>3
  <2> HIDE DEF p, k
  <2>2. x = k + (2 * r + b) BY <1>1, <2>1, SMT
  <2> QED BY <2>2 DEF k
<1> HIDE DEF n
<1>5. x % n = 2 * r + b
  <2> DEFINE s == 2 * r + b
  <2>1. s \in 0 .. n - 1 /\ x = n * q + s /\ q \in Int BY <1>2, <1>3, <1>4
  <2> HIDE DEF s
  <2>2. x % n = s BY <1>3, <2>1, QuotientIs
  <2> QED BY <2>2 DEF s
<1>6. r \in Nat BY <1>2, SMT
<1> QED BY <1>5, <1>6 DEF n, r, h, b

LEMMA BitsOfRest ==
    ASSUME NEW x \in Nat, NEW k \in Nat, NEW i \in Nat
    PROVE  /\ x % TwoTo[k] \in Nat
           /\ BitOf(x % TwoTo[k], i) = IF i < k THEN BitOf(x, i) ELSE 0
<1> DEFINE Rest(n, y, j) == /\ y % TwoTo[n] \in Nat
                            /\ BitOf(y % TwoTo[n], j) = IF j < n THEN BitOf(y, j) ELSE 0
           T == {n \in Nat : \A y, j \in Nat : Rest(n, y, j)}
           Z == {n \in Nat : BitOf(0, n) = 0}
<1>1. \A n \in Nat : n \in Z
  <2>1. 0 \in Nat /\ 0 % 2 = 0 /\ 0 \div 2 = 0 BY SMT
  <2>2. 0 \in Z BY <2>1, BitsOfHalf
  <2>3. ASSUME NEW n \in Nat, n \in Z PROVE n + 1 \in Z
    <3>1. BitOf(0, n + 1) = BitOf(0, n) BY <2>1, BitsOfHalf
    <3> QED BY <2>3, <3>1
  <2> HIDE DEF Z
  <2> QED BY <2>2, <2>3, AllNaturals
<1>2. 0 \in T
  <2>1. ASSUME NEW y \in Nat, NEW j \in Nat PROVE Rest(0, y, j)
    <3>1. y % 1 = 0 /\ ~(j < 0) /\ 0 \in Nat BY SMT
    <3>2. y % TwoTo[0] = 0 BY <3>1, PowersOfTwo
    <3> QED BY <1>1, <3>1, <3>2
  <2> HIDE DEF Rest
  <2> QED BY <2>1
<1>3. ASSUME NEW n \in Nat, n \in T PROVE n + 1 \in T
  <2>1. n + 1 \in Nat /\ TwoTo[n + 1] = 2 * TwoTo[n] /\ TwoTo[n] \in Nat \ {0} BY PowersOfTwo
  <2>2. ASSUME NEW y \in Nat, NEW j \in Nat PROVE Rest(n + 1, y, j)
    <3> DEFINE h == y \div 2
               b == y % 2
               r == h % TwoTo[n]
    <3>1. h \in Nat /\ b \in {0, 1} /\ BitOf(y, 0) = b /\ \A m \in Nat : BitOf(y, m + 1) = BitOf(h, m)
      BY BitsOfHalf
    <3>2. y % TwoTo[n + 1] = 2 * r + b BY <2>1, RestOfDouble
    <3> HIDE DEF h, b
    <3>3. r \in Nat /\ \A m \in Nat : BitOf(r, m) = IF m < n THEN BitOf(h, m) ELSE 0 BY <1>3, <3>1
    <3> HIDE DEF r
    <3>4. /\ 2 * r + b \in Nat /\ BitOf(2 * r + b, 0) = b
          /\ \A m \in Nat : BitOf(2 * r + b, m + 1) = BitOf(r, m) BY <3>1, <3>3, BitsOfDouble
    <3>5. CASE j = 0
      <4>1. 0 < n + 1 BY SMT
      <4> QED BY <3>1, <3>2, <3>4, <3>5, <4>1
    <3>6. ASSUME NEW m \in Nat, j = m + 1 PROVE Rest(n + 1, y, j)
      <4>1. m + 1 < n + 1 <=> m < n BY SMT
      <4> QED BY <3>1, <3>2, <3>3, <3>4, <3>6, <4>1
    <3> HIDE DEF Rest
    <3> QED BY <3>5, <3>6, FirstOrLater
  <2> HIDE DEF Rest
  <2> QED BY <2>1, <2>2
<1>4. k \in T
  <2> HIDE DEF T
  <2> QED BY <1>2, <1>3, AllNaturals
<1> QED BY <1>4

LEMMA BitsOfMask ==
    ASSUME NEW k \in Nat, NEW i \in Nat
    PROVE  TwoTo[k] - 1 \in Nat /\ BitOf(TwoTo[k] - 1, i) = IF i < k THEN 1 ELSE 0
<1> DEFINE Ones(n, j) == BitOf(TwoTo[n] - 1, j) = IF j < n THEN 1 ELSE 0
           T == {n \in Nat : TwoTo[n] - 1 \in Nat /\ \A j \in Nat : Ones(n, j)}
<1>1. 0 \in T
  <2>1. ASSUME NEW j \in Nat PROVE Ones(0, j)
    <3>1. 0 % TwoTo[0] = 0 /\ TwoTo[0] - 1 = 0 /\ ~(j < 0) /\ 0 \in Nat BY PowersOfTwo
    <3>2. BitOf(0 % TwoTo[0], j) = 0 BY <3>1, BitsOfRest
    <3> QED BY <3>1, <3>2
  <2>2. TwoTo[0] - 1 \in Nat BY PowersOfTwo
  <2> HIDE DEF Ones
  <2> QED BY <2>1, <2>2
<1>2. ASSUME NEW n \in Nat, n \in T PROVE n + 1 \in T
  <2> DEFINE w == TwoTo[n] - 1
  <2>1. w \in Nat /\ \A j \in Nat : BitOf(w, j) = IF j < n THEN 1 ELSE 0 BY <1>2
  <2>2. n + 1 \in Nat /\ TwoTo[n + 1] - 1 = 2 * w + 1 BY PowersOfTwo
  <2> HIDE DEF w
  <2>3. /\ 2 * w + 1 \in Nat /\ BitOf(2 * w + 1, 0) = 1
        /\ \A j \in Nat : BitOf(2 * w + 1, j + 1) = BitOf(w, j) BY <2>1, BitsOfDouble
  <2>4. ASSUME NEW j \in Nat PROVE Ones(n + 1, j)
    <3>1. CASE j = 0
      <4>1. 0 < n + 1 BY SMT
      <4> QED BY <2>2, <2>3, <3>1, <4>1
    <3>2. ASSUME NEW m \in Nat, j = m + 1 PROVE Ones(n + 1, j)
      <4>1. m + 1 < n + 1 <=> m < n BY SMT
      <4> QED BY <2>1, <2>2, <2>3, <3>2, <4>1
    <3> HIDE DEF Ones
    <3> QED BY <3>1, <3>2, FirstOrLater
  <2> HIDE DEF Ones
  <2> QED BY <2>2, <2>3, <2>4
<1>3. k \in T
  <2> HIDE DEF T
  <2> QED BY <1>1, <1>2, AllNaturals
<1> QED BY <1>3

LEMMA BitsOfProduct ==
    ASSUME NEW x \in Nat, NEW k \in Nat, NEW i \in Nat
    PROVE  /\ x * TwoTo[k] \in Nat
           /\ BitOf(x * TwoTo[k], i) = IF i < k THEN 0 ELSE BitOf(x, i - k)
<1> DEFINE Raised(n, j) == BitOf(x * TwoTo[n], j) = IF j < n THEN 0 ELSE BitOf(x, j - n)
           T == {n \in Nat : x * TwoTo[n] \in Nat /\ \A j \in Nat : Raised(n, j)}
<1>1. 0 \in T
  <2>1. x * TwoTo[0] = x BY PowersOfTwo
  <2>2. ASSUME NEW j \in Nat PROVE Raised(0, j)
    <3>1. ~(j < 0) /\ j - 0 = j BY SMT
    <3> QED BY <2>1, <3>1
  <2> HIDE DEF Raised
  <2> QED BY <2>1, <2>2
<1>2. ASSUME NEW n \in Nat, n \in T PROVE n + 1 \in T
  <2> DEFINE w == x * TwoTo[n]
  <2>1. w \in Nat /\ \A j \in Nat : BitOf(w, j) = IF j < n THEN 0 ELSE BitOf(x, j - n) BY <1>2
  <2>2. n + 1 \in Nat /\ x * TwoTo[n + 1] = 2 * w + 0
    <3>1. TwoTo[n + 1] = 2 * TwoTo[n] /\ TwoTo[n] \in Nat BY PowersOfTwo
    <3>2. \A t \in Nat : x * (2 * t) = 2 * (x * t) BY SMT
    <3>3. 2 * w = 2 * w + 0 BY <2>1, SMT
    <3> QED BY <3>1, <3>2, <3>3
  <2> HIDE DEF w
  <2>3. /\ 2 * w + 0 \in Nat /\ BitOf(2 * w + 0, 0) = 0
        /\ \A j \in Nat : BitOf(2 * w + 0, j + 1) = BitOf(w, j)
    <3> DEFINE b == 0
    <3>1. b \in {0, 1} OBVIOUS
    <3> HIDE DEF b
    <3>2. /\ 2 * w + b \in Nat /\ BitOf(2 * w + b, 0) = b
          /\ \A j \in Nat : BitOf(2 * w + b, j + 1) = BitOf(w, j) BY <2>1, <3>1, BitsOfDouble
    <3> QED BY <3>2 DEF b
  <2>4. ASSUME NEW j \in Nat PROVE Raised(n + 1, j)
    <3>1. CASE j = 0
      <4>1. 0 < n + 1 BY SMT
      <4> QED BY <2>2, <2>3, <3>1, <4>1
    <3>2. ASSUME NEW m \in Nat, j = m + 1 PROVE Raised(n + 1, j)
      <4>1. (m + 1 < n + 1 <=> m < n) /\ (m + 1) - (n + 1) = m - n BY SMT
      <4> QED BY <2>1, <2>2, <2>3, <3>2, <4>1
    <3> HIDE DEF Raised
    <3> QED BY <3>1, <3>2, FirstOrLater
  <2> HIDE DEF Raised
  <2> QED BY <2>2, <2>3, <2>4
<1>3. k \in T
  <2> HIDE DEF T
  <2> QED BY <1>1, <1>2, AllNaturals
<1> QED BY <1>3

\* Digits put one behind the other are the bits of a word.
LEMMA WordOfBits ==
    ASSUME NEW n \in Nat, NEW bits, \A k \in 1 .. n : bits[k] \in {0, 1}
    PROVE  /\ WordOf(bits, n) \in Nat /\ WordOf(bits, n) < TwoTo[n]
           /\ \A j \in Nat : j < n => BitOf(WordOf(bits, n), j) = bits[n - j]
<1> DEFINE S == [i : Nat, word : Nat]
           g == [s \in S |-> IF s.i < n THEN [i |-> s.i + 1, word |-> 2 * s.word + bits[s.i + 1]]
                             ELSE s]
           a == [i |-> 0, word |-> 0]
           F(k) == Turned(g, a, k)
<1>1. g \in [S -> S] /\ a \in S
  <2>1. ASSUME NEW s \in S
        PROVE  (IF s.i < n THEN [i |-> s.i + 1, word |-> 2 * s.word + bits[s.i + 1]] ELSE s) \in S
    <3>1. s.i \in Nat /\ s.word \in Nat OBVIOUS
    <3>2. s.i < n => bits[s.i + 1] \in {0, 1}
      <4>1. s.i < n => s.i + 1 \in 1 .. n BY <3>1, SMT
      <4> QED BY <4>1
    <3>3. s.i < n => 2 * s.word + bits[s.i + 1] \in Nat /\ s.i + 1 \in Nat BY <3>1, <3>2, SMT
    <3> QED BY <3>3
  <2>2. a \in S BY SMT
  <2> HIDE DEF S
  <2> QED BY <2>1, <2>2
<1>2. F(0) = a /\ \A k \in Nat : F(k) \in S /\ F(k + 1) = g[F(k)]
  <2> HIDE DEF S, g, a
  <2> QED BY <1>1, TurnsFollow
<1>3. WordOf(bits, n) = F(n).word BY DEF WordOf
<1>4. ASSUME NEW k \in Nat
      PROVE  LET s == F(k) IN
             /\ s.i \in Nat /\ s.word \in Nat
             /\ s.i < n => F(k + 1).i = s.i + 1 /\ F(k + 1).word = 2 * s.word + bits[s.i + 1]
  <2> DEFINE s == F(k)
  <2>1. s \in S /\ F(k + 1) = g[s] BY <1>2
  <2> HIDE DEF s, F
  <2>2. g[s] = IF s.i < n THEN [i |-> s.i + 1, word |-> 2 * s.word + bits[s.i + 1]] ELSE s
    <3> HIDE DEF S
    <3> QED BY <2>1
  <2>3. s.i \in Nat /\ s.word \in Nat BY <2>1
  <2> HIDE DEF g
  <2> QED BY <2>1, <2>2, <2>3 DEF s
<1> HIDE DEF F
<1> DEFINE Has(k, j) == BitOf(F(k).word, j) = bits[k - j]
           T == {k \in Nat : k <= n => /\ F(k).i = k /\ F(k).word < TwoTo[k]
                                       /\ \A j \in Nat : j < k => Has(k, j)}
<1>5. 0 \in T
  <2>1. F(0).i = 0 /\ F(0).word < TwoTo[0] BY <1>2, PowersOfTwo
  <2>2. \A j \in Nat : ~(j < 0) BY SMT
  <2> QED BY <2>1, <2>2
<1>6. ASSUME NEW k \in Nat, k \in T PROVE k + 1 \in T
  <2> SUFFICES ASSUME k + 1 <= n
               PROVE  /\ F(k + 1).i = k + 1 /\ F(k + 1).word < TwoTo[k + 1]
                      /\ \A j \in Nat : j < k + 1 => Has(k + 1, j) BY SMT
  <2>1. k <= n /\ k < n /\ k + 1 \in 1 .. n BY SMT
  <2>2. F(k).i = k /\ F(k).word < TwoTo[k] /\ \A j \in Nat : j < k => Has(k, j) BY <1>6, <2>1
  <2> DEFINE w == F(k).word
             b == bits[k + 1]
  <2>3. w \in Nat /\ b \in {0, 1} /\ F(k + 1).i = k + 1 /\ F(k + 1).word = 2 * w + b
    BY <1>4, <2>1, <2>2
  <2>4. F(k + 1).word < TwoTo[k + 1]
    <3>1. TwoTo[k + 1] = 2 * TwoTo[k] /\ TwoTo[k] \in Nat /\ w < TwoTo[k] BY <2>2, PowersOfTwo
    <3> HIDE DEF w, b
    <3> QED BY <2>3, <3>1, SMT
  <2>5. ASSUME NEW j \in Nat, j < k + 1 PROVE Has(k + 1, j)
    <3> HIDE DEF b
    <3>1. CASE j = 0
      <4>1. (k + 1) - 0 = k + 1 BY SMT
      <4>2. BitOf(2 * w + b, 0) = b
        <5>1. w \in Nat /\ b \in {0, 1} BY <2>3
        <5> HIDE DEF w
        <5>2. \A v \in Nat, c \in {0, 1} : BitOf(2 * v + c, 0) = c BY BitsOfDouble
        <5> HIDE DEF b
        <5> QED BY <5>1, <5>2
      <4> QED BY <2>3, <3>1, <4>1, <4>2 DEF b
    <3>2. ASSUME NEW m \in Nat, j = m + 1 PROVE Has(k + 1, j)
      <4>1. m < k /\ (k + 1) - (m + 1) = k - m BY <2>5, <3>2, SMT
      <4>2. BitOf(2 * w + b, m + 1) = BitOf(w, m)
        <5>1. w \in Nat /\ b \in {0, 1} BY <2>3
        <5> HIDE DEF w
        <5>2. \A i \in Nat : BitOf(2 * w + b, i + 1) = BitOf(w, i) BY <5>1, BitsOfDouble
        <5> QED BY <5>2
      <4> QED BY <2>2, <2>3, <3>2, <4>1, <4>2
    <3> HIDE DEF Has
    <3> QED BY <3>1, <3>2, FirstOrLater
  <2> HIDE DEF Has
  <2> QED BY <2>3, <2>4, <2>5
<1>7. n \in T
  <2> HIDE DEF T
  <2> QED BY <1>5, <1>6, AllNaturals
<1>8. n <= n BY SMT
<1> QED BY <1>3, <1>4, <1>7, <1>8

LEMMA WordSize ==
    ASSUME WordsFit
    PROVE  /\ int_len \in Nat \ {0} /\ TwoTo[int_len] = 2 * topbit_mask
           /\ \A w : IsWord(w) <=> w \in Nat /\ w < TwoTo[int_len]
           /\ \A z : mask_value(z) = z % TwoTo[int_len]
<1>1. int_len \in Nat \ {0} /\ TwoTo[int_len] = 2 * topbit_mask
  <2>1. 0 \in Nat BY SMT
  <2> QED BY <2>1, RepetitionsAre
<1>2. topbit_mask \in Nat \ {0} BY TopBit
<1>3. \A w : IsWord(w) <=> w \in Nat /\ w < 2 * topbit_mask BY <1>2, SMT DEF IsWord
<1> QED BY <1>1, <1>3 DEF mask_value

LEMMA Mirrored ==
    ASSUME WordsFit, NEW x \in Nat
    PROVE  /\ IsWord(intMirror(x))
           /\ \A j \in Nat : j < int_len => BitOf(intMirror(x), j) = BitOf(x, int_len - 1 - j)
<1> DEFINE bits == [k \in 1 .. int_len |-> BitOf(x, k - 1)]
<1>1. int_len \in Nat BY WordSize
<1>2. \A k \in 1 .. int_len : bits[k] = BitOf(x, k - 1) /\ bits[k] \in {0, 1}
  <2>1. ASSUME NEW k \in 1 .. int_len PROVE BitOf(x, k - 1) \in {0, 1}
    <3>1. k - 1 \in Nat BY <1>1, SMT
    <3> QED BY <3>1, BitsOfHalf
  <2> QED BY <2>1
<1>3. intMirror(x) = WordOf(bits, int_len) BY DEF intMirror
<1> HIDE DEF bits
<1>4. /\ WordOf(bits, int_len) \in Nat /\ WordOf(bits, int_len) < TwoTo[int_len]
      /\ \A j \in Nat : j < int_len => BitOf(WordOf(bits, int_len), j) = bits[int_len - j]
  BY <1>1, <1>2, WordOfBits
<1>5. ASSUME NEW j \in Nat, j < int_len PROVE BitOf(intMirror(x), j) = BitOf(x, int_len - 1 - j)
  <2>1. int_len - j \in 1 .. int_len /\ (int_len - j) - 1 = int_len - 1 - j BY <1>1, <1>5, SMT
  <2>2. bits[int_len - j] = BitOf(x, (int_len - j) - 1) BY <1>2, <2>1
  <2>3. BitOf(intMirror(x), j) = bits[int_len - j] BY <1>3, <1>4, <1>5
  <2> QED BY <2>1, <2>2, <2>3
<1>6. IsWord(intMirror(x)) BY <1>3, <1>4, WordSize
<1> QED BY <1>5, <1>6

\* Words are the same if their bits are.
LEMMA SameWord ==
    ASSUME WordsFit, NEW v, NEW w, IsWord(v), IsWord(w),
           \A j \in Nat : j < int_len => BitOf(v, j) = BitOf(w, j)
    PROVE  v = w
<1>1. int_len \in Nat /\ v \in Nat /\ w \in Nat /\ v < TwoTo[int_len] /\ w < TwoTo[int_len]
  BY WordSize
<1>2. \A j \in 0 .. int_len - 1 : j \in Nat /\ j < int_len BY <1>1, SMT
<1>3. \A j \in 0 .. int_len - 1 : BitOf(v, j) = BitOf(w, j) BY <1>2
<1> QED BY <1>1, <1>3, BitsDecide

LEMMA MirroredTwice ==
    ASSUME WordsFit, NEW x, IsWord(x)
    PROVE  intMirror(intMirror(x)) = x
<1>1. int_len \in Nat /\ x \in Nat BY WordSize
<1> DEFINE m == intMirror(x)
           mm == intMirror(m)
<1>2. IsWord(m) /\ \A j \in Nat : j < int_len => BitOf(m, j) = BitOf(x, int_len - 1 - j)
  BY <1>1, Mirrored
<1>3. m \in Nat BY <1>2, WordSize
<1>4. IsWord(mm) /\ \A j \in Nat : j < int_len => BitOf(mm, j) = BitOf(m, int_len - 1 - j)
  <2> HIDE DEF m
  <2> QED BY <1>3, Mirrored
<1> HIDE DEF m, mm
<1>5. ASSUME NEW j \in Nat, j < int_len PROVE BitOf(mm, j) = BitOf(x, j)
  <2>1. int_len - 1 - j \in Nat /\ int_len - 1 - j < int_len
        /\ int_len - 1 - (int_len - 1 - j) = j BY <1>1, <1>5, SMT
  <2> QED BY <1>2, <1>4, <1>5, <2>1
<1>6. mm = x BY <1>4, <1>5, SameWord
<1> QED BY <1>6 DEF mm, m

LEMMA MirroredShift ==
    ASSUME WordsFit, NEW x, IsWord(x), NEW c \in {0, 1}
    PROVE  intMirror(introt("SR", 1, x, c)[1]) = introt("SL", 1, intMirror(x), c)[1]
<1> DEFINE m == intMirror(x)
           h == x \div 2
           w == intMirror(h)
           L == int_len
<1>1. L \in Nat \ {0} /\ x \in Nat /\ x < TwoTo[L] BY WordSize
<1>2. introt("SR", 1, x, c)[1] = h
  <2>1. 1 \in Nat /\ 1 = 0 + 1 /\ 0 \in Nat /\ x \in Int BY <1>1, SMT
  <2>2. introt("SR", 1, x, c)[1] = x \div TwoTo[1] BY <2>1, ShiftedRight
  <2>3. (x \div TwoTo[0]) \div 2 = x \div TwoTo[0 + 1] /\ x \div TwoTo[0] = x BY <2>1, HalvedAgain
  <2> QED BY <2>1, <2>2, <2>3
<1>3. IsWord(m) /\ m \in Nat /\ \A j \in Nat : j < L => BitOf(m, j) = BitOf(x, L - 1 - j)
  BY <1>1, Mirrored, WordSize
<1>4. introt("SL", 1, m, c)[1] = (2 * m + 0) % TwoTo[L]
  <2> HIDE DEF m
  <2>1. 1 \in Nat /\ 1 = 0 + 1 /\ 0 \in Nat BY SMT
  <2>2. TwoTo[1] = 2 BY <2>1, PowersOfTwo
  <2>3. m * 2 = 2 * m + 0 BY <1>3, SMT
  <2>4. introt("SL", 1, m, c)[1] = mask_value(m * TwoTo[1]) BY <1>3, <2>1, ShiftedLeft
  <2> QED BY <2>2, <2>3, <2>4, WordSize
<1>5. h \in Nat /\ \A j \in Nat : BitOf(h, j) = BitOf(x, j + 1) BY <1>1, BitsOfHalf
<1>6. IsWord(w) /\ \A j \in Nat : j < L => BitOf(w, j) = BitOf(h, L - 1 - j)
  <2> HIDE DEF h
  <2> QED BY <1>5, Mirrored
<1> DEFINE d == 2 * m + 0
           z == d % TwoTo[L]
<1>7. d \in Nat /\ BitOf(d, 0) = 0 /\ \A j \in Nat : BitOf(d, j + 1) = BitOf(m, j)
  <2> DEFINE b == 0
  <2>1. b \in {0, 1} OBVIOUS
  <2> HIDE DEF b, m
  <2>2. /\ 2 * m + b \in Nat /\ BitOf(2 * m + b, 0) = b
        /\ \A j \in Nat : BitOf(2 * m + b, j + 1) = BitOf(m, j) BY <1>3, <2>1, BitsOfDouble
  <2> QED BY <2>2 DEF b
<1> HIDE DEF m, h, w, d
<1>8. z \in Nat /\ \A j \in Nat : BitOf(z, j) = IF j < L THEN BitOf(d, j) ELSE 0
  <2>1. d \in Nat /\ L \in Nat BY <1>1, <1>7
  <2>2. \A j \in Nat : d % TwoTo[L] \in Nat /\ BitOf(d % TwoTo[L], j) = IF j < L THEN BitOf(d, j) ELSE 0
    BY <2>1, BitsOfRest
  <2> QED BY <2>1, <2>2
<1>9. z < TwoTo[L]
  <2> DEFINE t == TwoTo[L]
  <2>1. t \in Nat \ {0} /\ d \in Int BY <1>1, <1>7, PowersOfTwo
  <2> HIDE DEF t
  <2>2. d % t \in 0 .. t - 1 /\ t \in Nat BY <2>1, Remainders
  <2>3. d % t < t BY <2>2, SMT
  <2> QED BY <2>3 DEF t
<1> HIDE DEF z
<1>10. IsWord(z) BY <1>8, <1>9, WordSize
<1>11. BitOf(x, L) = 0
  <2>1. x % TwoTo[L] = x
    <3> DEFINE t == TwoTo[L]
    <3>1. t \in Nat \ {0} /\ x \in Int /\ x >= 0 /\ x < t BY <1>1, PowersOfTwo
    <3> HIDE DEF t
    <3>2. x % t = x BY <3>1, Remainders
    <3> QED BY <3>2 DEF t
  <2>2. L \in Nat /\ ~(L < L) BY <1>1, SMT
  <2>3. BitOf(x % TwoTo[L], L) = 0 BY <1>1, <2>2, BitsOfRest
  <2> QED BY <2>1, <2>3
<1>12. ASSUME NEW j \in Nat, j < L PROVE BitOf(w, j) = BitOf(z, j)
  <2>1. L - 1 - j \in Nat /\ (L - 1 - j) + 1 = L - j BY <1>1, <1>12, SMT
  <2>2. BitOf(w, j) = BitOf(x, L - j) BY <1>5, <1>6, <1>12, <2>1
  <2>3. CASE j = 0
    <3>1. L - 0 = L BY <1>1, SMT
    <3>2. BitOf(z, j) = 0 BY <1>7, <1>8, <1>12, <2>3
    <3> QED BY <1>11, <2>2, <2>3, <3>1, <3>2
  <2>4. ASSUME NEW i \in Nat, j = i + 1 PROVE BitOf(w, j) = BitOf(z, j)
    <3>1. i < L /\ L - 1 - i = L - (i + 1) BY <1>1, <1>12, <2>4, SMT
    <3>2. BitOf(z, j) = BitOf(x, L - 1 - i) BY <1>3, <1>7, <1>8, <1>12, <2>4, <3>1
    <3> QED BY <2>2, <2>4, <3>1, <3>2
  <2> QED BY <2>3, <2>4, FirstOrLater
<1>13. w = z BY <1>6, <1>10, <1>12, SameWord
<1> QED BY <1>2, <1>4, <1>13 DEF w, m, z, d, L

\* The first natural number of a set that has one not above n.
LEMMA FirstOf ==
    ASSUME NEW n \in Nat, NEW T, NEW k \in 0 .. n, k \in T
    PROVE  \E c \in 0 .. n : c \in T /\ \A i \in 0 .. c - 1 : i \notin T
<1> DEFINE U == {i \in 0 .. n : i \in T}
<1>1. U \subseteq Nat /\ U # {} BY SMT
<1>2. PICK c \in U : \A i \in U : c <= i
  <2> HIDE DEF U
  <2> QED BY <1>1, LeastNatural
<1>3. c \in 0 .. n /\ c \in T OBVIOUS
<1>4. \A i \in 0 .. c - 1 : i \in 0 .. n /\ ~(c <= i) BY <1>3, SMT
<1>5. \A i \in 0 .. c - 1 : i \notin T BY <1>2, <1>4
<1> QED BY <1>3, <1>5

\* Up to the left: the top bit is reached, and nothing lost on the way.
LEMMA JustifiedLeft ==
    ASSUME WordsFit, NEW x, IsWord(x), NEW c \in {0, 1}
    PROVE  LET j == justify("LJ", x) IN introt("SR", j[2], j[1], c)[1] = x
<1> DEFINE L == int_len
           t == topbit_mask
           w(n) == introt("SL", n, x, 0)[1]
           T == {n \in Nat : IsTop(w(n))}
<1>1. /\ L \in Nat \ {0} /\ L - 1 \in Nat /\ x \in Nat /\ x < 2 * t /\ t \in Nat \ {0}
      /\ TwoTo[L - 1] = t
  <2>1. L \in Nat \ {0} /\ x \in Nat /\ x < TwoTo[L] /\ TwoTo[L] = 2 * t BY WordSize
  <2>2. L - 1 \in Nat BY <2>1, SMT
  <2> QED BY <2>1, <2>2, TopBit DEF topbit_mask
<1>2. ASSUME NEW n \in Nat PROVE w(n) = mask_value(x * TwoTo[n]) /\ x * TwoTo[n] \in Nat
  <2>1. 0 \in {0, 1} OBVIOUS
  <2> QED BY <1>1, <2>1, ShiftedLeft, BitsOfProduct
<1>3. \A z \in Nat : z < 2 * t => mask_value(z) = z /\ (IsTop(z) <=> z >= t)
  <2>1. ASSUME NEW z \in Nat, z < 2 * t PROVE mask_value(z) = z BY <1>1, <2>1, Masks
  <2> QED BY <2>1 DEF IsTop
<1> DEFINE Kept == {n \in Nat : (\A i \in 0 .. n - 1 : i \notin T) => x * TwoTo[n] < 2 * t}
<1>4. \A n \in Nat : n \in Kept
  <2>1. 0 \in Kept
    <3>1. x * TwoTo[0] = x BY <1>1, PowersOfTwo
    <3> QED BY <1>1, <3>1
  <2>2. ASSUME NEW n \in Nat, n \in Kept PROVE n + 1 \in Kept
    <3> SUFFICES ASSUME \A i \in 0 .. (n + 1) - 1 : i \notin T PROVE x * TwoTo[n + 1] < 2 * t
      OBVIOUS
    <3>1. n \notin T /\ \A i \in 0 .. n - 1 : i \notin T
      <4>1. n \in 0 .. (n + 1) - 1 /\ \A i \in 0 .. n - 1 : i \in 0 .. (n + 1) - 1 BY SMT
      <4> HIDE DEF T
      <4> QED BY <4>1
    <3> DEFINE z == x * TwoTo[n]
    <3>2. z \in Nat /\ z < 2 * t /\ w(n) = mask_value(z) BY <1>2, <2>2, <3>1
    <3>3. x * TwoTo[n + 1] = 2 * z
      <4>1. TwoTo[n + 1] = 2 * TwoTo[n] /\ TwoTo[n] \in Nat BY PowersOfTwo
      <4>2. \A p \in Nat : x * (2 * p) = 2 * (x * p) BY <1>1, SMT
      <4> QED BY <4>1, <4>2
    <3> HIDE DEF z
    <3>4. ~(z >= t)
      <4>1. mask_value(z) = z /\ ~IsTop(w(n)) BY <1>3, <3>1, <3>2
      <4> QED BY <1>3, <3>2, <4>1
    <3> QED BY <1>1, <3>2, <3>3, <3>4, SMT
  <2> HIDE DEF Kept
  <2> QED BY <2>1, <2>2, AllNaturals
<1>5. ASSUME x # 0 PROVE \E n \in 0 .. L : n \in T
  <2>1. SUFFICES ASSUME \A n \in 0 .. L : n \notin T PROVE FALSE OBVIOUS
  <2>2. x * TwoTo[L] < 2 * t
    <3>1. \A i \in 0 .. L - 1 : i \in 0 .. L BY <1>1, SMT
    <3>2. \A i \in 0 .. L - 1 : i \notin T BY <2>1, <3>1
    <3> HIDE DEF T
    <3> QED BY <1>1, <1>4, <3>2
  <2>3. TwoTo[L] = 2 * t BY WordSize
  <2>4. x * (2 * t) >= 2 * t
    <3> DEFINE m == 2 * t
    <3>1. m \in Nat /\ x \in Nat \ {0} BY <1>1, <1>5
    <3> HIDE DEF m
    <3>2. x * m >= m BY <3>1, SMT
    <3> QED BY <3>2 DEF m
  <2>5. x * (2 * t) \in Int /\ 2 * t \in Int BY <1>1, SMT
  <2> QED BY <2>2, <2>3, <2>4, <2>5, SMT
<1>6. CASE x = 0
  <2>1. justify("LJ", x) = <<0, 0>> BY <1>6 DEF justify
  <2>2. introt("SR", 0, 0, c)[1] = 0 \div TwoTo[0]
    <3>1. 0 \in Nat OBVIOUS
    <3> QED BY <1>6, <3>1, ShiftedRight
  <2>3. 0 \div TwoTo[0] = 0
    <3>1. 0 \in Int OBVIOUS
    <3> QED BY <3>1, HalvedAgain
  <2> QED BY <1>6, <2>1, <2>2, <2>3
<1>7. CASE x # 0
  <2> DEFINE First(n) == IsTop(w(n)) /\ \A i \in 0 .. n - 1 : ~IsTop(w(i))
             k == CHOOSE n \in 0 .. L : First(n)
  <2>1. justify("LJ", x) = <<w(k), k>> BY <1>7 DEF justify
  <2>2. \E n \in 0 .. L : First(n)
    <3>1. PICK n \in 0 .. L : n \in T /\ \A i \in 0 .. n - 1 : i \notin T
      <4> HIDE DEF T
      <4> QED BY <1>1, <1>5, <1>7, FirstOf
    <3>2. \A i \in 0 .. n - 1 : i \in Nat BY SMT
    <3> HIDE DEF w
    <3> QED BY <3>1, <3>2
  <2>3. k \in 0 .. L /\ First(k)
    <3> HIDE DEF First
    <3> QED BY <2>2
  <2> HIDE DEF k
  <2>4. k \in Nat /\ \A i \in 0 .. k - 1 : i \notin T
    <3>1. k \in Nat BY <1>1, <2>3, SMT
    <3> HIDE DEF w
    <3> QED BY <2>3, <3>1
  <2>5. x * TwoTo[k] < 2 * t
    <3> HIDE DEF T
    <3> QED BY <1>4, <2>4
  <2>6. w(k) = x * TwoTo[k] BY <1>2, <1>3, <2>4, <2>5
  <2>7. IsWord(x * TwoTo[k]) BY <1>1, <1>2, <2>4, <2>5, WordSize
  <2> DEFINE y == x * TwoTo[k]
  <2>8. introt("SR", k, y, c)[1] = y \div TwoTo[k]
    <3> HIDE DEF y
    <3> QED BY <2>4, <2>7, ShiftedRight DEF y
  <2>9. y \div TwoTo[k] = x
    <3> DEFINE d == TwoTo[k]
    <3>1. d \in Nat \ {0} /\ x \in Int BY <1>1, <2>4, PowersOfTwo
    <3> HIDE DEF d
    <3>2. (d * x) \div d = x BY <3>1, Multiples
    <3>3. d * x = x * d BY <3>1, SMT
    <3> QED BY <3>2, <3>3 DEF d
  <2> HIDE DEF w, y
  <2>10. justify("LJ", x)[1] = y /\ justify("LJ", x)[2] = k BY <2>1, <2>6 DEF y
  <2> QED BY <2>8, <2>9, <2>10
<1> QED BY <1>6, <1>7

\* Down to the right: only zeros are lost on the way.
LEMMA JustifiedRight ==
    ASSUME WordsFit, NEW x, IsWord(x), NEW c \in {0, 1}
    PROVE  LET j == justify("RJ", x) IN introt("SL", j[2], j[1], c)[1] = x
<1> DEFINE L == int_len
           w(n) == introt("SR", n, x, 0)[1]
           T == {n \in Nat : w(n) % 2 = 1}
<1>1. L \in Nat \ {0} /\ x \in Nat /\ x < TwoTo[L] /\ x \in Int BY WordSize
<1>2. ASSUME NEW n \in Nat PROVE w(n) = x \div TwoTo[n] /\ x \div TwoTo[n] \in Nat
  <2>1. 0 \in {0, 1} /\ x >= 0 BY <1>1, SMT
  <2>2. w(n) = x \div TwoTo[n] BY <1>1, <2>1, ShiftedRight
  <2>3. x \div TwoTo[n] \in Int /\ x \div TwoTo[n] >= 0 BY <1>1, <2>1, HalvedAgain
  <2>4. x \div TwoTo[n] \in Nat BY <2>3, SMT
  <2> QED BY <2>2, <2>4
<1> DEFINE Kept == {n \in Nat : (\A i \in 0 .. n - 1 : i \notin T) => x = (x \div TwoTo[n]) * TwoTo[n]}
<1>3. \A n \in Nat : n \in Kept
  <2>1. 0 \in Kept
    <3>1. x \div TwoTo[0] = x /\ TwoTo[0] = 1 BY <1>1, HalvedAgain, PowersOfTwo
    <3>2. x = x * 1 BY <1>1, SMT
    <3> QED BY <3>1, <3>2
  <2>2. ASSUME NEW n \in Nat, n \in Kept PROVE n + 1 \in Kept
    <3> SUFFICES ASSUME \A i \in 0 .. (n + 1) - 1 : i \notin T
                 PROVE  x = (x \div TwoTo[n + 1]) * TwoTo[n + 1] OBVIOUS
    <3>1. n \notin T /\ \A i \in 0 .. n - 1 : i \notin T
      <4>1. n \in 0 .. (n + 1) - 1 /\ \A i \in 0 .. n - 1 : i \in 0 .. (n + 1) - 1 BY SMT
      <4> HIDE DEF T
      <4> QED BY <4>1
    <3> DEFINE q == x \div TwoTo[n]
               p == TwoTo[n]
    <3>2. q \in Nat /\ w(n) = q /\ x = q * p BY <1>2, <2>2, <3>1
    <3>3. x \div TwoTo[n + 1] = q \div 2 /\ TwoTo[n + 1] = 2 * p /\ p \in Nat
      BY <1>1, HalvedAgain, PowersOfTwo
    <3>4. q % 2 # 1 BY <3>1, <3>2
    <3> HIDE DEF q, p, w
    <3>5. q = 2 * (q \div 2) /\ q \div 2 \in Nat
      <4>1. q \div 2 \in Nat /\ q % 2 \in {0, 1} /\ q = 2 * (q \div 2) + (q % 2) BY <3>2, BitsOfHalf
      <4> QED BY <3>4, <4>1, SMT
    <3> DEFINE h == q \div 2
    <3>6. h \in Nat /\ q = 2 * h BY <3>5
    <3> HIDE DEF h
    <3>7. (2 * h) * p = h * (2 * p) BY <3>3, <3>6, SMT
    <3>8. x = h * (2 * p) BY <3>2, <3>6, <3>7
    <3> QED BY <3>3, <3>8 DEF h
  <2> HIDE DEF Kept
  <2> QED BY <2>1, <2>2, AllNaturals
<1>4. ASSUME x # 0 PROVE \E n \in 0 .. L : n \in T
  <2>1. SUFFICES ASSUME \A n \in 0 .. L : n \notin T PROVE FALSE OBVIOUS
  <2>2. x = (x \div TwoTo[L]) * TwoTo[L]
    <3>1. \A i \in 0 .. L - 1 : i \in 0 .. L BY <1>1, SMT
    <3>2. \A i \in 0 .. L - 1 : i \notin T BY <2>1, <3>1
    <3> HIDE DEF T
    <3> QED BY <1>1, <1>3, <3>2
  <2> DEFINE d == TwoTo[L]
             q == x \div d
  <2>3. d \in Nat \ {0} /\ x \in Int /\ x >= 0 /\ x < d BY <1>1, PowersOfTwo
  <2> HIDE DEF d
  <2>4. q = 0
    <3>1. x % d = x /\ q \in Nat /\ x = d * q + (x % d) BY <1>1, <2>3, Remainders, Divided
    <3>2. d * q = 0 /\ d * q \in Int BY <2>3, <3>1, SMT
    <3> HIDE DEF q
    <3> QED BY <2>3, <3>1, <3>2, SMT
  <2>5. x = q * d BY <2>2 DEF d
  <2> HIDE DEF q
  <2>6. x = 0 BY <2>3, <2>4, <2>5, SMT
  <2> QED BY <1>4, <2>6
<1>5. CASE x = 0
  <2>1. justify("RJ", x) = <<0, 0>> BY <1>5 DEF justify
  <2>2. introt("SL", 0, 0, c)[1] = mask_value(0 * TwoTo[0])
    <3>1. 0 \in Nat OBVIOUS
    <3> QED BY <1>5, <3>1, ShiftedLeft
  <2>3. 0 * TwoTo[0] = 0 BY PowersOfTwo
  <2>4. mask_value(0) = 0
    <3>1. topbit_mask \in Nat \ {0} BY TopBit
    <3>2. 0 \in Int /\ 0 >= 0 /\ 0 < 2 * topbit_mask BY <3>1, SMT
    <3> QED BY <3>2, Masks
  <2> QED BY <1>5, <2>1, <2>2, <2>3, <2>4
<1>6. CASE x # 0
  <2> DEFINE First(n) == w(n) % 2 = 1 /\ \A i \in 0 .. n - 1 : ~(w(i) % 2 = 1)
             k == CHOOSE n \in 0 .. L : First(n)
  <2>1. justify("RJ", x) = <<w(k), k>> BY <1>6 DEF justify
  <2>2. \E n \in 0 .. L : First(n)
    <3>1. PICK n \in 0 .. L : n \in T /\ \A i \in 0 .. n - 1 : i \notin T
      <4> HIDE DEF T
      <4> QED BY <1>1, <1>4, <1>6, FirstOf
    <3>2. \A i \in 0 .. n - 1 : i \in Nat BY SMT
    <3> HIDE DEF w
    <3> QED BY <3>1, <3>2
  <2>3. k \in 0 .. L /\ First(k)
    <3> HIDE DEF First
    <3> QED BY <2>2
  <2> HIDE DEF k
  <2>4. k \in Nat /\ \A i \in 0 .. k - 1 : i \notin T
    <3>1. k \in Nat BY <1>1, <2>3, SMT
    <3> HIDE DEF w
    <3> QED BY <2>3, <3>1
  <2> DEFINE y == x \div TwoTo[k]
  <2>5. x = y * TwoTo[k]
    <3> HIDE DEF T
    <3> QED BY <1>3, <2>4
  <2>6. w(k) = y /\ y \in Nat BY <1>2, <2>4
  <2>7. IsWord(y)
    <3>1. y <= x BY <1>1, <2>4, HalvedAgain
    <3>2. TwoTo[L] \in Int BY <1>1, PowersOfTwo
    <3> HIDE DEF y
    <3>3. y < TwoTo[L] BY <1>1, <2>6, <3>1, <3>2, SMT
    <3> QED BY <2>6, <3>3, WordSize
  <2>8. introt("SL", k, y, c)[1] = mask_value(y * TwoTo[k])
    <3> HIDE DEF y
    <3> QED BY <2>4, <2>7, ShiftedLeft
  <2>9. mask_value(x) = x
    <3>1. x >= 0 /\ x < 2 * topbit_mask BY <1>1, WordSize
    <3> QED BY <1>1, <3>1, Masks
  <2> HIDE DEF w, y
  <2>10. justify("RJ", x)[1] = y /\ justify("RJ", x)[2] = k BY <2>1, <2>6
  <2> QED BY <2>5, <2>8, <2>9, <2>10
<1> QED BY <1>5, <1>6

LEMMA MasksMirrored ==
    ASSUME WordsFit, NEW n \in 0 .. int_len
    PROVE  intmsks("MASKL", n) = intMirror(intmsks("MASKR", n))
<1> DEFINE L == int_len
           r == TwoTo[n] - 1
           l == r * TwoTo[L - n]
           m == intMirror(r)
<1>1. L \in Nat \ {0} /\ n \in Nat /\ L - n \in Nat /\ n <= L /\ n + (L - n) = L
      /\ (IF n >= L THEN L ELSE n) = n
  <2>1. L \in Nat \ {0} BY WordSize
  <2> QED BY <2>1, SMT
<1>2. intmsks("MASKL", n) = l /\ intmsks("MASKR", n) = r BY <1>1 DEF intmsks
<1>3. r \in Nat /\ \A j \in Nat : BitOf(r, j) = IF j < n THEN 1 ELSE 0 BY <1>1, BitsOfMask
<1>4. l \in Nat /\ \A j \in Nat : BitOf(l, j) = IF j < L - n THEN 0 ELSE BitOf(r, j - (L - n))
  <2> DEFINE k == L - n
  <2>1. k \in Nat BY <1>1
  <2> HIDE DEF k, r
  <2>2. r * TwoTo[k] \in Nat
        /\ \A j \in Nat : BitOf(r * TwoTo[k], j) = IF j < k THEN 0 ELSE BitOf(r, j - k)
    BY <1>3, <2>1, BitsOfProduct
  <2> QED BY <2>2 DEF k
<1>5. IsWord(l)
  <2>1. TwoTo[L] = TwoTo[n] * TwoTo[L - n] BY <1>1, PowersAdd
  <2> DEFINE a == TwoTo[n]
             b == TwoTo[L - n]
  <2>2. a \in Nat \ {0} /\ b \in Nat \ {0} BY <1>1, PowersOfTwo
  <2>3. l = (a - 1) * b /\ TwoTo[L] = a * b BY <2>1
  <2> HIDE DEF a, b
  <2>4. (a - 1) * b = a * b - b /\ a * b \in Int BY <2>2, SMT
  <2>5. (a - 1) * b < a * b BY <2>2, <2>4, SMT
  <2> HIDE DEF l
  <2> QED BY <1>4, <2>3, <2>5, WordSize
<1>6. IsWord(m) /\ \A j \in Nat : j < L => BitOf(m, j) = BitOf(r, L - 1 - j)
  <2> HIDE DEF r
  <2> QED BY <1>3, Mirrored
<1> HIDE DEF r, l, m
<1>7. ASSUME NEW j \in Nat, j < L PROVE BitOf(l, j) = BitOf(m, j)
  <2>1. /\ L - 1 - j \in Nat /\ (L - 1 - j < n <=> ~(j < L - n))
        /\ ~(j < L - n) => j - (L - n) \in Nat /\ j - (L - n) < n BY <1>1, <1>7, SMT
  <2>2. BitOf(m, j) = IF L - 1 - j < n THEN 1 ELSE 0 BY <1>3, <1>6, <1>7, <2>1
  <2>3. BitOf(l, j) = IF j < L - n THEN 0 ELSE 1 BY <1>3, <1>4, <2>1
  <2> QED BY <2>1, <2>2, <2>3
<1>8. l = m BY <1>5, <1>6, <1>7, SameWord
<1> QED BY <1>2, <1>8 DEF m

LEMMA MaskedRest ==
    ASSUME WordsFit, NEW x, IsWord(x), NEW n \in 0 .. int_len
    PROVE  intBooleanOp("AND", x, intmsks("MASKR", n)) = x % TwoTo[n]
<1> DEFINE L == int_len
           r == TwoTo[n] - 1
           bits == [k \in 1 .. L |-> BitOf(x, L - k) * BitOf(r, L - k)]
           w == WordOf(bits, L)
           z == x % TwoTo[n]
<1>1. L \in Nat \ {0} /\ n \in Nat /\ n <= L /\ x \in Nat /\ x < TwoTo[L]
      /\ (IF n >= L THEN L ELSE n) = n
  <2>1. L \in Nat \ {0} /\ x \in Nat /\ x < TwoTo[L] BY WordSize
  <2> QED BY <2>1, SMT
<1>2. intmsks("MASKR", n) = r BY <1>1 DEF intmsks
<1>3. r \in Nat /\ \A j \in Nat : BitOf(r, j) = IF j < n THEN 1 ELSE 0 BY <1>1, BitsOfMask
<1>4. intBooleanOp("AND", x, r) = w
  <2> HIDE DEF r
  <2>1. \A a, b : Bitwise2("AND", a, b) = a * b BY DEF Bitwise2
  <2> QED BY <2>1 DEF intBooleanOp
<1>5. \A k \in 1 .. L : bits[k] = (IF L - k < n THEN BitOf(x, L - k) ELSE 0) /\ bits[k] \in {0, 1}
  <2>1. ASSUME NEW k \in 1 .. L
        PROVE  BitOf(x, L - k) * BitOf(r, L - k) = (IF L - k < n THEN BitOf(x, L - k) ELSE 0)
               /\ BitOf(x, L - k) \in {0, 1}
    <3>1. L - k \in Nat BY <1>1, SMT
    <3>2. BitOf(x, L - k) \in {0, 1} /\ BitOf(r, L - k) = IF L - k < n THEN 1 ELSE 0
      BY <1>1, <1>3, <3>1, BitsOfHalf
    <3>3. \A b \in {0, 1} : b * 1 = b /\ b * 0 = 0 BY SMT
    <3> QED BY <3>2, <3>3
  <2> HIDE DEF r
  <2> QED BY <2>1
<1> HIDE DEF bits
<1>6. /\ w \in Nat /\ w < TwoTo[L]
      /\ \A j \in Nat : j < L => BitOf(w, j) = bits[L - j] BY <1>1, <1>5, WordOfBits
<1>7. z \in Nat /\ \A j \in Nat : BitOf(z, j) = IF j < n THEN BitOf(x, j) ELSE 0
  <2>1. x \in Nat BY <1>1
  <2> QED BY <1>1, <2>1, BitsOfRest
<1>8. z < TwoTo[L]
  <2> DEFINE t == TwoTo[n]
  <2>1. t \in Nat \ {0} BY <1>1, PowersOfTwo
  <2>2. TwoTo[L] \in Int BY <1>1, PowersOfTwo
  <2> HIDE DEF t
  <2>3. x % t <= x /\ x % t \in Nat
    <3>1. x % t \in 0 .. t - 1 /\ x = t * (x \div t) + (x % t) /\ t * (x \div t) \in Nat
      BY <1>1, <2>1, Divided
    <3> DEFINE u == t * (x \div t)
               v == x % t
    <3>2. x = u + v /\ u \in Nat /\ v \in 0 .. t - 1 BY <3>1
    <3> HIDE DEF u, v
    <3>3. v <= x /\ v \in Nat BY <2>1, <3>2, SMT
    <3> QED BY <3>3 DEF v
  <2> DEFINE v == x % t
  <2>4. v <= x /\ v \in Nat BY <2>3
  <2> HIDE DEF v
  <2>5. v < TwoTo[L] BY <1>1, <2>2, <2>4, SMT
  <2> QED BY <2>5 DEF v, t
<1> HIDE DEF w, z
<1>9. ASSUME NEW j \in Nat, j < L PROVE BitOf(w, j) = BitOf(z, j)
  <2>1. L - j \in 1 .. L /\ L - (L - j) = j BY <1>1, <1>9, SMT
  <2>2. bits[L - j] = IF j < n THEN BitOf(x, j) ELSE 0 BY <1>5, <2>1
  <2> QED BY <1>6, <1>7, <1>9, <2>2
<1>10. w = z
  <2>1. IsWord(w) /\ IsWord(z) BY <1>6, <1>7, <1>8, WordSize
  <2> QED BY <1>9, <2>1, SameWord
<1> QED BY <1>2, <1>4, <1>10 DEF z

\* The conjuncts of BitsTold.
LEMMA BitsAreTold ==
    ASSUME WordsFit
    PROVE  BitsTold
<1>1. IsWord(X) /\ Carry \in {0, 1} BY DEF WordsFit, IsWord
<1>2. /\ intMirror(intMirror(X)) = X
      /\ intMirror(introt("SR", 1, X, Carry)[1]) = introt("SL", 1, intMirror(X), Carry)[1]
  BY <1>1, MirroredTwice, MirroredShift
<1>3. /\ LET j == justify("LJ", X) IN introt("SR", j[2], j[1], Carry)[1] = X
      /\ LET j == justify("RJ", X) IN introt("SL", j[2], j[1], Carry)[1] = X
  BY <1>1, JustifiedLeft, JustifiedRight
<1>4. \A n \in 0 .. int_len : /\ intmsks("MASKL", n) = intMirror(intmsks("MASKR", n))
                               /\ intBooleanOp("AND", X, intmsks("MASKR", n)) = X % TwoTo[n]
  BY <1>1, MasksMirrored, MaskedRest
<1> QED BY <1>2, <1>3, <1>4 DEF BitsTold

-----
(* Roots *)

\* A property of the variables that depends on the turn and is kept by each.
LEMMA LoopKeeps ==
    ASSUME NEW S, NEW g \in [S -> S], NEW a \in S, NEW I, a \in I[0],
           \A n \in Nat : \A s \in S : s \in I[n] => g[s] \in I[n + 1]
    PROVE  \A n \in Nat : Turned(g, a, n) \in I[n] /\ Turned(g, a, n) \in S
<1>1. /\ \A n \in Nat : Turned(g, a, n) \in S
      /\ Turned(g, a, 0) = a
      /\ \A n \in Nat : Turned(g, a, n + 1) = g[Turned(g, a, n)] BY TurnsFollow
<1> DEFINE T == {n \in Nat : Turned(g, a, n) \in I[n]}
<1>2. 0 \in T BY <1>1
<1>3. ASSUME NEW n \in Nat, n \in T PROVE n + 1 \in T
  <2>1. g[Turned(g, a, n)] \in I[n + 1] BY <1>1, <1>3
  <2> QED BY <1>1, <2>1
<1>4. \A n \in Nat : n \in T
  <2> HIDE DEF T
  <2> QED BY <1>2, <1>3, AllNaturals
<1> QED BY <1>1, <1>4

LEMMA SquaresGrow ==
    ASSUME NEW a \in Nat, NEW b \in Nat
    PROVE  /\ a * a \in Nat /\ b * b \in Nat
           /\ (a <= b => a * a <= b * b) /\ (a < b => a * a < b * b)
           /\ (a * a <= b * b => a <= b) /\ (a * a < b * b => a < b)
           /\ (a + 1) * (a + 1) = a * a + 2 * a + 1
<1>1. a * a \in Nat /\ b * b \in Nat /\ (a + 1) * (a + 1) = a * a + 2 * a + 1 BY SMT
<1>2. ASSUME NEW c \in Nat, NEW d \in Nat, c <= d PROVE c * c <= d * d /\ (c < d => c * c < d * d)
  <2>1. PICK e \in Nat : d = c + e
    <3>1. d - c \in Nat /\ d = c + (d - c) BY <1>2
    <3> QED BY <3>1
  <2>2. d * d = c * c + (2 * (c * e) + e * e) BY <2>1, SMT
  <2>3. c * e \in Nat /\ e * e \in Nat /\ (e > 0 => e <= e * e) BY ProductsGrow
  <2>4. c * c \in Nat BY SMT
  <2> HIDE DEF <
  <2> QED BY <2>1, <2>2, <2>3, <2>4
<1>3. /\ (a <= b => a * a <= b * b) /\ (a < b => a * a < b * b)
      /\ (b <= a => b * b <= a * a) /\ (b < a => b * b < a * a) BY <1>2
<1> QED BY <1>1, <1>3

\* Every number has a root, rounded down.
LEMMA Roots ==
    ASSUME NEW v \in Nat
    PROVE  \E r \in Nat : /\ r * r \in Nat /\ r * r <= v /\ v <= r * r + 2 * r
                          /\ r <= v /\ (v > 0 => r > 0)
<1> DEFINE T == {k \in Nat : v < (k + 1) * (k + 1)}
<1>1. v \in T
  <2>1. (v + 1) * (v + 1) = v * v + 2 * v + 1 /\ v * v \in Nat BY SquaresGrow
  <2> QED BY <2>1
<1>2. PICK r \in T : \A k \in T : r <= k
  <2>1. T # {} /\ T \subseteq Nat BY <1>1
  <2> HIDE DEF T
  <2> QED BY <2>1, LeastNatural
<1>3. r * r \in Nat /\ (r + 1) * (r + 1) = r * r + 2 * r + 1 BY SquaresGrow
<1>4. r * r <= v
  <2>1. CASE r = 0 BY <2>1
  <2>2. CASE r # 0
    <3>1. r - 1 \in Nat /\ (r - 1) + 1 = r BY <2>2
    <3>2. r - 1 \notin T BY <1>2, <3>1
    <3>3. ~(v < ((r - 1) + 1) * ((r - 1) + 1)) BY <3>1, <3>2
    <3> QED BY <1>3, <3>1, <3>3
  <2> QED BY <2>1, <2>2
<1>5. r <= r * r \/ r = 0 BY ProductsGrow
<1>6. v < r * r + 2 * r + 1 BY <1>2, <1>3
<1> QED BY <1>3, <1>4, <1>5, <1>6

\* The mean of a number and what it divides v into is no lower than the root.
LEMMA MeanNotBelow ==
    ASSUME NEW v \in Nat, NEW n \in Nat \ {0}, NEW r \in Nat, r * r <= v
    PROVE  n + (v \div n) >= 2 * r /\ v \div n \in Nat /\ (n + (v \div n)) \div 2 \in Nat
           /\ (n + (v \div n)) \div 2 >= r
<1> DEFINE q == v \div n
<1>1. q \in Nat /\ v % n \in 0 .. n - 1 /\ v = n * q + (v % n) /\ n * q \in Nat BY Divided
<1>2. n + q >= 2 * r
  <2> SUFFICES ASSUME n + q + 1 <= 2 * r PROVE FALSE BY <1>1
  <2> HIDE DEF q
  <2> DEFINE a == n + q + 1
             p == n * (q + 1)
  <2>1. a * a = 4 * p + (n - (q + 1)) * (n - (q + 1)) BY <1>1, SMT
  <2>2. (n - (q + 1)) * (n - (q + 1)) >= 0
    <3> DEFINE d == n - (q + 1)
    <3>1. d \in Int BY <1>1
    <3> HIDE DEF d
    <3>2. d * d >= 0 BY <3>1, SMT
    <3> QED BY <3>2 DEF d
  <2>3. p = n * q + n BY <1>1, SMT
  <2>4. a \in Nat /\ 2 * r \in Nat /\ a <= 2 * r BY <1>1
  <2>5. a * a <= (2 * r) * (2 * r)
    <3> HIDE DEF a
    <3> QED BY <2>4, SquaresGrow
  <2>6. (2 * r) * (2 * r) = 4 * (r * r) /\ r * r \in Nat BY SMT
  <2>7. p > v BY <1>1, <2>3
  <2>8. (n - (q + 1)) * (n - (q + 1)) \in Int /\ p \in Int BY <1>1, SMT
  <2> HIDE DEF a, p
  <2> QED BY <2>1, <2>2, <2>5, <2>6, <2>7, <2>8
<1>3. \A m \in Nat : m \div 2 \in Nat /\ (m >= 2 * r => m \div 2 >= r) BY SMT
<1>4. n + q \in Nat BY <1>1
<1> HIDE DEF q
<1>5. (n + q) \div 2 \in Nat /\ (n + q) \div 2 >= r BY <1>2, <1>3, <1>4
<1> QED BY <1>1, <1>2, <1>5 DEF q

\* Once they fall no more they have reached the root, or the number above it.
LEMMA LastApproximation ==
    ASSUME NEW v \in Nat \ {0}, NEW r, IsRoot(r, v), NEW n \in Nat \ {0}, n >= r,
           n <= (n + (v \div n)) \div 2
    PROVE  \/ (n + (v \div n)) \div 2 = r
           \/ (n + (v \div n)) \div 2 = r + 1 /\ v = r * r + 2 * r
<1> DEFINE q == v \div n
<1>r. r \in Nat /\ r > 0 /\ r * r \in Nat /\ r * r <= v /\ v <= r * r + 2 * r BY DEF IsRoot
<1>1. q \in Nat /\ v % n \in 0 .. n - 1 /\ v = n * q + (v % n) /\ n * q \in Nat BY Divided
<1>2. n <= q
  <2>1. \A m \in Nat : n <= m \div 2 => 2 * n <= m BY SMT
  <2>2. n + q \in Nat BY <1>1
  <2> HIDE DEF q
  <2>3. n <= (n + q) \div 2 BY DEF q
  <2> QED BY <1>1, <2>1, <2>2, <2>3
<1> HIDE DEF q
<1>3. n = r
  <2>1. PICK d \in Nat : q = n + d
    <3>1. q - n \in Nat /\ q = n + (q - n) BY <1>1, <1>2
    <3> QED BY <3>1
  <2>2. n * q = n * n + n * d /\ n * d \in Nat /\ n * n \in Nat BY <2>1, ProductsGrow, SMT
  <2>3. n * n <= v BY <1>1, <2>2
  <2>4. (r + 1) * (r + 1) = r * r + 2 * r + 1 BY <1>r, SquaresGrow
  <2>5. n * n < (r + 1) * (r + 1) BY <1>r, <2>2, <2>3, <2>4
  <2>6. n < r + 1
    <3>1. r + 1 \in Nat BY <1>r
    <3> DEFINE s == r + 1
    <3> HIDE DEF s
    <3>2. s \in Nat /\ n * n < s * s BY <2>5, <3>1 DEF s
    <3>3. n < s BY <3>2, SquaresGrow
    <3> QED BY <3>3 DEF s
  <2> QED BY <1>r, <2>6
<1>4. v = r * q + (v % n) /\ v % n < r /\ v % n \in Nat BY <1>1, <1>3
<1>5. r * (r + 2) = r * r + 2 * r /\ r * (r + 3) = r * r + 3 * r BY <1>r, SMT
<1>6. q <= r + 2 /\ (q = r + 2 => v = r * r + 2 * r)
  <2>1. CASE q >= r + 3
    <3>1. PICK d \in Nat : q = (r + 3) + d
      <4>1. q - (r + 3) \in Nat /\ q = (r + 3) + (q - (r + 3)) BY <1>1, <1>r, <2>1
      <4> QED BY <4>1
    <3>2. r * q = r * (r + 3) + r * d /\ r * d \in Nat BY <1>r, <3>1, ProductsGrow, SMT
    <3>3. r * q >= r * r + 3 * r /\ r * q \in Int BY <1>5, <1>r, <3>2
    <3> QED BY <1>4, <1>r, <3>3
  <2>2. CASE q < r + 3
    <3>1. q = r + 2 => r * q = r * r + 2 * r BY <1>5
    <3>2. q = r + 2 => v = r * r + 2 * r BY <1>4, <1>r, <3>1
    <3> QED BY <1>1, <1>r, <2>2, <3>2
  <2> QED BY <1>1, <1>r, <2>1, <2>2
<1>7. (r + q) \div 2 = r \/ ((r + q) \div 2 = r + 1 /\ q = r + 2)
  <2>1. q = r \/ q = r + 1 \/ q = r + 2 BY <1>1, <1>2, <1>3, <1>6, <1>r
  <2>2. (r + r) \div 2 = r /\ (r + (r + 1)) \div 2 = r /\ (r + (r + 2)) \div 2 = r + 1 BY <1>r, SMT
  <2> QED BY <2>1, <2>2
<1>8. n + (v \div n) = r + q BY <1>3 DEF q
<1> QED BY <1>6, <1>7, <1>8

\* The first approximation is no better than a mean would be.
LEMMA FirstApproximation ==
    ASSUME NEW v \in Nat \ {0}, NEW r, IsRoot(r, v)
    PROVE  LET h == (v \div 2) + 1
               n == (v \div h) + (h \div 2)
           IN  /\ h \in Nat \ {0} /\ n \in Nat \ {0} /\ h >= r /\ n >= r
               /\ (n >= h => n = r \/ (n = r + 1 /\ (v = 2 \/ v = r * r + 2 * r)))
<1> DEFINE h == (v \div 2) + 1
<1>r. r \in Nat /\ r > 0 /\ r * r \in Nat /\ r * r <= v /\ v <= r * r + 2 * r BY DEF IsRoot
<1>1. h \in Nat \ {0} /\ 2 * h > v /\ (v > 1 => h <= v) /\ (v = 1 => h = 1) /\ h <= v BY SMT
<1>2. v \div h = 1
  <2>1. v = h * 1 + (v - h) /\ v - h \in 0 .. h - 1 BY <1>1
  <2> HIDE DEF h
  <2>2. h \in Nat \ {0} /\ 1 \in Int /\ v - h \in 0 .. h - 1 BY <1>1, <2>1
  <2>3. (h * 1 + (v - h)) \div h = 1 BY <2>2, QuotientIs
  <2> QED BY <2>1, <2>3
<1>3. h + 1 >= 2 * r
  <2>1. h + (v \div h) >= 2 * r
    <3> HIDE DEF h
    <3> QED BY <1>1, <1>r, MeanNotBelow
  <2> HIDE DEF h
  <2> QED BY <1>2, <2>1
<1>4. h \div 2 \in Nat /\ 2 * (h \div 2) + 1 >= h /\ 2 * (h \div 2) <= h
  <2> HIDE DEF h
  <2> QED BY <1>1, SMT
<1>5. h >= r /\ 1 + (h \div 2) >= r
  <2> HIDE DEF h
  <2> QED BY <1>1, <1>3, <1>4, <1>r
<1>6. ASSUME 1 + (h \div 2) >= h
      PROVE  1 + (h \div 2) = r \/ (1 + (h \div 2) = r + 1 /\ (v = 2 \/ v = r * r + 2 * r))
  <2>1. h <= 2
    <3> HIDE DEF h
    <3> QED BY <1>1, <1>4, <1>6
  <2>2. v <= 3 BY <1>1, <2>1
  <2>3. r = 1
    <3>1. r >= 2 => r * r >= 2 * 2 BY <1>r, SquaresGrow
    <3> QED BY <1>r, <2>2, <3>1
  <2>4. 1 + (h \div 2) = IF v = 1 THEN 1 ELSE 2
    <3>1. v = 1 \/ v = 2 \/ v = 3 BY <2>2
    <3> QED BY <3>1, SMT
  <2> HIDE DEF h
  <2> QED BY <2>2, <2>3, <2>4
<1> HIDE DEF h
<1>7. (v \div h) + (h \div 2) = 1 + (h \div 2) BY <1>2
<1>8. /\ h \in Nat \ {0} /\ (v \div h) + (h \div 2) \in Nat \ {0} /\ h >= r /\ (v \div h) + (h \div 2) >= r
      /\ ((v \div h) + (h \div 2) >= h => (v \div h) + (h \div 2) = r \/ ((v \div h) + (h \div 2) = r + 1 /\ (v = 2 \/ v = r * r + 2 * r)))
  BY <1>1, <1>4, <1>5, <1>6, <1>7
<1> QED BY <1>8 DEF h

LEMMA NewtonFindsRoot ==
    ASSUME NEW v \in Nat \ {0}, NEW r, IsRoot(r, v)
    PROVE  \/ Newton(v) = r
           \/ Newton(v) = r + 1 /\ (v = 2 \/ v = r * r + 2 * r)
<1> DEFINE h == (v \div 2) + 1
           n == (v \div h) + (h \div 2)
           S == [n0 : Nat, n1 : Nat \ {0}]
           g == [s \in S |-> IF s.n1 < s.n0
                             THEN [n0 |-> s.n1, n1 |-> (s.n1 + (v \div s.n1)) \div 2] ELSE s]
           a == [n0 |-> h, n1 |-> n]
           Near(m) == m = r \/ (m = r + 1 /\ (v = 2 \/ v = r * r + 2 * r))
           I == [k \in Nat |-> {s \in S : /\ s.n1 >= r /\ s.n0 >= r
                                          /\ s.n1 >= s.n0 => Near(s.n1)
                                          /\ s.n1 >= s.n0 \/ s.n0 + k <= h}]
<1>r. r \in Nat /\ r > 0 /\ r * r \in Nat /\ r * r <= v /\ v <= r * r + 2 * r BY DEF IsRoot
<1>1. h \in Nat \ {0} /\ n \in Nat \ {0} /\ h >= r /\ n >= r /\ (n >= h => Near(n))
  <2> HIDE DEF IsRoot
  <2> QED BY FirstApproximation
<1>2. Newton(v) = Turned(g, a, h).n1 BY DEF Newton
<1> HIDE DEF h, n
<1>3. ASSUME NEW m \in Nat \ {0}, m >= r
      PROVE  /\ (m + (v \div m)) \div 2 \in Nat \ {0} /\ (m + (v \div m)) \div 2 >= r
             /\ ((m + (v \div m)) \div 2 >= m => Near((m + (v \div m)) \div 2))
  <2>1. (m + (v \div m)) \div 2 \in Nat /\ (m + (v \div m)) \div 2 >= r BY <1>r, MeanNotBelow
  <2>2. (m + (v \div m)) \div 2 \in Nat \ {0}
    <3> DEFINE z == (m + (v \div m)) \div 2
    <3> HIDE DEF z
    <3>1. z \in Nat /\ z >= r BY <2>1 DEF z
    <3>2. z \in Nat \ {0} BY <1>r, <3>1
    <3> QED BY <3>2 DEF z
  <2>3. ASSUME (m + (v \div m)) \div 2 >= m PROVE Near((m + (v \div m)) \div 2)
    <3>1. m <= (m + (v \div m)) \div 2
      <4> DEFINE z == (m + (v \div m)) \div 2
      <4> HIDE DEF z
      <4>1. z \in Nat /\ z >= m BY <2>1, <2>3 DEF z
      <4>2. m <= z BY <4>1
      <4> QED BY <4>2 DEF z
    <3>2. \/ (m + (v \div m)) \div 2 = r
          \/ (m + (v \div m)) \div 2 = r + 1 /\ v = r * r + 2 * r BY <1>3, <3>1, LastApproximation
    <3> QED BY <3>2
  <2> QED BY <2>1, <2>2, <2>3
<1>4. a \in S BY <1>1
<1>5. ASSUME NEW s \in S PROVE s.n0 \in Nat /\ s.n1 \in Nat \ {0} /\ g[s] \in S
  <2>1. s.n0 \in Nat /\ s.n1 \in Nat \ {0} BY <1>5
  <2>2. (s.n1 + (v \div s.n1)) \div 2 \in Nat \ {0}
    <3>1. 1 \in Nat /\ 1 * 1 <= v BY SMT
    <3>2. (s.n1 + (v \div s.n1)) \div 2 \in Nat /\ (s.n1 + (v \div s.n1)) \div 2 >= 1
      BY <2>1, <3>1, MeanNotBelow
    <3> DEFINE z == (s.n1 + (v \div s.n1)) \div 2
    <3> HIDE DEF z
    <3>3. z \in Nat /\ z >= 1 BY <3>2 DEF z
    <3>4. z \in Nat \ {0} BY <3>3
    <3> QED BY <3>4 DEF z
  <2>3. [n0 |-> s.n1, n1 |-> (s.n1 + (v \div s.n1)) \div 2] \in S BY <2>1, <2>2
  <2> QED BY <2>1, <2>3
<1>6. g \in [S -> S]
  <2> HIDE DEF S
  <2> QED BY <1>5
<1>7. a \in I[0]
  <2> HIDE DEF Near
  <2> QED BY <1>1, <1>4
<1>8. ASSUME NEW k \in Nat, NEW s \in S, s \in I[k] PROVE g[s] \in I[k + 1]
  <2>1. s.n0 \in Nat /\ s.n1 \in Nat \ {0} /\ k + 1 \in Nat BY <1>5
  <2>2. /\ s.n1 >= r /\ s.n0 >= r /\ (s.n1 >= s.n0 => Near(s.n1))
        /\ s.n1 >= s.n0 \/ s.n0 + k <= h BY <1>8
  <2>3. g[s] \in S BY <1>5
  <2>4. CASE s.n1 >= s.n0
    <3>1. g[s] = s
      <4>1. ~(s.n1 < s.n0) BY <2>1, <2>4
      <4> QED BY <4>1
    <3> HIDE DEF g, S, Near
    <3> QED BY <2>1, <2>2, <2>3, <2>4, <3>1
  <2>5. CASE s.n1 < s.n0
    <3> DEFINE z == (s.n1 + (v \div s.n1)) \div 2
    <3>1. g[s] = [n0 |-> s.n1, n1 |-> z] BY <2>5
    <3>2. z \in Nat \ {0} /\ z >= r /\ (z >= s.n1 => Near(z)) BY <1>3, <2>1, <2>2
    <3> HIDE DEF z
    <3>3. s.n1 + (k + 1) <= h BY <1>1, <2>1, <2>2, <2>5
    <3>4. g[s].n0 = s.n1 /\ g[s].n1 = z BY <3>1
    <3> HIDE DEF g, S, Near
    <3> QED BY <2>1, <2>2, <2>3, <3>2, <3>3, <3>4
  <2> QED BY <2>1, <2>4, <2>5
<1>9. \A k \in Nat : Turned(g, a, k) \in I[k] /\ Turned(g, a, k) \in S
  <2> HIDE DEF S, g, a, I
  <2> QED BY <1>4, <1>6, <1>7, <1>8, LoopKeeps
<1> DEFINE s == Turned(g, a, h)
<1>10. s \in I[h] /\ s \in S BY <1>1, <1>9
<1> HIDE DEF s
<1>11. s.n0 \in Nat /\ s.n1 \in Nat \ {0} BY <1>5, <1>10
<1>12. s.n1 >= s.n0
  <2>1. s.n0 >= r /\ (s.n1 >= s.n0 \/ s.n0 + h <= h) BY <1>1, <1>10
  <2> QED BY <1>1, <1>r, <1>11, <2>1
<1>13. Near(s.n1)
  <2> HIDE DEF Near
  <2> QED BY <1>1, <1>10, <1>12
<1> QED BY <1>2, <1>13 DEF s

LEMMA NotNegative ==
    ASSUME WordsFit, NEW w, IsWord(w), sign(w) = 0
    PROVE  w \in Nat /\ magnitude(w) = w /\ Signed(w) = w /\ w <= MaxInt /\ w < 2 * topbit_mask
<1> DEFINE t == topbit_mask
<1>1. t \in Nat \ {0} /\ int_mode \in Modes BY TopBit
<1>2. /\ w \in Int /\ w >= 0 /\ w < 2 * t /\ magnitude(w) \in Int
      /\ Signed(w) = (IF sign(w) = 1 THEN -magnitude(w) ELSE magnitude(w))
      /\ int_mode = "UNSIGNED" => magnitude(w) = w
      /\ int_mode # "UNSIGNED" /\ w < t => magnitude(w) = w
      /\ int_mode # "UNSIGNED" /\ w >= t => sign(w) = 1 BY NumbersOfWords
<1>3. MaxInt = (IF Unsigned THEN 2 * t - 1 ELSE t - 1) BY MaxIs
<1> QED BY <1>1, <1>2, <1>3 DEF Unsigned

LEMMA SmallNumbersBuilt ==
    ASSUME WordsFit, NEW n \in Nat, n <= MaxInt
    PROVE  /\ InRange(n) /\ IsWord(build_value(n, 0)) /\ Signed(build_value(n, 0)) = n
           /\ build_value(n, 0) = n /\ mask_value(n) = n /\ IsWord(n) /\ Signed(n) = n
           /\ magnitude(n) = n /\ sign(n) = 0
<1> DEFINE t == topbit_mask
<1>1. t \in Nat \ {0} /\ int_mode \in Modes BY TopBit
<1>2. MaxInt = (IF Unsigned THEN 2 * t - 1 ELSE t - 1) /\ MaxInt \in Int BY MaxIs
<1>3. MinInt \in Int /\ MinInt <= 0 BY <1>1, RangeIs DEF Modes
<1>4. InRange(n) BY <1>2, <1>3 DEF InRange
<1>5. IsWord(build_value(n, 0)) /\ Signed(build_value(n, 0)) = n
  <2>1. InRange(IF 0 = 1 THEN -n ELSE n) BY <1>4
  <2>2. 0 \in {0, 1} /\ (Unsigned => 0 = 0) OBVIOUS
  <2>3. Signed(build_value(n, 0)) = (IF 0 = 1 THEN -n ELSE n) /\ IsWord(build_value(n, 0))
    BY <2>1, <2>2, WordsBuilt
  <2> QED BY <2>3
<1>6. mask_value(n) = n
  <2>1. n >= 0 /\ n < 2 * t /\ n \in Int BY <1>1, <1>2
  <2> QED BY <2>1, Masks
<1>7. build_value(n, 0) = n BY <1>6 DEF build_value
<1>8. n \in Int /\ n >= 0 /\ (int_mode # "UNSIGNED" => n < t) /\ IsWord(n)
  BY <1>1, <1>2, <1>5, <1>7 DEF Unsigned
<1>9. magnitude(n) = n /\ sign(n) = 0 BY <1>1, <1>8, NumbersOfWords
<1> QED BY <1>4, <1>5, <1>6, <1>7, <1>9

LEMMA TheMachineWord ==
    ASSUME WordsFit
    PROVE  /\ M \in Nat /\ int_len <= M /\ TwoTo[M] \in Nat /\ TwoTo[M] >= 16
           /\ 2 * topbit_mask <= TwoTo[M] /\ (int_len = M => 2 * topbit_mask = TwoTo[M])
           /\ (int_len < M => 4 * topbit_mask <= TwoTo[M])
<1>1. HALF \in Nat \ {0} /\ M \in Nat /\ M - 4 \in Nat /\ M = 4 + (M - 4) BY IntegerSizes DEF M
<1>2. /\ int_len \in Nat /\ int_len - 1 \in Nat /\ int_len <= M
      /\ TwoTo[int_len] = 2 * topbit_mask /\ topbit_mask \in Nat \ {0}
  BY LengthIs DEF WordsFit, topbit_mask
<1>3. /\ TwoTo \in [Nat -> Nat \ {0}] /\ TwoTo[0] = 1
      /\ \A n \in Nat : TwoTo[n + 1] = 2 * TwoTo[n] BY PowersOfTwo
<1>4. TwoTo[4] = 16
  <2>1. TwoTo[0 + 1] = 2 * TwoTo[0] /\ TwoTo[1 + 1] = 2 * TwoTo[1]
        /\ TwoTo[2 + 1] = 2 * TwoTo[2] /\ TwoTo[3 + 1] = 2 * TwoTo[3] BY <1>3
  <2> QED BY <1>3, <2>1
<1>5. TwoTo[M] = 16 * TwoTo[M - 4]
  <2>1. 4 \in Nat /\ M - 4 \in Nat BY <1>1
  <2>2. TwoTo[4 + (M - 4)] = TwoTo[4] * TwoTo[M - 4] BY <2>1, PowersAdd
  <2> QED BY <1>1, <1>4, <2>2
<1>6. TwoTo[M] \in Nat /\ TwoTo[M] >= 16
  <2>1. TwoTo[M - 4] \in Nat \ {0} BY <1>1, <1>3
  <2> QED BY <1>5, <2>1
<1>7. 2 * topbit_mask <= TwoTo[M] BY <1>1, <1>2, BeyondTheWord
<1>8. ASSUME int_len < M PROVE 4 * topbit_mask <= TwoTo[M]
  <2>1. M - (int_len + 1) \in Nat /\ int_len + 1 \in Nat /\ M = (int_len + 1) + (M - (int_len + 1))
    BY <1>1, <1>2, <1>8
  <2>2. TwoTo[int_len + 1] = 4 * topbit_mask BY <1>2, <1>3
  <2> DEFINE k == M - (int_len + 1)
  <2>3. TwoTo[M] = TwoTo[int_len + 1] * TwoTo[k]
    <3> HIDE DEF k
    <3>1. k \in Nat /\ M = (int_len + 1) + k /\ int_len + 1 \in Nat BY <2>1 DEF k
    <3>2. TwoTo[(int_len + 1) + k] = TwoTo[int_len + 1] * TwoTo[k] BY <3>1, PowersAdd
    <3> QED BY <3>1, <3>2
  <2>4. TwoTo[k] \in Nat \ {0} BY <1>3, <2>1
  <2> HIDE DEF k
  <2> DEFINE a == TwoTo[int_len + 1]
             b == TwoTo[k]
  <2> HIDE DEF a, b
  <2>5. a \in Nat /\ b \in Nat /\ b > 0 BY <1>2, <2>2, <2>4 DEF a, b
  <2>6. a <= a * b BY <2>5, ProductsGrow
  <2> QED BY <2>2, <2>3, <2>6 DEF a, b
<1> QED BY <1>1, <1>2, <1>6, <1>7, <1>8

LEMMA RootIsTold ==
    ASSUME WordsFit, sign(X) = 0, X # TwoTo[M] - 1
    PROVE  RootTold(intSqrt(X), Signed(X))
<1>1. X \in Nat /\ magnitude(X) = X /\ Signed(X) = X /\ X <= MaxInt /\ X < 2 * topbit_mask
  <2>1. IsWord(X) BY DEF WordsFit, IsWord
  <2> QED BY <2>1, NotNegative
<1>2. TwoTo[M] \in Nat /\ TwoTo[M] >= 16 /\ X + 1 < TwoTo[M]
  <2>1. TwoTo[M] \in Nat /\ TwoTo[M] >= 16 /\ 2 * topbit_mask <= TwoTo[M] /\ topbit_mask \in Nat
    BY TheMachineWord, TopBit
  <2> QED BY <1>1, <2>1
<1>3. ASSUME NEW n \in Nat, NEW b, n <= X
      PROVE  LET r == Result(build_value(n, 0), b, KEEP)
             IN  Signed(r.v) = n /\ r.c = b
  <2>1. MaxInt \in Int BY MaxIs
  <2>2. n <= MaxInt BY <1>1, <1>3, <2>1
  <2>3. Signed(build_value(n, 0)) = n BY <2>2, SmallNumbersBuilt
  <2> QED BY <2>3 DEF Result
<1>4. CASE X = 0
  <2>1. intSqrt(X) = Result(build_value(0, 0), KEEP, KEEP)
    <3>1. (0 * 0) % TwoTo[M] = 0
      <4>1. 0 * 0 = 0 /\ 0 % TwoTo[M] = 0 BY <1>2, Remainders
      <4> QED BY <4>1
    <3> QED BY <1>1, <1>4, <3>1 DEF intSqrt
  <2>2. Signed(intSqrt(X).v) = 0 /\ intSqrt(X).c = 2
    <3>1. 0 \in Nat /\ 0 <= X BY <1>1
    <3>2. LET r == Result(build_value(0, 0), KEEP, KEEP) IN Signed(r.v) = 0 /\ r.c = KEEP
      BY <1>3, <3>1
    <3> QED BY <2>1, <3>2 DEF KEEP
  <2> QED BY <1>1, <1>4, <2>2 DEF RootTold
<1>5. CASE X # 0
  <2>1. PICK r \in Nat : IsRoot(r, X)
    <3>1. \E r \in Nat : /\ r * r \in Nat /\ r * r <= X /\ X <= r * r + 2 * r
                          /\ r <= X /\ (X > 0 => r > 0) BY <1>1, Roots
    <3> QED BY <3>1 DEF IsRoot
  <2>2. r * r \in Nat /\ r * r <= X /\ X <= r * r + 2 * r /\ r <= X /\ r > 0
    BY <1>1, <1>5, <2>1 DEF IsRoot
  <2> DEFINE n == Newton(X)
  <2>3. n = r \/ (n = r + 1 /\ (X = 2 \/ X = r * r + 2 * r)) BY <1>1, <1>5, <2>1, NewtonFindsRoot
  <2> HIDE DEF n
  <2>4. (r + 1) * (r + 1) = r * r + 2 * r + 1 BY SquaresGrow
  <2>5. X = 2 => r = 1
    <3>1. r >= 2 => r * r >= 2 * 2 BY SquaresGrow
    <3> QED BY <2>2, <3>1
  <2>6. n \in Nat /\ n * n \in Nat /\ n * n < TwoTo[M]
        /\ (n = r => n * n = r * r) /\ (n = r + 1 => n * n = r * r + 2 * r + 1)
    <3>1. CASE n = r BY <1>1, <1>2, <2>2, <3>1
    <3>2. CASE n = r + 1 /\ X = 2 BY <1>2, <2>5, <3>2
    <3>3. CASE n = r + 1 /\ X = r * r + 2 * r BY <1>1, <1>2, <2>2, <2>4, <3>3
    <3> QED BY <2>3, <3>1, <3>2, <3>3
  <2>7. (n * n) % TwoTo[M] = n * n
    <3> DEFINE w == n * n
    <3> HIDE DEF w
    <3>1. w \in Int /\ w >= 0 /\ w < TwoTo[M] /\ TwoTo[M] \in Nat \ {0} BY <1>2, <2>6 DEF w
    <3>2. w % TwoTo[M] = w BY <3>1, Remainders
    <3> QED BY <3>2 DEF w
  <2>8. intSqrt(X) = Result(build_value(IF n * n > X THEN n - 1 ELSE n, 0), Bit(n * n # X), KEEP)
    BY <1>1, <1>5, <2>7 DEF intSqrt, n
  <2>9. (IF n * n > X THEN n - 1 ELSE n) = r
    <3>1. CASE n = r BY <1>1, <2>2, <2>6, <3>1
    <3>2. CASE n = r + 1 /\ X = 2 BY <2>5, <2>6, <3>2
    <3>3. CASE n = r + 1 /\ X = r * r + 2 * r BY <2>2, <2>6, <3>3
    <3> QED BY <2>3, <3>1, <3>2, <3>3
  <2>10. Bit(n * n # X) = Bit(r * r # X)
    <3>1. CASE n = r BY <3>1
    <3>2. CASE n = r + 1 /\ X = 2 BY <2>5, <2>6, <3>2
    <3>3. CASE n = r + 1 /\ X = r * r + 2 * r BY <2>2, <2>6, <3>3
    <3> QED BY <2>3, <3>1, <3>2, <3>3
  <2>11. Signed(intSqrt(X).v) = r /\ intSqrt(X).c = Bit(r * r # X)
    <3>1. intSqrt(X) = Result(build_value(r, 0), Bit(r * r # X), KEEP) BY <2>8, <2>9, <2>10
    <3>2. LET z == Result(build_value(r, 0), Bit(r * r # X), KEEP)
          IN  Signed(z.v) = r /\ z.c = Bit(r * r # X) BY <1>3, <2>2
    <3> QED BY <3>1, <3>2
  <2>12. r * r <= X /\ X < (r + 1) * (r + 1) BY <1>1, <2>2, <2>4
  <2>13. (Bit(r * r # X) = 1 => r * r # X) /\ (Bit(r * r # X) = 0 => r * r = X) BY DEF Bit
  <2> QED BY <1>1, <2>11, <2>12, <2>13 DEF RootTold
<1> QED BY <1>4, <1>5

-----
(* Powers and logarithms *)

LEMMA Powers ==
    ASSUME NEW b \in Nat
    PROVE  /\ \A n \in Nat : Power(b, n) \in Nat
           /\ Power(b, 0) = 1
           /\ \A n \in Nat : Power(b, n + 1) = Power(b, n) * b
<1> DEFINE g == [p \in Nat |-> p * b]
<1>1. g \in [Nat -> Nat]
  <2>1. \A p \in Nat : p * b \in Nat BY ProductsGrow
  <2> QED BY <2>1
<1>3. /\ \A n \in Nat : Turned(g, 1, n) \in Nat
      /\ Turned(g, 1, 0) = 1
      /\ \A n \in Nat : Turned(g, 1, n + 1) = g[Turned(g, 1, n)]
  <2> DEFINE one == 1
             S == Nat
  <2>1. one \in S /\ g \in [S -> S] BY <1>1
  <2> HIDE DEF g, one, S
  <2>2. /\ \A n \in Nat : Turned(g, one, n) \in S
        /\ Turned(g, one, 0) = one
        /\ \A n \in Nat : Turned(g, one, n + 1) = g[Turned(g, one, n)] BY <2>1, TurnsFollow
  <2> QED BY <2>2 DEF one, S
<1> QED BY <1>3 DEF Power

\* Powers of two are the least, and they are more than their exponents.
LEMMA PowersReach ==
    ASSUME NEW b \in Nat, b >= 2
    PROVE  \A n \in Nat : n < Power(b, n) /\ TwoTo[n] <= Power(b, n)
<1> DEFINE T == {n \in Nat : n < Power(b, n) /\ TwoTo[n] <= Power(b, n)}
<1>1. /\ \A n \in Nat : Power(b, n) \in Nat
      /\ Power(b, 0) = 1
      /\ \A n \in Nat : Power(b, n + 1) = Power(b, n) * b BY Powers
<1>2. /\ TwoTo \in [Nat -> Nat \ {0}] /\ TwoTo[0] = 1
      /\ \A n \in Nat : TwoTo[n + 1] = 2 * TwoTo[n] BY PowersOfTwo
<1>3. 0 \in T BY <1>1, <1>2
<1>4. ASSUME NEW n \in Nat, n \in T PROVE n + 1 \in T
  <2> DEFINE p == Power(b, n)
  <2>1. p \in Nat /\ n < p /\ TwoTo[n] <= p /\ Power(b, n + 1) = p * b /\ TwoTo[n + 1] = 2 * TwoTo[n]
        /\ TwoTo[n] \in Nat BY <1>1, <1>2, <1>4
  <2> HIDE DEF p
  <2>2. p * b = 2 * p + p * (b - 2) /\ p * (b - 2) \in Nat
    <3>1. b - 2 \in Nat OBVIOUS
    <3>2. p * (b - 2) \in Nat BY <2>1, <3>1, ProductsGrow
    <3>3. p * b = 2 * p + p * (b - 2) BY <2>1, SMT
    <3> QED BY <3>2, <3>3
  <2> QED BY <2>1, <2>2
<1>5. \A n \in Nat : n \in T
  <2> HIDE DEF T
  <2> QED BY <1>3, <1>4, AllNaturals
<1> QED BY <1>5

LEMMA PowersOfTwoAre == \A n \in Nat : Power(2, n) = TwoTo[n]
<1> DEFINE T == {n \in Nat : Power(2, n) = TwoTo[n]}
<1>1. Power(2, 0) = 1 /\ \A n \in Nat : Power(2, n + 1) = Power(2, n) * 2
  <2>1. 2 \in Nat OBVIOUS
  <2> QED BY <2>1, Powers
<1>2. /\ TwoTo \in [Nat -> Nat \ {0}] /\ TwoTo[0] = 1
      /\ \A n \in Nat : TwoTo[n + 1] = 2 * TwoTo[n] BY PowersOfTwo
<1>3. 0 \in T BY <1>1, <1>2
<1>4. ASSUME NEW n \in Nat, n \in T PROVE n + 1 \in T
  <2>1. Power(2, n) = TwoTo[n] /\ Power(2, n + 1) = Power(2, n) * 2 /\ TwoTo[n + 1] = 2 * TwoTo[n]
        /\ TwoTo[n] \in Nat BY <1>1, <1>2, <1>4
  <2>2. Power(2, n + 1) = TwoTo[n + 1] BY <2>1
  <2> QED BY <2>2
<1>5. \A n \in Nat : n \in T
  <2> HIDE DEF T
  <2> QED BY <1>3, <1>4, AllNaturals
<1> QED BY <1>5

LEMMA FarIs ==
    ASSUME WordsFit
    PROVE  /\ Far \in Nat /\ Far > MaxInt + 1 /\ Far >= 2 * MaxInt /\ Far > topbit_mask
           /\ MaxInt \in Nat
<1>1. M \in Nat /\ TwoTo[M] \in Nat /\ TwoTo[M] >= 16 /\ 2 * topbit_mask <= TwoTo[M]
  BY TheMachineWord
<1>2. TwoTo[M + 1] = 2 * TwoTo[M] BY <1>1, PowersOfTwo
<1>3. topbit_mask \in Nat \ {0} BY TopBit
<1>4. MaxInt = (IF Unsigned THEN 2 * topbit_mask - 1 ELSE topbit_mask - 1) BY MaxIs
<1> QED BY <1>1, <1>2, <1>3, <1>4 DEF Far

\* A number told no further than Far.
LEMMA CappedProducts ==
    ASSUME NEW far \in Nat, NEW p \in Nat, NEW b \in Nat
    PROVE  LET c == IF p > far THEN far ELSE p
           IN  /\ c * b \in Nat /\ p * b \in Nat
               /\ (IF c * b > far THEN far ELSE c * b) = (IF p * b > far THEN far ELSE p * b)
<1>1. p * b \in Nat /\ far * b \in Nat BY ProductsGrow
<1>2. CASE p <= far BY <1>1, <1>2
<1>3. CASE p > far
  <2>1. CASE b = 0
    <3>1. p * b = 0 /\ far * b = 0 BY <2>1, ProductsGrow
    <3> QED BY <1>1, <1>3, <3>1
  <2>2. CASE b > 0
    <3>1. far * b >= far /\ p * b >= p BY <2>2, ProductsGrow
    <3> QED BY <1>1, <1>3, <3>1
  <2> QED BY <2>1, <2>2
<1> QED BY <1>2, <1>3

LEMMA PowersToFar ==
    ASSUME WordsFit, NEW b \in Nat
    PROVE  \A n \in Nat : PowerTo(b, n) = UpToFar(Power(b, n))
<1> DEFINE g == [p \in Nat |-> UpToFar(p * b)]
           T == {n \in Nat : Turned(g, 1, n) = UpToFar(Power(b, n))}
<1>1. /\ \A n \in Nat : Power(b, n) \in Nat
      /\ Power(b, 0) = 1
      /\ \A n \in Nat : Power(b, n + 1) = Power(b, n) * b BY Powers
<1>2. Far \in Nat /\ Far >= 1 BY FarIs
<1>3. g \in [Nat -> Nat]
  <2>1. \A p \in Nat : p * b \in Nat BY ProductsGrow
  <2>2. \A p \in Nat : UpToFar(p * b) \in Nat BY <1>2, <2>1 DEF UpToFar
  <2> QED BY <2>2
<1>5. /\ \A n \in Nat : Turned(g, 1, n) \in Nat
      /\ Turned(g, 1, 0) = 1
      /\ \A n \in Nat : Turned(g, 1, n + 1) = g[Turned(g, 1, n)]
  <2> DEFINE one == 1
             S == Nat
  <2>1. one \in S /\ g \in [S -> S] BY <1>3
  <2> HIDE DEF g, one, S
  <2>2. /\ \A n \in Nat : Turned(g, one, n) \in S
        /\ Turned(g, one, 0) = one
        /\ \A n \in Nat : Turned(g, one, n + 1) = g[Turned(g, one, n)] BY <2>1, TurnsFollow
  <2> QED BY <2>2 DEF one, S
<1>6. 0 \in T
  <2>1. UpToFar(1) = 1 BY <1>2 DEF UpToFar
  <2> QED BY <1>1, <1>5, <2>1
<1>7. ASSUME NEW n \in Nat, n \in T PROVE n + 1 \in T
  <2> DEFINE p == Power(b, n)
             f == Far
  <2>1. Turned(g, 1, n + 1) = UpToFar(UpToFar(p) * b)
    <3>1. Turned(g, 1, n) \in Nat /\ Turned(g, 1, n) = UpToFar(p) /\ Turned(g, 1, n + 1) = g[Turned(g, 1, n)]
      BY <1>5, <1>7
    <3>2. \A q \in Nat : g[q] = UpToFar(q * b) OBVIOUS
    <3> HIDE DEF g, p
    <3> QED BY <3>1, <3>2
  <2>2. p \in Nat /\ Power(b, n + 1) = p * b /\ f \in Nat BY <1>1, <1>2
  <2>3. UpToFar(UpToFar(p) * b) = UpToFar(p * b)
    <3> HIDE DEF p, f
    <3>1. LET c == IF p > f THEN f ELSE p
          IN  (IF c * b > f THEN f ELSE c * b) = (IF p * b > f THEN f ELSE p * b)
      BY <2>2, CappedProducts
    <3> QED BY <3>1 DEF UpToFar, f
  <2>4. Turned(g, 1, n + 1) = UpToFar(Power(b, n + 1))
    <3> HIDE DEF g, p
    <3> QED BY <2>1, <2>2, <2>3
  <2> QED BY <2>4
<1>8. \A n \in Nat : n \in T
  <2> HIDE DEF T
  <2> QED BY <1>6, <1>7, AllNaturals
<1> QED BY <1>8 DEF PowerTo

LEMMA LogarithmFound ==
    ASSUME WordsFit, NEW base \in Nat, base >= 2, NEW x \in Nat \ {0}, x < TwoTo[int_len]
    PROVE  LET l == FloorLog(base, x)
           IN  /\ l.r \in Nat /\ l.r < Power(base, l.r)
               /\ Power(base, l.r) <= x /\ x < Power(base, l.r + 1)
               /\ l.c = 1 \/ l.v # 1 <=> Power(base, l.r) # x
<1> DEFINE S == [v : Nat, r : Nat, c : {0, 1}]
           g == [s \in S |-> IF s.v < base THEN s
                             ELSE [v |-> s.v \div base, r |-> s.r + 1,
                                   c |-> Bit(s.c = 1 \/ s.v % base # 0)]]
           a == [v |-> x, r |-> 0, c |-> 0]
           Left(s, rest) == /\ x = Power(base, s.r) * s.v + rest /\ rest < Power(base, s.r)
                            /\ s.c = 1 <=> rest # 0
           I == [k \in Nat |-> {s \in S : /\ \E rest \in Nat : Left(s, rest)
                                          /\ s.v >= 1 /\ (s.v < base \/ s.r = k)}]
<1>1. int_len \in Nat BY LengthIs DEF WordsFit
<1>2. FloorLog(base, x) = Turned(g, a, int_len) BY DEF FloorLog
<1>3. /\ \A n \in Nat : Power(base, n) \in Nat
      /\ Power(base, 0) = 1
      /\ \A n \in Nat : Power(base, n + 1) = Power(base, n) * base BY Powers
<1>4. \A n \in Nat : n < Power(base, n) /\ TwoTo[n] <= Power(base, n) BY PowersReach
<1>5. ASSUME NEW s \in S PROVE s.v \in Nat /\ s.r \in Nat /\ s.c \in {0, 1} /\ g[s] \in S
  <2>1. s.v \in Nat /\ s.r \in Nat /\ s.c \in {0, 1} /\ base \in Nat \ {0} BY <1>5
  <2>2. s.v \div base \in Nat BY <2>1, Divided
  <2>3. Bit(s.c = 1 \/ s.v % base # 0) \in {0, 1} BY DEF Bit
  <2>4. [v |-> s.v \div base, r |-> s.r + 1, c |-> Bit(s.c = 1 \/ s.v % base # 0)] \in S
    BY <2>1, <2>2, <2>3
  <2> QED BY <2>1, <2>4
<1>6. g \in [S -> S]
  <2> HIDE DEF S
  <2> QED BY <1>5
<1>7. a \in S /\ a \in I[0]
  <2>1. Power(base, a.r) * a.v + 0 = x BY <1>3
  <2>2. Left(a, 0) BY <1>3, <2>1
  <2>3. a \in S OBVIOUS
  <2>4. a.v >= 1 /\ a.r = 0 OBVIOUS
  <2>5. \E rest \in Nat : Left(a, rest) BY <2>2
  <2> HIDE DEF Left, S, a
  <2> QED BY <2>3, <2>4, <2>5
<1>8. ASSUME NEW k \in Nat, NEW s \in S, s \in I[k] PROVE g[s] \in I[k + 1]
  <2>1. s.v \in Nat /\ s.r \in Nat /\ s.c \in {0, 1} /\ g[s] \in S /\ k + 1 \in Nat
    <3> HIDE DEF g, S, I
    <3> QED BY <1>5, <1>8
  <2>2. s.v >= 1 /\ (s.v < base \/ s.r = k) /\ \E rest \in Nat : Left(s, rest) BY <1>8
  <2>3. CASE s.v < base
    <3>1. g[s] = s BY <2>3
    <3>2. s \in S /\ \E rest \in Nat : Left(s, rest) BY <2>2
    <3> HIDE DEF g, S, Left
    <3> QED BY <2>1, <2>2, <2>3, <3>1, <3>2
  <2>4. CASE ~(s.v < base)
    <3> DEFINE q == s.v \div base
               m == s.v % base
               p == Power(base, s.r)
    <3>1. PICK rest \in Nat : Left(s, rest) BY <2>2
    <3>2. x = p * s.v + rest /\ rest < p /\ (s.c = 1 <=> rest # 0) BY <3>1
    <3>3. q \in Nat /\ m \in 0 .. base - 1 /\ s.v = base * q + m /\ base * q \in Nat
      <4>1. base \in Nat \ {0} OBVIOUS
      <4> QED BY <2>1, <4>1, Divided
    <3>4. g[s] = [v |-> q, r |-> s.r + 1, c |-> Bit(s.c = 1 \/ m # 0)] BY <2>4
    <3>5. p \in Nat /\ p >= 1 /\ Power(base, s.r + 1) = p * base
      <4>1. s.r < p BY <1>4, <2>1
      <4> QED BY <1>3, <2>1, <4>1
    <3>6. q >= 1
      <4>1. q # 0
        <5>1. q = 0 => base * q = 0 BY SMT
        <5> QED BY <2>1, <2>4, <3>3, <5>1
      <4> QED BY <3>3, <4>1
    <3> HIDE DEF q, m, p
    <3> DEFINE left == p * m + rest
    <3>7. x = (p * base) * q + left
      <4> DEFINE v == s.v
      <4>1. v = base * q + m /\ x = p * v + rest BY <3>2, <3>3
      <4> HIDE DEF v
      <4> QED BY <3>3, <3>5, <4>1, SMT
    <3>8. p * m \in Nat /\ p * m + p <= p * base /\ (m > 0 => p * m > 0) /\ (m = 0 => p * m = 0)
      <4>1. p * base = p * m + p + p * (base - 1 - m) BY <3>3, <3>5, SMT
      <4>2. base - 1 - m \in Nat /\ m \in Nat BY <3>3
      <4>3. p * (base - 1 - m) \in Nat /\ p * m \in Nat /\ (m > 0 => p <= p * m) /\ (m = 0 => p * m = 0)
        BY <3>5, <4>2, ProductsGrow
      <4>4. p * base \in Nat BY <3>5, ProductsGrow
      <4> QED BY <3>5, <4>1, <4>2, <4>3, <4>4
    <3>9. left \in Nat /\ left < p * base /\ (left # 0 <=> rest # 0 \/ m # 0)
      BY <3>2, <3>3, <3>5, <3>8
    <3>10. Bit(s.c = 1 \/ m # 0) = 1 <=> left # 0 BY <3>2, <3>9 DEF Bit
    <3>11. g[s].r = s.r + 1 /\ g[s].v = q /\ g[s].c = Bit(s.c = 1 \/ m # 0) BY <3>4
    <3> HIDE DEF left
    <3>12. Left(g[s], left)
      <4> HIDE DEF g
      <4> QED BY <3>5, <3>7, <3>9, <3>10, <3>11
    <3>13. s.r = k BY <2>2, <2>4
    <3> HIDE DEF g, S, Left
    <3> QED BY <2>1, <3>6, <3>9, <3>11, <3>12, <3>13
  <2> QED BY <2>3, <2>4
<1>9. \A k \in Nat : Turned(g, a, k) \in I[k] /\ Turned(g, a, k) \in S
  <2> HIDE DEF S, g, a, I
  <2> QED BY <1>6, <1>7, <1>8, LoopKeeps
<1> DEFINE s == Turned(g, a, int_len)
<1>10. s \in S /\ s \in I[int_len] BY <1>1, <1>9
<1> HIDE DEF s
<1>11. s.v \in Nat /\ s.r \in Nat /\ s.c \in {0, 1} BY <1>5, <1>10
<1>12. s.v >= 1 /\ (s.v < base \/ s.r = int_len) BY <1>1, <1>10
<1>13. PICK rest \in Nat : Left(s, rest) BY <1>1, <1>10
<1> DEFINE p == Power(base, s.r)
<1>14. x = p * s.v + rest /\ rest < p /\ (s.c = 1 <=> rest # 0) BY <1>13
<1>15. p \in Nat /\ s.r < p /\ Power(base, s.r + 1) = p * base /\ TwoTo[s.r] <= p
  BY <1>3, <1>4, <1>11
<1> HIDE DEF p
<1>16. p * s.v \in Nat /\ p <= p * s.v BY <1>11, <1>12, <1>15, ProductsGrow
<1>17. p <= x BY <1>14, <1>15, <1>16
<1>18. s.v < base
  <2>1. ASSUME s.r = int_len PROVE FALSE
    <3>1. TwoTo[int_len] <= p /\ TwoTo[int_len] \in Nat BY <1>1, <1>15, <2>1, PowersOfTwo
    <3> QED BY <1>15, <1>17, <3>1
  <2> QED BY <1>12, <2>1
<1>19. x < p * base
  <2> DEFINE v == s.v
  <2>1. v \in Nat /\ base - 1 - v \in Nat /\ x = p * v + rest /\ p * v \in Nat
    BY <1>11, <1>14, <1>16, <1>18
  <2> HIDE DEF v
  <2>2. p * base = p * v + p + p * (base - 1 - v) BY <1>15, <2>1, SMT
  <2>3. p * (base - 1 - v) \in Nat /\ p * base \in Nat BY <1>15, <2>1, ProductsGrow
  <2> QED BY <1>14, <1>15, <2>1, <2>2, <2>3
<1>20. s.c = 1 \/ s.v # 1 <=> p # x
  <2>1. CASE s.v = 1
    <3>1. p * s.v = p BY <1>15, <2>1
    <3> QED BY <1>11, <1>14, <1>15, <2>1, <3>1
  <2>2. CASE s.v # 1
    <3> DEFINE v == s.v
    <3>1. v \in Nat /\ v - 2 \in Nat /\ x = p * v + rest BY <1>11, <1>12, <1>14, <2>2
    <3> HIDE DEF v
    <3>2. p * v = 2 * p + p * (v - 2) BY <1>15, <3>1, SMT
    <3>3. p * (v - 2) \in Nat BY <1>15, <3>1, ProductsGrow
    <3>4. x > p BY <1>15, <3>1, <3>2, <3>3
    <3> QED BY <1>15, <2>2, <3>4
  <2> QED BY <2>1, <2>2
<1>21. FloorLog(base, x) = s BY <1>2 DEF s
<1> QED BY <1>11, <1>15, <1>17, <1>19, <1>20, <1>21 DEF p

LEMMA LogarithmTold ==
    ASSUME WordsFit, Signed(X) > 0, NEW base \in Nat, base >= 2
    PROVE  LET r == intLog(base, X)
               n == Signed(r.v)
           IN  /\ PowerTo(base, n) <= Signed(X) /\ Signed(X) < PowerTo(base, n + 1)
               /\ r.c = 1 <=> PowerTo(base, n) # Signed(X)
<1>1. IsWord(X) BY DEF WordsFit, IsWord
<1>2. magnitude(X) \in Nat /\ sign(X) \in {0, 1} /\ Signed(X) = (IF sign(X) = 1 THEN -magnitude(X) ELSE magnitude(X))
  BY <1>1, NumberIs
<1>3. sign(X) = 0 BY <1>2
<1>4. X \in Nat /\ magnitude(X) = X /\ Signed(X) = X /\ X <= MaxInt /\ X < 2 * topbit_mask
  BY <1>1, <1>3, NotNegative
<1>5. TwoTo[int_len] = 2 * topbit_mask BY LengthIs DEF WordsFit, topbit_mask
<1>6. X \in Nat \ {0} /\ X < TwoTo[int_len] BY <1>4, <1>5
<1> DEFINE l == FloorLog(base, X)
<1>7. /\ l.r \in Nat /\ l.r < Power(base, l.r)
      /\ Power(base, l.r) <= X /\ X < Power(base, l.r + 1)
      /\ l.c = 1 \/ l.v # 1 <=> Power(base, l.r) # X BY <1>6, LogarithmFound
<1>8. intLog(base, X) = Result(build_value(l.r, 0), Bit(l.c = 1 \/ l.v # 1), KEEP)
  BY <1>3, <1>4, <1>6 DEF intLog
<1> HIDE DEF l
<1>9. Far \in Nat /\ Far > MaxInt + 1 /\ MaxInt \in Nat BY FarIs
<1> DEFINE p == Power(base, l.r)
           b == Power(base, l.r + 1)
<1>10. p \in Nat /\ b \in Nat /\ PowerTo(base, l.r) = UpToFar(p) /\ PowerTo(base, l.r + 1) = UpToFar(b)
  <2>1. l.r \in Nat /\ l.r + 1 \in Nat BY <1>7
  <2> QED BY <2>1, Powers, PowersToFar
<1>11. p <= X /\ X < b /\ l.r < p /\ (l.c = 1 \/ l.v # 1 <=> p # X) BY <1>7
<1> HIDE DEF p, b
<1>12. UpToFar(p) = p /\ X < UpToFar(b) BY <1>4, <1>9, <1>10, <1>11 DEF UpToFar
<1>13. Signed(build_value(l.r, 0)) = l.r
  <2>1. l.r <= MaxInt BY <1>4, <1>7, <1>9, <1>10, <1>11
  <2> QED BY <1>7, <2>1, SmallNumbersBuilt
<1>14. Signed(intLog(base, X).v) = l.r /\ intLog(base, X).c = Bit(l.c = 1 \/ l.v # 1)
  BY <1>8, <1>13 DEF Result
<1>15. Bit(l.c = 1 \/ l.v # 1) = 1 <=> p # X BY <1>11 DEF Bit
<1> QED BY <1>4, <1>10, <1>11, <1>12, <1>14, <1>15

LEMMA PowerOfSquare ==
    ASSUME NEW a \in Nat
    PROVE  \A q \in Nat : /\ Power(a, 2 * q) = Power(a * a, q)
                          /\ Power(a, 2 * q + 1) = Power(a * a, q) * a
<1> DEFINE T == {q \in Nat : Power(a, 2 * q) = Power(a * a, q)}
<1>1. /\ \A n \in Nat : Power(a, n) \in Nat
      /\ Power(a, 0) = 1
      /\ \A n \in Nat : Power(a, n + 1) = Power(a, n) * a BY Powers
<1> DEFINE b == a * a
<1>b. b \in Nat BY ProductsGrow
<1>2. /\ \A n \in Nat : Power(b, n) \in Nat
      /\ Power(b, 0) = 1
      /\ \A n \in Nat : Power(b, n + 1) = Power(b, n) * b
  <2> HIDE DEF b
  <2> QED BY <1>b, Powers
<1>3. 0 \in T
  <2>1. 2 * 0 = 0 OBVIOUS
  <2> QED BY <1>1, <1>2, <2>1
<1>4. ASSUME NEW q \in Nat, q \in T PROVE q + 1 \in T
  <2> DEFINE p == Power(a, 2 * q)
  <2>1. p = Power(b, q) /\ p \in Nat /\ Power(b, q + 1) = p * b BY <1>1, <1>2, <1>4
  <2>2. Power(a, 2 * q + 1) = p * a
    <3>1. 2 * q \in Nat OBVIOUS
    <3> DEFINE z == 2 * q
    <3> HIDE DEF z
    <3>2. Power(a, z + 1) = Power(a, z) * a BY <1>1, <3>1 DEF z
    <3> QED BY <3>2 DEF z
  <2>3. Power(a, (2 * q + 1) + 1) = Power(a, 2 * q + 1) * a
    <3>1. 2 * q + 1 \in Nat OBVIOUS
    <3> DEFINE z == 2 * q + 1
    <3> HIDE DEF z
    <3>2. Power(a, z + 1) = Power(a, z) * a BY <1>1, <3>1 DEF z
    <3> QED BY <3>2 DEF z
  <2>4. (2 * q + 1) + 1 = 2 * (q + 1) OBVIOUS
  <2>5. (p * a) * a = p * (a * a)
    <3> HIDE DEF p
    <3> QED BY <2>1, SMT
  <2>6. Power(a, 2 * (q + 1)) = p * b BY <2>2, <2>3, <2>4, <2>5
  <2> QED BY <2>1, <2>6
<1>5. \A q \in Nat : q \in T
  <2> HIDE DEF T
  <2> QED BY <1>3, <1>4, AllNaturals
<1>6. ASSUME NEW q \in Nat PROVE Power(a, 2 * q + 1) = Power(b, q) * a
  <2> DEFINE z == 2 * q
  <2>1. z \in Nat OBVIOUS
  <2>2. Power(a, z) = Power(b, q) BY <1>5
  <2> HIDE DEF z, b
  <2>3. Power(a, z + 1) = Power(a, z) * a BY <1>1, <2>1
  <2>4. Power(a, z + 1) = Power(b, q) * a BY <2>2, <2>3
  <2> QED BY <2>4 DEF z
<1> QED BY <1>5, <1>6

\* A product of magnitudes after one that overflowed, or after none.
LEMMA ProductAfter ==
    ASSUME WordsFit, NEW a \in Nat, NEW b \in Nat, NEW o \in {0, 1}
    PROVE  LET u == multiply_with_overflow(a, b, o)
           IN  /\ u[1] \in Nat /\ u[2] \in {0, 1}
               /\ o = 1 => u[2] = 1
               /\ o = 0 => u[2] = Bit(a * b > MaxInt) /\ (u[2] = 0 => u[1] = a * b)
<1>1. a * b \in Nat BY ProductsGrow
<1>2. mask_value(a * b) \in Nat
  <2>1. mask_value(a * b) \in 0 .. 2 * topbit_mask - 1 BY <1>1, Masks
  <2>2. topbit_mask \in Nat \ {0} BY TopBit
  <2> QED BY <2>1, <2>2
<1>3. CASE o = 1 BY <1>2, <1>3 DEF multiply_with_overflow, Bit
<1>4. CASE o = 0
  <2> DEFINE u == multiply_with_overflow(a, b, 0)
  <2>1. u[2] = Bit(a * b > MaxInt) /\ (a * b <= MaxInt => u[1] = a * b) BY ProductOfMagnitudes
  <2>2. u[1] \in Nat BY <1>2 DEF multiply_with_overflow
  <2> HIDE DEF u
  <2>3. MaxInt \in Int BY MaxIs
  <2>4. u[2] \in {0, 1} /\ (u[2] = 0 => a * b <= MaxInt) BY <1>1, <2>1, <2>3 DEF Bit
  <2>5. /\ u[1] \in Nat /\ u[2] \in {0, 1}
        /\ u[2] = Bit(a * b > MaxInt) /\ (u[2] = 0 => u[1] = a * b) BY <2>1, <2>2, <2>4
  <2> QED BY <1>4, <2>5 DEF u
<1> QED BY <1>3, <1>4

LEMMA OneIsANumber ==
    ASSUME WordsFit, Unsigned \/ int_len > 1
    PROVE  MaxInt \in Nat /\ MaxInt >= 1
<1>1. topbit_mask \in Nat \ {0} /\ MaxInt = (IF Unsigned THEN 2 * topbit_mask - 1 ELSE topbit_mask - 1)
  BY TopBit, MaxIs
<1>2. int_len > 1 => topbit_mask >= 2
  <2>1. int_len \in Nat BY LengthIs DEF WordsFit
  <2> SUFFICES ASSUME int_len > 1 PROVE topbit_mask >= 2 OBVIOUS
  <2>2. int_len - 2 \in Nat /\ (int_len - 2) + 1 = int_len - 1 BY <2>1
  <2>3. TwoTo[(int_len - 2) + 1] = 2 * TwoTo[int_len - 2] /\ TwoTo[int_len - 2] \in Nat \ {0}
    BY <2>2, PowersOfTwo
  <2>4. topbit_mask = 2 * TwoTo[int_len - 2] BY <2>2, <2>3 DEF topbit_mask
  <2> QED BY <2>3, <2>4
<1> QED BY <1>1, <1>2

LEMMA PowerFound ==
    ASSUME WordsFit, NEW vy \in Nat \ {0}, NEW vx \in Nat, vx < TwoTo[int_len],
           NEW overflow \in {0, 1}, MaxInt >= 1
    PROVE  LET p == int_power_helper(vy, vx, overflow)
           IN  /\ p[2] = Bit(overflow = 1 \/ Power(vy, vx) > MaxInt)
               /\ p[2] = 0 => p[1] = Power(vy, vx)
<1> DEFINE S == [vy : Nat, vx : Nat, r : Nat, o : {0, 1}, next : {0, 1}]
           times(s) == multiply_with_overflow(s.r, s.vy, Bit(s.o = 1 \/ s.next = 1))
           square(s) == multiply_with_overflow(s.vy, s.vy, s.next)
           g == [s \in S |->
                    IF s.vx = 0 THEN s
                    ELSE [vy |-> square(s)[1], vx |-> s.vx \div 2,
                          r |-> IF s.vx % 2 = 1 THEN times(s)[1] ELSE s.r,
                          o |-> IF s.vx % 2 = 1 THEN times(s)[2] ELSE s.o,
                          next |-> square(s)[2]]]
           a == [vy |-> vy, vx |-> vx, r |-> 1, o |-> overflow, next |-> 0]
           P == Power(vy, vx)
           Holds(s, R, A) ==
               /\ R * Power(A, s.vx) = P
               /\ s.o = 1 <=> overflow = 1 \/ R > MaxInt
               /\ s.o = 0 => s.r = R
               /\ s.next = 1 => A > MaxInt
               /\ s.next = 0 => s.vy = A
           I == [k \in Nat |-> {s \in S : /\ s.vx = vx \div TwoTo[k]
                                          /\ \E R \in Nat \ {0}, A \in Nat \ {0} : Holds(s, R, A)}]
<1>1. int_len \in Nat /\ MaxInt \in Nat BY LengthIs, FarIs DEF WordsFit
<1>2. int_power_helper(vy, vx, overflow)
          = <<Turned(g, a, int_len).r, Turned(g, a, int_len).o>> BY DEF int_power_helper
<1>p. P \in Nat /\ Power(vy, vx) = P BY Powers
<1> HIDE DEF P
<1>q. ASSUME NEW c \in Nat, NEW d \in Nat
      PROVE  /\ multiply_with_overflow(c, d, 1)[2] = 1
             /\ multiply_with_overflow(c, d, 0)[2] = Bit(c * d > MaxInt)
             /\ multiply_with_overflow(c, d, 0)[2] = 0 => multiply_with_overflow(c, d, 0)[1] = c * d
  <2>1. 0 \in {0, 1} /\ 1 \in {0, 1} OBVIOUS
  <2> QED BY <2>1, ProductAfter
<1>3. ASSUME NEW s \in S
      PROVE  /\ s.vy \in Nat /\ s.vx \in Nat /\ s.r \in Nat /\ s.o \in {0, 1} /\ s.next \in {0, 1}
             /\ times(s)[1] \in Nat /\ times(s)[2] \in {0, 1}
             /\ square(s)[1] \in Nat /\ square(s)[2] \in {0, 1}
             /\ s.vx \div 2 \in Nat
  <2>1. s.vy \in Nat /\ s.vx \in Nat /\ s.r \in Nat /\ s.o \in {0, 1} /\ s.next \in {0, 1} BY <1>3
  <2>2. Bit(s.o = 1 \/ s.next = 1) \in {0, 1} BY DEF Bit
  <2>3. s.vx \div 2 \in Nat BY <2>1, SMT
  <2>4. times(s)[1] \in Nat /\ times(s)[2] \in {0, 1} BY <2>1, <2>2, ProductAfter
  <2>5. square(s)[1] \in Nat /\ square(s)[2] \in {0, 1} BY <2>1, ProductAfter
  <2> QED BY <2>1, <2>3, <2>4, <2>5
<1>4. ASSUME NEW s \in S PROVE g[s] \in S
  <2> HIDE DEF times, square
  <2> DEFINE n == [vy |-> square(s)[1], vx |-> s.vx \div 2,
                          r |-> IF s.vx % 2 = 1 THEN times(s)[1] ELSE s.r,
                          o |-> IF s.vx % 2 = 1 THEN times(s)[2] ELSE s.o,
                          next |-> square(s)[2]]
  <2>1. n \in S BY <1>3
  <2>2. g[s] = IF s.vx = 0 THEN s ELSE n OBVIOUS
  <2> HIDE DEF n, g, S
  <2> QED BY <2>1, <2>2
<1>5. g \in [S -> S]
  <2> HIDE DEF S, times, square
  <2> QED BY <1>4
<1>6. a \in S /\ a \in I[0]
  <2>1. a \in S OBVIOUS
  <2>2. a.vx = vx \div TwoTo[0]
    <3>1. vx \div TwoTo[0] = vx
      <4>1. vx \in Int /\ 0 \in Nat OBVIOUS
      <4> QED BY <4>1, HalvedAgain
    <3> QED BY <3>1
  <2>3. Holds(a, 1, vy)
    <3>1. 1 * P = P BY <1>p
    <3>2. overflow = 1 <=> overflow = 1 \/ 1 > MaxInt
      <4>1. MaxInt >= 1 \/ overflow = 1 OBVIOUS
      <4> QED BY <1>1, <4>1
    <3> QED BY <1>p, <3>1, <3>2
  <2>4. \E R \in Nat \ {0}, A \in Nat \ {0} : Holds(a, R, A)
    <3>1. 1 \in Nat \ {0} OBVIOUS
    <3> HIDE DEF Holds, a
    <3> QED BY <2>3, <3>1
  <2> HIDE DEF Holds, S, a
  <2> QED BY <2>1, <2>2, <2>4
<1>7. ASSUME NEW k \in Nat, NEW s \in S, s \in I[k] PROVE g[s] \in I[k + 1]
  <2> DEFINE m == s.vx % 2
             q == s.vx \div 2
  <2>1. s.vx = vx \div TwoTo[k] /\ \E R \in Nat \ {0}, A \in Nat \ {0} : Holds(s, R, A) BY <1>7
  <2>2. PICK R \in Nat \ {0}, A \in Nat \ {0} : Holds(s, R, A) BY <2>1
  <2>3. /\ R * Power(A, s.vx) = P
        /\ s.o = 1 <=> overflow = 1 \/ R > MaxInt
        /\ s.o = 0 => s.r = R
        /\ s.next = 1 => A > MaxInt
        /\ s.next = 0 => s.vy = A BY <2>2
  <2>4. g[s] \in S /\ k + 1 \in Nat
    <3> HIDE DEF S, g, I
    <3> QED BY <1>4, <1>7
  <2>5. /\ s.vy \in Nat /\ s.vx \in Nat /\ s.r \in Nat /\ s.o \in {0, 1} /\ s.next \in {0, 1}
        /\ times(s)[1] \in Nat /\ times(s)[2] \in {0, 1}
        /\ square(s)[1] \in Nat /\ square(s)[2] \in {0, 1}
    <3> HIDE DEF S, g, I, times, square
    <3> QED BY <1>3, <1>7
  <2>6. s.vx \div 2 = vx \div TwoTo[k + 1]
    <3>1. (vx \div TwoTo[k]) \div 2 = vx \div TwoTo[k + 1]
      <4>1. vx \in Int OBVIOUS
      <4> QED BY <4>1, HalvedAgain
    <3> QED BY <2>1, <3>1
  <2>7. CASE s.vx = 0
    <3>1. g[s] = s BY <2>7
    <3>2. s.vx = vx \div TwoTo[k + 1]
      <4>1. 0 \div 2 = 0 BY SMT
      <4> QED BY <2>6, <2>7, <4>1
    <3> HIDE DEF g, S, Holds
    <3> QED BY <2>1, <2>4, <3>1, <3>2
  <2>8. CASE s.vx # 0
    <3> DEFINE n == g[s]
    <3>1. /\ n.vy = square(s)[1] /\ n.vx = q /\ n.next = square(s)[2]
          /\ n.r = (IF m = 1 THEN times(s)[1] ELSE s.r)
          /\ n.o = (IF m = 1 THEN times(s)[2] ELSE s.o)
      <4> HIDE DEF times, square, S
      <4> QED BY <2>8
    <3>2. q \in Nat /\ m \in {0, 1} /\ s.vx = 2 * q + m BY <2>5, SMT
    <3> HIDE DEF n, q, m
    <3>3. A * A \in Nat \ {0} /\ A <= A * A /\ R * A \in Nat \ {0} /\ R <= R * A /\ A <= R * A
      <4>1. A \in Nat /\ R \in Nat /\ A > 0 /\ R > 0 OBVIOUS
      <4>2. A * A \in Nat /\ A <= A * A /\ R * A \in Nat /\ R <= R * A /\ A <= R * A
        BY <4>1, ProductsGrow
      <4> QED BY <4>1, <4>2
    <3>4. /\ n.next = 1 => A * A > MaxInt
          /\ n.next = 0 => n.vy = A * A
      <4>1. CASE s.next = 1
        <5>1. square(s)[2] = 1
          <6> DEFINE u == square(s)
                     r == s.r
                     b == s.vy
          <6>1. u = multiply_with_overflow(b, b, 1) BY <4>1
          <6>2. r \in Nat /\ b \in Nat BY <2>5
          <6> HIDE DEF u, r, b, S
          <6>3. u[2] = 1 BY <1>q, <6>1, <6>2
          <6> QED BY <6>3 DEF u, r, b
        <5>2. A > MaxInt BY <2>3, <4>1
        <5> HIDE DEF square
        <5> QED BY <1>1, <3>1, <3>3, <5>1, <5>2
      <4>2. CASE s.next = 0
        <5>1. square(s)[2] = Bit(s.vy * s.vy > MaxInt) /\ (square(s)[2] = 0 => square(s)[1] = s.vy * s.vy)
          <6> DEFINE u == square(s)
                     r == s.r
                     b == s.vy
          <6>1. u = multiply_with_overflow(b, b, 0) BY <4>2
          <6>2. r \in Nat /\ b \in Nat BY <2>5
          <6> HIDE DEF u, r, b, S
          <6>3. u[2] = Bit(b * b > MaxInt) /\ (u[2] = 0 => u[1] = b * b) BY <1>q, <6>1, <6>2
          <6> QED BY <6>3 DEF u, r, b
        <5>2. s.vy = A BY <2>3, <4>2
        <5> HIDE DEF square
        <5> QED BY <3>1, <5>1, <5>2 DEF Bit
      <4> QED BY <2>5, <4>1, <4>2
    <3>5. Power(A, s.vx) = Power(A * A, q) * (IF m = 1 THEN A ELSE 1)
      <4>1. Power(A, 2 * q) = Power(A * A, q) /\ Power(A, 2 * q + 1) = Power(A * A, q) * A
        BY <3>2, PowerOfSquare
      <4>2. m = 0 => Power(A, s.vx) = Power(A * A, q)
        <5>1. m = 0 => s.vx = 2 * q BY <3>2
        <5> QED BY <4>1, <5>1
      <4>3. m = 1 => Power(A, s.vx) = Power(A * A, q) * A BY <3>2, <4>1
      <4>4. Power(A * A, q) \in Nat BY <3>2, <3>3, Powers
      <4> QED BY <3>2, <4>2, <4>3, <4>4
    <3> DEFINE R2 == IF m = 1 THEN R * A ELSE R
    <3>6. R2 \in Nat \ {0} BY <3>3
    <3>7. R2 * Power(A * A, q) = P
      <4>1. Power(A * A, q) \in Nat BY <3>2, <3>3, Powers
      <4> DEFINE z == Power(A * A, q)
      <4>2. z \in Nat /\ Power(A, s.vx) = z * (IF m = 1 THEN A ELSE 1) BY <3>5, <4>1
      <4> HIDE DEF z
      <4>3. (R * A) * z = R * (z * A) /\ z * 1 = z BY <4>2, SMT
      <4>4. R2 * z = R * (z * (IF m = 1 THEN A ELSE 1)) BY <4>3
      <4>5. R2 * z = P BY <2>3, <4>2, <4>4
      <4> QED BY <4>5 DEF z
    <3>8. (n.o = 1 <=> overflow = 1 \/ R2 > MaxInt) /\ (n.o = 0 => n.r = R2)
      <4>1. CASE m = 0 BY <2>3, <3>1, <3>2, <4>1
      <4>2. CASE m = 1 /\ (s.o = 1 \/ s.next = 1)
        <5>1. Bit(s.o = 1 \/ s.next = 1) = 1 BY <4>2 DEF Bit
        <5>2. times(s)[2] = 1
          <6> DEFINE u == times(s)
                     r == s.r
                     b == s.vy
          <6>1. u = multiply_with_overflow(r, b, 1) BY <5>1
          <6>2. r \in Nat /\ b \in Nat BY <2>5
          <6> HIDE DEF u, r, b, S
          <6>3. u[2] = 1 BY <1>q, <6>1, <6>2
          <6> QED BY <6>3 DEF u, r, b
        <5>3. overflow = 1 \/ R * A > MaxInt BY <1>1, <2>3, <3>3, <4>2
        <5> HIDE DEF times
        <5> QED BY <3>1, <4>2, <5>2, <5>3
      <4>3. CASE m = 1 /\ s.o = 0 /\ s.next = 0
        <5>1. Bit(s.o = 1 \/ s.next = 1) = 0 BY <4>3 DEF Bit
        <5>2. times(s)[2] = Bit(s.r * s.vy > MaxInt) /\ (times(s)[2] = 0 => times(s)[1] = s.r * s.vy)
          <6> DEFINE u == times(s)
                     r == s.r
                     b == s.vy
          <6>1. u = multiply_with_overflow(r, b, 0) BY <5>1
          <6>2. r \in Nat /\ b \in Nat BY <2>5
          <6> HIDE DEF u, r, b, S
          <6>3. u[2] = Bit(r * b > MaxInt) /\ (u[2] = 0 => u[1] = r * b) BY <1>q, <6>1, <6>2
          <6> QED BY <6>3 DEF u, r, b
        <5>3. s.r = R /\ s.vy = A /\ overflow # 1 BY <2>3, <4>3
        <5>4. n.o = times(s)[2] /\ n.r = times(s)[1] /\ R2 = R * A BY <3>1, <4>3
        <5> HIDE DEF times, R2
        <5> QED BY <5>2, <5>3, <5>4 DEF Bit
      <4> QED BY <2>5, <3>2, <4>1, <4>2, <4>3
    <3> HIDE DEF R2
    <3>9. Holds(n, R2, A * A) BY <3>1, <3>4, <3>7, <3>8
    <3>10. \E r \in Nat \ {0}, b \in Nat \ {0} : Holds(n, r, b)
      <4> HIDE DEF Holds
      <4> QED BY <3>3, <3>6, <3>9
    <3>11. n.vx = vx \div TwoTo[k + 1] BY <2>6, <3>1 DEF q
    <3>12. n \in S BY <2>4 DEF n
    <3> HIDE DEF Holds, S
    <3>13. n \in I[k + 1] BY <2>4, <3>10, <3>11, <3>12
    <3> QED BY <3>13 DEF n
  <2> QED BY <2>7, <2>8
<1>8. \A k \in Nat : Turned(g, a, k) \in I[k] /\ Turned(g, a, k) \in S
  <2> HIDE DEF S, g, a, I
  <2> QED BY <1>5, <1>6, <1>7, LoopKeeps
<1> DEFINE s == Turned(g, a, int_len)
<1>9. s \in S /\ s \in I[int_len] BY <1>1, <1>8
<1> HIDE DEF s
<1>10. s.vx = vx \div TwoTo[int_len] /\ \E R \in Nat \ {0}, A \in Nat \ {0} : Holds(s, R, A)
  <2> HIDE DEF Holds, S
  <2> QED BY <1>1, <1>9
<1>11. s.vx = 0
  <2>1. TwoTo[int_len] = 2 * topbit_mask BY LengthIs DEF WordsFit, topbit_mask
  <2>2. topbit_mask \in Nat \ {0} BY TopBit
  <2>3. vx \in Int /\ vx >= -(2 * topbit_mask) /\ vx < 2 * topbit_mask /\ int_len >= int_len
    BY <1>1, <2>1, <2>2
  <2>4. vx \div TwoTo[int_len] = 0 BY <1>1, <2>3, DividedAway
  <2> QED BY <1>10, <2>4
<1>12. PICK R \in Nat \ {0}, A \in Nat \ {0} : Holds(s, R, A) BY <1>10
<1>13. /\ R * Power(A, s.vx) = P
       /\ s.o = 1 <=> overflow = 1 \/ R > MaxInt
       /\ s.o = 0 => s.r = R BY <1>12
<1>14. R = P
  <2>1. Power(A, 0) = 1 BY Powers
  <2> QED BY <1>11, <1>13, <2>1
<1>15. s.o \in {0, 1} BY <1>3, <1>9
<1>16. int_power_helper(vy, vx, overflow)[1] = s.r /\ int_power_helper(vy, vx, overflow)[2] = s.o
  BY <1>2 DEF s
<1> QED BY <1>13, <1>14, <1>15, <1>16, <1>p DEF Bit

\* A number that is flagged when its magnitude is too large.
LEMMA FlaggedNumbersTold ==
    ASSUME WordsFit, NEW p \in Nat, NEW g \in {0, 1}, Unsigned => g = 0, NEW r,
           r.o = Bit(p > MaxInt), r.o = 0 => r.v = build_value(p, g)
    PROVE  ToldNearly(r, IF g = 1 THEN -UpToFar(p) ELSE UpToFar(p))
<1> DEFINE t == topbit_mask
           n == IF g = 1 THEN -UpToFar(p) ELSE UpToFar(p)
<1>1. t \in Nat \ {0} /\ int_mode \in Modes BY TopBit
<1>2. MaxInt \in Nat /\ Far \in Nat /\ Far > MaxInt + 1 /\ Far > t BY FarIs
<1>3. MaxInt = (IF Unsigned THEN 2 * t - 1 ELSE t - 1) BY MaxIs
<1>4. MinInt \in Int /\ (~Unsigned => MinInt = -t \/ MinInt = 1 - t)
      /\ (Unsigned => MinInt = 0) BY <1>1, RangeIs DEF Modes, Unsigned
<1>5. CASE p <= MaxInt
  <2>1. UpToFar(p) = p BY <1>2, <1>5 DEF UpToFar
  <2>2. r.o = 0 /\ r.v = build_value(p, g) BY <1>2, <1>5 DEF Bit
  <2>3. InRange(IF g = 1 THEN -p ELSE p) BY <1>1, <1>2, <1>3, <1>4, <1>5 DEF InRange
  <2>4. Signed(build_value(p, g)) = (IF g = 1 THEN -p ELSE p) BY <2>3, WordsBuilt
  <2> QED BY <2>1, <2>2, <2>3, <2>4 DEF ToldNearly, Told
<1>6. CASE p > MaxInt
  <2>1. UpToFar(p) \in Nat /\ UpToFar(p) > MaxInt BY <1>2, <1>6 DEF UpToFar
  <2>2. r.o = 1 BY <1>6 DEF Bit
  <2>3. ~InRange(n) \/ n = -t
    <3>1. CASE g = 0 BY <1>2, <2>1, <3>1 DEF InRange
    <3>2. CASE g = 1 BY <1>1, <1>2, <1>3, <1>4, <2>1, <3>2 DEF InRange
    <3> QED BY <3>1, <3>2
  <2> QED BY <2>2, <2>3 DEF ToldNearly, Told
<1> QED BY <1>2, <1>5, <1>6

LEMMA PositiveNumbers ==
    ASSUME WordsFit, Signed(X) > 0
    PROVE  /\ IsWord(X) /\ sign(X) = 0 /\ X \in Nat \ {0} /\ magnitude(X) = X /\ Signed(X) = X
           /\ X <= MaxInt /\ X < TwoTo[int_len]
<1>1. IsWord(X) BY DEF WordsFit, IsWord
<1>2. magnitude(X) \in Nat /\ sign(X) \in {0, 1} /\ Signed(X) = (IF sign(X) = 1 THEN -magnitude(X) ELSE magnitude(X))
  BY <1>1, NumberIs
<1>3. sign(X) = 0 BY <1>2
<1>4. X \in Nat /\ magnitude(X) = X /\ Signed(X) = X /\ X <= MaxInt /\ X < 2 * topbit_mask
  BY <1>1, <1>3, NotNegative
<1>5. TwoTo[int_len] = 2 * topbit_mask BY LengthIs DEF WordsFit, topbit_mask
<1> QED BY <1>1, <1>3, <1>4, <1>5

LEMMA PowerIsTold ==
    ASSUME WordsFit, Unsigned \/ int_len > 1, Signed(X) > 0
    PROVE  LET v == magnitude(X)
               p == PowerTo(magnitude(Y), v)
           IN  ToldNearly(intPower(Y, X), IF sign(Y) = 1 /\ v % 2 = 1 THEN -p ELSE p)
<1>1. /\ sign(X) = 0 /\ X \in Nat \ {0} /\ magnitude(X) = X
      /\ X <= MaxInt /\ X < TwoTo[int_len] BY PositiveNumbers
<1>2. magnitude(Y) \in Nat /\ sign(Y) \in {0, 1} /\ (Unsigned => sign(Y) = 0)
  <2>1. IsWord(Y) BY DEF WordsFit, IsWord
  <2> QED BY <2>1, Magnitudes
<1>3. MaxInt \in Nat /\ MaxInt >= 1 BY OneIsANumber
<1> DEFINE vy == magnitude(Y)
           P == Power(vy, X)
           g == Bit(sign(Y) = 1 /\ X % 2 = 1)
           r == intPower(Y, X)
<1>4. P \in Nat /\ PowerTo(vy, X) = UpToFar(P)
  <2> HIDE DEF vy
  <2>1. vy \in Nat BY <1>2 DEF vy
  <2> QED BY <1>1, <2>1, Powers, PowersToFar
<1>5. g \in {0, 1} /\ (Unsigned => g = 0) /\ (g = 1 <=> sign(Y) = 1 /\ X % 2 = 1) BY <1>2 DEF Bit
<1>6. ASSUME vy = 0 PROVE ToldNearly(r, IF g = 1 THEN -UpToFar(P) ELSE UpToFar(P))
  <2>1. P = 0
    <3>1. X - 1 \in Nat /\ (X - 1) + 1 = X BY <1>1
    <3>2. Power(0, (X - 1) + 1) = Power(0, X - 1) * 0 /\ Power(0, X - 1) \in Nat
      <4>1. 0 \in Nat OBVIOUS
      <4> QED BY <3>1, <4>1, Powers
    <3> QED BY <1>6, <3>1, <3>2
  <2>2. r = Result(0, 0, 0) BY <1>1, <1>6 DEF intPower
  <2>3. r.o = 0 /\ r.v = 0 BY <2>2 DEF Result
  <2>4. InRange(0) /\ Signed(0) = 0
    <3>1. 0 \in Nat /\ 0 <= MaxInt BY <1>3
    <3> QED BY <3>1, SmallNumbersBuilt
  <2>5. UpToFar(P) = 0 BY <1>4, <2>1, FarIs DEF UpToFar
  <2>6. (IF g = 1 THEN -UpToFar(P) ELSE UpToFar(P)) = 0
    <3> HIDE DEF P, g
    <3>1. \A i \in Int : i >= 0 /\ i <= 0 => -i = i OBVIOUS
    <3>2. UpToFar(P) \in Int /\ UpToFar(P) >= 0 /\ UpToFar(P) <= 0 BY <2>5
    <3>3. -UpToFar(P) = UpToFar(P) BY <3>1, <3>2
    <3> QED BY <2>5, <3>3
  <2> HIDE DEF P, r, g, vy
  <2> QED BY <2>3, <2>4, <2>6 DEF ToldNearly, Told
<1>7. ASSUME vy # 0 PROVE ToldNearly(r, IF g = 1 THEN -UpToFar(P) ELSE UpToFar(P))
  <2> DEFINE p == int_power_helper(vy, X, 0)
  <2>1. r = Result(build_value(p[1], g), 0, p[2]) BY <1>1, <1>7 DEF intPower
  <2>2. p[2] = Bit(P > MaxInt) /\ (p[2] = 0 => p[1] = P)
    <3>1. vy \in Nat \ {0} /\ 0 \in {0, 1} /\ X \in Nat BY <1>1, <1>2, <1>7
    <3> HIDE DEF vy
    <3>2. p[2] = Bit(0 = 1 \/ P > MaxInt) /\ (p[2] = 0 => p[1] = P) BY <1>1, <1>3, <3>1, PowerFound
    <3> QED BY <3>2 DEF Bit
  <2>3. r.o = Bit(P > MaxInt) /\ (r.o = 0 => r.v = build_value(P, g))
    <3> HIDE DEF p, P, g, vy
    <3>1. r.o = p[2] /\ r.v = build_value(p[1], g) BY <2>1 DEF Result
    <3> QED BY <2>2, <3>1
  <2> HIDE DEF p, P, r, g, vy
  <2> QED BY <1>4, <1>5, <2>3, FlaggedNumbersTold
<1>8. ToldNearly(r, IF g = 1 THEN -UpToFar(P) ELSE UpToFar(P)) BY <1>6, <1>7
<1> HIDE DEF P, r
<1> QED BY <1>1, <1>4, <1>5, <1>8 DEF r

LEMMA PowersRise ==
    ASSUME NEW a \in Nat, NEW b \in Nat
    PROVE  TwoTo[a] \in Nat \ {0} /\ (a <= b => TwoTo[a] <= TwoTo[b]) /\ (a < b => 2 * TwoTo[a] <= TwoTo[b])
<1>1. /\ TwoTo \in [Nat -> Nat \ {0}] /\ TwoTo[0] = 1
      /\ \A n \in Nat : TwoTo[n + 1] = 2 * TwoTo[n] BY PowersOfTwo
<1>2. ASSUME NEW c \in Nat, c <= b PROVE TwoTo[c] <= TwoTo[b]
  <2> DEFINE d == b - c
  <2>1. d \in Nat /\ b = c + d BY <1>2
  <2> HIDE DEF d
  <2>2. TwoTo[c + d] = TwoTo[c] * TwoTo[d] BY <2>1, PowersAdd
  <2> DEFINE p == TwoTo[c]
             q == TwoTo[d]
  <2>3. p \in Nat /\ q \in Nat /\ q > 0 /\ TwoTo[b] = p * q BY <1>1, <2>1, <2>2
  <2> HIDE DEF p, q
  <2>4. p <= p * q BY <2>3, ProductsGrow
  <2> QED BY <2>3, <2>4 DEF p
<1>3. a <= b => TwoTo[a] <= TwoTo[b] BY <1>2
<1>4. ASSUME a < b PROVE 2 * TwoTo[a] <= TwoTo[b]
  <2>1. a + 1 \in Nat /\ a + 1 <= b BY <1>4
  <2>2. TwoTo[a + 1] <= TwoTo[b] BY <1>2, <2>1
  <2> QED BY <1>1, <2>2
<1> QED BY <1>1, <1>3, <1>4

LEMMA PowerOfTwoTold ==
    ASSUME WordsFit, Signed(X) > 0
    PROVE  ToldNearly(int2pow(X), PowerTo(2, magnitude(X)))
<1>1. sign(X) = 0 /\ X \in Nat \ {0} /\ magnitude(X) = X BY PositiveNumbers
<1> DEFINE ws == IF Unsigned THEN int_len ELSE int_len - 1
           P == TwoTo[X]
           r == int2pow(X)
<1>2. ws \in Nat /\ MaxInt \in Nat /\ TwoTo[ws] = MaxInt + 1
  <2>1. /\ int_len \in Nat /\ int_len - 1 \in Nat /\ topbit_mask \in Nat \ {0}
        /\ TwoTo[int_len] = 2 * topbit_mask /\ TwoTo[int_len - 1] = topbit_mask
    BY LengthIs DEF WordsFit, topbit_mask
  <2>2. MaxInt = (IF Unsigned THEN 2 * topbit_mask - 1 ELSE topbit_mask - 1) BY MaxIs
  <2> QED BY <2>1, <2>2
<1>3. P \in Nat /\ (ws <= X => TwoTo[ws] <= P) /\ (X < ws => 2 * P <= TwoTo[ws])
  <2> HIDE DEF ws
  <2> QED BY <1>1, <1>2, PowersRise
<1>4. PowerTo(2, X) = UpToFar(P)
  <2>1. Power(2, X) = P BY <1>1, PowersOfTwoAre
  <2>2. 2 \in Nat OBVIOUS
  <2> QED BY <1>1, <2>1, <2>2, PowersToFar
<1>5. r.o = Bit(P > MaxInt) /\ (r.o = 0 => r.v = build_value(P, 0))
  <2>1. CASE X >= ws
    <3>1. r = Result(0, Bit(X = ws), 1) BY <1>1, <2>1 DEF int2pow
    <3>2. r.o = 1 BY <3>1 DEF Result
    <3> HIDE DEF P, ws, r
    <3>3. P > MaxInt BY <1>1, <1>2, <1>3, <2>1
    <3> QED BY <3>2, <3>3 DEF Bit
  <2>2. CASE ~(X >= ws)
    <3>1. r = Result(P, Bit(sign(X) = 1 /\ X = 1), 0) BY <1>1, <2>2 DEF int2pow
    <3>2. r.o = 0 /\ r.v = P BY <3>1 DEF Result
    <3> HIDE DEF P, ws, r
    <3>3. P <= MaxInt BY <1>1, <1>2, <1>3, <2>2
    <3>4. build_value(P, 0) = P BY <1>3, <3>3, SmallNumbersBuilt
    <3> QED BY <1>2, <1>3, <3>2, <3>3, <3>4 DEF Bit
  <2> QED BY <2>1, <2>2
<1>6. ToldNearly(r, IF 0 = 1 THEN -UpToFar(P) ELSE UpToFar(P))
  <2>1. 0 \in {0, 1} /\ (Unsigned => 0 = 0) OBVIOUS
  <2> HIDE DEF P, r
  <2> QED BY <1>3, <1>5, <2>1, FlaggedNumbersTold
<1> QED BY <1>1, <1>4, <1>6

LEMMA PowerOfTenTold ==
    ASSUME WordsFit, Unsigned \/ int_len > 1, Signed(X) > 0
    PROVE  ToldNearly(int10pow(X), PowerTo(10, magnitude(X)))
<1>1. /\ sign(X) = 0 /\ X \in Nat \ {0} /\ magnitude(X) = X
      /\ X <= MaxInt /\ X < TwoTo[int_len] BY PositiveNumbers
<1>2. MaxInt \in Nat /\ MaxInt >= 1 BY OneIsANumber
<1> DEFINE small == int_len <= 3 \/ (~Unsigned /\ int_len = 4)
           P == Power(10, X)
           p == int_power_helper(10, X, Bit(small))
           r == int10pow(X)
<1>3. P \in Nat /\ P >= 10 /\ PowerTo(10, X) = UpToFar(P)
  <2>1. 10 \in Nat OBVIOUS
  <2>2. PowerTo(10, X) = UpToFar(P) BY <1>1, <2>1, PowersToFar
  <2>3. X - 1 \in Nat /\ (X - 1) + 1 = X BY <1>1
  <2>4. Power(10, (X - 1) + 1) = Power(10, X - 1) * 10 /\ Power(10, X - 1) \in Nat
    BY <2>1, <2>3, Powers
  <2>5. X - 1 < Power(10, X - 1) BY <2>1, <2>3, PowersReach
  <2>6. P = Power(10, X - 1) * 10 BY <2>3, <2>4
  <2> DEFINE q == Power(10, X - 1)
  <2>7. q \in Nat /\ X - 1 < q /\ P = q * 10 BY <2>4, <2>5, <2>6
  <2> HIDE DEF q, P
  <2>8. P \in Nat /\ P >= 10 BY <2>3, <2>7
  <2> QED BY <2>2, <2>8 DEF P
<1>4. small => MaxInt <= 7
  <2>1. /\ int_len \in Nat /\ int_len - 1 \in Nat /\ topbit_mask \in Nat \ {0}
        /\ TwoTo[int_len] = 2 * topbit_mask /\ TwoTo[int_len - 1] = topbit_mask
    BY LengthIs DEF WordsFit, topbit_mask
  <2>2. MaxInt = (IF Unsigned THEN 2 * topbit_mask - 1 ELSE topbit_mask - 1) BY MaxIs
  <2>3. TwoTo[3] = 8
    <3>1. /\ TwoTo[0] = 1 /\ \A n \in Nat : TwoTo[n + 1] = 2 * TwoTo[n] BY PowersOfTwo
    <3>2. TwoTo[0 + 1] = 2 * TwoTo[0] /\ TwoTo[1 + 1] = 2 * TwoTo[1] /\ TwoTo[2 + 1] = 2 * TwoTo[2]
      BY <3>1
    <3> QED BY <3>1, <3>2
  <2>4. int_len <= 3 => TwoTo[int_len] <= TwoTo[3]
    <3>1. 3 \in Nat OBVIOUS
    <3> QED BY <2>1, <3>1, PowersRise
  <2>5. int_len = 4 => TwoTo[int_len - 1] = TwoTo[3]
    <3>1. int_len = 4 => int_len - 1 = 3 OBVIOUS
    <3> QED BY <3>1
  <2> QED BY <2>1, <2>2, <2>3, <2>4, <2>5
<1>5. r.o = Bit(P > MaxInt) /\ (r.o = 0 => r.v = build_value(P, 0))
  <2>1. r = Result(build_value(p[1], 0), 0, p[2]) BY <1>1 DEF int10pow
  <2>2. p[2] = Bit(Bit(small) = 1 \/ P > MaxInt) /\ (p[2] = 0 => p[1] = P)
    <3>1. 10 \in Nat \ {0} /\ Bit(small) \in {0, 1} /\ X \in Nat BY <1>1 DEF Bit
    <3> HIDE DEF small
    <3> QED BY <1>1, <1>2, <3>1, PowerFound
  <2> HIDE DEF p, P, r
  <2>3. r.o = p[2] /\ r.v = build_value(p[1], 0) BY <2>1 DEF Result
  <2>4. Bit(Bit(small) = 1 \/ P > MaxInt) = Bit(P > MaxInt)
    <3>1. small => P > MaxInt BY <1>2, <1>3, <1>4
    <3> HIDE DEF small
    <3> QED BY <3>1 DEF Bit
  <2> QED BY <2>2, <2>3, <2>4
<1>6. ToldNearly(r, IF 0 = 1 THEN -UpToFar(P) ELSE UpToFar(P))
  <2>1. 0 \in {0, 1} /\ (Unsigned => 0 = 0) OBVIOUS
  <2> HIDE DEF P, r
  <2> QED BY <1>3, <1>5, <2>1, FlaggedNumbersTold
<1> QED BY <1>1, <1>3, <1>6

-----
(* The numbers of Fibonacci *)

LEMMA FibsGrow ==
    /\ \A n \in Nat : Fib(n) \in Nat
    /\ Fib(0) = 0 /\ Fib(1) = 1
    /\ \A n \in Nat : Fib(n + 2) = Fib(n) + Fib(n + 1)
<1> DEFINE S == [this : Nat, next : Nat]
           g == [f \in S |-> [this |-> f.next, next |-> f.this + f.next]]
           a == [this |-> 0, next |-> 1]
<1>1. g \in [S -> S] /\ a \in S
  <2>1. ASSUME NEW f \in S PROVE [this |-> f.next, next |-> f.this + f.next] \in S BY <2>1
  <2> QED BY <2>1
<1>2. /\ \A n \in Nat : Turned(g, a, n) \in S
      /\ Turned(g, a, 0) = a
      /\ \A n \in Nat : Turned(g, a, n + 1) = g[Turned(g, a, n)]
  <2> HIDE DEF g, a, S
  <2> QED BY <1>1, TurnsFollow
<1>3. \A n \in Nat : FibPair(n) = Turned(g, a, n) BY DEF FibPair
<1>4. ASSUME NEW n \in Nat
      PROVE  /\ Fib(n) \in Nat /\ FibPair(n).next \in Nat
             /\ Fib(n + 1) = FibPair(n).next /\ FibPair(n + 1).next = Fib(n) + FibPair(n).next
  <2> DEFINE f == FibPair(n)
  <2>1. f \in S /\ FibPair(n + 1) = g[f]
    <3> HIDE DEF g, a, S
    <3> QED BY <1>2, <1>3
  <2> HIDE DEF f
  <2>2. g[f] = [this |-> f.next, next |-> f.this + f.next] /\ f.this \in Nat /\ f.next \in Nat
    BY <2>1
  <2>3. FibPair(n + 1).this = f.next /\ FibPair(n + 1).next = f.this + f.next BY <2>1, <2>2
  <2> QED BY <2>2, <2>3 DEF Fib, f
<1>5. Fib(0) = 0 /\ FibPair(0).next = 1
  <2>1. FibPair(0) = a
    <3> HIDE DEF g, a, S
    <3> QED BY <1>2, <1>3
  <2> QED BY <2>1 DEF Fib
<1>6. Fib(1) = 1
  <2>1. Fib(0 + 1) = FibPair(0).next BY <1>4
  <2> QED BY <1>5, <2>1
<1>7. ASSUME NEW n \in Nat PROVE Fib(n + 2) = Fib(n) + Fib(n + 1)
  <2>1. n + 1 \in Nat /\ (n + 1) + 1 = n + 2 OBVIOUS
  <2>2. Fib((n + 1) + 1) = FibPair(n + 1).next BY <1>4, <2>1
  <2>3. Fib(n + 1) = FibPair(n).next /\ FibPair(n + 1).next = Fib(n) + FibPair(n).next BY <1>4
  <2> QED BY <2>1, <2>2, <2>3
<1> QED BY <1>4, <1>5, <1>6, <1>7

LEMMA FibsToFar ==
    ASSUME WordsFit
    PROVE  \A n \in Nat : FibTo(n) = UpToFar(Fib(n))
<1> DEFINE S == [this : Nat, next : Nat]
           g == [f \in S |-> [this |-> f.next, next |-> UpToFar(f.this + f.next)]]
           a == [this |-> 0, next |-> 1]
           I == [n \in Nat |-> {f \in S : f.this = UpToFar(Fib(n)) /\ f.next = UpToFar(Fib(n + 1))}]
<1>1. Far \in Nat /\ Far >= 1 BY FarIs
<1>2. /\ \A n \in Nat : Fib(n) \in Nat
      /\ Fib(0) = 0 /\ Fib(1) = 1
      /\ \A n \in Nat : Fib(n + 2) = Fib(n) + Fib(n + 1) BY FibsGrow
<1>3. ASSUME NEW f \in S
      PROVE  /\ f.this \in Nat /\ f.next \in Nat /\ g[f] \in S
             /\ g[f].this = f.next /\ g[f].next = UpToFar(f.this + f.next)
  <2>1. f.this \in Nat /\ f.next \in Nat BY <1>3
  <2>2. UpToFar(f.this + f.next) \in Nat BY <1>1, <2>1 DEF UpToFar
  <2>3. g[f] = [this |-> f.next, next |-> UpToFar(f.this + f.next)] OBVIOUS
  <2>4. [this |-> f.next, next |-> UpToFar(f.this + f.next)] \in S BY <2>1, <2>2
  <2> QED BY <2>1, <2>3, <2>4
<1>4. g \in [S -> S] /\ a \in S
  <2>1. g \in [S -> S]
    <3> HIDE DEF S
    <3> QED BY <1>3
  <2> QED BY <2>1
<1>5. a \in I[0]
  <2>1. UpToFar(0) = 0 /\ UpToFar(1) = 1 BY <1>1 DEF UpToFar
  <2>2. a.this = UpToFar(Fib(0)) /\ a.next = UpToFar(Fib(0 + 1)) BY <1>2, <2>1
  <2> HIDE DEF S, a
  <2> QED BY <1>4, <2>2
<1>6. ASSUME NEW n \in Nat, NEW f \in S, f \in I[n] PROVE g[f] \in I[n + 1]
  <2>1. f.this = UpToFar(Fib(n)) /\ f.next = UpToFar(Fib(n + 1)) BY <1>6
  <2>2. g[f] \in S /\ g[f].this = f.next /\ g[f].next = UpToFar(f.this + f.next) BY <1>3
  <2>3. UpToFar(UpToFar(Fib(n)) + UpToFar(Fib(n + 1))) = UpToFar(Fib((n + 1) + 1))
    <3>1. Fib(n) \in Nat /\ Fib(n + 1) \in Nat /\ Fib((n + 1) + 1) = Fib(n) + Fib(n + 1)
      <4>1. n + 1 \in Nat /\ (n + 1) + 1 = n + 2 OBVIOUS
      <4> QED BY <1>2, <4>1
    <3> DEFINE p == Fib(n)
               q == Fib(n + 1)
    <3>2. p \in Nat /\ q \in Nat /\ Fib((n + 1) + 1) = p + q BY <3>1
    <3> HIDE DEF p, q
    <3>3. UpToFar(UpToFar(p) + UpToFar(q)) = UpToFar(p + q) BY <1>1, <3>2 DEF UpToFar
    <3> QED BY <3>2, <3>3 DEF p, q
  <2>4. n + 1 \in Nat OBVIOUS
  <2> HIDE DEF S, g
  <2> QED BY <2>1, <2>2, <2>3, <2>4
<1>7. \A n \in Nat : Turned(g, a, n) \in I[n] /\ Turned(g, a, n) \in S
  <2> HIDE DEF S, g, a, I
  <2> QED BY <1>4, <1>5, <1>6, LoopKeeps
<1>8. ASSUME NEW n \in Nat PROVE FibTo(n) = UpToFar(Fib(n))
  <2>1. Turned(g, a, n) \in I[n] BY <1>7
  <2>2. FibTo(n) = Turned(g, a, n).this BY DEF FibTo
  <2> HIDE DEF g, a, S
  <2> QED BY <2>1, <2>2
<1> QED BY <1>8

\* How a sum past the largest number shows in the machine's word.
LEMMA SumsShow ==
    ASSUME WordsFit, NEW b \in Nat, NEW c \in Nat, b <= MaxInt, c <= MaxInt
    PROVE  LET tbm == IF ~Unsigned THEN topbit_mask ELSE (2 * topbit_mask) % TwoTo[M]
               s   == (b + c) % TwoTo[M]
           IN  /\ s < c \/ (tbm # 0 /\ (s \div tbm) % 2 = 1) <=> b + c > MaxInt
               /\ b + c <= MaxInt => s = b + c
<1> DEFINE t == topbit_mask
           m == TwoTo[M]
           s == (b + c) % m
<1>1. t \in Nat \ {0} /\ MaxInt = (IF Unsigned THEN 2 * t - 1 ELSE t - 1) BY TopBit, MaxIs
<1>2. /\ int_len <= M /\ m \in Nat /\ m >= 16 /\ 2 * t <= m /\ int_len \in Nat /\ M \in Nat
      /\ (int_len = M => 2 * t = m) /\ (int_len < M => 4 * t <= m)
  BY TheMachineWord, LengthIs DEF WordsFit
<1>3. ASSUME NEW d \in Nat \ {0}, NEW u \in Nat, u < 2 * d PROVE (u \div d) % 2 = 1 <=> u >= d
  <2>1. CASE u < d
    <3>1. u = d * 0 + u /\ u \in 0 .. d - 1 /\ 0 \in Int BY <2>1
    <3>2. (d * 0 + u) \div d = 0 BY <3>1, QuotientIs
    <3> QED BY <2>1, <3>1, <3>2
  <2>2. CASE u >= d
    <3>1. u = d * 1 + (u - d) /\ u - d \in 0 .. d - 1 /\ 1 \in Int BY <1>3, <2>2
    <3>2. (d * 1 + (u - d)) \div d = 1 BY <3>1, QuotientIs
    <3> QED BY <2>2, <3>1, <3>2
  <2> QED BY <1>3, <2>1, <2>2
<1> HIDE DEF t, m
<1>4. m \in Nat \ {0} /\ b + c \in Int BY <1>2
<1>5. /\ b + c < m => s = b + c
      /\ b + c >= m /\ b + c < 2 * m => s = (b + c) - m
  <2> DEFINE u == b + c
  <2>1. u \in Int /\ u >= 0 BY <1>4
  <2> HIDE DEF u
  <2>2. /\ u < m => u % m = u
        /\ u >= m /\ u < 2 * m => u % m = u - m BY <1>4, <2>1, Remainders
  <2> QED BY <2>2 DEF u
<1>6. ASSUME ~Unsigned \/ int_len < M,
             NEW tbm, tbm = IF ~Unsigned THEN t ELSE 2 * t
      PROVE  /\ s < c \/ (tbm # 0 /\ (s \div tbm) % 2 = 1) <=> b + c > MaxInt
             /\ b + c <= MaxInt => s = b + c
  <2>1. tbm \in Nat \ {0} /\ MaxInt = tbm - 1 BY <1>1, <1>6
  <2>2. b + c < 2 * tbm /\ 2 * tbm <= m
    <3>1. b + c < 2 * tbm BY <2>1
    <3>2. CASE ~Unsigned BY <1>1, <1>2, <1>6, <3>1, <3>2
    <3>3. CASE Unsigned BY <1>1, <1>2, <1>6, <3>1, <3>3
    <3> QED BY <3>2, <3>3
  <2>3. s = b + c BY <1>2, <1>5, <2>1, <2>2
  <2>4. (s \div tbm) % 2 = 1 <=> s >= tbm
    <3> HIDE DEF s
    <3> QED BY <1>3, <2>1, <2>2, <2>3
  <2> HIDE DEF s
  <2> QED BY <2>1, <2>3, <2>4
<1>7. ASSUME Unsigned, int_len = M
      PROVE  /\ s < c <=> b + c > MaxInt
             /\ b + c <= MaxInt => s = b + c
  <2>1. MaxInt = m - 1 BY <1>1, <1>2, <1>7
  <2> HIDE DEF s
  <2>2. CASE b + c < m BY <1>2, <1>5, <2>1, <2>2
  <2>3. CASE b + c >= m
    <3>1. s = (b + c) - m BY <1>2, <1>5, <2>1, <2>3
    <3> QED BY <1>2, <2>1, <2>3, <3>1
  <2> QED BY <1>2, <2>2, <2>3
<1>8. Unsigned => (2 * t) % m = IF int_len < M THEN 2 * t ELSE 0
  <2>1. 2 * t \in Int /\ 2 * t >= 0 BY <1>1
  <2>2. /\ 2 * t < m => (2 * t) % m = 2 * t
        /\ 2 * t >= m /\ 2 * t < 2 * m => (2 * t) % m = 2 * t - m BY <1>4, <2>1, Remainders
  <2> QED BY <1>1, <1>2, <2>2
<1> DEFINE tbm == IF ~Unsigned THEN t ELSE (2 * t) % m
<1>9. CASE ~Unsigned \/ int_len < M
  <2>1. tbm = IF ~Unsigned THEN t ELSE 2 * t BY <1>8, <1>9
  <2> HIDE DEF tbm, s
  <2>2. /\ s < c \/ (tbm # 0 /\ (s \div tbm) % 2 = 1) <=> b + c > MaxInt
        /\ b + c <= MaxInt => s = b + c BY <1>6, <1>9, <2>1
  <2> QED BY <2>2 DEF tbm, s, t, m
<1>10. CASE Unsigned /\ int_len = M
  <2>1. tbm = 0 BY <1>2, <1>8, <1>10
  <2> HIDE DEF tbm, s
  <2>2. /\ s < c \/ (tbm # 0 /\ (s \div tbm) % 2 = 1) <=> b + c > MaxInt
        /\ b + c <= MaxInt => s = b + c BY <1>7, <1>10, <2>1
  <2> QED BY <2>2 DEF tbm, s, t, m
<1> QED BY <1>2, <1>9, <1>10

LEMMA FibonacciFound ==
    ASSUME WordsFit, MaxInt >= 1, NEW n \in Nat, n >= 1
    PROVE  LET f == Fibonacci(n)
           IN  /\ f.o = Bit(Fib(n) > MaxInt)
               /\ f.o = 0 => f.a1 = Fib(n)
<1> DEFINE tbm == IF ~Unsigned THEN topbit_mask ELSE (2 * topbit_mask) % TwoTo[M]
           sum(s) == (s.a0 + s.a1) % TwoTo[M]
           over(s) == s.o = 1 \/ sum(s) < s.a1 \/ (tbm # 0 /\ (sum(s) \div tbm) % 2 = 1)
           S == [a0 : Nat, a1 : Nat, o : {0, 1}]
           g == [s \in S |-> [a0 |-> s.a1, a1 |-> sum(s),
                              o |-> Bit(s.o = 1 \/ sum(s) < s.a1
                                        \/ (tbm # 0 /\ (sum(s) \div tbm) % 2 = 1))]]
           a == [a0 |-> 0, a1 |-> 1, o |-> 0]
           I == [k \in Nat |-> {s \in S : /\ s.o = 1 <=> Fib(k + 1) > MaxInt
                                          /\ s.o = 0 => /\ s.a0 = Fib(k) /\ s.a1 = Fib(k + 1)
                                                        /\ Fib(k) <= MaxInt}]
<1>1. MaxInt \in Nat /\ TwoTo[M] \in Nat \ {0}
  <2>1. TwoTo[M] \in Nat /\ TwoTo[M] >= 16 /\ MaxInt \in Nat BY TheMachineWord, FarIs
  <2> QED BY <2>1
<1>2. /\ \A k \in Nat : Fib(k) \in Nat
      /\ Fib(0) = 0 /\ Fib(1) = 1
      /\ \A k \in Nat : Fib(k + 2) = Fib(k) + Fib(k + 1) BY FibsGrow
<1>3. Fibonacci(n) = Turned(g, a, n - 1) BY DEF Fibonacci
<1>4. ASSUME NEW s \in S
      PROVE  /\ s.a0 \in Nat /\ s.a1 \in Nat /\ s.o \in {0, 1} /\ g[s] \in S
             /\ g[s].a0 = s.a1 /\ g[s].a1 = sum(s) /\ g[s].o = Bit(over(s))
  <2>1. s.a0 \in Nat /\ s.a1 \in Nat /\ s.o \in {0, 1} BY <1>4
  <2>2. sum(s) \in Nat
    <3> DEFINE u == s.a0 + s.a1
               m == TwoTo[M]
    <3>1. u \in Int /\ m \in Nat \ {0} BY <1>1, <2>1
    <3> HIDE DEF u, m
    <3>2. u % m \in Nat BY <3>1, Remainders
    <3> QED BY <3>2 DEF u, m
  <2>3. Bit(over(s)) \in {0, 1} BY DEF Bit
  <2> HIDE DEF sum, tbm
  <2>4. g[s] = [a0 |-> s.a1, a1 |-> sum(s), o |-> Bit(over(s))] OBVIOUS
  <2> HIDE DEF over, g
  <2>5. [a0 |-> s.a1, a1 |-> sum(s), o |-> Bit(over(s))] \in S BY <2>1, <2>2, <2>3
  <2> QED BY <2>1, <2>4, <2>5
<1>5. g \in [S -> S] /\ a \in S
  <2>1. g \in [S -> S]
    <3> HIDE DEF S, sum, tbm, over
    <3> QED BY <1>4
  <2> QED BY <2>1
<1>6. a \in I[0]
  <2>1. Fib(0 + 1) = 1 /\ Fib(0) = 0 BY <1>2
  <2>2. /\ a.o = 1 <=> Fib(0 + 1) > MaxInt
        /\ a.o = 0 => a.a0 = Fib(0) /\ a.a1 = Fib(0 + 1) /\ Fib(0) <= MaxInt BY <1>1, <2>1
  <2> HIDE DEF S, a
  <2> QED BY <1>5, <2>2
<1>7. ASSUME NEW k \in Nat, NEW s \in S, s \in I[k] PROVE g[s] \in I[k + 1]
  <2>1. /\ s.o = 1 <=> Fib(k + 1) > MaxInt
        /\ s.o = 0 => s.a0 = Fib(k) /\ s.a1 = Fib(k + 1) /\ Fib(k) <= MaxInt BY <1>7
  <2>2. /\ s.a0 \in Nat /\ s.a1 \in Nat /\ s.o \in {0, 1} /\ g[s] \in S
        /\ g[s].a0 = s.a1 /\ g[s].a1 = sum(s) /\ g[s].o = Bit(over(s))
    <3> HIDE DEF S, g, I, sum, over, tbm
    <3> QED BY <1>4, <1>7
  <2>3. Fib(k) \in Nat /\ Fib(k + 1) \in Nat /\ Fib((k + 1) + 1) = Fib(k) + Fib(k + 1) /\ k + 1 \in Nat
    <3>1. k + 1 \in Nat /\ (k + 1) + 1 = k + 2 OBVIOUS
    <3> QED BY <1>2, <3>1
  <2> DEFINE n2 == g[s]
             b == s.a0
             c == s.a1
             p == Fib(k)
             q == Fib(k + 1)
  <2>4. CASE s.o = 1
    <3>1. n2.o = 1 BY <2>2, <2>4 DEF Bit
    <3>2. Fib((k + 1) + 1) > MaxInt BY <1>1, <2>1, <2>3, <2>4
    <3>3. n2 \in S /\ k + 1 \in Nat BY <2>2, <2>3
    <3> HIDE DEF S, n2
    <3>4. n2 \in I[k + 1] BY <3>1, <3>2, <3>3
    <3> QED BY <3>4 DEF n2
  <2>5. CASE s.o = 0
    <3>1. b = p /\ c = q /\ p \in Nat /\ q \in Nat /\ p <= MaxInt /\ q <= MaxInt
      BY <1>1, <2>1, <2>3, <2>5
    <3>2. /\ sum(s) < c \/ (tbm # 0 /\ (sum(s) \div tbm) % 2 = 1) <=> b + c > MaxInt
          /\ b + c <= MaxInt => sum(s) = b + c
      <4> HIDE DEF b, c, S
      <4>1. b \in Nat /\ c \in Nat /\ b <= MaxInt /\ c <= MaxInt BY <3>1
      <4>2. LET z == (b + c) % TwoTo[M]
            IN  /\ z < c \/ (tbm # 0 /\ (z \div tbm) % 2 = 1) <=> b + c > MaxInt
                /\ b + c <= MaxInt => z = b + c BY <4>1, SumsShow
      <4> QED BY <4>2 DEF b, c
    <3> HIDE DEF sum, tbm
    <3>3. n2.o = Bit(b + c > MaxInt) /\ n2.a0 = c /\ n2.a1 = sum(s)
      <4>1. over(s) <=> b + c > MaxInt BY <2>5, <3>2
      <4> HIDE DEF over, g, b, S
      <4> QED BY <2>2, <4>1 DEF Bit
    <3> DEFINE z == sum(s)
               r == Fib((k + 1) + 1)
    <3>4. r = p + q /\ (b + c <= MaxInt => z = b + c) /\ n2.a1 = z BY <2>3, <3>2, <3>3
    <3>5. n2 \in S /\ k + 1 \in Nat BY <2>2, <2>3
    <3> HIDE DEF S, n2, b, c, p, q, z, r
    <3>6. /\ n2.o = 1 <=> r > MaxInt
          /\ n2.o = 0 => n2.a0 = q /\ n2.a1 = r /\ q <= MaxInt BY <1>1, <3>1, <3>3, <3>4 DEF Bit
    <3>7. n2 \in I[k + 1] BY <3>5, <3>6 DEF q, r
    <3> QED BY <3>7 DEF n2
  <2> QED BY <2>2, <2>4, <2>5
<1>8. \A k \in Nat : Turned(g, a, k) \in I[k] /\ Turned(g, a, k) \in S
  <2> HIDE DEF S, g, a, I
  <2> QED BY <1>5, <1>6, <1>7, LoopKeeps
<1>9. n - 1 \in Nat /\ (n - 1) + 1 = n OBVIOUS
<1> DEFINE f == Turned(g, a, n - 1)
<1>10. f \in S /\ f \in I[n - 1] BY <1>8, <1>9
<1> HIDE DEF f
<1>11. /\ f.o = 1 <=> Fib((n - 1) + 1) > MaxInt
       /\ f.o = 0 => f.a1 = Fib((n - 1) + 1)
       /\ f.o \in {0, 1} BY <1>9, <1>10
<1>12. f.o = Bit(Fib(n) > MaxInt) /\ (f.o = 0 => f.a1 = Fib(n))
  <2> HIDE DEF S, I
  <2> QED BY <1>9, <1>11 DEF Bit
<1> QED BY <1>3, <1>12 DEF f

LEMMA FibonacciTold ==
    ASSUME WordsFit, Unsigned \/ int_len > 1, magnitude(X) < 100
    PROVE  LET v == magnitude(X)
           IN  ToldNearly(intFib(X), IF Signed(X) < 0 /\ ~(v % 2 = 1) THEN -FibTo(v) ELSE FibTo(v))
<1> DEFINE v == magnitude(X)
           g == Bit(sign(X) = 1 /\ v % 2 = 0)
           P == Fib(v)
           r == intFib(X)
<1>1. /\ v \in Nat /\ v < 100 /\ sign(X) \in {0, 1} /\ (Unsigned => sign(X) = 0)
      /\ Signed(X) = (IF sign(X) = 1 THEN -v ELSE v)
  <2>1. IsWord(X) BY DEF WordsFit, IsWord
  <2> QED BY <2>1, Magnitudes, NumberIs
<1>2. MaxInt \in Nat /\ MaxInt >= 1 BY OneIsANumber
<1> HIDE DEF v
<1>3. P \in Nat /\ FibTo(v) = UpToFar(P) BY <1>1, FibsGrow, FibsToFar
<1>4. CASE v <= 1
  <2>1. P = v
    <3>1. v = 0 \/ v = 1 BY <1>1, <1>4
    <3> QED BY <3>1, FibsGrow
  <2>2. r = Result(build_value(v, 0), KEEP, 0) BY <1>1, <1>4 DEF intFib, v
  <2>3. r.o = 0 /\ r.v = build_value(v, 0) BY <2>2 DEF Result
  <2>4. v <= MaxInt BY <1>1, <1>2, <1>4
  <2>5. r.o = Bit(P > MaxInt) /\ (r.o = 0 => r.v = build_value(P, 0))
    <3> HIDE DEF P, r
    <3> QED BY <1>1, <1>2, <2>1, <2>3, <2>4 DEF Bit
  <2>6. ToldNearly(r, IF 0 = 1 THEN -UpToFar(P) ELSE UpToFar(P))
    <3>1. 0 \in {0, 1} /\ (Unsigned => 0 = 0) OBVIOUS
    <3> HIDE DEF P, r
    <3> QED BY <1>3, <2>5, <3>1, FlaggedNumbersTold
  <2>7. ~(Signed(X) < 0 /\ ~(v % 2 = 1))
    <3>1. v = 0 => ~(Signed(X) < 0) BY <1>1
    <3>2. v = 1 => v % 2 = 1 BY SMT
    <3> QED BY <1>1, <1>4, <3>1, <3>2
  <2> HIDE DEF P, r
  <2> QED BY <1>3, <2>6, <2>7 DEF r, v
<1>5. CASE v > 1
  <2> DEFINE f == Fibonacci(v)
  <2>1. f.o = Bit(P > MaxInt) /\ (f.o = 0 => f.a1 = P) BY <1>1, <1>2, <1>5, FibonacciFound
  <2> HIDE DEF f
  <2>2. r = Result(build_value(f.a1, g), KEEP, f.o) BY <1>1, <1>5 DEF intFib, v, f
  <2>3. r.o = f.o /\ r.v = build_value(f.a1, g) BY <2>2 DEF Result
  <2>4. g \in {0, 1} /\ (Unsigned => g = 0) /\ (g = 1 <=> Signed(X) < 0 /\ ~(v % 2 = 1))
    <3>1. v % 2 = 0 \/ v % 2 = 1 BY <1>1, SMT
    <3>2. Signed(X) < 0 <=> sign(X) = 1 BY <1>1, <1>5
    <3> QED BY <1>1, <3>1, <3>2 DEF Bit
  <2> HIDE DEF P, r, g
  <2>5. ToldNearly(r, IF g = 1 THEN -UpToFar(P) ELSE UpToFar(P))
    BY <1>3, <2>1, <2>3, <2>4, FlaggedNumbersTold
  <2> QED BY <1>3, <2>4, <2>5 DEF r, v
<1> QED BY <1>1, <1>4, <1>5

LEMMA PowersAreTold == WordsFit => PowersTold
<1> SUFFICES ASSUME WordsFit, Unsigned \/ int_len > 1 PROVE PowersTold BY DEF PowersTold
<1>1. sign(X) = 0 /\ X # TwoTo[M] - 1 => RootTold(intSqrt(X), Signed(X)) BY RootIsTold
<1>2. ASSUME Signed(X) > 0, NEW base \in {2, 10}
      PROVE  LET r == intLog(base, X)
                 n == Signed(r.v)
             IN  /\ PowerTo(base, n) <= Signed(X) /\ Signed(X) < PowerTo(base, n + 1)
                 /\ r.c = 1 <=> PowerTo(base, n) # Signed(X)
  <2>1. base \in Nat /\ base >= 2 OBVIOUS
  <2> QED BY <1>2, <2>1, LogarithmTold
<1>3. Signed(X) > 0 => LET v == magnitude(X)
                           p == PowerTo(magnitude(Y), v)
                       IN  ToldNearly(intPower(Y, X), IF sign(Y) = 1 /\ v % 2 = 1 THEN -p ELSE p)
  BY PowerIsTold
<1>4. Signed(X) > 0 => ToldNearly(int2pow(X), PowerTo(2, magnitude(X))) BY PowerOfTwoTold
<1>5. Signed(X) > 0 => ToldNearly(int10pow(X), PowerTo(10, magnitude(X))) BY PowerOfTenTold
<1>6. magnitude(X) < 100 =>
          LET v == magnitude(X)
          IN  ToldNearly(intFib(X), IF Signed(X) < 0 /\ ~(v % 2 = 1) THEN -FibTo(v) ELSE FibTo(v))
  BY FibonacciTold
<1> QED BY <1>1, <1>2, <1>3, <1>4, <1>5, <1>6 DEF PowersTold

(* Bits, roots, logarithms and powers are as promised in every sign mode,     *)
(* word size and for all operands (intMirror, int_justify, intmsks, intSqrt,  *)
(* intLog2, intLog10, intPower, int2pow, int10pow, intFib).                   *)
THEOREM BitsAndPowersAreTold == Spec => []BitsAndPowersTold
<1>1. WordsFit => BitsAndPowersTold BY BitsAreTold, PowersAreTold DEF BitsAndPowersTold
<1> QED BY <1>1, RegistersAreWords, PTL

-----
(* Digits and their values *)

\* The base of the digits.
LEMMA Base ==
    /\ HALF \in Nat \ {0} /\ B \in Nat /\ B >= 2 /\ B = 2 * TwoTo[HALF - 1] /\ TwoTo[HALF - 1] \in Nat
    /\ \A k \in Nat : HALF * k \in Nat
<1>1. HALF \in Nat \ {0} /\ HALF - 1 \in Nat /\ (HALF - 1) + 1 = HALF BY IntegerSizes
<1>2. B = 2 * TwoTo[HALF - 1] /\ TwoTo[HALF - 1] \in Nat \ {0} BY <1>1, PowersOfTwo DEF B
<1>3. ASSUME NEW k \in Nat PROVE HALF * k \in Nat BY <1>1, ProductsGrow
<1> QED BY <1>1, <1>2, <1>3

\* The values of the places.
LEMMA PlacesAre ==
    /\ \A k \in Nat : Place(k) \in Nat /\ Place(k) >= 1 /\ Place(k + 1) = B * Place(k)
    /\ Place(0) = 1 /\ Place(1) = B /\ Place(4) = TwoTo[M]
<1>1. ASSUME NEW k \in Nat PROVE Place(k) \in Nat /\ Place(k) >= 1 /\ Place(k + 1) = B * Place(k)
  <2>1. HALF \in Nat /\ HALF * k \in Nat /\ HALF * (k + 1) = HALF * k + HALF BY Base, SMT
  <2>2. TwoTo[HALF * k + HALF] = TwoTo[HALF * k] * TwoTo[HALF] BY <2>1, PowersAdd
  <2>3. TwoTo[HALF * k] \in Nat \ {0} /\ TwoTo[HALF] \in Nat BY <2>1, PowersOfTwo
  <2>4. \A a \in Nat, b \in Nat : a * b = b * a BY SMT
  <2> QED BY <2>1, <2>2, <2>3, <2>4 DEF Place, B
<1>2. HALF * 0 = 0 /\ HALF * 4 = M /\ HALF * 1 = HALF BY Base, SMT DEF M
<1> QED BY <1>1, <1>2, PowersOfTwo DEF Place, B

\* The values of places multiply as the places add.
LEMMA PlacesAdd == ASSUME NEW a \in Nat, NEW b \in Nat PROVE Place(a + b) = Place(a) * Place(b)
<1>1. HALF * a \in Nat /\ HALF * b \in Nat /\ HALF * (a + b) = HALF * a + HALF * b BY Base, SMT
<1> QED BY <1>1, PowersAdd DEF Place

\* The value of columns, one column at a time.
LEMMA Values ==
    ASSUME NEW col \in Columns
    PROVE  /\ ValueOf(col, 0) = 0
           /\ \A n \in Nat : /\ ValueOf(col, n) \in Int
                             /\ ValueOf(col, n + 1) = ValueOf(col, n) + col[n] * Place(n)
<1> DEFINE S == [i : Nat, v : Int]
           g == [s \in S |-> [i |-> s.i + 1, v |-> s.v + col[s.i] * Place(s.i)]]
           a == [i |-> 0, v |-> 0]
           t(n) == Turned(g, a, n)
<1>1. g \in [S -> S] /\ a \in S
  <2>1. ASSUME NEW s \in S PROVE [i |-> s.i + 1, v |-> s.v + col[s.i] * Place(s.i)] \in S
    <3>1. s.i \in Nat /\ s.v \in Int /\ col[s.i] \in Int /\ Place(s.i) \in Int
      BY PlacesAre DEF Columns
    <3>2. col[s.i] * Place(s.i) \in Int BY <3>1
    <3> QED BY <3>1, <3>2
  <2> QED BY <2>1
<1>2. \A n \in Nat : ValueOf(col, n) = t(n).v BY DEF ValueOf
<1>3. /\ \A n \in Nat : t(n) \in S
      /\ t(0) = a
      /\ \A n \in Nat : t(n + 1) = g[t(n)]
  <2> HIDE DEF g, a, S
  <2> QED BY <1>1, TurnsFollow
<1> HIDE DEF t
<1>4. ASSUME NEW n \in Nat
      PROVE  t(n + 1).i = t(n).i + 1 /\ t(n + 1).v = t(n).v + col[t(n).i] * Place(t(n).i)
  <2>1. t(n) \in S /\ t(n + 1) = g[t(n)] BY <1>3
  <2>2. \A s \in S : g[s] = [i |-> s.i + 1, v |-> s.v + col[s.i] * Place(s.i)] OBVIOUS
  <2>3. t(n + 1) = [i |-> t(n).i + 1, v |-> t(n).v + col[t(n).i] * Place(t(n).i)] BY <2>1, <2>2
  <2> DEFINE x == t(n).i + 1
             y == t(n).v + col[t(n).i] * Place(t(n).i)
  <2>4. t(n + 1) = [i |-> x, v |-> y] BY <2>3
  <2> HIDE DEF x, y
  <2>5. t(n + 1).i = x /\ t(n + 1).v = y BY <2>4
  <2> QED BY <2>5 DEF x, y
<1> DEFINE T == {n \in Nat : t(n).i = n}
<1>5. \A n \in Nat : n \in T
  <2>1. 0 \in T BY <1>3
  <2>2. ASSUME NEW n \in Nat, n \in T PROVE n + 1 \in T
    <3>1. t(n).i = n /\ t(n + 1).i = t(n).i + 1 BY <1>4, <2>2
    <3> QED BY <3>1
  <2> HIDE DEF T
  <2> QED BY <2>1, <2>2, AllNaturals
<1>6. ASSUME NEW n \in Nat PROVE ValueOf(col, n + 1) = ValueOf(col, n) + col[n] * Place(n)
  <2>1. t(n).i = n /\ n + 1 \in Nat BY <1>5
  <2>2. t(n + 1).v = t(n).v + col[n] * Place(n) BY <1>4, <2>1
  <2>3. ValueOf(col, n) = t(n).v /\ ValueOf(col, n + 1) = t(n + 1).v BY <1>2, <2>1
  <2> QED BY <2>2, <2>3
<1>7. ValueOf(col, 0) = 0 BY <1>2, <1>3
<1>8. \A n \in Nat : ValueOf(col, n) \in Int BY <1>2, <1>3
<1> QED BY <1>6, <1>7, <1>8

\* Columns are added and multiplied one by one.
LEMMA ValuesAdd ==
    ASSUME NEW c \in Columns, NEW a \in Columns, NEW b \in Columns, NEW x \in Int, NEW n \in Nat,
           \A i \in Nat : i < n => c[i] = a[i] + x * b[i]
    PROVE  ValueOf(c, n) = ValueOf(a, n) + x * ValueOf(b, n)
<1> DEFINE T == {k \in Nat : k <= n => ValueOf(c, k) = ValueOf(a, k) + x * ValueOf(b, k)}
<1>1. 0 \in T
  <2>1. ValueOf(c, 0) = 0 /\ ValueOf(a, 0) = 0 /\ ValueOf(b, 0) = 0 BY Values
  <2> QED BY <2>1
<1>2. ASSUME NEW k \in Nat, k \in T PROVE k + 1 \in T
  <2> SUFFICES ASSUME k + 1 <= n
               PROVE  ValueOf(c, k + 1) = ValueOf(a, k + 1) + x * ValueOf(b, k + 1) OBVIOUS
  <2>1. ValueOf(c, k) = ValueOf(a, k) + x * ValueOf(b, k) /\ c[k] = a[k] + x * b[k] BY <1>2
  <2> DEFINE vc == ValueOf(c, k)
             va == ValueOf(a, k)
             vb == ValueOf(b, k)
             ck == c[k]
             ak == a[k]
             bk == b[k]
             p == Place(k)
  <2>2. vc \in Int /\ va \in Int /\ vb \in Int /\ ck \in Int /\ ak \in Int /\ bk \in Int /\ p \in Nat
    BY Values, PlacesAre DEF Columns
  <2>3. /\ ValueOf(c, k + 1) = vc + ck * p
        /\ ValueOf(a, k + 1) = va + ak * p
        /\ ValueOf(b, k + 1) = vb + bk * p BY Values
  <2>4. vc = va + x * vb /\ ck = ak + x * bk BY <2>1
  <2> HIDE DEF vc, va, vb, ck, ak, bk, p
  <2>5. ck * p = ak * p + x * (bk * p) BY <2>2, <2>4, SMT
  <2>6. x * (vb + bk * p) = x * vb + x * (bk * p)
    <3> DEFINE bp == bk * p
    <3>1. bp \in Int BY <2>2
    <3> HIDE DEF bp
    <3>2. x * (vb + bp) = x * vb + x * bp BY <2>2, <3>1, SMT
    <3> QED BY <3>2 DEF bp
  <2>7. x * vb \in Int /\ x * (bk * p) \in Int /\ ak * p \in Int BY <2>2
  <2> QED BY <2>2, <2>3, <2>4, <2>5, <2>6, <2>7
<1>3. \A k \in Nat : k \in T
  <2> HIDE DEF T
  <2> QED BY <1>1, <1>2, AllNaturals
<1>4. n \in T /\ n <= n BY <1>3
<1> QED BY <1>4

\* Columns that agree have the same value.
LEMMA ValuesAgree ==
    ASSUME NEW c \in Columns, NEW a \in Columns, NEW n \in Nat, \A i \in Nat : i < n => c[i] = a[i]
    PROVE  ValueOf(c, n) = ValueOf(a, n)
<1> DEFINE z == 0
<1>1. z \in Int /\ \A v \in Int : v = v + z * v BY SMT
<1> HIDE DEF z
<1>2. \A i \in Nat : i < n => c[i] = a[i] + z * a[i]
  <2>1. \A i \in Nat : a[i] \in Int BY DEF Columns
  <2> QED BY <1>1, <2>1
<1>3. ValueOf(c, n) = ValueOf(a, n) + z * ValueOf(a, n) /\ ValueOf(a, n) \in Int
  BY <1>1, <1>2, ValuesAdd, Values
<1> QED BY <1>1, <1>3

\* The columns behind the first a count as many places less.
LEMMA ValuesSplit ==
    ASSUME NEW c \in Columns, NEW b \in Columns, NEW a \in Nat, NEW n \in Nat,
           \A i \in Nat : i < n => b[i] = c[a + i]
    PROVE  ValueOf(c, a + n) = ValueOf(c, a) + Place(a) * ValueOf(b, n)
<1> DEFINE T == {k \in Nat : k <= n => ValueOf(c, a + k) = ValueOf(c, a) + Place(a) * ValueOf(b, k)}
<1>1. 0 \in T
  <2>1. ValueOf(b, 0) = 0 /\ a + 0 = a /\ Place(a) * 0 = 0 /\ ValueOf(c, a) \in Int
    BY Values, PlacesAre
  <2> QED BY <2>1
<1>2. ASSUME NEW k \in Nat, k \in T PROVE k + 1 \in T
  <2> SUFFICES ASSUME k + 1 <= n
               PROVE  ValueOf(c, a + (k + 1)) = ValueOf(c, a) + Place(a) * ValueOf(b, k + 1) OBVIOUS
  <2> DEFINE va == ValueOf(c, a)
             vk == ValueOf(c, a + k)
             vb == ValueOf(b, k)
             bk == b[k]
             pa == Place(a)
             pk == Place(k)
  <2>1. a + k \in Nat /\ a + (k + 1) = (a + k) + 1 OBVIOUS
  <2>2. va \in Int /\ vk \in Int /\ vb \in Int /\ bk \in Int /\ pa \in Nat /\ pk \in Nat
    BY <2>1, Values, PlacesAre DEF Columns
  <2>3. vk = va + pa * vb /\ bk = c[a + k] BY <1>2
  <2>4. ValueOf(b, k + 1) = vb + bk * pk /\ ValueOf(c, a + (k + 1)) = vk + bk * (pa * pk)
    BY <2>1, <2>3, Values, PlacesAdd
  <2> HIDE DEF va, vk, vb, bk, pa, pk
  <2>5. pa * (vb + bk * pk) = pa * vb + bk * (pa * pk)
    <3>1. pa * (bk * pk) = bk * (pa * pk) BY <2>2, SMT
    <3> DEFINE x == bk * pk
    <3>2. x \in Int BY <2>2
    <3> HIDE DEF x
    <3>3. pa * (vb + x) = pa * vb + pa * x BY <2>2, <3>2, SMT
    <3> QED BY <3>1, <3>3 DEF x
  <2> DEFINE x == pa * vb
             y == bk * (pa * pk)
  <2>6. x \in Int /\ y \in Int BY <2>2
  <2>7. vk = va + x /\ ValueOf(c, a + (k + 1)) = vk + y /\ pa * (vb + bk * pk) = x + y
    BY <2>3, <2>4, <2>5
  <2> HIDE DEF x, y
  <2>8. ValueOf(c, a + (k + 1)) = va + pa * (vb + bk * pk) BY <2>2, <2>6, <2>7
  <2> QED BY <2>4, <2>8 DEF va, pa
<1>3. \A k \in Nat : k \in T
  <2> HIDE DEF T
  <2> QED BY <1>1, <1>2, AllNaturals
<1>4. n \in T /\ n <= n BY <1>3
<1> QED BY <1>4

\* Digits are columns, and nothing above the highest.
LEMMA DigitsFrom ==
    ASSUME NEW d \in Halves, NEW a \in Nat
    PROVE  /\ From(d, a) \in Columns
           /\ \A i \in Nat : /\ From(d, a)[i] = (IF a + i <= 8 THEN d[a + i] ELSE 0)
                             /\ From(d, a)[i] \in 0 .. B - 1
<1>1. ASSUME NEW i \in Nat
      PROVE  /\ From(d, a)[i] = (IF a + i <= 8 THEN d[a + i] ELSE 0)
             /\ From(d, a)[i] \in 0 .. B - 1 /\ From(d, a)[i] \in Int
  <2>1. a + i \in Places <=> a + i <= 8 BY DEF Places
  <2>2. From(d, a)[i] = (IF a + i <= 8 THEN d[a + i] ELSE 0) BY <2>1 DEF From
  <2>3. a + i <= 8 => d[a + i] \in 0 .. B - 1 BY <2>1 DEF Halves
  <2>4. 0 \in 0 .. B - 1 /\ \A x \in 0 .. B - 1 : x \in Int BY Base
  <2> QED BY <2>2, <2>3, <2>4
<1>2. From(d, a) = [i \in Nat |-> From(d, a)[i]] BY DEF From
<1>3. From(d, a) \in Columns BY <1>1, <1>2 DEF Columns
<1> QED BY <1>1, <1>3

\* Digits have less than the value of the next place, and each one its own.
LEMMA DigitsBound ==
    ASSUME NEW c \in Columns, NEW n \in Nat, \A i \in Nat : i < n => c[i] \in 0 .. B - 1
    PROVE  /\ ValueOf(c, n) \in Nat /\ ValueOf(c, n) < Place(n)
           /\ \A p \in Nat : p < n => c[p] * Place(p) <= ValueOf(c, n)
<1> DEFINE Bounded(k) == /\ ValueOf(c, k) \in Nat /\ ValueOf(c, k) < Place(k)
                         /\ \A p \in Nat : p < k => c[p] * Place(p) <= ValueOf(c, k)
           T == {k \in Nat : k <= n => Bounded(k)}
<1>1. 0 \in T
  <2>1. ValueOf(c, 0) = 0 /\ Place(0) = 1 BY Values, PlacesAre
  <2>2. Bounded(0) BY <2>1
  <2> HIDE DEF Bounded
  <2> QED BY <2>2
<1>2. ASSUME NEW k \in Nat, k \in T PROVE k + 1 \in T
  <2> SUFFICES ASSUME k + 1 <= n PROVE Bounded(k + 1)
    <3> HIDE DEF Bounded
    <3> QED OBVIOUS
  <2> DEFINE v == ValueOf(c, k)
             w == ValueOf(c, k + 1)
             d == c[k]
             p == Place(k)
  <2>1. Bounded(k) /\ k < n BY <1>2
  <2>2. /\ v \in Nat /\ v < p /\ d \in 0 .. B - 1 /\ p \in Nat /\ B \in Nat
        /\ \A q \in Nat : q < k => c[q] * Place(q) <= v BY <2>1, PlacesAre, Base
  <2>3. w = v + d * p /\ Place(k + 1) = B * p BY Values, PlacesAre
  <2> HIDE DEF v, w, d, p, Bounded
  <2>4. d * p \in Nat /\ d * p <= (B - 1) * p /\ (B - 1) * p = B * p - p /\ B * p \in Nat
    BY <2>2, SMT
  <2>5. w \in Nat /\ w < B * p BY <2>2, <2>3, <2>4
  <2>6. ASSUME NEW q \in Nat, q < k + 1 PROVE c[q] * Place(q) <= w
    <3>1. CASE q = k BY <2>2, <2>3, <2>4, <3>1 DEF d, p
    <3>2. CASE q < k
      <4> DEFINE x == c[q] * Place(q)
      <4>1. x <= v /\ x \in Int
        <5>1. c[q] \in Int /\ Place(q) \in Int BY PlacesAre DEF Columns
        <5> QED BY <2>2, <3>2, <5>1
      <4> HIDE DEF x
      <4>2. x <= w BY <2>2, <2>3, <2>4, <4>1
      <4> QED BY <4>2 DEF x
    <3> QED BY <2>6, <3>1, <3>2
  <2> QED BY <2>3, <2>5, <2>6 DEF Bounded, w
<1>3. \A k \in Nat : k \in T
  <2> HIDE DEF T
  <2> QED BY <1>1, <1>2, AllNaturals
<1>4. n \in T /\ n <= n BY <1>3
<1>5. Bounded(n)
  <2> HIDE DEF Bounded
  <2> QED BY <1>4
<1> QED BY <1>5

\* What the carries leave: digits of the columns' value, and the last carry.
LEMMA CarriedIs ==
    ASSUME NEW d \in Halves, NEW a \in Nat, NEW n \in Nat, a + n <= 9,
           NEW column, NEW c \in Columns, \A i \in Nat : i < n => column[i] = c[i]
    PROVE  LET r == Carried(d, a, n, column)
           IN  /\ r.d \in Halves /\ r.c \in Int
               /\ \A p \in Places : p < a \/ p >= a + n => r.d[p] = d[p]
               /\ ValueOf(From(r.d, a), n) + r.c * Place(n) = ValueOf(c, n)
<1> DEFINE S == [i : Nat, c : Int, d : Halves]
           g == [s \in S |->
                    IF s.i < n
                    THEN LET t == column[s.i] + s.c
                         IN  [i |-> s.i + 1, c |-> t \div B, d |-> [s.d EXCEPT ![a + s.i] = t % B]]
                    ELSE s]
           z == [i |-> 0, c |-> 0, d |-> d]
           Sound(s, k) == /\ s.i = k
                          /\ \A p \in Places : p < a \/ p >= a + k => s.d[p] = d[p]
                          /\ ValueOf(From(s.d, a), k) + s.c * Place(k) = ValueOf(c, k)
           I == [k \in Nat |-> {s \in S : k <= n => Sound(s, k)}]
<1>1. ASSUME NEW s \in S, s.i < n
      PROVE  LET t == column[s.i] + s.c
             IN  /\ t = c[s.i] + s.c /\ t \in Int
                 /\ a + s.i \in Places
                 /\ t \div B \in Int /\ t % B \in 0 .. B - 1 /\ t = B * (t \div B) + (t % B)
                 /\ [s.d EXCEPT ![a + s.i] = t % B] \in Halves
                 /\ g[s] = [i |-> s.i + 1, c |-> t \div B, d |-> [s.d EXCEPT ![a + s.i] = t % B]]
                 /\ g[s] \in S
  <2> DEFINE t == column[s.i] + s.c
             e == [s.d EXCEPT ![a + s.i] = t % B]
  <2>1. s.i \in Nat /\ s.c \in Int /\ s.d \in Halves OBVIOUS
  <2>2. t = c[s.i] + s.c /\ t \in Int BY <1>1, <2>1 DEF Columns
  <2>3. a + s.i \in Places BY <1>1, <2>1 DEF Places
  <2>4. t \div B \in Int /\ t % B \in 0 .. B - 1 /\ t = B * (t \div B) + (t % B)
    <3>1. B \in Nat \ {0} BY Base
    <3> HIDE DEF t
    <3> QED BY <2>2, <3>1
  <2>5. g[s] = [i |-> s.i + 1, c |-> t \div B, d |-> e] BY <1>1
  <2> HIDE DEF t, g
  <2>6. e \in Halves BY <2>1, <2>4 DEF Halves
  <2> HIDE DEF e
  <2>7. g[s] \in S BY <2>1, <2>4, <2>5, <2>6
  <2> QED BY <2>2, <2>3, <2>4, <2>5, <2>6, <2>7 DEF t, e
<1>2. g \in [S -> S]
  <2>1. ASSUME NEW s \in S PROVE g[s] \in S
    <3>1. ~(s.i < n) => g[s] = s OBVIOUS
    <3> HIDE DEF g, S
    <3> QED BY <1>1, <3>1
  <2>2. g = [s \in S |-> g[s]] OBVIOUS
  <2> HIDE DEF g, S
  <2> QED BY <2>1, <2>2
<1>3. z \in S /\ z \in I[0]
  <2>1. z \in S /\ z.i = 0 /\ z.d = d /\ z.c = 0 OBVIOUS
  <2>2. ValueOf(From(d, a), 0) = 0 /\ ValueOf(c, 0) = 0 /\ Place(0) = 1
    BY DigitsFrom, Values, PlacesAre
  <2> HIDE DEF z
  <2>3. Sound(z, 0) BY <2>1, <2>2
  <2> HIDE DEF Sound
  <2> QED BY <2>1, <2>3
<1>4. ASSUME NEW k \in Nat, NEW s \in S, s \in I[k] PROVE g[s] \in I[k + 1]
  <2>1. k + 1 \in Nat /\ g[s] \in S
    <3> HIDE DEF g, S
    <3> QED BY <1>2
  <2> SUFFICES ASSUME k + 1 <= n PROVE Sound(g[s], k + 1)
    <3> HIDE DEF Sound, g
    <3> QED BY <2>1
  <2>2. Sound(s, k) /\ k <= n /\ k < n
    <3> HIDE DEF Sound
    <3> QED BY <1>4
  <2> DEFINE t == column[s.i] + s.c
             e == [s.d EXCEPT ![a + s.i] = t % B]
  <2>3. s.i = k /\ s.i < n BY <2>2
  <2>4. /\ t = c[s.i] + s.c /\ t \in Int
        /\ a + s.i \in Places
        /\ t \div B \in Int /\ t % B \in 0 .. B - 1 /\ t = B * (t \div B) + (t % B)
        /\ e \in Halves
        /\ g[s] = [i |-> s.i + 1, c |-> t \div B, d |-> e]
    <3> HIDE DEF g, S
    <3> QED BY <1>1, <2>3
  <2>5. /\ a + k \in Places /\ s.d \in Halves /\ s.c \in Int
        /\ e[a + k] = t % B /\ \A p \in Places : p # a + k => e[p] = s.d[p] BY <2>3, <2>4 DEF Halves
  <2>6. g[s].i = k + 1 /\ g[s].c = t \div B /\ g[s].d = e BY <2>3, <2>4
  <2>7. \A p \in Places : p < a \/ p >= a + k => s.d[p] = d[p] BY <2>2
  <2>8. \A p \in Places : p < a \/ p >= a + (k + 1) => e[p] = d[p]
    <3>1. ASSUME NEW p \in Places, p < a \/ p >= a + (k + 1) PROVE e[p] = d[p]
      <4>1. p \in Nat /\ p # a + k /\ (p < a \/ p >= a + k) BY <3>1 DEF Places
      <4> HIDE DEF e
      <4> QED BY <2>5, <2>7, <4>1
    <3> QED BY <3>1
  <2>9. ValueOf(From(e, a), k) = ValueOf(From(s.d, a), k)
    <3>1. From(e, a) \in Columns /\ From(s.d, a) \in Columns BY <2>4, <2>5, DigitsFrom
    <3>2. ASSUME NEW i \in Nat, i < k PROVE From(e, a)[i] = From(s.d, a)[i]
      <4>1. /\ From(e, a)[i] = (IF a + i <= 8 THEN e[a + i] ELSE 0)
            /\ From(s.d, a)[i] = (IF a + i <= 8 THEN s.d[a + i] ELSE 0)
        <5> HIDE DEF e
        <5> QED BY <2>4, <2>5, DigitsFrom
      <4>2. a + i # a + k /\ (a + i <= 8 => a + i \in Places) BY <3>2 DEF Places
      <4> HIDE DEF e
      <4> QED BY <2>5, <4>1, <4>2
    <3> HIDE DEF e
    <3> QED BY <3>1, <3>2, ValuesAgree
  <2>10. From(e, a)[k] = t % B
    <3>1. a + k <= 8 BY <2>5 DEF Places
    <3> HIDE DEF e
    <3> QED BY <2>4, <2>5, <3>1, DigitsFrom
  <2> DEFINE v == ValueOf(From(e, a), k)
             w == ValueOf(c, k)
             p == Place(k)
             q == t \div B
             r == t % B
             x == s.c
             y == c[k]
  <2>11. /\ v \in Int /\ w \in Int /\ p \in Nat /\ q \in Int /\ r \in Int /\ x \in Int /\ y \in Int
         /\ B \in Nat /\ y + x = B * q + r /\ v + x * p = w
    <3>1. From(e, a) \in Columns
      <4> HIDE DEF e
      <4> QED BY <2>4, DigitsFrom
    <3>2. v \in Int /\ w \in Int /\ p \in Nat
      <4> HIDE DEF e
      <4> QED BY <3>1, Values, PlacesAre
    <3>3. q \in Int /\ r \in Int /\ y + x = B * q + r /\ B \in Nat /\ x \in Int
      <4> HIDE DEF e
      <4> QED BY <2>3, <2>4, <2>5, Base
    <3>4. v + x * p = w
      <4> HIDE DEF e
      <4> QED BY <2>2, <2>9
    <3>5. y \in Int BY DEF Columns
    <3> QED BY <3>2, <3>3, <3>4, <3>5
  <2>12. /\ ValueOf(From(e, a), k + 1) = v + r * p
         /\ ValueOf(c, k + 1) = w + y * p
         /\ Place(k + 1) = B * p
    <3>1. From(e, a) \in Columns
      <4> HIDE DEF e
      <4> QED BY <2>4, DigitsFrom
    <3> HIDE DEF e
    <3> QED BY <2>10, <3>1, Values, PlacesAre
  <2> HIDE DEF v, w, p, q, r, x, y
  <2>13. r * p + q * (B * p) = y * p + x * p
    <3>1. (B * q + r) * p = q * (B * p) + r * p BY <2>11, SMT
    <3>2. (y + x) * p = y * p + x * p BY <2>11, SMT
    <3>3. q * (B * p) \in Int /\ r * p \in Int BY <2>11
    <3> QED BY <2>11, <3>1, <3>2, <3>3
  <2>14. v + r * p + q * (B * p) = w + y * p
    <3>1. r * p \in Int /\ q * (B * p) \in Int /\ y * p \in Int /\ x * p \in Int BY <2>11
    <3> QED BY <2>11, <2>13, <3>1
  <2>15. ValueOf(From(g[s].d, a), k + 1) + g[s].c * Place(k + 1) = ValueOf(c, k + 1)
    BY <2>6, <2>12, <2>14 DEF q
  <2>16. \A j \in Places : j < a \/ j >= a + (k + 1) => g[s].d[j] = d[j] BY <2>6, <2>8
  <2> QED BY <2>6, <2>15, <2>16
<1> DEFINE r == Turned(g, z, n)
<1>5. r \in I[n] /\ r \in S
  <2> HIDE DEF g, z, I, S
  <2> QED BY <1>2, <1>3, <1>4, LoopKeeps
<1>6. Carried(d, a, n, column) = r BY DEF Carried
<1> HIDE DEF r
<1>7. Sound(r, n)
  <2> HIDE DEF Sound
  <2> QED BY <1>5
<1> QED BY <1>5, <1>6, <1>7

\* Empty columns at the top do not count.
LEMMA ValuesEnd ==
    ASSUME NEW c \in Columns, NEW n \in Nat, NEW m \in Nat, n <= m,
           \A i \in Nat : n <= i /\ i < m => c[i] = 0
    PROVE  ValueOf(c, m) = ValueOf(c, n)
<1> DEFINE T == {k \in Nat : n <= k /\ k <= m => ValueOf(c, k) = ValueOf(c, n)}
<1>1. 0 \in T
  <2>1. n <= 0 => n = 0 OBVIOUS
  <2> QED BY <2>1
<1>2. ASSUME NEW k \in Nat, k \in T PROVE k + 1 \in T
  <2> SUFFICES ASSUME n <= k + 1, k + 1 <= m PROVE ValueOf(c, k + 1) = ValueOf(c, n) OBVIOUS
  <2>1. CASE n = k + 1 BY <2>1
  <2>2. CASE n <= k
    <3>1. ValueOf(c, k) = ValueOf(c, n) /\ c[k] = 0 BY <1>2, <2>2
    <3>2. ValueOf(c, k + 1) = ValueOf(c, k) + c[k] * Place(k) BY Values
    <3>3. ValueOf(c, k) \in Int /\ Place(k) \in Int /\ \A x \in Int, y \in Int : x + 0 * y = x
      BY Values, PlacesAre
    <3> QED BY <3>1, <3>2, <3>3
  <2> QED BY <2>1, <2>2
<1>3. \A k \in Nat : k \in T
  <2> HIDE DEF T
  <2> QED BY <1>1, <1>2, AllNaturals
<1>4. m \in T /\ m <= m BY <1>3
<1> QED BY <1>4

\* Only digits below n in a number less than the value of place n.
LEMMA NoDigitsAbove ==
    ASSUME NEW d \in Halves, NEW n \in 0 .. 9, ValueOf(From(d, 0), 9) < Place(n)
    PROVE  /\ \A p \in Places : p >= n => d[p] = 0
           /\ ValueOf(From(d, 0), n) = ValueOf(From(d, 0), 9)
<1> DEFINE c == From(d, 0)
<1>1. c \in Columns /\ \A i \in Nat : c[i] \in 0 .. B - 1 /\ c[i] = (IF 0 + i <= 8 THEN d[0 + i] ELSE 0)
  BY DigitsFrom
<1>2. \A p \in Places : p \in Nat /\ p < 9 /\ p <= 8 /\ 0 + p = p BY DEF Places
<1> HIDE DEF c
<1>3. \A p \in Nat : p < 9 => c[p] * Place(p) <= ValueOf(c, 9) BY <1>1, DigitsBound
<1>4. ASSUME NEW p \in Nat, p >= n, p < 9 PROVE c[p] = 0
  <2> DEFINE x == c[p]
             v == ValueOf(c, 9)
             y == Place(p)
             z == Place(n)
  <2>1. x * y <= v /\ v < z BY <1>3, <1>4 DEF c
  <2>2. p - n \in Nat /\ n \in Nat /\ n + (p - n) = p BY <1>4
  <2>3. y = z * Place(p - n) /\ Place(p - n) \in Nat /\ Place(p - n) >= 1 /\ z \in Nat /\ y \in Nat
    <3>1. Place(n + (p - n)) = Place(n) * Place(p - n) BY <2>2, PlacesAdd
    <3>2. Place(n + (p - n)) = y BY <2>2
    <3>3. z \in Nat /\ y \in Nat /\ Place(p - n) \in Nat /\ Place(p - n) >= 1 BY <2>2, PlacesAre
    <3> QED BY <3>1, <3>2, <3>3
  <2>4. z <= y
    <3> DEFINE w == Place(p - n)
    <3>1. w \in Nat /\ w >= 1 /\ y = z * w /\ z \in Nat BY <2>3
    <3> HIDE DEF w, y, z
    <3>2. z <= z * w BY <3>1, ProductsGrow
    <3> QED BY <3>1, <3>2
  <2>5. x \in 0 .. B - 1 /\ v \in Int BY <1>1, Values
  <2> HIDE DEF x, y, z, v
  <2>6. x >= 1 => x * y >= y BY <2>3, <2>5, SMT
  <2>7. x * y \in Int BY <2>3, <2>5
  <2>8. x = 0 BY <2>1, <2>3, <2>4, <2>5, <2>6, <2>7
  <2> QED BY <2>8 DEF x
<1>5. \A p \in Places : p >= n => d[p] = 0 BY <1>1, <1>2, <1>4
<1>6. ValueOf(c, 9) = ValueOf(c, n) BY <1>1, <1>4, ValuesEnd
<1> QED BY <1>5, <1>6 DEF c

\* The digits of a number.
LEMMA DigitsOf ==
    ASSUME NEW x \in Nat, NEW c \in Columns, NEW n \in Nat,
           \A i \in Nat : i < n => c[i] = (x \div Place(i)) % B
    PROVE  ValueOf(c, n) = x % Place(n)
<1> DEFINE T == {k \in Nat : k <= n => ValueOf(c, k) = x % Place(k)}
<1>1. 0 \in T
  <2>1. ValueOf(c, 0) = 0 /\ Place(0) = 1 /\ x % 1 = 0 BY Values, PlacesAre
  <2> QED BY <2>1
<1>2. ASSUME NEW k \in Nat, k \in T PROVE k + 1 \in T
  <2> SUFFICES ASSUME k + 1 <= n PROVE ValueOf(c, k + 1) = x % Place(k + 1) OBVIOUS
  <2> DEFINE p == Place(k)
             q == x \div p
             r == x % p
             e == q \div B
             f == q % B
  <2>1. ValueOf(c, k) = r /\ c[k] = f /\ ValueOf(c, k + 1) = ValueOf(c, k) + c[k] * p
    BY <1>2, Values
  <2>2. p \in Nat \ {0} /\ Place(k + 1) = B * p /\ B \in Nat \ {0} BY PlacesAre, Base
  <2> HIDE DEF p
  <2>3. q \in Nat /\ r \in 0 .. p - 1 /\ x = p * q + r BY <2>2, Divided
  <2> HIDE DEF q, r
  <2>4. e \in Nat /\ f \in 0 .. B - 1 /\ q = B * e + f BY <2>2, <2>3, Divided
  <2> HIDE DEF e, f
  <2> DEFINE m == B * p
             y == r + f * p
  <2>5. m \in Nat \ {0} /\ y \in 0 .. m - 1 /\ x = m * e + y
    <3>1. f * p \in Nat /\ f * p <= (B - 1) * p /\ (B - 1) * p = B * p - p /\ B * p \in Nat /\ B * p > 0
      BY <2>2, <2>4, SMT
    <3>2. p * (B * e + f) = (B * p) * e + f * p BY <2>2, <2>4, SMT
    <3>3. (B * p) * e \in Int BY <2>2, <2>4
    <3>4. p * q = (B * p) * e + f * p BY <2>4, <3>2
    <3> DEFINE fp == f * p
               bp == B * p
               z == (B * p) * e
    <3>5. fp \in Nat /\ fp <= bp - p /\ bp \in Nat /\ bp > 0 /\ z \in Int /\ x = (z + fp) + r
      BY <2>3, <3>1, <3>3, <3>4
    <3>6. y = r + fp /\ m = bp /\ m * e = z BY Zenon
    <3> HIDE DEF fp, bp, z, y, m
    <3> QED BY <2>2, <2>3, <3>5, <3>6
  <2> HIDE DEF m
  <2>6. x % m = y
    <3> HIDE DEF y
    <3>1. (m * e + y) % m = y
      <4>1. m \in Nat \ {0} /\ e \in Int /\ y \in 0 .. m - 1 BY <2>4, <2>5
      <4> QED BY <4>1, QuotientIs
    <3> QED BY <2>5, <3>1
  <2> QED BY <2>1, <2>2, <2>6 DEF m, r, f
<1>3. \A k \in Nat : k \in T
  <2> HIDE DEF T
  <2> QED BY <1>1, <1>2, AllNaturals
<1>4. n \in T /\ n <= n BY <1>3
<1> QED BY <1>4

\* The half-words of two machine words have the double word's value.
LEMMA HalfwordsAre ==
    ASSUME NEW lo \in Nat, NEW hi \in Nat, lo < TwoTo[M], hi < TwoTo[M]
    PROVE  /\ Halfwords(lo, hi) \in Halves /\ Halfwords(lo, hi)[8] = 0
           /\ ValueOf(From(Halfwords(lo, hi), 0), 9) = lo + TwoTo[M] * hi
           /\ hi = 0 => \A p \in Places : p >= 4 => Halfwords(lo, hi)[p] = 0
<1> DEFINE h == Halfwords(lo, hi)
           c == From(h, 0)
           b == From(h, 4)
<1>1. \A k \in Nat : Place(k) \in Nat \ {0} BY PlacesAre
<1>2. ASSUME NEW x \in Nat, NEW k \in 0 .. 3
      PROVE  breakup(x)[k] = (x \div Place(k)) % B /\ breakup(x)[k] \in 0 .. B - 1 /\ breakup(x)[k] \in Int
  <2>1. breakup(x)[k] = (x \div Place(k)) % B BY DEF breakup, Place
  <2>2. Place(k) \in Nat \ {0} /\ B \in Nat \ {0} BY <1>1, Base
  <2>3. x \div Place(k) \in Nat BY <2>2, Divided
  <2>4. (x \div Place(k)) % B \in 0 .. B - 1 BY <2>2, <2>3, Divided
  <2> QED BY <2>1, <2>4
<1>3. /\ \A k \in 0 .. 3 : h[k] = breakup(lo)[k] /\ h[4 + k] = breakup(hi)[k]
      /\ h[8] = 0 /\ DOMAIN h = Places /\ h = [k \in Places |-> h[k]]
  <2>1. \A k \in Places : h[k] = IF k < 4 THEN breakup(lo)[k] ELSE IF k < 8 THEN breakup(hi)[k - 4] ELSE 0
    BY DEF Halfwords
  <2>2. 8 \in Places /\ \A k \in 0 .. 3 : k \in Places /\ k < 4 /\ 4 + k \in Places /\ ~(4 + k < 4) /\ 4 + k < 8
                        /\ (4 + k) - 4 = k BY DEF Places
  <2>3. DOMAIN h = Places /\ h = [k \in Places |-> h[k]] BY DEF Halfwords
  <2>4. h[8] = 0 BY <2>1, <2>2
  <2> HIDE DEF h
  <2> QED BY <2>1, <2>2, <2>3, <2>4
<1> HIDE DEF h
<1>4. h \in Halves
  <2>1. ASSUME NEW p \in Places PROVE h[p] \in 0 .. B - 1
    <3>1. p \in 0 .. 3 \/ p = 8 \/ (p - 4 \in 0 .. 3 /\ 4 + (p - 4) = p) BY DEF Places
    <3>2. 0 \in 0 .. B - 1 BY Base
    <3> QED BY <1>2, <1>3, <3>1, <3>2
  <2> QED BY <1>3, <2>1 DEF Halves
<1>5. /\ c \in Columns /\ b \in Columns
      /\ \A i \in Nat : c[i] = (IF 0 + i <= 8 THEN h[0 + i] ELSE 0)
                        /\ b[i] = (IF 4 + i <= 8 THEN h[4 + i] ELSE 0) BY <1>4, DigitsFrom
<1> HIDE DEF c, b
<1>6. \A i \in Nat : i < 4 => /\ i \in 0 .. 3 /\ 0 + i = i /\ i <= 8 /\ 4 + i <= 8 OBVIOUS
<1>7. ValueOf(c, 4) = lo % Place(4)
  <2>1. \A i \in Nat : i < 4 => c[i] = (lo \div Place(i)) % B BY <1>2, <1>3, <1>5, <1>6
  <2> QED BY <1>5, <2>1, DigitsOf
<1>8. ValueOf(b, 4) = hi % Place(4)
  <2>1. ASSUME NEW i \in Nat, i < 4 PROVE b[i] = (hi \div Place(i)) % B
    <3>1. i \in 0 .. 3 /\ b[i] = h[4 + i] BY <1>5, <1>6, <2>1
    <3>2. h[4 + i] = breakup(hi)[i] /\ breakup(hi)[i] = (hi \div Place(i)) % B BY <1>2, <1>3, <3>1
    <3> QED BY <3>1, <3>2
  <2> QED BY <1>5, <2>1, DigitsOf
<1>9. lo % Place(4) = lo /\ hi % Place(4) = hi /\ Place(4) = TwoTo[M]
  <2>1. Place(4) = TwoTo[M] /\ Place(4) \in Nat \ {0} BY <1>1, PlacesAre
  <2> DEFINE m == Place(4)
  <2>2. m \in Nat \ {0} /\ lo < m /\ hi < m /\ lo >= 0 /\ hi >= 0 /\ lo \in Int /\ hi \in Int
    BY <2>1
  <2> HIDE DEF m
  <2>3. lo % m = lo /\ hi % m = hi BY <2>2, Remainders
  <2> QED BY <2>1, <2>3 DEF m
<1>10. ValueOf(c, 8) = ValueOf(c, 4) + Place(4) * ValueOf(b, 4)
  <2>1. \A i \in Nat : i < 4 => b[i] = c[4 + i]
    <3>1. \A i \in Nat : 0 + (4 + i) = 4 + i /\ 4 + i \in Nat OBVIOUS
    <3> QED BY <1>5, <1>6, <3>1
  <2>2. 4 + 4 = 8 OBVIOUS
  <2> DEFINE four == 4
  <2>3. four \in Nat /\ \A i \in Nat : i < four => b[i] = c[four + i] BY <2>1
  <2> HIDE DEF four
  <2>4. ValueOf(c, four + four) = ValueOf(c, four) + Place(four) * ValueOf(b, four)
    BY <1>5, <2>3, ValuesSplit
  <2> QED BY <2>2, <2>4 DEF four
<1>11. ValueOf(c, 9) = ValueOf(c, 8)
  <2>1. \A i \in Nat : 8 <= i /\ i < 9 => c[i] = 0
    <3>1. \A i \in Nat : 8 <= i /\ i < 9 => i = 8 /\ 0 + i = 8 /\ 8 <= 8 OBVIOUS
    <3> QED BY <1>3, <1>5, <3>1
  <2> DEFINE eight == 8
             nine == 9
  <2>2. eight \in Nat /\ nine \in Nat /\ eight <= nine /\ \A i \in Nat : eight <= i /\ i < nine => c[i] = 0
    BY <2>1
  <2> HIDE DEF eight, nine
  <2>3. ValueOf(c, nine) = ValueOf(c, eight) BY <1>5, <2>2, ValuesEnd
  <2> QED BY <2>3 DEF eight, nine
<1>12. ValueOf(c, 9) = lo + TwoTo[M] * hi BY <1>7, <1>8, <1>9, <1>10, <1>11
<1>13. ASSUME hi = 0, NEW p \in Places, p >= 4 PROVE h[p] = 0
  <2>1. p = 8 \/ (p - 4 \in 0 .. 3 /\ 4 + (p - 4) = p) BY <1>13 DEF Places
  <2>2. ASSUME NEW k \in 0 .. 3 PROVE breakup(hi)[k] = 0
    <3>1. Place(k) \in Nat \ {0} /\ B \in Nat \ {0} BY <1>1, Base
    <3>2. 0 \div Place(k) = 0 /\ 0 % B = 0 BY <3>1
    <3> QED BY <1>2, <1>13, <3>2
  <2> QED BY <1>3, <2>1, <2>2
<1> QED BY <1>3, <1>4, <1>12, <1>13 DEF c, h

-----
(* Long division *)

\* The significant digits: the highest of them is not 0.
LEMMA SignificantIs ==
    ASSUME NEW d \in Halves, d[8] = 0, NEW n \in 1 .. 8
    PROVE  LET m == Significant(d, n)
           IN  /\ m \in n .. 8 /\ (m = n \/ d[m - 1] # 0)
               /\ \A k \in m .. 8 : d[k] = 0
<1> DEFINE U == {m \in n .. 8 : \A k \in m .. 8 : d[k] = 0}
<1>1. U \subseteq Nat /\ 8 \in U
  <2>1. 8 \in n .. 8 /\ \A k \in 8 .. 8 : k = 8 OBVIOUS
  <2>2. \A m \in n .. 8 : m \in Nat OBVIOUS
  <2> QED BY <2>1, <2>2
<1>2. PICK m \in U : \A l \in U : m <= l
  <2> HIDE DEF U
  <2> QED BY <1>1, LeastNatural
<1>3. m \in n .. 8 /\ \A k \in m .. 8 : d[k] = 0 BY <1>2
<1>4. ASSUME m # n PROVE d[m - 1] # 0
  <2>1. m - 1 \in n .. 8 /\ ~(m <= m - 1) /\ \A k \in m - 1 .. 8 : k = m - 1 \/ k \in m .. 8
    BY <1>3, <1>4
  <2>2. m - 1 \notin U
    <3> HIDE DEF U
    <3> QED BY <1>2, <2>1
  <2>3. PICK k \in m - 1 .. 8 : d[k] # 0 BY <2>1, <2>2
  <2> QED BY <1>3, <2>1, <2>3
<1> DEFINE Fits(x) == /\ x = n \/ d[x - 1] # 0
                      /\ \A k \in x .. 8 : d[k] = 0
<1>5. Fits(m) BY <1>3, <1>4
<1>6. Significant(d, n) = CHOOSE x \in n .. 8 : Fits(x) BY DEF Significant
<1>7. Significant(d, n) \in n .. 8 /\ Fits(Significant(d, n))
  <2> HIDE DEF Fits
  <2> QED BY <1>3, <1>5, <1>6
<1> QED BY <1>7

\* A digit shifted by its leading zeros is at least half of the base.
LEMMA LeadingZeros ==
    ASSUME NEW d \in 1 .. B - 1
    PROVE  /\ nlz(d) \in Nat /\ nlz(d) < HALF
           /\ d * TwoTo[nlz(d)] < B /\ d * TwoTo[nlz(d) + 1] >= B
<1> DEFINE U == {s \in Nat : d * TwoTo[s + 1] >= B}
<1>1. HALF - 1 \in U /\ U \subseteq Nat
  <2>1. HALF - 1 \in Nat /\ (HALF - 1) + 1 = HALF /\ TwoTo[HALF] = B /\ B \in Nat BY Base DEF B
  <2>2. d \in Nat /\ d >= 1 BY Base
  <2>3. d * B >= B BY <2>1, <2>2, ProductsGrow
  <2> QED BY <2>1, <2>3
<1>2. PICK s \in U : \A l \in U : s <= l
  <2> HIDE DEF U
  <2> QED BY <1>1, LeastNatural
<1>3. s \in Nat /\ s <= HALF - 1 /\ HALF \in Nat /\ d * TwoTo[s + 1] >= B BY <1>1, <1>2, Base
<1>4. d * TwoTo[s] < B
  <2>1. CASE s = 0
    <3>1. TwoTo[0] = 1 /\ d \in Int /\ d < B BY PowersOfTwo, Base
    <3> QED BY <2>1, <3>1
  <2>2. CASE s # 0
    <3>1. s - 1 \in Nat /\ ~(s <= s - 1) /\ (s - 1) + 1 = s BY <1>3, <2>2
    <3>2. s - 1 \notin U
      <4> HIDE DEF U
      <4> QED BY <1>2, <3>1
    <3>3. ~(d * TwoTo[s] >= B) BY <3>1, <3>2
    <3>4. d * TwoTo[s] \in Int /\ B \in Int BY <1>3, PowersOfTwo, Base
    <3> QED BY <3>3, <3>4
  <2> QED BY <2>1, <2>2
<1> DEFINE Fits(x) == d * TwoTo[x] < B /\ (x = HALF \/ d * TwoTo[x + 1] >= B)
<1>5. nlz(d) = CHOOSE x \in 0 .. HALF : Fits(x) BY DEF nlz
<1>6. s \in 0 .. HALF /\ Fits(s) BY <1>3, <1>4
<1>7. nlz(d) \in 0 .. HALF /\ Fits(nlz(d))
  <2> HIDE DEF Fits
  <2> QED BY <1>5, <1>6
<1>8. nlz(d) # HALF
  <2>1. d * B >= B /\ B \in Int /\ TwoTo[HALF] = B
    <3>1. d \in Nat /\ d >= 1 /\ B \in Nat BY Base
    <3>2. d * B >= B BY <3>1, ProductsGrow
    <3> QED BY <3>1, <3>2 DEF B
  <2>2. ASSUME nlz(d) = HALF PROVE FALSE
    <3>1. d * TwoTo[HALF] < B BY <1>7, <2>2
    <3>2. d * B < B /\ d * B \in Int BY <2>1, <3>1
    <3> QED BY <2>1, <3>2
  <2> QED BY <2>2
<1> QED BY <1>7, <1>8, Base

\* A shift multiplies the value, if the digits have room for it.
LEMMA NormalisedIs ==
    ASSUME NEW d \in Halves, NEW s \in Nat, TwoTo[s] * ValueOf(From(d, 0), 9) < Place(9)
    PROVE  /\ Normalised(d, s) \in Halves
           /\ ValueOf(From(Normalised(d, s), 0), 9) = TwoTo[s] * ValueOf(From(d, 0), 9)
<1> DEFINE column == [k \in Places |-> d[k] * TwoTo[s]]
           c == [k \in Nat |-> IF k \in Places THEN d[k] * TwoTo[s] ELSE 0]
           f == From(d, 0)
           r == Carried(Zeros, 0, 9, column)
           x == TwoTo[s]
<1>1. x \in Nat BY PowersOfTwo
<1>2. \A k \in Places : d[k] \in Int
  <2>1. \A e \in 0 .. B - 1 : e \in Int OBVIOUS
  <2> QED BY <2>1 DEF Halves
<1>3. \A i \in Nat : i < 9 => i \in Places /\ 0 + i <= 8 /\ 0 + i = i BY DEF Places
<1>4. c \in Columns
  <2>1. ASSUME NEW k \in Nat PROVE (IF k \in Places THEN d[k] * TwoTo[s] ELSE 0) \in Int
    <3> HIDE DEF x
    <3>1. k \in Places => d[k] * x \in Int BY <1>1, <1>2
    <3> QED BY <3>1 DEF x
  <2> QED BY <2>1 DEF Columns
<1>5. \A i \in Nat : i < 9 => column[i] = c[i] BY <1>3
<1>6. Zeros \in Halves
  <2>1. 0 \in 0 .. B - 1 BY Base
  <2> QED BY <2>1 DEF Zeros, Halves
<1>7. f \in Columns /\ \A i \in Nat : f[i] = (IF 0 + i <= 8 THEN d[0 + i] ELSE 0) BY DigitsFrom
<1> DEFINE z == [i \in Nat |-> 0]
<1>8. ValueOf(c, 9) = x * ValueOf(f, 9)
  <2>1. z \in Columns BY DEF Columns
  <2>2. \A i \in Nat : i < 9 => c[i] = z[i] + x * f[i]
    <3>1. ASSUME NEW i \in Nat, i < 9 PROVE c[i] = z[i] + x * f[i]
      <4>1. i \in Places /\ f[i] = d[i] BY <1>3, <1>7, <3>1
      <4>2. c[i] = d[i] * x /\ z[i] = 0 /\ d[i] \in Int BY <1>2, <4>1
      <4> HIDE DEF c, z, x, f
      <4>3. \A y \in Int : y * x = 0 + x * y BY <1>1, SMT
      <4> QED BY <4>1, <4>2, <4>3
    <3> QED BY <3>1
  <2>3. ValueOf(z, 9) = 0
    <3>1. \A i \in Nat : 0 <= i /\ i < 9 => z[i] = 0 OBVIOUS
    <3>2. 0 \in Nat /\ 9 \in Nat /\ 0 <= 9 OBVIOUS
    <3> DEFINE o == 0
               nine == 9
    <3>3. o \in Nat /\ nine \in Nat /\ o <= nine /\ \A i \in Nat : o <= i /\ i < nine => z[i] = 0
      BY <3>1, <3>2
    <3> HIDE DEF o, nine, z
    <3>4. ValueOf(z, nine) = ValueOf(z, o) BY <2>1, <3>3, ValuesEnd
    <3>5. ValueOf(z, 0) = 0 BY <2>1, Values
    <3> QED BY <3>4, <3>5 DEF o, nine
  <2> HIDE DEF c, z, f, x
  <2>4. x \in Int /\ 9 \in Nat BY <1>1
  <2>5. ValueOf(c, 9) = ValueOf(z, 9) + x * ValueOf(f, 9)
    <3> DEFINE nine == 9
    <3>1. nine \in Nat /\ \A i \in Nat : i < nine => c[i] = z[i] + x * f[i] BY <2>2
    <3> HIDE DEF nine
    <3>2. ValueOf(c, nine) = ValueOf(z, nine) + x * ValueOf(f, nine)
      BY <1>4, <1>7, <2>1, <2>4, <3>1, ValuesAdd
    <3> QED BY <3>2 DEF nine
  <2>6. ValueOf(f, 9) \in Int BY <1>7, Values
  <2> QED BY <2>3, <2>4, <2>5, <2>6
<1>9. r.d \in Halves /\ r.c \in Int /\ ValueOf(From(r.d, 0), 9) + r.c * Place(9) = ValueOf(c, 9)
  <2> DEFINE o == 0
             nine == 9
  <2>1. o \in Nat /\ nine \in Nat /\ o + nine <= 9 /\ \A i \in Nat : i < nine => column[i] = c[i]
    BY <1>5
  <2> HIDE DEF o, nine, c, column
  <2>2. LET q == Carried(Zeros, o, nine, column)
        IN  q.d \in Halves /\ q.c \in Int /\ ValueOf(From(q.d, o), nine) + q.c * Place(nine) = ValueOf(c, nine)
    BY <1>4, <1>6, <2>1, CarriedIs
  <2> QED BY <2>2 DEF o, nine
<1>11. Normalised(d, s) = r.d BY Zenon DEF Normalised
<1> HIDE DEF r, c, f
<1>10. r.c = 0
  <2> DEFINE e == From(r.d, 0)
             v == ValueOf(e, 9)
             w == ValueOf(c, 9)
             p == Place(9)
  <2>1. e \in Columns /\ \A i \in Nat : e[i] \in 0 .. B - 1 BY <1>9, DigitsFrom
  <2>2. v \in Nat /\ v < p
    <3> HIDE DEF e
    <3> QED BY <2>1, DigitsBound
  <2>3. w \in Int /\ w < p /\ w >= 0
    <3>1. ValueOf(f, 9) \in Nat
      <4>1. \A i \in Nat : f[i] \in 0 .. B - 1 BY DigitsFrom DEF f
      <4> QED BY <1>7, <4>1, DigitsBound
    <3>2. x * ValueOf(f, 9) \in Nat /\ x * ValueOf(f, 9) < p BY <1>1, <3>1, ProductsGrow DEF f
    <3> QED BY <1>8, <3>2
  <2>4. p \in Nat /\ p >= 1 /\ r.c \in Int /\ v + r.c * p = w BY <1>9, PlacesAre
  <2> DEFINE k == r.c
  <2>5. k \in Int /\ v + k * p = w BY <2>4
  <2> HIDE DEF v, w, p, k
  <2>6. (k >= 1 => k * p >= p) /\ (k <= -1 => k * p <= -p) /\ k * p \in Int BY <2>4, <2>5, SMT
  <2>7. k = 0 BY <2>2, <2>3, <2>4, <2>5, <2>6
  <2> QED BY <2>7 DEF k
<1>12. ValueOf(From(r.d, 0), 9) = ValueOf(c, 9)
  <2> DEFINE v == ValueOf(From(r.d, 0), 9)
  <2>1. From(r.d, 0) \in Columns BY <1>9, DigitsFrom
  <2>2. v \in Int BY <2>1, Values
  <2>3. 0 * Place(9) = 0 BY PlacesAre
  <2> HIDE DEF v
  <2>4. v + 0 = ValueOf(c, 9) BY <1>9, <1>10, <2>3 DEF v
  <2> QED BY <2>2, <2>4 DEF v
<1> QED BY <1>8, <1>9, <1>11, <1>12 DEF f

\* Numbers compare as their leading digits do.
LEMMA LeadersLess ==
    ASSUME NEW q \in Nat, NEW T \in Nat, NEW W \in Nat, NEW E \in Nat, NEW t \in 0 .. E - 1, NEW w \in Nat,
           T < q * W
    PROVE  T * E + t < q * (W * E + w)
<1>1. T + 1 <= q * W /\ q * W \in Nat
  <2>1. q * W \in Nat BY ProductsGrow
  <2> QED BY <2>1
<1>2. (T + 1) * E <= (q * W) * E
  <2> DEFINE a == q * W
  <2>1. a \in Nat /\ T + 1 <= a BY <1>1
  <2> HIDE DEF a
  <2>2. (T + 1) * E <= a * E BY <2>1, SMT
  <2> QED BY <2>2 DEF a
<1>3. (T + 1) * E = T * E + E /\ T * E \in Nat BY SMT
<1>4. q * (W * E + w) = (q * W) * E + q * w
  <2>1. q * (W * E) = (q * W) * E BY SMT
  <2> DEFINE a == W * E
  <2>2. a \in Int OBVIOUS
  <2> HIDE DEF a
  <2>3. q * (a + w) = q * a + q * w BY <2>2, SMT
  <2> QED BY <2>1, <2>3 DEF a
<1>5. q * w \in Nat /\ (q * W) * E \in Nat BY <1>1, ProductsGrow
<1> DEFINE a == (q * W) * E
           b == q * w
           c == T * E
<1>6. a \in Nat /\ b \in Nat /\ c \in Nat /\ c + E <= a /\ q * (W * E + w) = a + b
  BY <1>2, <1>3, <1>4, <1>5
<1> HIDE DEF a, b, c
<1>7. c + t < a + b BY <1>6
<1> QED BY <1>6, <1>7 DEF c

\* A digit that leaves one more to the leading digits is not too large for the numbers.
LEMMA LeadersNotMore ==
    ASSUME NEW q \in Nat, NEW T \in Nat, NEW W \in Nat, NEW E \in Nat, NEW t \in Nat, NEW w \in 0 .. E - 1,
           (q + 1) * W <= T, q <= W
    PROVE  q * (W * E + w) <= T * E + t
<1>1. q * (W + 1) <= T
  <2>1. q * (W + 1) = q * W + q /\ (q + 1) * W = q * W + W /\ q * W \in Int BY SMT
  <2> QED BY <2>1
<1>2. (q * (W + 1)) * E <= T * E
  <2> DEFINE a == q * (W + 1)
  <2>1. a \in Nat
    <3>1. W + 1 \in Nat OBVIOUS
    <3> QED BY <3>1, ProductsGrow
  <2>2. a <= T BY <1>1
  <2> HIDE DEF a
  <2>3. a * E <= T * E BY <2>1, <2>2, SMT
  <2> QED BY <2>3 DEF a
<1>3. (q * (W + 1)) * E = q * (W * E + E) BY SMT
<1>4. q * (W * E + w) <= q * (W * E + E)
  <2> DEFINE a == W * E + w
             b == W * E + E
  <2>1. a \in Nat /\ b \in Nat /\ a <= b
    <3>1. W * E \in Nat BY ProductsGrow
    <3> QED BY <3>1
  <2> HIDE DEF a, b
  <2>2. q * a <= q * b BY <2>1, SMT
  <2> QED BY <2>2 DEF a, b
<1> DEFINE a == q * (W * E + w)
           b == q * (W * E + E)
           c == T * E
<1>5. a \in Int /\ b \in Int /\ c \in Int /\ a <= b /\ b <= c
  <2>1. b <= c BY <1>2, <1>3
  <2>2. a \in Int /\ b \in Int /\ c \in Int OBVIOUS
  <2> QED BY <1>4, <2>1, <2>2
<1> HIDE DEF a, b, c
<1>6. a <= c + t BY <1>5
<1> QED BY <1>6 DEF a, c

\* The estimate is the digit or one more.
LEMMA EstimateIs ==
    ASSUME NEW top \in Nat, NEW u \in 0 .. B - 1, NEW v1 \in 1 .. B - 1, NEW v2 \in 0 .. B - 1,
           NEW E \in Nat, NEW t \in 0 .. E - 1, NEW w \in 0 .. E - 1, NEW T, NEW W, NEW U, NEW V,
           T = top * B + u, W = v1 * B + v2, U = T * E + t, V = W * E + w,
           B <= 2 * v1, U < B * V, top < v1 * B + B
    PROVE  LET q == Estimated(top, u, v1, v2)
           IN  q \in Nat /\ q < B /\ U < (q + 1) * V /\ (q - 1) * V <= U
<1> DEFINE S == [q : Nat, r : Nat]
           Early(s) == s.r < B /\ (s.q >= B \/ s.q * v2 > B * s.r + u)
           g == [s \in S |-> IF Early(s) THEN [q |-> s.q - 1, r |-> s.r + v1] ELSE s]
           z == [q |-> top \div v1, r |-> top % v1]
           Sound(s, k) == /\ s.q * v1 + s.r = top
                          /\ U < (s.q + 1) * V
                          /\ ~Early(s) \/ s.r >= k * v1
           I == [k \in Nat |-> {s \in S : Sound(s, k)}]
<1>1. /\ B \in Nat /\ B >= 2 /\ v1 \in Nat /\ v1 >= 1 /\ v2 \in Nat /\ u \in Nat /\ u < B /\ v1 < B /\ v2 < B
      /\ T \in Nat /\ W \in Nat /\ U \in Nat /\ V \in Nat /\ t \in Nat /\ w \in Nat
  <2>1. B \in Nat /\ B >= 2 /\ v1 \in Nat /\ v1 >= 1 /\ v2 \in Nat /\ u \in Nat /\ u < B /\ v1 < B /\ v2 < B
        /\ t \in Nat /\ w \in Nat BY Base
  <2>2. top * B \in Nat /\ v1 * B \in Nat BY <2>1, ProductsGrow
  <2>3. T \in Nat /\ W \in Nat BY <2>1, <2>2
  <2>4. T * E \in Nat /\ W * E \in Nat BY <2>3, ProductsGrow
  <2> QED BY <2>1, <2>3, <2>4
<1>2. ASSUME NEW s \in S, Early(s)
      PROVE  s.q >= 1 /\ g[s] = [q |-> s.q - 1, r |-> s.r + v1] /\ g[s] \in S
  <2>1. s.q \in Nat /\ s.r \in Nat OBVIOUS
  <2>2. s.q # 0
    <3>1. 0 * v2 = 0 /\ B * s.r \in Nat BY <1>1, <2>1, ProductsGrow
    <3> QED BY <1>1, <1>2, <2>1, <3>1
  <2>3. g[s] = [q |-> s.q - 1, r |-> s.r + v1] BY <1>2
  <2>4. s.q - 1 \in Nat /\ s.r + v1 \in Nat BY <1>1, <2>1, <2>2
  <2> QED BY <2>1, <2>2, <2>3, <2>4
<1>3. ASSUME NEW s \in S, ~Early(s) PROVE g[s] = s BY <1>3
<1>4. g \in [S -> S]
  <2>1. \A s \in S : g[s] \in S
    <3> HIDE DEF g, Early
    <3> QED BY <1>2, <1>3
  <2>2. g = [s \in S |-> g[s]] OBVIOUS
  <2> HIDE DEF g, S
  <2> QED BY <2>1, <2>2
<1>5. z \in S /\ z \in I[0]
  <2> DEFINE q == top \div v1
             r == top % v1
  <2>1. q \in Nat /\ r \in 0 .. v1 - 1 /\ top = v1 * q + r /\ v1 * q = q * v1
    <3>1. v1 \in Nat \ {0} BY <1>1
    <3> QED BY <3>1, Divided
  <2> HIDE DEF q, r
  <2>2. q + 1 \in Nat /\ top + 1 <= (q + 1) * v1
    <3>1. (q + 1) * v1 = q * v1 + v1 /\ q * v1 \in Int BY <1>1, <2>1, SMT
    <3> QED BY <1>1, <2>1, <3>1
  <2>3. T < (q + 1) * W
    <3> DEFINE x == q + 1
    <3>1. x \in Nat /\ top + 1 <= x * v1 /\ u \in 0 .. B - 1 /\ T = top * B + u /\ W = v1 * B + v2
      BY <2>2
    <3> HIDE DEF x
    <3>2. top < x * v1
      <4>1. x * v1 \in Int BY <1>1, <3>1
      <4> QED BY <3>1, <4>1
    <3>3. top * B + u < x * (v1 * B + v2) BY <1>1, <3>1, <3>2, LeadersLess
    <3> QED BY <3>1, <3>3 DEF x
  <2>4. U < (q + 1) * V
    <3> DEFINE x == q + 1
    <3>1. x \in Nat /\ T < x * W BY <2>2, <2>3
    <3> HIDE DEF x
    <3>2. T * E + t < x * (W * E + w) BY <1>1, <3>1, LeadersLess
    <3> QED BY <3>2 DEF x
  <2>5. z.q = q /\ z.r = r /\ z \in S
    <3>1. z = [q |-> q, r |-> r] BY DEF q, r
    <3>2. q \in Nat /\ r \in Nat BY <1>1, <2>1
    <3> HIDE DEF z
    <3> QED BY <3>1, <3>2
  <2>6. q * v1 + r = top /\ r >= 0 * v1
    <3>1. 0 * v1 = 0 BY <1>1
    <3>2. r >= 0 BY <1>1, <2>1
    <3>3. q * v1 + r = top
      <4> DEFINE a == v1 * q
      <4>1. a \in Int /\ top = a + r /\ a = q * v1 BY <1>1, <2>1
      <4> QED BY <4>1
    <3> QED BY <3>1, <3>2, <3>3
  <2> HIDE DEF z
  <2>7. Sound(z, 0)
    <3>1. z.q * v1 + z.r = top BY <2>5, <2>6
    <3>2. U < (z.q + 1) * V BY <2>4, <2>5
    <3>3. z.r >= 0 * v1 BY <2>5, <2>6
    <3> QED BY <3>1, <3>2, <3>3
  <2> HIDE DEF Sound
  <2> QED BY <2>5, <2>7
<1>6. ASSUME NEW k \in Nat, NEW s \in S, s \in I[k] PROVE g[s] \in I[k + 1]
  <2> DEFINE q == s.q
             r == s.r
  <2>1. q \in Nat /\ r \in Nat /\ q * v1 + r = top /\ U < (q + 1) * V /\ (~Early(s) \/ r >= k * v1)
    BY <1>6
  <2>2. g[s] \in S /\ k + 1 \in Nat
    <3> HIDE DEF g, S
    <3> QED BY <1>4
  <2>3. CASE ~Early(s)
    <3>1. g[s] = s BY <1>3, <2>3
    <3>2. Sound(s, k + 1) BY <2>1, <2>3
    <3> HIDE DEF Sound, g
    <3> QED BY <2>2, <3>1, <3>2
  <2>4. CASE Early(s)
    <3>1. q >= 1 /\ g[s] = [q |-> q - 1, r |-> r + v1]
      <4> HIDE DEF g, Early
      <4> QED BY <1>2, <2>4
    <3>2. r < B /\ (q >= B \/ q * v2 > B * r + u) /\ r >= k * v1 BY <2>1, <2>4
    <3> HIDE DEF g
    <3>3. g[s].q = q - 1 /\ g[s].r = r + v1 BY <3>1
    <3> HIDE DEF q, r
    <3>4. (q - 1) * v1 + (r + v1) = top
      <4>1. (q - 1) * v1 = q * v1 - v1 /\ q * v1 \in Int BY <1>1, <2>1, SMT
      <4> QED BY <1>1, <2>1, <4>1
    <3>5. r + v1 >= (k + 1) * v1
      <4>1. (k + 1) * v1 = k * v1 + v1 /\ k * v1 \in Int BY <1>1, SMT
      <4> QED BY <1>1, <2>1, <3>2, <4>1
    <3>6. U < q * V
      <4>1. CASE q >= B
        <5>1. B * V <= q * V BY <1>1, <2>1, <4>1, SMT
        <5>2. B * V \in Int /\ q * V \in Int BY <1>1, <2>1
        <5> QED BY <1>1, <5>1, <5>2
      <4>2. CASE q * v2 > B * r + u
        <5>1. T = q * (v1 * B) + (B * r + u)
          <6>1. (q * v1 + r) * B = q * (v1 * B) + B * r BY <1>1, <2>1, SMT
          <6>2. q * (v1 * B) \in Int /\ B * r \in Int BY <1>1, <2>1
          <6> QED BY <1>1, <2>1, <6>1, <6>2
        <5>2. q * W = q * (v1 * B) + q * v2
          <6> DEFINE x == v1 * B
          <6>1. x \in Int BY <1>1
          <6>2. W = x + v2 OBVIOUS
          <6> HIDE DEF x
          <6>3. q * (x + v2) = q * x + q * v2 BY <1>1, <2>1, <6>1, SMT
          <6> QED BY <6>2, <6>3 DEF x
        <5>3. T < q * W
          <6>1. q * (v1 * B) \in Int /\ q * v2 \in Int /\ B * r \in Int BY <1>1, <2>1
          <6> QED BY <1>1, <2>1, <4>2, <5>1, <5>2, <6>1
        <5>4. T * E + t < q * (W * E + w) BY <1>1, <2>1, <5>3, LeadersLess
        <5> QED BY <5>4
      <4> QED BY <3>2, <4>1, <4>2
    <3>7. (q - 1) + 1 = q BY <2>1
    <3>8. Sound(g[s], k + 1)
      <4>1. g[s].q * v1 + g[s].r = top BY <3>3, <3>4
      <4>2. U < (g[s].q + 1) * V BY <3>3, <3>6, <3>7
      <4>3. g[s].r >= (k + 1) * v1 BY <3>3, <3>5
      <4> QED BY <4>1, <4>2, <4>3
    <3> HIDE DEF Sound
    <3> QED BY <2>2, <3>8
  <2> QED BY <2>3, <2>4
<1> DEFINE two == 2
           s == Turned(g, z, two)
<1>7. s \in I[two] /\ s \in S
  <2>1. two \in Nat OBVIOUS
  <2> HIDE DEF g, z, I, S, two
  <2> QED BY <1>4, <1>5, <1>6, <2>1, LoopKeeps
<1>8. Estimated(top, u, v1, v2) = s.q BY Zenon DEF Estimated
<1> DEFINE q == s.q
           r == s.r
<1>9. q \in Nat /\ r \in Nat /\ q * v1 + r = top /\ U < (q + 1) * V
      /\ (~(r < B /\ (q >= B \/ q * v2 > B * r + u)) \/ r >= 2 * v1)
  <2>1. s \in S /\ Sound(s, 2)
    <3> HIDE DEF Sound, s
    <3> QED BY <1>7
  <2> HIDE DEF s
  <2> QED BY <2>1
<1> HIDE DEF s, q, r
<1>10. q < B /\ q * v2 <= B * r + u
  <2>1. CASE r < B
    <3>1. ~(q >= B) /\ ~(q * v2 > B * r + u) BY <1>1, <1>9, <2>1
    <3>2. q * v2 \in Int /\ B * r \in Int BY <1>1, <1>9
    <3> QED BY <1>1, <1>9, <3>1, <3>2
  <2>2. CASE r >= B
    <3>1. q * v1 < v1 * B
      <4>1. q * v1 \in Int /\ v1 * B \in Int BY <1>1, <1>9
      <4> QED BY <1>1, <1>9, <2>2, <4>1
    <3>2. q >= B => q * v1 >= v1 * B BY <1>1, <1>9, SMT
    <3>3. q < B BY <1>1, <1>9, <3>1, <3>2
    <3>4. q * v2 <= B * B BY <1>1, <1>9, <3>3, SMT
    <3>5. B * B <= B * r BY <1>1, <1>9, <2>2, SMT
    <3>6. q * v2 \in Int /\ B * B \in Int /\ B * r \in Int BY <1>1, <1>9
    <3> QED BY <1>1, <3>3, <3>4, <3>5, <3>6
  <2> QED BY <1>1, <1>9, <2>1, <2>2
<1>11. q * W <= T
  <2>1. (q * v1 + r) * B = q * (v1 * B) + B * r BY <1>1, <1>9, SMT
  <2> DEFINE x == v1 * B
  <2>2. x \in Int /\ W = x + v2 BY <1>1
  <2> HIDE DEF x
  <2>3. q * (x + v2) = q * x + q * v2 BY <1>1, <1>9, <2>2, SMT
  <2>4. T = (q * x + B * r) + u BY <1>9, <2>1 DEF x
  <2>5. q * x \in Int /\ q * v2 \in Int /\ B * r \in Int BY <1>1, <1>9, <2>2
  <2> QED BY <1>1, <1>10, <2>2, <2>3, <2>4, <2>5
<1>12. (q - 1) * V <= U
  <2>1. CASE q = 0
    <3>1. (0 - 1) * V = -V BY <1>1, SMT
    <3> QED BY <1>1, <2>1, <3>1
  <2>2. CASE q # 0
    <3> DEFINE x == q - 1
    <3>1. x \in Nat /\ x + 1 = q BY <1>9, <2>2
    <3>2. B <= W
      <4>1. v1 * B >= B /\ v1 * B \in Int BY <1>1, ProductsGrow
      <4> QED BY <1>1, <4>1
    <3>3. x <= W BY <1>1, <1>9, <1>10, <3>2
    <3> HIDE DEF x
    <3>4. (x + 1) * W <= T BY <1>11, <3>1
    <3>5. x * (W * E + w) <= T * E + t BY <1>1, <3>1, <3>3, <3>4, LeadersNotMore
    <3> QED BY <3>5 DEF x
  <2> QED BY <2>1, <2>2
<1> QED BY <1>8, <1>9, <1>10, <1>12 DEF q

\* Two digits of n + 2 are the leading ones.
LEMMA Leaders ==
    ASSUME NEW c \in Columns, NEW k \in Nat, \A i \in Nat : c[i] \in 0 .. B - 1
    PROVE  LET t == ValueOf(c, k)
           IN  /\ Place(k) \in Nat /\ Place(k) >= 1 /\ t \in 0 .. Place(k) - 1
               /\ ValueOf(c, k + 2) = (c[k + 1] * B + c[k]) * Place(k) + t
               /\ ValueOf(c, k + 3) = ((c[k + 2] * B + c[k + 1]) * B + c[k]) * Place(k) + t
               /\ Place(k + 2) = (B * B) * Place(k)
<1> DEFINE t == ValueOf(c, k)
           p == Place(k)
           x == c[k]
           y == c[k + 1]
           z == c[k + 2]
<1>1. k + 1 \in Nat /\ k + 2 \in Nat /\ (k + 1) + 1 = k + 2 /\ (k + 2) + 1 = k + 3 OBVIOUS
<1>2. p \in Nat /\ p >= 1 /\ Place(k + 1) = B * p /\ Place(k + 2) = B * Place(k + 1) /\ B \in Nat
  BY <1>1, PlacesAre, Base
<1>3. t \in Nat /\ t < p BY DigitsBound
<1>4. x \in Nat /\ y \in Nat /\ z \in Nat BY <1>1, <1>2
<1>5. /\ ValueOf(c, k + 1) = t + x * p
      /\ ValueOf(c, k + 2) = ValueOf(c, k + 1) + y * Place(k + 1)
      /\ ValueOf(c, k + 3) = ValueOf(c, k + 2) + z * Place(k + 2) BY <1>1, Values
<1> HIDE DEF t, p, x, y, z
<1>6. B * (B * p) = (B * B) * p BY <1>2, SMT
<1>7. (y * B + x) * p = y * (B * p) + x * p BY <1>2, <1>4, SMT
<1>8. ((z * B + y) * B + x) * p = z * ((B * B) * p) + (y * B + x) * p
  <2> DEFINE a == y * B + x
             b == z * B
  <2>1. a \in Int /\ b \in Int BY <1>2, <1>4
  <2>2. (b + y) * B + x = b * B + a
    <3> HIDE DEF b
    <3> QED BY <1>2, <1>4, <2>1, SMT
  <2>3. (b * B) * p = z * ((B * B) * p) BY <1>2, <1>4, SMT
  <2> DEFINE e == b * B
  <2>4. e \in Int BY <1>2, <2>1
  <2> HIDE DEF a, e
  <2>5. (e + a) * p = e * p + a * p BY <1>2, <2>1, <2>4, SMT
  <2> QED BY <2>2, <2>3, <2>5 DEF a, e
<1>9. x * p \in Int /\ y * (B * p) \in Int /\ z * ((B * B) * p) \in Int BY <1>2, <1>4
<1>10. ValueOf(c, k + 2) = (y * B + x) * p + t BY <1>2, <1>3, <1>5, <1>7, <1>9
<1>11. ValueOf(c, k + 3) = ((z * B + y) * B + x) * p + t
  <2> DEFINE a == (y * B + x) * p
             b == z * ((B * B) * p)
  <2>1. a \in Int /\ b \in Int /\ ValueOf(c, k + 2) = a + t /\ ValueOf(c, k + 3) = ValueOf(c, k + 2) + b
        /\ ((z * B + y) * B + x) * p = b + a BY <1>2, <1>4, <1>5, <1>6, <1>8, <1>9, <1>10
  <2> HIDE DEF a, b
  <2> QED BY <1>3, <2>1
<1> QED BY <1>2, <1>3, <1>6, <1>10, <1>11 DEF t, p, x, y, z

\* A number of which twice is no less than the next place has a leading digit of half the base.
LEMMA LeaderLarge ==
    ASSUME NEW v1 \in Nat, NEW v2 \in 0 .. B - 1, NEW E \in Nat, E >= 1, NEW w \in 0 .. E - 1,
           (B * B) * E <= 2 * ((v1 * B + v2) * E + w)
    PROVE  B <= 2 * v1
<1>1. B \in Nat /\ B >= 2 /\ B = 2 * TwoTo[HALF - 1] /\ TwoTo[HALF - 1] \in Nat BY Base
<1> DEFINE h == TwoTo[HALF - 1]
<1>2. h \in Nat /\ B = 2 * h BY <1>1
<1> HIDE DEF h
<1> SUFFICES ASSUME v1 + 1 <= h PROVE FALSE BY <1>1, <1>2
<1>3. v1 * B + v2 + 1 <= h * B
  <2>1. (v1 + 1) * B <= h * B /\ (v1 + 1) * B = v1 * B + B BY <1>1, <1>2, SMT
  <2>2. v1 * B \in Int /\ h * B \in Int BY <1>1, <1>2
  <2> QED BY <1>1, <2>1, <2>2
<1> DEFINE a == v1 * B + v2
           b == h * B
<1>4. a \in Int /\ b \in Int /\ a + 1 <= b BY <1>1, <1>2, <1>3
<1>5. 2 * b = B * B BY <1>2, SMT
<1> HIDE DEF a, b
<1>6. (a + 1) * E <= b * E /\ (a + 1) * E = a * E + E BY <1>4, SMT
<1>7. 2 * (b * E) = (B * B) * E
  <2>1. 2 * (b * E) = (2 * b) * E BY <1>4, SMT
  <2> QED BY <1>5, <2>1
<1>8. a * E \in Int /\ b * E \in Int BY <1>4
<1>9. a * E + w < b * E BY <1>6, <1>8
<1> DEFINE x == a * E
           y == b * E
<1>10. x \in Int /\ y \in Int /\ x + w < y /\ 2 * y <= 2 * (x + w) BY <1>7, <1>8, <1>9 DEF a
<1> HIDE DEF x, y
<1> QED BY <1>10

\* Numbers below another have leading digits that are no larger.
LEMMA LeadersBelow ==
    ASSUME NEW a \in Nat, NEW b \in Nat, NEW E \in Nat, NEW t \in Nat, NEW w \in 0 .. E - 1,
           a * E + t < b * E + w
    PROVE  a <= b
<1> SUFFICES ASSUME b + 1 <= a PROVE FALSE OBVIOUS
<1>1. (b + 1) * E <= a * E /\ (b + 1) * E = b * E + E BY SMT
<1>2. b * E \in Int /\ a * E \in Int BY SMT
<1> QED BY <1>1, <1>2

\* The estimate from the leading digits is the digit of the quotient or one more.
LEMMA DigitEstimated ==
    ASSUME NEW un \in Halves, NEW vn \in Halves, NEW n \in Nat, n >= 2, NEW j \in Nat, j + n <= 8,
           Place(n) <= 2 * ValueOf(From(vn, 0), n),
           ValueOf(From(un, j + 1), n) < ValueOf(From(vn, 0), n)
    PROVE  LET top == un[j + n] * B + un[j + n - 1]
               q   == Estimated(top, un[j + n - 2], vn[n - 1], vn[n - 2])
               U   == ValueOf(From(un, j), n + 1)
               V   == ValueOf(From(vn, 0), n)
           IN  /\ U \in Nat /\ V \in Nat /\ q \in Nat /\ q < B
               /\ U < (q + 1) * V /\ (q - 1) * V <= U
<1> DEFINE c == From(un, j)
           d == From(un, j + 1)
           e == From(vn, 0)
           k == n - 2
           E == Place(k)
           t == ValueOf(c, k)
           w == ValueOf(e, k)
           x == ValueOf(d, k)
           top == un[j + n] * B + un[j + n - 1]
           u == un[j + n - 2]
           v1 == vn[n - 1]
           v2 == vn[n - 2]
           T == top * B + u
           W == v1 * B + v2
           U == ValueOf(c, n + 1)
           V == ValueOf(e, n)
           R == ValueOf(d, n)
<1>1. /\ k \in Nat /\ k + 2 = n /\ k + 3 = n + 1 /\ k + 1 = n - 1 /\ j + 1 \in Nat /\ 0 \in Nat
      /\ j + k = j + n - 2 /\ j + (k + 1) = j + n - 1 /\ j + (k + 2) = j + n
      /\ (j + 1) + k = j + n - 1 /\ (j + 1) + (k + 1) = j + n
      /\ 0 + k = n - 2 /\ 0 + (k + 1) = n - 1 OBVIOUS
<1>2. /\ c \in Columns /\ d \in Columns /\ e \in Columns
      /\ \A i \in Nat : c[i] \in 0 .. B - 1 /\ d[i] \in 0 .. B - 1 /\ e[i] \in 0 .. B - 1
      /\ \A i \in Nat : /\ c[i] = (IF j + i <= 8 THEN un[j + i] ELSE 0)
                        /\ d[i] = (IF (j + 1) + i <= 8 THEN un[(j + 1) + i] ELSE 0)
                        /\ e[i] = (IF 0 + i <= 8 THEN vn[0 + i] ELSE 0) BY <1>1, DigitsFrom
<1> HIDE DEF c, d, e
<1>3. /\ c[k] = u /\ c[k + 1] = un[j + n - 1] /\ c[k + 2] = un[j + n]
      /\ d[k] = un[j + n - 1] /\ d[k + 1] = un[j + n]
      /\ e[k] = v2 /\ e[k + 1] = v1
  <2>1. k \in Nat /\ k + 1 \in Nat /\ k + 2 \in Nat /\ j + k <= 8 /\ j + (k + 1) <= 8 /\ j + (k + 2) <= 8
        /\ (j + 1) + k <= 8 /\ (j + 1) + (k + 1) <= 8 /\ 0 + k <= 8 /\ 0 + (k + 1) <= 8 OBVIOUS
  <2>2. c[k] = un[j + k] /\ c[k + 1] = un[j + (k + 1)] /\ c[k + 2] = un[j + (k + 2)] BY <1>2, <2>1
  <2>3. d[k] = un[(j + 1) + k] /\ d[k + 1] = un[(j + 1) + (k + 1)] BY <1>2, <2>1
  <2>4. e[k] = vn[0 + k] /\ e[k + 1] = vn[0 + (k + 1)] BY <1>2, <2>1
  <2> QED BY <1>1, <2>2, <2>3, <2>4
<1>4. /\ u \in 0 .. B - 1 /\ v1 \in 0 .. B - 1 /\ v2 \in 0 .. B - 1
      /\ un[j + n] \in 0 .. B - 1 /\ un[j + n - 1] \in 0 .. B - 1
  <2>1. k \in Nat /\ k + 1 \in Nat /\ k + 2 \in Nat BY <1>1
  <2> HIDE DEF k, u, v1, v2
  <2> QED BY <1>2, <1>3, <2>1
<1>5. /\ E \in Nat /\ E >= 1 /\ t \in 0 .. E - 1 /\ w \in 0 .. E - 1 /\ x \in 0 .. E - 1
      /\ U = T * E + t /\ V = W * E + w /\ R = top * E + x /\ Place(n) = (B * B) * E
  <2>1. k \in Nat BY <1>1
  <2> HIDE DEF k
  <2>2. /\ E \in Nat /\ E >= 1 /\ t \in 0 .. E - 1 /\ Place(k + 2) = (B * B) * E
        /\ ValueOf(c, k + 3) = ((c[k + 2] * B + c[k + 1]) * B + c[k]) * E + t BY <1>2, <2>1, Leaders
  <2>3. w \in 0 .. E - 1 /\ ValueOf(e, k + 2) = (e[k + 1] * B + e[k]) * E + w BY <1>2, <2>1, Leaders
  <2>4. x \in 0 .. E - 1 /\ ValueOf(d, k + 2) = (d[k + 1] * B + d[k]) * E + x BY <1>2, <2>1, Leaders
  <2> QED BY <1>1, <1>3, <2>2, <2>3, <2>4
<1>6. U = un[j] + B * R
  <2>1. c[0] = un[j]
    <3>1. j + 0 = j /\ j <= 8 OBVIOUS
    <3> QED BY <1>2, <3>1
  <2>2. \A i \in Nat : i < n => d[i] = c[1 + i]
    <3>1. ASSUME NEW i \in Nat, i < n PROVE d[i] = c[1 + i]
      <4>1. 1 + i \in Nat /\ j + (1 + i) = (j + 1) + i OBVIOUS
      <4> QED BY <1>2, <4>1
    <3> QED BY <3>1
  <2> DEFINE one == 1
  <2>3. one \in Nat /\ \A i \in Nat : i < n => d[i] = c[one + i] BY <2>2
  <2>4. one + n = n + 1 OBVIOUS
  <2>5. ValueOf(c, one) = un[j] * 1
    <3>1. ValueOf(c, 0 + 1) = ValueOf(c, 0) + c[0] * Place(0) /\ ValueOf(c, 0) = 0 /\ Place(0) = 1
      BY <1>2, Values, PlacesAre
    <3>2. c[0] \in Int /\ 0 + 1 = one BY <1>2 DEF Columns
    <3> QED BY <2>1, <3>1, <3>2
  <2>6. Place(one) = B BY PlacesAre
  <2> HIDE DEF one
  <2>7. ValueOf(c, one + n) = ValueOf(c, one) + Place(one) * ValueOf(d, n)
    BY <1>2, <2>3, ValuesSplit
  <2>8. un[j] \in Int BY <1>2, <2>1 DEF Columns
  <2>9. un[j] * 1 = un[j] BY <2>8
  <2> QED BY <2>4, <2>5, <2>6, <2>7, <2>9
<1>7. R \in Nat /\ V \in Nat /\ U \in Nat /\ un[j] \in 0 .. B - 1 /\ R < V /\ Place(n) <= 2 * V
  <2>1. R \in Nat /\ V \in Nat BY <1>2, DigitsBound
  <2>2. n + 1 \in Nat OBVIOUS
  <2>3. U \in Nat
    <3> DEFINE m == n + 1
    <3>1. m \in Nat OBVIOUS
    <3> HIDE DEF m
    <3>2. ValueOf(c, m) \in Nat BY <1>2, <3>1, DigitsBound
    <3> QED BY <3>2 DEF m
  <2>4. un[j] \in 0 .. B - 1
    <3>1. j \in Places BY DEF Places
    <3> QED BY <3>1 DEF Halves
  <2> QED BY <2>1, <2>3, <2>4 DEF d, e
<1>8. B \in Nat /\ B >= 2 BY Base
<1> HIDE DEF k, E, t, w, x, u, v1, v2, U, V, R
<1>9. U < B * V
  <2>1. B * R <= B * (V - 1) /\ B * (V - 1) = B * V - B /\ B * V \in Int /\ B * R \in Int
    BY <1>7, <1>8, SMT
  <2> QED BY <1>6, <1>7, <1>8, <2>1
<1>10. top \in Nat /\ W \in Nat
  <2>1. un[j + n] * B \in Nat /\ v1 * B \in Nat BY <1>4, <1>8, ProductsGrow
  <2> QED BY <1>4, <1>8, <2>1
<1>11. B <= 2 * v1
  <2>1. (B * B) * E <= 2 * ((v1 * B + v2) * E + w) BY <1>5, <1>7
  <2>2. v1 \in Nat BY <1>4
  <2> QED BY <1>4, <1>5, <2>1, <2>2, LeaderLarge
<1> HIDE DEF top
<1>12. top < v1 * B + B
  <2>1. top * E + x < W * E + w /\ x \in Nat BY <1>5, <1>7
  <2> HIDE DEF W
  <2>2. top <= W BY <1>5, <1>10, <2>1, LeadersBelow
  <2>3. v1 * B \in Int BY <1>4, <1>8
  <2> QED BY <1>4, <1>8, <1>10, <2>2, <2>3 DEF W
<1>13. v1 \in 1 .. B - 1 BY <1>4, <1>8, <1>11
<1> DEFINE q == Estimated(top, u, v1, v2)
<1>14. q \in Nat /\ q < B /\ U < (q + 1) * V /\ (q - 1) * V <= U
  BY <1>4, <1>5, <1>9, <1>10, <1>11, <1>12, <1>13, EstimateIs
<1> QED BY <1>7, <1>14 DEF U, V, c, e, top, u, v1, v2

\* What is carried at the end tells the sign of a number within two others.
LEMMA CarryTells ==
    ASSUME NEW P \in Nat, NEW V \in Nat, V < P, NEW x \in 0 .. P - 1, NEW c \in Int, NEW D \in Int,
           x + c * P = D
    PROVE  /\ 0 <= D /\ D < V => c = 0 /\ x = D
           /\ -V <= D /\ D < 0 => c = 0 - 1 /\ x = D + P
           /\ P <= D /\ D < P + V => c = 1 /\ x = D - P
<1>1. c >= 1 => c * P >= P BY SMT
<1>2. c >= 2 => c * P >= 2 * P BY SMT
<1>3. c <= 0 - 1 => c * P <= -P BY SMT
<1>4. c <= 0 - 2 => c * P <= -(2 * P) BY SMT
<1>5. (c = 0 => c * P = 0) /\ (c = 1 => c * P = P) /\ (c = 0 - 1 => c * P = -P) /\ c * P \in Int
  BY SMT
<1> DEFINE a == c * P
<1>6. a \in Int /\ x + a = D /\ x \in Int /\ x >= 0 /\ x < P BY <1>5
<1>7. /\ c >= 1 => a >= P
      /\ c >= 2 => a >= 2 * P
      /\ c <= 0 - 1 => a <= -P
      /\ c <= 0 - 2 => a <= -(2 * P)
      /\ c = 0 => a = 0
      /\ c = 1 => a = P
      /\ c = 0 - 1 => a = -P BY <1>1, <1>2, <1>3, <1>4, <1>5
<1> HIDE DEF a
<1>8. ASSUME 0 <= D, D < V PROVE c = 0 /\ x = D BY <1>6, <1>7, <1>8
<1>9. ASSUME -V <= D, D < 0 PROVE c = 0 - 1 /\ x = D + P BY <1>6, <1>7, <1>9
<1>10. ASSUME P <= D, D < P + V PROVE c = 1 /\ x = D - P BY <1>6, <1>7, <1>10
<1> QED BY <1>8, <1>9, <1>10

\* A step of the division: the digit is taken from the places from j on, and what is left is
\* less than the divisor.
LEMMA DigitTaken ==
    ASSUME NEW un \in Halves, NEW vn \in Halves, NEW n \in Nat, n >= 2, NEW j \in Nat, j + n <= 8,
           Place(n) <= 2 * ValueOf(From(vn, 0), n), vn[n] = 0,
           ValueOf(From(un, j + 1), n) < ValueOf(From(vn, 0), n)
    PROVE  LET q    == DigitAt(un, vn, n, j)
               left == LeftAt(un, vn, n, j)
               U    == ValueOf(From(un, j), n + 1)
               V    == ValueOf(From(vn, 0), n)
               new  == ValueOf(From(left, j), n + 1)
           IN  /\ U \in Nat /\ V \in Nat /\ q \in Nat /\ q < B
               /\ left \in Halves
               /\ \A p \in Places : p < j \/ p >= j + (n + 1) => left[p] = un[p]
               /\ new \in Nat /\ new < V /\ U = q * V + new
<1> DEFINE top  == un[j + n] * B + un[j + n - 1]
           qhat == Estimated(top, un[j + n - 2], vn[n - 1], vn[n - 2])
           rest == MultiplySubtract(un, vn, n, qhat, j)
           q    == IF rest.c >= 0 THEN qhat ELSE qhat - 1
           back == AddBack(rest.d, vn, n, j)
           left == IF rest.c >= 0 THEN rest.d ELSE back
           m    == n + 1
           U    == ValueOf(From(un, j), m)
           V    == ValueOf(From(vn, 0), n)
           e    == From(vn, 0)
           P    == Place(m)
<1>1. /\ U \in Nat /\ V \in Nat /\ qhat \in Nat /\ qhat < B
      /\ U < (qhat + 1) * V /\ (qhat - 1) * V <= U BY DigitEstimated
<1>2. m \in Nat /\ m >= 1 /\ j + m <= 9 /\ 0 \in Nat /\ B \in Nat /\ B >= 2 BY Base
<1>3. /\ e \in Columns
      /\ \A i \in Nat : e[i] \in 0 .. B - 1 /\ e[i] = (IF 0 + i <= 8 THEN vn[0 + i] ELSE 0)
  BY <1>2, DigitsFrom
<1>4. e[n] = 0 /\ \A i \in Nat : i < m => e[i] = vn[i]
  <2>1. 0 + n = n /\ n <= 8 OBVIOUS
  <2>2. \A i \in Nat : i < m => 0 + i = i /\ i <= 8 BY <1>2
  <2> HIDE DEF e
  <2> QED BY <1>3, <2>1, <2>2
<1>5. ValueOf(e, m) = V /\ V < Place(n) /\ Place(n) <= P /\ P \in Nat
  <2>1. ValueOf(e, n + 1) = ValueOf(e, n) + e[n] * Place(n) BY <1>3, Values
  <2>2. Place(n) \in Nat /\ Place(n + 1) = B * Place(n) /\ Place(n + 1) \in Nat BY PlacesAre
  <2>3. 0 * Place(n) = 0 BY <2>2
  <2>4. ValueOf(e, n) < Place(n) BY <1>3, DigitsBound
  <2>5. Place(n) <= B * Place(n) BY <1>2, <2>2, ProductsGrow
  <2> QED BY <1>1, <1>4, <2>1, <2>2, <2>3, <2>4, <2>5
<1> HIDE DEF qhat
<1> DEFINE f == From(un, j)
           col == [i \in 0 .. n |-> un[j + i] - qhat * vn[i]]
           c == [i \in Nat |-> f[i] - qhat * e[i]]
           D == U - qhat * V
<1>6. /\ f \in Columns
      /\ \A i \in Nat : f[i] \in 0 .. B - 1 /\ f[i] = (IF j + i <= 8 THEN un[j + i] ELSE 0)
  BY DigitsFrom
<1>7. \A i \in Nat : i < m => i \in 0 .. n /\ j + i <= 8 BY <1>2
<1>8. c \in Columns /\ \A i \in Nat : c[i] = f[i] + (-qhat) * e[i]
  <2>1. \A i \in Nat : f[i] \in Int /\ e[i] \in Int BY <1>3, <1>6 DEF Columns
  <2>2. \A x, y \in Int : x - qhat * y = x + (-qhat) * y /\ x - qhat * y \in Int BY <1>1, SMT
  <2> HIDE DEF f, e
  <2> QED BY <2>1, <2>2 DEF Columns
<1>9. \A i \in Nat : i < m => col[i] = c[i]
  <2>1. ASSUME NEW i \in Nat, i < m PROVE col[i] = c[i]
    <3>1. f[i] = un[j + i] /\ e[i] = vn[i] /\ i \in 0 .. n
      <4> HIDE DEF f, e
      <4> QED BY <1>4, <1>6, <1>7, <2>1
    <3> HIDE DEF f, e
    <3> QED BY <3>1
  <2> HIDE DEF col, c, m
  <2> QED BY <2>1
<1>10. ValueOf(c, m) = D /\ D \in Int
  <2> DEFINE x == -qhat
  <2>1. x \in Int /\ \A i \in Nat : i < m => c[i] = f[i] + x * e[i] BY <1>1, <1>8
  <2> HIDE DEF x, c, f, e, m
  <2>2. ValueOf(c, m) = ValueOf(f, m) + x * ValueOf(e, m) BY <1>2, <1>3, <1>6, <1>8, <2>1, ValuesAdd
  <2>3. U + (-qhat) * V = U - qhat * V /\ U - qhat * V \in Int
    <3> HIDE DEF U, V
    <3> QED BY <1>1, SMT
  <2> QED BY <1>5, <2>2, <2>3 DEF x, f
<1>11. rest = Carried(un, j, m, col) BY Zenon DEF MultiplySubtract
<1> DEFINE z == ValueOf(From(rest.d, j), m)
<1>12. /\ rest.d \in Halves /\ rest.c \in Int
       /\ \A p \in Places : p < j \/ p >= j + m => rest.d[p] = un[p]
       /\ z + rest.c * P = D
  <2> HIDE DEF c, col, m, rest, D
  <2> QED BY <1>2, <1>8, <1>9, <1>10, <1>11, CarriedIs
<1> HIDE DEF rest
<1>13. z \in Nat /\ z < P
  <2> DEFINE r == From(rest.d, j)
  <2>1. r \in Columns /\ \A i \in Nat : r[i] \in 0 .. B - 1 BY <1>12, DigitsFrom
  <2> HIDE DEF r, m
  <2>2. ValueOf(r, m) \in Nat /\ ValueOf(r, m) < Place(m) BY <1>2, <2>1, DigitsBound
  <2> QED BY <2>2 DEF r
<1>14. -V <= D /\ D < V
  <2> HIDE DEF U, V
  <2>1. (qhat + 1) * V = qhat * V + V /\ (qhat - 1) * V = qhat * V - V /\ qhat * V \in Int
    BY <1>1, SMT
  <2> QED BY <1>1, <2>1
<1> DEFINE rc == rest.c
           Taken == /\ U \in Nat /\ V \in Nat /\ q \in Nat /\ q < B
                    /\ left \in Halves
                    /\ \A p \in Places : p < j \/ p >= j + m => left[p] = un[p]
                    /\ ValueOf(From(left, j), m) \in Nat /\ ValueOf(From(left, j), m) < V
                    /\ U = q * V + ValueOf(From(left, j), m)
<1> HIDE DEF Taken
<1>15. /\ 0 <= D /\ D < V => rc = 0 /\ z = D
       /\ -V <= D /\ D < 0 => rc = 0 - 1 /\ z = D + P
  <2>1. z \in 0 .. P - 1 /\ rc \in Int /\ z + rc * P = D /\ V < P /\ D \in Int /\ P \in Nat /\ V \in Nat
    <3>1. rc \in Int /\ z + rc * P = D BY <1>12
    <3> HIDE DEF z, P, V, D, rc
    <3>2. Place(n) \in Nat BY PlacesAre
    <3> QED BY <1>1, <1>5, <1>10, <1>13, <3>1, <3>2
  <2> HIDE DEF z, P, V, D, rc
  <2> QED BY <2>1, CarryTells
<1>16. ASSUME rest.c >= 0 PROVE Taken
  <2>1. D >= 0
    <3> HIDE DEF D, z, P, V
    <3>1. D < 0 => rc = 0 - 1 BY <1>14, <1>15
    <3>2. rc >= 0 BY <1>16
    <3> HIDE DEF rc
    <3> QED BY <1>10, <3>1, <3>2
  <2>2. z = D
    <3> HIDE DEF D, z, P, V
    <3> QED BY <1>14, <1>15, <2>1
  <2>3. q = qhat /\ left = rest.d BY <1>16
  <2>4. U = qhat * V + z /\ z < V
    <3> HIDE DEF U, V, z
    <3>1. qhat * V \in Int BY <1>1
    <3> QED BY <1>1, <1>13, <1>14, <2>2, <3>1
  <2> HIDE DEF q, left, U, V, z
  <2>5. z \in Nat /\ z < V /\ ValueOf(From(left, j), m) = z BY <1>13, <2>3, <2>4 DEF z
  <2> QED BY <1>1, <1>12, <2>3, <2>4, <2>5 DEF Taken
<1>17. ASSUME ~(rest.c >= 0) PROVE Taken
  <2>1. D < 0
    <3> HIDE DEF D, z, P, V
    <3>1. D >= 0 => rc = 0 BY <1>14, <1>15
    <3>2. ~(rc >= 0) BY <1>17
    <3> HIDE DEF rc
    <3> QED BY <1>10, <3>1, <3>2
  <2>2. z = D + P
    <3> HIDE DEF D, z, P, V
    <3> QED BY <1>14, <1>15, <2>1
  <2> DEFINE one == 1
             g == From(rest.d, j)
             col2 == [i \in 0 .. n |-> rest.d[j + i] + vn[i]]
             c2 == [i \in Nat |-> g[i] + e[i]]
             r2 == Carried(rest.d, j, m, col2)
             y == ValueOf(From(back, j), m)
  <2>3. /\ g \in Columns
        /\ \A i \in Nat : g[i] \in 0 .. B - 1 /\ g[i] = (IF j + i <= 8 THEN rest.d[j + i] ELSE 0)
    BY <1>12, DigitsFrom
  <2>4. c2 \in Columns /\ one \in Int /\ \A i \in Nat : c2[i] = g[i] + one * e[i]
    <3>1. \A i \in Nat : g[i] \in Int /\ e[i] \in Int BY <1>3, <2>3 DEF Columns
    <3> HIDE DEF g, e
    <3> QED BY <3>1 DEF Columns
  <2>5. \A i \in Nat : i < m => col2[i] = c2[i]
    <3>1. ASSUME NEW i \in Nat, i < m PROVE col2[i] = c2[i]
      <4>1. g[i] = rest.d[j + i] /\ e[i] = vn[i] /\ i \in 0 .. n
        <5> HIDE DEF g, e
        <5> QED BY <1>4, <1>7, <2>3, <3>1
      <4> HIDE DEF g, e
      <4> QED BY <4>1
    <3> HIDE DEF col2, c2, m
    <3> QED BY <3>1
  <2>6. ValueOf(c2, m) = z + V
    <3> HIDE DEF one, c2, g, e, m
    <3>1. ValueOf(c2, m) = ValueOf(g, m) + one * ValueOf(e, m) BY <1>2, <1>3, <2>3, <2>4, ValuesAdd
    <3>2. one * V = V
      <4> HIDE DEF V
      <4> QED BY <1>1 DEF one
    <3> QED BY <1>5, <3>1, <3>2 DEF g
  <2>7. back = r2.d BY Zenon DEF AddBack
  <2>8. /\ r2.d \in Halves /\ r2.c \in Int
        /\ \A p \in Places : p < j \/ p >= j + m => r2.d[p] = rest.d[p]
        /\ ValueOf(From(r2.d, j), m) + r2.c * P = z + V
    <3> HIDE DEF c2, col2, m, z, V
    <3> QED BY <1>2, <1>12, <2>4, <2>5, <2>6, CarriedIs
  <2> HIDE DEF r2, back
  <2>9. y \in Nat /\ y < P
    <3> DEFINE r == From(back, j)
    <3>1. r \in Columns /\ \A i \in Nat : r[i] \in 0 .. B - 1 BY <2>7, <2>8, DigitsFrom
    <3> HIDE DEF r, m
    <3>2. ValueOf(r, m) \in Nat /\ ValueOf(r, m) < Place(m) BY <1>2, <3>1, DigitsBound
    <3> QED BY <3>2 DEF r
  <2>10. y = D + V
    <3> DEFINE F == z + V
    <3>1. F \in Int /\ y + r2.c * P = F /\ P <= F /\ F < P + V /\ F - P = D + V
      <4>1. y + r2.c * P = F BY <2>7, <2>8
      <4> HIDE DEF D, z, P, V, y
      <4> QED BY <1>1, <1>5, <1>10, <1>14, <2>1, <2>2, <4>1
    <3> DEFINE s == r2.c
    <3>2. s \in Int /\ y + s * P = F BY <2>8, <3>1
    <3> HIDE DEF F, D, z, P, V, y, s
    <3>3. y \in 0 .. P - 1 /\ V < P /\ V \in Nat /\ P \in Nat
      <4>1. Place(n) \in Nat BY PlacesAre
      <4> QED BY <1>1, <1>5, <2>9, <4>1
    <3>4. y = F - P BY <3>1, <3>2, <3>3, CarryTells
    <3> QED BY <3>1, <3>4
  <2>11. qhat - 1 \in Nat
    <3> HIDE DEF U, V
    <3>1. qhat = 0 => qhat * V = 0 BY <1>1, ProductsGrow
    <3> QED BY <1>1, <2>1, <3>1
  <2>12. q = qhat - 1 /\ left = back BY <1>17
  <2>13. U = (qhat - 1) * V + y /\ y < V /\ qhat - 1 < B
    <3> HIDE DEF U, V, y
    <3>1. (qhat - 1) * V = qhat * V - V /\ qhat * V \in Int BY <1>1, SMT
    <3> QED BY <1>1, <1>2, <2>1, <2>9, <2>10, <3>1
  <2>14. \A p \in Places : p < j \/ p >= j + m => back[p] = un[p] BY <1>12, <2>7, <2>8
  <2> HIDE DEF q, left, U, V, y
  <2>15. y \in Nat /\ y < V /\ ValueOf(From(left, j), m) = y BY <2>9, <2>12, <2>13 DEF y
  <2> QED BY <1>1, <2>7, <2>8, <2>11, <2>12, <2>13, <2>14, <2>15 DEF Taken
<1>18. Taken BY <1>16, <1>17
<1>19. q = DigitAt(un, vn, n, j) /\ left = LeftAt(un, vn, n, j)
  BY Zenon DEF DigitAt, LeftAt, rest, qhat
<1> HIDE DEF q, left
<1> QED BY <1>18, <1>19 DEF Taken

\* A number whose digits end before a + k, split at a.
LEMMA PartsOf ==
    ASSUME NEW d \in Halves, NEW a \in Nat, NEW k \in Nat, a + k <= 9,
           \A p \in Places : p >= a + k => d[p] = 0
    PROVE  /\ Number(d) = ValueOf(From(d, 0), a) + Place(a) * ValueOf(From(d, a), k)
           /\ Number(d) \in Nat /\ ValueOf(From(d, 0), a) \in Nat /\ ValueOf(From(d, a), k) \in Nat
           /\ ValueOf(From(d, a), k) < Place(k)
<1> DEFINE c == From(d, 0)
           b == From(d, a)
           nine == 9
           m == a + k
<1>1. 0 \in Nat /\ nine \in Nat /\ m \in Nat /\ m <= nine OBVIOUS
<1>2. /\ c \in Columns /\ b \in Columns
      /\ \A i \in Nat : c[i] \in 0 .. B - 1 /\ b[i] \in 0 .. B - 1
      /\ \A i \in Nat : c[i] = (IF 0 + i <= 8 THEN d[0 + i] ELSE 0)
                        /\ b[i] = (IF a + i <= 8 THEN d[a + i] ELSE 0) BY <1>1, DigitsFrom
<1> HIDE DEF c, b
<1>3. \A i \in Nat : i < 9 => c[i] = d[i]
  <2>1. ASSUME NEW i \in Nat, i < 9 PROVE c[i] = d[i]
    <3>1. 0 + i = i /\ i <= 8 BY <2>1
    <3> QED BY <1>2, <3>1
  <2> QED BY <2>1
<1>4. \A i \in Nat : m <= i /\ i < nine => c[i] = 0
  <2>1. \A i \in Nat : i < 9 => i \in Places BY DEF Places
  <2> QED BY <1>3, <2>1
<1>5. \A i \in Nat : i < k => b[i] = c[a + i]
  <2>1. ASSUME NEW i \in Nat, i < k PROVE b[i] = c[a + i]
    <3>1. a + i \in Nat /\ a + i <= 8 /\ a + i < 9 BY <2>1
    <3> QED BY <1>2, <1>3, <3>1
  <2> QED BY <2>1
<1>6. ValueOf(c, nine) = ValueOf(c, m)
  <2> HIDE DEF m, nine
  <2> QED BY <1>1, <1>2, <1>4, ValuesEnd
<1>7. ValueOf(c, m) = ValueOf(c, a) + Place(a) * ValueOf(b, k) BY <1>2, <1>5, ValuesSplit
<1>8. ValueOf(c, a) \in Nat /\ ValueOf(b, k) \in Nat /\ ValueOf(b, k) < Place(k)
  BY <1>2, DigitsBound
<1>9. ValueOf(c, nine) \in Nat
  <2> HIDE DEF nine
  <2> QED BY <1>1, <1>2, DigitsBound
<1> QED BY <1>6, <1>7, <1>8, <1>9 DEF Number, c, b

\* No digits at the top of a number that is small enough.
LEMMA NothingAbove ==
    ASSUME NEW d \in Halves, NEW j \in Nat, NEW n \in Nat, j + n <= 8,
           ValueOf(From(d, j), n + 1) < Place(n)
    PROVE  d[j + n] = 0 /\ ValueOf(From(d, j), n) = ValueOf(From(d, j), n + 1)
<1> DEFINE c == From(d, j)
           m == n + 1
           p == Place(n)
           x == c[n]
           v == ValueOf(c, m)
<1>1. c \in Columns /\ \A i \in Nat : c[i] \in 0 .. B - 1 /\ c[i] = (IF j + i <= 8 THEN d[j + i] ELSE 0)
  BY DigitsFrom
<1>2. m \in Nat /\ n < m /\ p \in Nat /\ p >= 1 /\ B \in Nat BY PlacesAre, Base
<1> HIDE DEF c
<1>3. x \in Nat /\ x = d[j + n] BY <1>1, <1>2
<1>4. x * p <= v /\ v \in Nat
  <2> HIDE DEF m, p
  <2> QED BY <1>1, <1>2, DigitsBound DEF p
<1>5. ValueOf(c, n + 1) = ValueOf(c, n) + x * p /\ ValueOf(c, n) \in Int BY <1>1, Values
<1>6. v < p BY DEF c
<1> HIDE DEF x, v, p
<1>7. x = 0
  <2>1. x # 0 => p <= x * p BY <1>2, <1>3, ProductsGrow
  <2>2. x * p \in Int BY <1>2, <1>3
  <2> QED BY <1>2, <1>3, <1>4, <1>6, <2>1, <2>2
<1>8. x * p = 0 BY <1>2, <1>3, <1>7, ProductsGrow
<1> QED BY <1>3, <1>5, <1>7, <1>8 DEF c

\* The estimate is a natural number.
LEMMA EstimateNatural ==
    ASSUME NEW top \in Nat, NEW u \in Nat, NEW v1 \in Nat \ {0}, NEW v2 \in Nat
    PROVE  Estimated(top, u, v1, v2) \in Nat
<1> DEFINE S == [q : Nat, r : Nat]
           Early(s) == s.r < B /\ (s.q >= B \/ s.q * v2 > B * s.r + u)
           g == [s \in S |-> IF Early(s) THEN [q |-> s.q - 1, r |-> s.r + v1] ELSE s]
           z == [q |-> top \div v1, r |-> top % v1]
<1>1. B \in Nat /\ B >= 2 BY Base
<1>2. ASSUME NEW s \in S, Early(s) PROVE g[s] \in S
  <2>1. s.q \in Nat /\ s.r \in Nat OBVIOUS
  <2>2. s.q # 0
    <3>1. 0 * v2 = 0 /\ B * s.r \in Nat BY <1>1, <2>1, ProductsGrow
    <3> QED BY <1>1, <1>2, <2>1, <3>1
  <2>3. g[s] = [q |-> s.q - 1, r |-> s.r + v1] BY <1>2
  <2>4. s.q - 1 \in Nat /\ s.r + v1 \in Nat BY <2>1, <2>2
  <2> QED BY <2>3, <2>4
<1>3. ASSUME NEW s \in S, ~Early(s) PROVE g[s] = s BY <1>3
<1>4. g \in [S -> S]
  <2>1. \A s \in S : g[s] \in S
    <3> HIDE DEF g, Early
    <3> QED BY <1>2, <1>3
  <2>2. g = [s \in S |-> g[s]] OBVIOUS
  <2> HIDE DEF g, S
  <2> QED BY <2>1, <2>2
<1>5. z \in S
  <2>1. top \div v1 \in Nat /\ top % v1 \in 0 .. v1 - 1 BY Divided
  <2>2. top % v1 \in Nat BY <2>1
  <2> QED BY <2>1, <2>2
<1> DEFINE two == 2
           s == Turned(g, z, two)
<1>6. s \in S
  <2>1. two \in Nat OBVIOUS
  <2> HIDE DEF g, z, S, two
  <2> QED BY <1>4, <1>5, <2>1, TurnsFollow
<1>7. Estimated(top, u, v1, v2) = s.q BY Zenon DEF Estimated
<1> HIDE DEF s
<1> QED BY <1>6, <1>7

\* Digits below the place at hand stay.
LEMMA DigitsStay ==
    ASSUME NEW un \in Halves, NEW vn \in Halves, NEW n \in Nat, NEW j \in Nat, j + n <= 8, NEW q \in Int
    PROVE  /\ MultiplySubtract(un, vn, n, q, j).d \in Halves
           /\ AddBack(un, vn, n, j) \in Halves
<1> DEFINE m == n + 1
           f == From(un, j)
           e == From(vn, 0)
           col1 == [i \in 0 .. n |-> un[j + i] - q * vn[i]]
           col2 == [i \in 0 .. n |-> un[j + i] + vn[i]]
           c1 == [i \in Nat |-> f[i] - q * e[i]]
           c2 == [i \in Nat |-> f[i] + e[i]]
<1>1. 0 \in Nat /\ m \in Nat /\ j + m <= 9 /\ \A i \in Nat : i < m => i \in 0 .. n /\ j + i <= 8 /\ 0 + i = i /\ i <= 8
  OBVIOUS
<1>2. /\ \A i \in Nat : f[i] = (IF j + i <= 8 THEN un[j + i] ELSE 0) /\ e[i] = (IF 0 + i <= 8 THEN vn[0 + i] ELSE 0)
      /\ \A i \in Nat : f[i] \in Int /\ e[i] \in Int BY <1>1, DigitsFrom DEF Columns
<1>3. \A i \in Nat : i < m => f[i] = un[j + i] /\ e[i] = vn[i]
  <2> HIDE DEF f, e, m
  <2> QED BY <1>1, <1>2
<1>4. c1 \in Columns /\ c2 \in Columns
  <2>1. \A x, y \in Int : x - q * y \in Int /\ x + y \in Int BY SMT
  <2> HIDE DEF f, e
  <2> QED BY <1>2, <2>1 DEF Columns
<1>5. \A i \in Nat : i < m => col1[i] = c1[i] /\ col2[i] = c2[i]
  <2>1. ASSUME NEW i \in Nat, i < m PROVE col1[i] = c1[i] /\ col2[i] = c2[i]
    <3>1. f[i] = un[j + i] /\ e[i] = vn[i] /\ i \in 0 .. n
      <4> HIDE DEF f, e, m
      <4> QED BY <1>1, <1>3, <2>1
    <3> HIDE DEF f, e
    <3> QED BY <3>1
  <2> HIDE DEF m, col1, col2, c1, c2
  <2> QED BY <2>1
<1>6. MultiplySubtract(un, vn, n, q, j) = Carried(un, j, m, col1) /\ AddBack(un, vn, n, j) = Carried(un, j, m, col2).d
  BY Zenon DEF MultiplySubtract, AddBack
<1> HIDE DEF m, col1, col2, c1, c2
<1>7. Carried(un, j, m, col1).d \in Halves BY <1>1, <1>4, <1>5, CarriedIs
<1>8. Carried(un, j, m, col2).d \in Halves BY <1>1, <1>4, <1>5, CarriedIs
<1> QED BY <1>6, <1>7, <1>8

\* The long division gives the quotient and leaves the remainder.
LEMMA LongDivisionIs ==
    ASSUME NEW un \in Halves, NEW vn \in Halves, NEW n \in Nat, n >= 2, NEW digits \in Nat, digits + n <= 9,
           n <= 8, vn[n] = 0, Place(n) <= 2 * ValueOf(From(vn, 0), n),
           ValueOf(From(un, digits), n) < ValueOf(From(vn, 0), n),
           \A p \in Places : p >= digits + n => un[p] = 0
    PROVE  LET r == LongDivision(un, vn, n, digits)
               V == ValueOf(From(vn, 0), n)
           IN  /\ r.q \in Nat /\ r.un \in Halves /\ V \in Nat
               /\ ValueOf(From(r.un, 0), n) \in Nat /\ ValueOf(From(r.un, 0), n) < V
               /\ Number(un) = r.q * V + ValueOf(From(r.un, 0), n)
               /\ \A p \in Places : p >= n => r.un[p] = 0
<1> DEFINE V == ValueOf(From(vn, 0), n)
           S == [q : Int, un : Halves, j : 0 .. 9 - n]
           digit(s, j) == DigitAt(s.un, vn, n, j)
           left(s, j) == LeftAt(s.un, vn, n, j)
           g == [s \in S |->
                   IF s.j = 0 THEN s
                   ELSE LET j    == s.j - 1
                            t    == s.un[j + n] * B + s.un[j + n - 1]
                            h    == Estimated(t, s.un[j + n - 2], vn[n - 1], vn[n - 2])
                            r    == MultiplySubtract(s.un, vn, n, h, j)
                        IN  IF r.c >= 0
                            THEN [q |-> s.q + h * TwoTo[HALF * j], un |-> r.d, j |-> j]
                            ELSE [q |-> s.q + (h - 1) * TwoTo[HALF * j],
                                  un |-> AddBack(r.d, vn, n, j), j |-> j]]
           a == [q |-> 0, un |-> un, j |-> digits]
           Sound(s, k) == /\ s.j = digits - k /\ s.q \in Nat
                          /\ ValueOf(From(s.un, s.j), n) < V
                          /\ \A p \in Places : p >= s.j + n => s.un[p] = 0
                          /\ Number(un) = s.q * V + Number(s.un)
           I == [k \in Nat |-> {s \in S : k <= digits => Sound(s, k)}]
<1>1. ASSUME NEW s \in S, s.j # 0
      PROVE  g[s] = [q |-> s.q + digit(s, s.j - 1) * Place(s.j - 1), un |-> left(s, s.j - 1), j |-> s.j - 1]
  <2> DEFINE j == s.j - 1
             t == s.un[j + n] * B + s.un[j + n - 1]
             h == Estimated(t, s.un[j + n - 2], vn[n - 1], vn[n - 2])
             r == MultiplySubtract(s.un, vn, n, h, j)
  <2>1. digit(s, j) = (IF r.c >= 0 THEN h ELSE h - 1) /\ left(s, j) = (IF r.c >= 0 THEN r.d ELSE AddBack(r.d, vn, n, j))
    BY Zenon DEF DigitAt, LeftAt
  <2>2. CASE r.c >= 0
    <3>1. g[s] = [q |-> s.q + h * TwoTo[HALF * j], un |-> r.d, j |-> j] BY <1>1, <2>2
    <3>2. digit(s, j) = h /\ left(s, j) = r.d BY <2>1, <2>2
    <3> HIDE DEF g, h, r, digit, left, j
    <3>3. g[s] = [q |-> s.q + digit(s, j) * Place(j), un |-> left(s, j), j |-> j]
      BY <3>1, <3>2 DEF Place
    <3> QED BY <3>3 DEF j
  <2>3. CASE ~(r.c >= 0)
    <3>1. g[s] = [q |-> s.q + (h - 1) * TwoTo[HALF * j], un |-> AddBack(r.d, vn, n, j), j |-> j]
      BY <1>1, <2>3
    <3>2. digit(s, j) = h - 1 /\ left(s, j) = AddBack(r.d, vn, n, j) BY <2>1, <2>3
    <3> HIDE DEF g, h, r, digit, left, j
    <3>3. g[s] = [q |-> s.q + digit(s, j) * Place(j), un |-> left(s, j), j |-> j]
      BY <3>1, <3>2 DEF Place
    <3> QED BY <3>3 DEF j
  <2> QED BY <2>2, <2>3
<1>2. ASSUME NEW s \in S, s.j = 0 PROVE g[s] = s BY <1>2
<1>3. B \in Nat /\ B >= 2 /\ vn[n - 1] \in 1 .. B - 1 /\ vn[n - 2] \in 0 .. B - 1
      /\ V \in Nat /\ V < Place(n)
  <2> DEFINE e == From(vn, 0)
             k == n - 2
  <2>1. k \in Nat /\ k + 1 \in Nat /\ k + 2 = n /\ 0 + k = n - 2 /\ 0 + (k + 1) = n - 1 /\ 0 + k <= 8 /\ 0 + (k + 1) <= 8
        /\ 0 \in Nat OBVIOUS
  <2>2. /\ e \in Columns
        /\ \A i \in Nat : e[i] \in 0 .. B - 1 /\ e[i] = (IF 0 + i <= 8 THEN vn[0 + i] ELSE 0)
    BY <2>1, DigitsFrom
  <2> HIDE DEF e, k
  <2>3. e[k] = vn[n - 2] /\ e[k + 1] = vn[n - 1] /\ e[k] \in 0 .. B - 1 /\ e[k + 1] \in 0 .. B - 1
    BY <2>1, <2>2
  <2>4. B \in Nat /\ B >= 2 BY Base
  <2> DEFINE E == Place(k)
             w == ValueOf(e, k)
             v1 == e[k + 1]
             v2 == e[k]
  <2>5. E \in Nat /\ E >= 1 /\ w \in 0 .. E - 1 /\ ValueOf(e, k + 2) = (v1 * B + v2) * E + w
        /\ Place(k + 2) = (B * B) * E BY <2>1, <2>2, Leaders
  <2>6. (B * B) * E <= 2 * ((v1 * B + v2) * E + w) BY <2>1, <2>5 DEF e
  <2>7. v1 \in Nat /\ v1 < B /\ v2 \in 0 .. B - 1 BY <2>3, <2>4
  <2> HIDE DEF v1, v2, E, w
  <2>8. B <= 2 * v1 BY <2>5, <2>6, <2>7, LeaderLarge
  <2>9. ValueOf(e, n) \in Nat /\ ValueOf(e, n) < Place(n) BY <2>2, DigitsBound
  <2>10. v1 \in 1 .. B - 1 BY <2>4, <2>7, <2>8
  <2> QED BY <2>3, <2>4, <2>9, <2>10 DEF e, v1
<1> HIDE DEF V
<1>4. ASSUME NEW s \in S, s.j # 0
      PROVE  /\ s.j - 1 \in Nat /\ s.j - 1 \in 0 .. 9 - n /\ (s.j - 1) + n <= 8 /\ (s.j - 1) + 1 = s.j
             /\ digit(s, s.j - 1) \in Int /\ left(s, s.j - 1) \in Halves
  <2> DEFINE j == s.j - 1
  <2>1. j \in Nat /\ j \in 0 .. 9 - n /\ j + n <= 8 /\ j + 1 = s.j /\ s.un \in Halves
        /\ j + n \in Places /\ j + n - 1 \in Places /\ j + n - 2 \in Places BY <1>4 DEF Places
  <2> HIDE DEF j
  <2>2. s.un[j + n] \in Nat /\ s.un[j + n - 1] \in Nat /\ s.un[j + n - 2] \in Nat
    <3>1. \A p \in Places : s.un[p] \in 0 .. B - 1 BY <2>1 DEF Halves
    <3>2. \A x \in 0 .. B - 1 : x \in Nat BY <1>3
    <3> QED BY <2>1, <3>1, <3>2
  <2> DEFINE top == s.un[j + n] * B + s.un[j + n - 1]
             qhat == Estimated(top, s.un[j + n - 2], vn[n - 1], vn[n - 2])
             rest == MultiplySubtract(s.un, vn, n, qhat, j)
  <2>3. top \in Nat BY <1>3, <2>2, ProductsGrow
  <2>4. vn[n - 1] \in Nat \ {0} /\ vn[n - 2] \in Nat BY <1>3
  <2> HIDE DEF top
  <2>5. qhat \in Nat BY <2>2, <2>3, <2>4, EstimateNatural
  <2> HIDE DEF qhat
  <2>6. qhat \in Int /\ qhat - 1 \in Int BY <2>5
  <2>7. rest.d \in Halves BY <2>1, <2>6, DigitsStay
  <2> HIDE DEF rest
  <2>8. AddBack(rest.d, vn, n, j) \in Halves BY <2>1, <2>6, <2>7, DigitsStay
  <2>9. digit(s, j) \in Int /\ left(s, j) \in Halves
    <3>1. digit(s, j) = (IF rest.c >= 0 THEN qhat ELSE qhat - 1)
          /\ left(s, j) = (IF rest.c >= 0 THEN rest.d ELSE AddBack(rest.d, vn, n, j))
      BY Zenon DEF DigitAt, LeftAt, rest, qhat, top
    <3> HIDE DEF digit, left
    <3> QED BY <2>6, <2>7, <2>8, <3>1
  <2> QED BY <2>1, <2>9 DEF j
<1>5. g \in [S -> S]
  <2>1. ASSUME NEW s \in S, s.j # 0 PROVE g[s] \in S
    <3> DEFINE d == digit(s, s.j - 1)
               l == left(s, s.j - 1)
               p == Place(s.j - 1)
               i == s.j - 1
    <3>1. g[s] = [q |-> s.q + d * p, un |-> l, j |-> i] BY <1>1, <2>1
    <3>2. d \in Int /\ l \in Halves /\ p \in Int /\ i \in 0 .. 9 - n
      <4>1. i \in Nat BY <1>4, <2>1
      <4> HIDE DEF digit, left
      <4> QED BY <1>4, <2>1, <4>1, PlacesAre
    <3>3. s.q \in Int OBVIOUS
    <3> HIDE DEF d, l, p, i, g
    <3>4. s.q + d * p \in Int BY <3>2, <3>3
    <3> QED BY <3>1, <3>2, <3>4
  <2>2. ASSUME NEW s \in S PROVE g[s] \in S
    <3> HIDE DEF g, S
    <3> QED BY <1>2, <2>1
  <2>3. g = [s \in S |-> g[s]] OBVIOUS
  <2> HIDE DEF g, S
  <2> QED BY <2>2, <2>3
<1>6. a \in S /\ a \in I[0]
  <2>1. a \in S /\ a.q = 0 /\ a.un = un /\ a.j = digits OBVIOUS
  <2>2. digits - 0 = digits /\ 0 * V = 0 BY <1>3
  <2>3. Number(un) \in Nat
    <3> DEFINE zero == 0
               nine == 9
    <3>1. zero \in Nat /\ nine \in Nat /\ zero + nine <= 9 /\ \A p \in Places : ~(p >= zero + nine)
      BY DEF Places
    <3> HIDE DEF zero, nine
    <3> QED BY <3>1, PartsOf
  <2> HIDE DEF a
  <2>4. Sound(a, 0)
    <3>1. Number(un) = 0 * V + Number(un) BY <2>2, <2>3
    <3>2. a.q \in Nat /\ a.j = digits - 0 /\ ValueOf(From(a.un, a.j), n) < V BY <2>1, <2>2 DEF V
    <3>3. \A p \in Places : p >= a.j + n => a.un[p] = 0 BY <2>1
    <3> QED BY <2>1, <3>1, <3>2, <3>3
  <2> HIDE DEF Sound
  <2> QED BY <2>1, <2>4
<1>7. ASSUME NEW k \in Nat, NEW s \in S, s \in I[k] PROVE g[s] \in I[k + 1]
  <2>1. k + 1 \in Nat /\ g[s] \in S
    <3> HIDE DEF g, S
    <3> QED BY <1>5
  <2> SUFFICES ASSUME k + 1 <= digits PROVE Sound(g[s], k + 1)
    <3> HIDE DEF g, Sound, S
    <3> QED BY <2>1
  <2>2. Sound(s, k)
    <3> HIDE DEF Sound, g
    <3> QED BY <1>7
  <2> DEFINE j == s.j - 1
             un1 == s.un
             un2 == left(s, j)
             d == digit(s, j)
             m == n + 1
             U == ValueOf(From(un1, j), m)
             new == ValueOf(From(un2, j), m)
  <2>3. s.j # 0 /\ s.j = digits - k BY <2>2
  <2>4. /\ j \in Nat /\ j + n <= 8 /\ j + 1 = s.j /\ j = digits - (k + 1)
        /\ m \in Nat /\ j + m <= 9 /\ j + m = s.j + n /\ un1 \in Halves
    <3>1. j \in Nat /\ j + n <= 8 /\ j + 1 = s.j BY <1>4, <2>3
    <3> QED BY <2>3, <3>1
  <2>5. /\ s.q \in Nat /\ ValueOf(From(un1, j + 1), n) < V
        /\ \A p \in Places : p >= j + m => un1[p] = 0
        /\ Number(un) = s.q * V + Number(un1) BY <2>2, <2>4
  <2>6. g[s].q = s.q + d * Place(j) /\ g[s].un = un2 /\ g[s].j = j
    <3>1. g[s] = [q |-> s.q + d * Place(j), un |-> un2, j |-> j]
      <4> HIDE DEF g, S, digit, left
      <4> QED BY <1>1, <2>3
    <3> DEFINE x == s.q + d * Place(j)
    <3>2. g[s] = [q |-> x, un |-> un2, j |-> j] BY <3>1
    <3> HIDE DEF x, un2, j, g
    <3>3. g[s].q = x /\ g[s].un = un2 /\ g[s].j = j BY <3>2
    <3> QED BY <3>3 DEF x
  <2> HIDE DEF j, un1
  <2>7. /\ U \in Nat /\ d \in Nat /\ un2 \in Halves
        /\ \A p \in Places : p < j \/ p >= j + m => un2[p] = un1[p]
        /\ new \in Nat /\ new < V /\ U = d * V + new
    <3>1. d = DigitAt(un1, vn, n, j) /\ un2 = LeftAt(un1, vn, n, j) BY Zenon DEF un1
    <3> HIDE DEF d, un2, S, g, I, Sound
    <3> QED BY <2>4, <2>5, <3>1, DigitTaken DEF V
  <2> HIDE DEF g, d, un2
  <2>8. un2[j + n] = 0 /\ ValueOf(From(un2, j), n) = new
    <3>1. Place(n) \in Nat BY PlacesAre
    <3>2. new < Place(n)
      <4> HIDE DEF new
      <4> QED BY <1>3, <2>7, <3>1
    <3> QED BY <2>4, <2>7, <3>2, NothingAbove
  <2>9. \A p \in Places : p >= j + n => un2[p] = 0
    <3>1. ASSUME NEW p \in Places, p >= j + n PROVE un2[p] = 0
      <4>1. p = j + n \/ p >= j + m BY <2>4, <3>1 DEF Places
      <4> QED BY <2>5, <2>7, <2>8, <4>1
    <3> QED BY <3>1
  <2> DEFINE low == ValueOf(From(un1, 0), j)
             p == Place(j)
  <2>10. Number(un1) = low + p * U /\ low \in Nat
    <3>1. \A i \in Places : i >= j + m => un1[i] = 0 BY <2>5
    <3>2. un1 \in Halves /\ j \in Nat /\ m \in Nat /\ j + m <= 9 BY <2>4
    <3> HIDE DEF m, S
    <3>3. Number(un1) = ValueOf(From(un1, 0), j) + Place(j) * ValueOf(From(un1, j), m)
      BY <3>1, <3>2, PartsOf
    <3>4. ValueOf(From(un1, 0), j) \in Nat BY <3>1, <3>2, PartsOf
    <3> QED BY <3>3, <3>4
  <2>11. Number(un2) = ValueOf(From(un2, 0), j) + p * new
    <3>1. \A i \in Places : i >= j + m => un2[i] = 0 BY <2>5, <2>7
    <3> HIDE DEF m
    <3> QED BY <2>4, <2>7, <3>1, PartsOf
  <2>12. ValueOf(From(un2, 0), j) = low
    <3> DEFINE c1 == From(un1, 0)
               c2 == From(un2, 0)
    <3>1. /\ c1 \in Columns /\ c2 \in Columns
          /\ \A i \in Nat : c1[i] = (IF 0 + i <= 8 THEN un1[0 + i] ELSE 0)
                             /\ c2[i] = (IF 0 + i <= 8 THEN un2[0 + i] ELSE 0)
      <4>1. 0 \in Nat OBVIOUS
      <4> QED BY <2>4, <2>7, <4>1, DigitsFrom
    <3> HIDE DEF c1, c2
    <3>2. ASSUME NEW i \in Nat, i < j PROVE c2[i] = c1[i]
      <4>1. 0 + i = i /\ i <= 8 /\ i \in Places BY <2>4, <3>2 DEF Places
      <4>2. un2[i] = un1[i] BY <2>7, <3>2, <4>1
      <4> QED BY <3>1, <4>1, <4>2
    <3>3. ValueOf(c2, j) = ValueOf(c1, j) BY <2>4, <3>1, <3>2, ValuesAgree
    <3> QED BY <3>3 DEF c1, c2
  <2>13. p \in Nat BY <2>4, PlacesAre
  <2> DEFINE N1 == Number(un1)
             N2 == Number(un2)
             N0 == Number(un)
             q0 == s.q
  <2>14. N1 = low + p * U /\ N2 = low + p * new /\ N0 = q0 * V + N1 BY <2>5, <2>10, <2>11, <2>12
  <2>15. N0 = (q0 + d * p) * V + N2 /\ q0 + d * p \in Nat
    <3>1. low \in Nat /\ U \in Nat /\ new \in Nat /\ d \in Nat /\ q0 \in Nat /\ U = d * V + new
      BY <2>5, <2>7, <2>10
    <3> HIDE DEF low, U, new, N1, N2, N0, q0, p
    <3>2. p * U = p * (d * V) + p * new
      <4> DEFINE x == d * V
      <4>1. x \in Int BY <1>3, <3>1
      <4>2. U = x + new BY <3>1
      <4> HIDE DEF x
      <4>3. p * (x + new) = p * x + p * new BY <2>13, <3>1, <4>1, SMT
      <4> QED BY <4>2, <4>3 DEF x
    <3>3. p * (d * V) = (d * p) * V BY <1>3, <2>13, <3>1, SMT
    <3>4. d * p \in Nat BY <2>13, <3>1, ProductsGrow
    <3> DEFINE y == d * p
    <3>5. y \in Nat BY <3>4
    <3>6. p * U = y * V + p * new BY <3>2, <3>3
    <3> HIDE DEF y
    <3>7. (q0 + y) * V = q0 * V + y * V BY <1>3, <3>1, <3>5, SMT
    <3>8. q0 * V \in Int /\ y * V \in Int /\ p * new \in Int /\ q0 + y \in Nat
      BY <1>3, <2>13, <3>1, <3>5
    <3>9. N0 = (q0 + y) * V + N2 BY <2>14, <3>1, <3>6, <3>7, <3>8
    <3> QED BY <3>8, <3>9 DEF y
  <2> HIDE DEF new
  <2> QED BY <2>4, <2>6, <2>7, <2>8, <2>9, <2>15
<1> DEFINE r == Turned(g, a, digits)
<1>8. r \in S /\ Sound(r, digits)
  <2>1. r \in I[digits] /\ r \in S
    <3> HIDE DEF g, a, I, S
    <3> QED BY <1>5, <1>6, <1>7, LoopKeeps
  <2> HIDE DEF Sound, r
  <2> QED BY <2>1
<1>9. LongDivision(un, vn, n, digits) = r BY Zenon DEF LongDivision
<1> HIDE DEF r, g, a
<1>10. /\ r.q \in Nat /\ r.un \in Halves /\ r.j = 0
       /\ ValueOf(From(r.un, 0), n) < V
       /\ \A p \in Places : p >= n => r.un[p] = 0
       /\ Number(un) = r.q * V + Number(r.un)
  <2>1. r.j = 0 BY <1>8
  <2>2. 0 + n = n OBVIOUS
  <2> QED BY <1>8, <2>1, <2>2
<1>11. Number(r.un) = ValueOf(From(r.un, 0), n) /\ ValueOf(From(r.un, 0), n) \in Nat
  <2> DEFINE c == From(r.un, 0)
             nine == 9
  <2>1. /\ c \in Columns /\ nine \in Nat /\ n <= nine
        /\ \A i \in Nat : c[i] \in 0 .. B - 1 /\ c[i] = (IF 0 + i <= 8 THEN r.un[0 + i] ELSE 0)
    <3>1. 0 \in Nat OBVIOUS
    <3> QED BY <1>10, <3>1, DigitsFrom
  <2> HIDE DEF c
  <2>2. ASSUME NEW i \in Nat, n <= i, i < nine PROVE c[i] = 0
    <3>1. 0 + i = i /\ i <= 8 /\ i \in Places BY <2>2 DEF Places
    <3> QED BY <1>10, <2>1, <2>2, <3>1
  <2> HIDE DEF nine
  <2>3. ValueOf(c, nine) = ValueOf(c, n) BY <2>1, <2>2, ValuesEnd
  <2>4. ValueOf(c, n) \in Nat BY <2>1, DigitsBound
  <2> QED BY <2>3, <2>4 DEF c, nine, Number
<1> QED BY <1>3, <1>9, <1>10, <1>11 DEF V

\* The digits from the lowest on.
LEMMA DigitsAtZero ==
    ASSUME NEW d \in Halves
    PROVE  /\ From(d, 0) \in Columns
           /\ \A i \in Nat : From(d, 0)[i] \in 0 .. B - 1
           /\ \A i \in Places : From(d, 0)[i] = d[i] /\ d[i] \in 0 .. B - 1
           /\ Number(d) \in Nat /\ Number(d) < Place(9)
<1> DEFINE c == From(d, 0)
           nine == 9
<1>1. /\ c \in Columns
      /\ \A i \in Nat : c[i] \in 0 .. B - 1 /\ c[i] = (IF 0 + i <= 8 THEN d[0 + i] ELSE 0)
  <2>1. 0 \in Nat OBVIOUS
  <2> QED BY <2>1, DigitsFrom
<1> HIDE DEF c
<1>2. ASSUME NEW i \in Places PROVE c[i] = d[i] /\ d[i] \in 0 .. B - 1
  <2>1. i \in Nat /\ 0 + i <= 8 /\ 0 + i = i BY DEF Places
  <2> QED BY <1>1, <2>1
<1>3. nine \in Nat OBVIOUS
<1> HIDE DEF nine
<1>4. ValueOf(c, nine) \in Nat /\ ValueOf(c, nine) < Place(nine) BY <1>1, <1>3, DigitsBound
<1> QED BY <1>1, <1>2, <1>4 DEF c, nine, Number

\* The division by a single digit.
LEMMA ShortDivisionIs ==
    ASSUME NEW u \in Halves, NEW v \in Nat \ {0}, NEW digits \in 0 .. 9,
           \A p \in Places : p >= digits => u[p] = 0
    PROVE  LET r == ShortDivision(u, v, digits)
           IN  /\ r.q \in Nat /\ r.k \in Nat /\ r.k < v
               /\ Number(u) = r.q * v + r.k
<1> DEFINE S == [q : Nat, k : Nat, j : 0 .. 9]
           c == From(u, 0)
           t(s) == s.k * B + u[s.j - 1]
           g == [s \in S |->
                   IF s.j = 0 THEN s
                   ELSE LET x == s.k * B + u[s.j - 1]
                        IN  [q |-> s.q + (x \div v) * TwoTo[HALF * (s.j - 1)], k |-> x % v, j |-> s.j - 1]]
           a == [q |-> 0, k |-> 0, j |-> digits]
           Sound(s, n) == /\ s.j = digits - n /\ s.k < v
                          /\ Number(u) = s.q * v + s.k * Place(s.j) + ValueOf(c, s.j)
           I == [n \in Nat |-> {s \in S : n <= digits => Sound(s, n)}]
<1>1. /\ c \in Columns /\ \A i \in Nat : c[i] \in 0 .. B - 1
      /\ \A i \in Places : c[i] = u[i] /\ u[i] \in 0 .. B - 1
      /\ B \in Nat /\ B >= 2 /\ Number(u) \in Nat BY DigitsAtZero, Base
<1> HIDE DEF c
<1>2. ASSUME NEW s \in S, s.j # 0
      PROVE  LET i == s.j - 1
                 q == t(s) \div v
                 r == t(s) % v
             IN  /\ i \in Nat /\ i \in Places /\ i + 1 = s.j /\ i \in 0 .. 9 /\ c[i] = u[i] /\ u[i] \in Nat
                 /\ t(s) \in Nat /\ q \in Nat /\ r \in Nat /\ r < v /\ t(s) = q * v + r
                 /\ Place(i) \in Nat /\ Place(s.j) = B * Place(i)
                 /\ g[s] = [q |-> s.q + q * Place(i), k |-> r, j |-> i]
                 /\ g[s] \in S
  <2> DEFINE i == s.j - 1
             q == t(s) \div v
             r == t(s) % v
  <2>1. i \in Nat /\ i \in Places /\ i + 1 = s.j /\ i \in 0 .. 9 /\ s.k \in Nat /\ s.q \in Nat
    BY <1>2 DEF Places
  <2>2. c[i] = u[i] /\ u[i] \in Nat
    <3>1. u[i] \in 0 .. B - 1 /\ c[i] = u[i] BY <1>1, <2>1
    <3> QED BY <1>1, <3>1
  <2>3. t(s) \in Nat
    <3>1. s.k * B \in Nat BY <1>1, <2>1, ProductsGrow
    <3> QED BY <2>2, <3>1
  <2>4. g[s] = [q |-> s.q + q * Place(i), k |-> r, j |-> i] BY <1>2 DEF Place
  <2>5. Place(i) \in Nat /\ Place(s.j) = B * Place(i)
    <3>1. Place(i) \in Nat /\ Place(i + 1) = B * Place(i) BY <2>1, PlacesAre
    <3> QED BY <2>1, <3>1
  <2> HIDE DEF t, g, i
  <2>6. q \in Nat /\ r \in 0 .. v - 1 /\ t(s) = q * v + r
    <3>1. q \in Nat /\ r \in 0 .. v - 1 /\ t(s) = v * q + r /\ v * q = q * v BY <2>3, Divided
    <3> QED BY <3>1
  <2>7. r \in Nat /\ r < v BY <2>6
  <2> HIDE DEF q, r
  <2>8. s.q + q * Place(i) \in Nat
    <3>1. q * Place(i) \in Nat BY <2>5, <2>6, ProductsGrow
    <3> QED BY <2>1, <3>1
  <2>9. g[s] \in S BY <2>1, <2>4, <2>7, <2>8
  <2> QED BY <2>1, <2>2, <2>3, <2>4, <2>5, <2>6, <2>7, <2>9 DEF i, q, r
<1>3. ASSUME NEW s \in S, s.j = 0 PROVE g[s] = s BY <1>3
<1>4. g \in [S -> S]
  <2>1. \A s \in S : g[s] \in S
    <3> HIDE DEF g, S
    <3> QED BY <1>2, <1>3
  <2>2. g = [s \in S |-> g[s]] OBVIOUS
  <2> HIDE DEF g, S
  <2> QED BY <2>1, <2>2
<1>5. a \in S /\ a \in I[0]
  <2>1. a \in S /\ a.q = 0 /\ a.k = 0 /\ a.j = digits OBVIOUS
  <2>2. digits \in Nat /\ digits <= 9 /\ digits - 0 = digits /\ 0 * v = 0 /\ 0 < v OBVIOUS
  <2>3. 0 * Place(digits) = 0
    <3>1. Place(digits) \in Nat BY <2>2, PlacesAre
    <3> QED BY <3>1
  <2> DEFINE nine == 9
  <2>4. ValueOf(c, nine) = ValueOf(c, digits) /\ ValueOf(c, digits) \in Nat
    <3>1. nine \in Nat /\ digits \in Nat /\ digits <= nine /\ \A i \in Nat : digits <= i /\ i < nine => c[i] = 0
      <4>1. \A i \in Nat : i < 9 => i \in Places BY DEF Places
      <4> QED BY <1>1, <2>2, <4>1
    <3> HIDE DEF nine
    <3> QED BY <1>1, <3>1, ValuesEnd, DigitsBound
  <2>5. Number(u) = ValueOf(c, digits) BY <2>4 DEF Number, c
  <2> HIDE DEF a
  <2>6. Sound(a, 0)
    <3> DEFINE x == ValueOf(c, digits)
    <3>1. x \in Nat /\ Number(u) = x BY <2>4, <2>5
    <3> HIDE DEF x
    <3>2. Number(u) = 0 * v + 0 * Place(digits) + x BY <2>2, <2>3, <3>1
    <3>3. Number(u) = a.q * v + a.k * Place(a.j) + ValueOf(c, a.j) BY <2>1, <3>2 DEF x
    <3> QED BY <2>1, <2>2, <3>3
  <2> HIDE DEF Sound
  <2> QED BY <2>1, <2>6
<1>6. ASSUME NEW n \in Nat, NEW s \in S, s \in I[n] PROVE g[s] \in I[n + 1]
  <2>1. n + 1 \in Nat /\ g[s] \in S
    <3> HIDE DEF g, S
    <3> QED BY <1>4
  <2> SUFFICES ASSUME n + 1 <= digits PROVE Sound(g[s], n + 1)
    <3> HIDE DEF g, Sound, S
    <3> QED BY <2>1
  <2>2. Sound(s, n)
    <3> HIDE DEF Sound, g
    <3> QED BY <1>6
  <2>3. s.j # 0 /\ s.j = digits - n BY <2>2
  <2> DEFINE i == s.j - 1
             q == t(s) \div v
             r == t(s) % v
             p == Place(i)
             x == t(s)
             w == ValueOf(c, i)
             d == u[i]
             k == s.k
             q0 == s.q
  <2>4. /\ i \in Nat /\ i + 1 = s.j /\ c[i] = d /\ d \in Nat
        /\ x \in Nat /\ q \in Nat /\ r \in Nat /\ r < v /\ x = q * v + r
        /\ p \in Nat /\ Place(s.j) = B * p
        /\ g[s] = [q |-> q0 + q * p, k |-> r, j |-> i]
    <3> HIDE DEF g, t
    <3> QED BY <1>2, <2>3
  <2>5. k \in Nat /\ q0 \in Nat /\ x = k * B + d OBVIOUS
  <2>6. w \in Nat /\ ValueOf(c, s.j) = w + d * p
    <3>1. ValueOf(c, i + 1) = ValueOf(c, i) + c[i] * Place(i) /\ ValueOf(c, i) \in Nat
      <4> HIDE DEF i
      <4> QED BY <1>1, <2>4, Values, DigitsBound
    <3> QED BY <2>4, <3>1
  <2>7. Number(u) = q0 * v + k * (B * p) + (w + d * p) BY <2>2, <2>4, <2>6
  <2> HIDE DEF i, q, r, p, x, w, d, k, q0, g
  <2>8. g[s].q = q0 + q * p /\ g[s].k = r /\ g[s].j = i
    <3> DEFINE y == q0 + q * p
    <3>1. g[s] = [q |-> y, k |-> r, j |-> i] BY <2>4
    <3> HIDE DEF y
    <3>2. g[s].q = y /\ g[s].k = r /\ g[s].j = i BY <3>1
    <3> QED BY <3>2 DEF y
  <2>9. k * (B * p) + d * p = x * p
    <3>1. k * (B * p) = (k * B) * p BY <1>1, <2>4, <2>5, SMT
    <3> DEFINE y == k * B
    <3>2. y \in Int /\ x = y + d BY <1>1, <2>5
    <3> HIDE DEF y
    <3>3. (y + d) * p = y * p + d * p BY <2>4, <3>2, SMT
    <3> QED BY <3>1, <3>2, <3>3 DEF y
  <2>10. x * p = (q * p) * v + r * p
    <3>1. (q * v) * p = (q * p) * v BY <2>4, SMT
    <3> DEFINE y == q * v
    <3>2. y \in Int /\ x = y + r BY <2>4
    <3> HIDE DEF y
    <3>3. (y + r) * p = y * p + r * p BY <2>4, <3>2, SMT
    <3> QED BY <3>1, <3>2, <3>3 DEF y
  <2>11. (q0 + q * p) * v = q0 * v + (q * p) * v
    <3> DEFINE y == q * p
    <3>1. y \in Int BY <2>4
    <3> HIDE DEF y
    <3>2. (q0 + y) * v = q0 * v + y * v BY <2>5, <3>1, SMT
    <3> QED BY <3>2 DEF y
  <2>12. Number(u) = (q0 + q * p) * v + r * p + w
    <3> DEFINE e1 == k * (B * p)
               e2 == d * p
               e3 == (q * p) * v
               e4 == r * p
               e5 == q0 * v
               e6 == (q0 + q * p) * v
    <3>1. e1 \in Int /\ e2 \in Int /\ e3 \in Int /\ e4 \in Int /\ e5 \in Int /\ e6 \in Int
      <4>1. B * p \in Int /\ q * p \in Int BY <1>1, <2>4
      <4>2. q0 + q * p \in Int BY <2>5, <4>1
      <4> QED BY <2>4, <2>5, <4>1, <4>2
    <3>2. Number(u) = e5 + e1 + (w + e2) /\ e1 + e2 = e3 + e4 /\ e6 = e5 + e3
      BY <2>7, <2>9, <2>10, <2>11
    <3> HIDE DEF e1, e2, e3, e4, e5, e6
    <3>3. Number(u) = e6 + e4 + w BY <2>6, <3>1, <3>2
    <3> QED BY <3>3 DEF e4, e6
  <2>13. i = digits - (n + 1) BY <2>3 DEF i
  <2>14. Number(u) = g[s].q * v + g[s].k * Place(g[s].j) + ValueOf(c, g[s].j)
    BY <2>8, <2>12 DEF p, w
  <2> QED BY <2>4, <2>8, <2>13, <2>14
<1> DEFINE r == Turned(g, a, digits)
<1>7. r \in S /\ Sound(r, digits)
  <2>1. r \in I[digits] /\ r \in S /\ digits \in Nat
    <3>1. digits \in Nat OBVIOUS
    <3> HIDE DEF g, a, I, S
    <3> QED BY <1>4, <1>5, <1>6, <3>1, LoopKeeps
  <2> HIDE DEF Sound, r
  <2> QED BY <2>1
<1>8. ShortDivision(u, v, digits) = r BY Zenon DEF ShortDivision
<1> HIDE DEF r, g, a
<1>9. r.q \in Nat /\ r.k \in Nat /\ r.k < v /\ r.j = 0
      /\ Number(u) = r.q * v + r.k * Place(r.j) + ValueOf(c, r.j) BY <1>7
<1>10. Place(0) = 1 /\ ValueOf(c, 0) = 0 BY <1>1, Values, PlacesAre
<1>11. r.k * 1 = r.k /\ r.q * v \in Int BY <1>9
<1>12. Number(u) = r.q * v + r.k * 1 + 0 BY <1>9, <1>10
<1>13. Number(u) = r.q * v + r.k
  <2> DEFINE x == r.k * 1
             y == r.q * v
             z == r.k
  <2>1. x = z /\ y \in Int /\ z \in Nat /\ Number(u) = y + x + 0 BY <1>9, <1>11, <1>12
  <2> HIDE DEF x, y, z
  <2>2. Number(u) = y + z BY <2>1
  <2> QED BY <2>2 DEF y, z
<1> QED BY <1>8, <1>9, <1>13

\* The four lowest digits as a word.
LEMMA PackedUp ==
    ASSUME NEW d \in Halves, \A p \in Places : p >= 4 => d[p] = 0
    PROVE  packup(d, 0) = Number(d)
<1> DEFINE c == From(d, 0)
           nine == 9
           four == 4
<1>1. /\ c \in Columns /\ \A i \in Places : c[i] = d[i] BY DigitsAtZero
<1>2. 0 \in Places /\ 1 \in Places /\ 2 \in Places /\ 3 \in Places BY DEF Places
<1>3. ValueOf(c, nine) = ValueOf(c, four)
  <2>1. four \in Nat /\ nine \in Nat /\ four <= nine /\ \A i \in Nat : four <= i /\ i < nine => c[i] = 0
    <3>1. \A i \in Nat : i < 9 => i \in Places BY DEF Places
    <3> HIDE DEF c
    <3> QED BY <1>1, <3>1
  <2> HIDE DEF c, four, nine
  <2> QED BY <1>1, <2>1, ValuesEnd
<1> HIDE DEF c
<1> DEFINE x0 == d[0]
           x1 == d[1]
           x2 == d[2]
           x3 == d[3]
<1>4. c[0] = x0 /\ c[1] = x1 /\ c[2] = x2 /\ c[3] = x3
      /\ x0 \in Int /\ x1 \in Int /\ x2 \in Int /\ x3 \in Int
  <2>1. c[0] = x0 /\ c[1] = x1 /\ c[2] = x2 /\ c[3] = x3 BY <1>1, <1>2
  <2>2. c[0] \in Int /\ c[1] \in Int /\ c[2] \in Int /\ c[3] \in Int BY <1>1 DEF Columns
  <2> QED BY <2>1, <2>2
<1>5. /\ Place(0) = 1 /\ Place(1) = B /\ Place(2) = B * B /\ Place(3) = B * (B * B) /\ B \in Nat
  <2>1. Place(0) = 1 /\ Place(1) = B /\ Place(1 + 1) = B * Place(1) /\ Place(2 + 1) = B * Place(2) /\ B \in Nat
    BY PlacesAre, Base
  <2>2. 1 + 1 = 2 /\ 2 + 1 = 3 OBVIOUS
  <2> QED BY <2>1, <2>2
<1>6. /\ ValueOf(c, 0) = 0
      /\ ValueOf(c, 0 + 1) = ValueOf(c, 0) + c[0] * Place(0)
      /\ ValueOf(c, 1 + 1) = ValueOf(c, 1) + c[1] * Place(1)
      /\ ValueOf(c, 2 + 1) = ValueOf(c, 2) + c[2] * Place(2)
      /\ ValueOf(c, 3 + 1) = ValueOf(c, 3) + c[3] * Place(3) BY <1>1, Values
<1> HIDE DEF x0, x1, x2, x3
<1>7. ValueOf(c, four) = x0 + x1 * B + x2 * (B * B) + x3 * (B * (B * B))
  <2>1. 0 + 1 = 1 /\ 1 + 1 = 2 /\ 2 + 1 = 3 /\ 3 + 1 = four /\ x0 * 1 = x0 /\ 0 + x0 = x0 BY <1>4
  <2>2. ValueOf(c, 1) = x0 BY <1>4, <1>5, <1>6, <2>1
  <2>3. ValueOf(c, 2) = x0 + x1 * B BY <1>4, <1>5, <1>6, <2>1, <2>2
  <2>4. ValueOf(c, 3) = x0 + x1 * B + x2 * (B * B) BY <1>4, <1>5, <1>6, <2>1, <2>3
  <2> QED BY <1>4, <1>5, <1>6, <2>1, <2>4
<1>8. packup(d, 0) = x0 + B * (x1 + B * (x2 + B * x3))
  <2>1. 0 + 1 = 1 /\ 0 + 2 = 2 /\ 0 + 3 = 3 OBVIOUS
  <2> QED BY <2>1 DEF packup, x0, x1, x2, x3
<1>9. x0 + B * (x1 + B * (x2 + B * x3)) = x0 + x1 * B + x2 * (B * B) + x3 * (B * (B * B))
  <2> DEFINE y3 == B * x3
             y2 == B * (x2 + y3)
  <2>1. y3 \in Int /\ y2 \in Int /\ y2 = B * x2 + B * y3 BY <1>4, <1>5, SMT
  <2>2. B * (B * x2) = x2 * (B * B) /\ B * (B * y3) = x3 * (B * (B * B)) /\ B * x1 = x1 * B
    BY <1>4, <1>5, SMT
  <2>3. B * (x1 + y2) = B * x1 + B * y2
    <3> HIDE DEF y2
    <3> QED BY <1>4, <1>5, <2>1, SMT
  <2>4. B * y2 = B * (B * x2) + B * (B * y3)
    <3> DEFINE z2 == B * x2
               z3 == B * y3
    <3>1. z2 \in Int /\ z3 \in Int /\ y2 = z2 + z3 BY <1>4, <1>5, <2>1
    <3> HIDE DEF z2, z3, y2
    <3>2. B * (z2 + z3) = B * z2 + B * z3 BY <1>5, <3>1, SMT
    <3> QED BY <3>1, <3>2 DEF z2, z3
  <2> DEFINE a == x1 * B
             b == x2 * (B * B)
             e == x3 * (B * (B * B))
  <2>5. a \in Int /\ b \in Int /\ e \in Int BY <1>4, <1>5
  <2>6. B * (x1 + y2) = a + (b + e) BY <2>2, <2>3, <2>4
  <2> HIDE DEF a, b, e, y2
  <2>7. x0 + B * (x1 + y2) = x0 + a + b + e BY <1>4, <2>5, <2>6
  <2> QED BY <2>7 DEF a, b, e, y2
<1> QED BY <1>3, <1>7, <1>8, <1>9 DEF c, nine, Number

\* The highest significant digit is the leading one.
LEMMA LeadingDigit ==
    ASSUME NEW v \in Halves, NEW n \in 1 .. 8, \A p \in Places : p >= n => v[p] = 0
    PROVE  LET E == Place(n - 1)
               w == ValueOf(From(v, 0), n - 1)
           IN  /\ E \in Nat /\ E >= 1 /\ w \in Nat /\ w < E /\ Place(n) = B * E
               /\ v[n - 1] \in Nat /\ v[n - 1] < B
               /\ Number(v) = v[n - 1] * E + w
<1> DEFINE c == From(v, 0)
           k == n - 1
           nine == 9
<1>1. k \in Nat /\ k + 1 = n /\ n \in Nat /\ n <= nine /\ nine \in Nat /\ k \in Places /\ B \in Nat
  BY Base DEF Places
<1>2. c \in Columns /\ (\A i \in Nat : c[i] \in 0 .. B - 1) /\ \A i \in Places : c[i] = v[i]
  BY DigitsAtZero
<1>3. \A i \in Nat : n <= i /\ i < nine => c[i] = 0
  <2>1. \A i \in Nat : i < 9 => i \in Places BY DEF Places
  <2> HIDE DEF c
  <2> QED BY <1>1, <1>2, <2>1
<1> HIDE DEF c, k, nine
<1>4. ValueOf(c, nine) = ValueOf(c, n) BY <1>1, <1>2, <1>3, ValuesEnd
<1>5. ValueOf(c, k + 1) = ValueOf(c, k) + c[k] * Place(k) BY <1>1, <1>2, Values
<1>6. ValueOf(c, k) \in Nat /\ ValueOf(c, k) < Place(k) BY <1>1, <1>2, DigitsBound
<1>7. Place(k) \in Nat /\ Place(k) >= 1 /\ Place(k + 1) = B * Place(k) BY <1>1, PlacesAre
<1>8. c[k] = v[k] /\ v[k] \in Nat /\ v[k] < B
  <2>1. c[k] = v[k] /\ c[k] \in 0 .. B - 1 BY <1>1, <1>2
  <2> QED BY <1>1, <2>1
<1> DEFINE x == v[k]
           E == Place(k)
           w == ValueOf(c, k)
<1>9. ValueOf(c, nine) = x * E + w
  <2>1. ValueOf(c, nine) = w + x * E BY <1>1, <1>4, <1>5, <1>8
  <2>2. x * E \in Nat /\ w \in Nat BY <1>6, <1>7, <1>8, ProductsGrow
  <2> DEFINE y == x * E
  <2>3. y \in Nat /\ ValueOf(c, nine) = w + y BY <2>1, <2>2
  <2> HIDE DEF y, w
  <2>4. ValueOf(c, nine) = y + w BY <2>2, <2>3
  <2> QED BY <2>4 DEF y
<1> QED BY <1>1, <1>6, <1>7, <1>8, <1>9 DEF c, k, nine, Number

\* The divisor with its leading digit made at least half of the base.
LEMMA NormalDivisor ==
    ASSUME NEW v \in Halves, NEW n \in 1 .. 8, v[n - 1] # 0, \A p \in Places : p >= n => v[p] = 0
    PROVE  LET s == nlz(v[n - 1])
               x == TwoTo[s]
           IN  /\ s \in Nat /\ x \in Nat \ {0} /\ 2 * x <= B
               /\ x * Number(v) < Place(n) /\ Place(n) <= 2 * (x * Number(v))
               /\ Place(n - 1) <= Number(v)
<1> DEFINE v1 == v[n - 1]
           E == Place(n - 1)
           w == ValueOf(From(v, 0), n - 1)
           s == nlz(v1)
           x == TwoTo[s]
           h == TwoTo[HALF - s]
           N == Number(v)
<1>1. /\ E \in Nat /\ E >= 1 /\ w \in Nat /\ w < E /\ Place(n) = B * E
      /\ v1 \in Nat /\ v1 < B /\ N = v1 * E + w /\ v1 # 0 BY LeadingDigit
<1>2. B \in Nat /\ HALF \in Nat BY Base
<1> HIDE DEF v1, E, w, N
<1>3. s \in Nat /\ s < HALF /\ v1 * TwoTo[s] < B /\ v1 * TwoTo[s + 1] >= B
  <2>1. v1 \in 1 .. B - 1 BY <1>1, <1>2
  <2> QED BY <2>1, LeadingZeros
<1> HIDE DEF s
<1>4. HALF - s \in Nat /\ HALF - s - 1 \in Nat /\ (HALF - s - 1) + 1 = HALF - s /\ s + (HALF - s) = HALF
  BY <1>2, <1>3
<1>5. x \in Nat \ {0} /\ h \in Nat /\ h >= 2 /\ x * h = B /\ TwoTo[s + 1] = 2 * x
  <2> DEFINE f == HALF - s - 1
  <2>1. f \in Nat /\ f + 1 = HALF - s BY <1>4
  <2> HIDE DEF f
  <2>2. TwoTo[f + 1] = 2 * TwoTo[f] /\ TwoTo[f] \in Nat \ {0} /\ x \in Nat \ {0} /\ TwoTo[s + 1] = 2 * x
    BY <1>3, <2>1, PowersOfTwo
  <2>3. TwoTo[s + (HALF - s)] = x * h BY <1>3, <1>4, PowersAdd
  <2>4. h = 2 * TwoTo[f] BY <2>1, <2>2
  <2> QED BY <1>4, <2>2, <2>3, <2>4 DEF B
<1> HIDE DEF x, h
<1>6. 2 * x <= B
  <2>1. x * 2 <= x * h BY <1>5, SMT
  <2> QED BY <1>2, <1>5, <2>1
<1>7. v1 + 1 <= h
  <2>1. h <= v1 => x * h <= x * v1 BY <1>1, <1>5, SMT
  <2>2. x * v1 = v1 * x /\ x * v1 \in Int /\ v1 * x < B BY <1>1, <1>3, <1>5 DEF x
  <2> QED BY <1>1, <1>2, <1>5, <2>1, <2>2
<1>8. x * N < B * E
  <2>1. N < h * E
    <3>1. (v1 + 1) * E <= h * E /\ (v1 + 1) * E = v1 * E + E BY <1>1, <1>5, <1>7, SMT
    <3>2. v1 * E \in Int /\ h * E \in Int BY <1>1, <1>5
    <3> QED BY <1>1, <3>1, <3>2
  <2>2. N \in Nat
    <3>1. v1 * E \in Nat BY <1>1, ProductsGrow
    <3> QED BY <1>1, <3>1
  <2> DEFINE g == h * E
  <2>3. g \in Nat /\ N < g BY <1>1, <1>5, <2>1, ProductsGrow
  <2>4. x * g = B * E
    <3>1. x * (h * E) = (x * h) * E BY <1>1, <1>5, SMT
    <3> QED BY <1>5, <3>1
  <2> HIDE DEF g
  <2>5. x * N < x * g BY <1>5, <2>2, <2>3, SMT
  <2> QED BY <2>4, <2>5
<1>9. B * E <= 2 * (x * N)
  <2>1. (v1 * (2 * x)) * E >= B * E
    <3> DEFINE g == v1 * (2 * x)
    <3>1. g \in Nat /\ g >= B
      <4>1. 2 * x \in Nat BY <1>5
      <4> QED BY <1>1, <1>3, <1>5, <4>1, ProductsGrow
    <3> HIDE DEF g
    <3>2. g * E >= B * E BY <1>1, <1>2, <3>1, SMT
    <3> QED BY <3>2 DEF g
  <2>2. (v1 * (2 * x)) * E = 2 * (x * (v1 * E)) BY <1>1, <1>5, SMT
  <2>3. x * (v1 * E) <= x * N
    <3> DEFINE g == v1 * E
    <3>1. g \in Nat /\ g <= N /\ N \in Nat
      <4>1. v1 * E \in Nat BY <1>1, ProductsGrow
      <4> QED BY <1>1, <4>1
    <3> HIDE DEF g
    <3>2. x * g <= x * N BY <1>5, <3>1, SMT
    <3> QED BY <3>2 DEF g
  <2>4. x * (v1 * E) \in Int /\ x * N \in Int /\ B * E \in Int
    <3>1. v1 * E \in Int BY <1>1
    <3>2. N \in Int BY <1>1, <3>1
    <3> QED BY <1>1, <1>2, <1>5, <3>1, <3>2
  <2> QED BY <2>1, <2>2, <2>3, <2>4
<1>10. E <= N
  <2>1. E <= v1 * E /\ v1 * E \in Nat BY <1>1, ProductsGrow
  <2> QED BY <1>1, <2>1
<1> QED BY <1>1, <1>3, <1>5, <1>6, <1>8, <1>9, <1>10 DEF s, x, v1, E, N

\* The long division of two numbers.
LEMMA NormalDivision ==
    ASSUME NEW u \in Halves, NEW v \in Halves, NEW n \in 2 .. 8, NEW m \in n .. 8,
           v[n - 1] # 0, \A p \in Places : p >= n => v[p] = 0, \A p \in Places : p >= m => u[p] = 0
    PROVE  LET s == nlz(v[n - 1])
               r == LongDivision(Normalised(u, s), Normalised(v, s), n, m - n + 1)
           IN  /\ s \in Nat /\ r.q \in Nat /\ r.un \in Halves
               /\ \A p \in Places : p >= n => r.un[p] = 0
               /\ Number(r.un) < TwoTo[s] * Number(v)
               /\ TwoTo[s] * Number(u) = r.q * (TwoTo[s] * Number(v)) + Number(r.un)
<1> DEFINE s == nlz(v[n - 1])
           x == TwoTo[s]
           un == Normalised(u, s)
           vn == Normalised(v, s)
           k == m - n + 1
           m1 == m + 1
           r == LongDivision(un, vn, n, k)
           nv == Number(v)
           nu == Number(u)
<1>1. /\ n \in 1 .. 8 /\ n \in Nat /\ n >= 2 /\ n <= 8 /\ m \in 1 .. 8 /\ m \in Nat /\ n <= m /\ m <= 8
      /\ k \in Nat /\ k + n = m1 /\ m1 \in Nat /\ m1 <= 9 /\ k + n <= 9 /\ n - 1 \in Nat /\ (n - 1) + 1 = n
      /\ m1 \in 0 .. 9 /\ n \in 0 .. 9 /\ k + (n - 1) = m OBVIOUS
<1> HIDE DEF k, m1
<1>2. /\ s \in Nat /\ x \in Nat \ {0} /\ 2 * x <= B
      /\ x * nv < Place(n) /\ Place(n) <= 2 * (x * nv)
      /\ Place(n - 1) <= nv BY <1>1, NormalDivisor
<1> HIDE DEF s, x
<1>3. nu \in Nat /\ nv \in Nat /\ nu < Place(m)
  <2>1. nu \in Nat /\ nv \in Nat BY DigitsAtZero
  <2>2. nu < Place(m)
    <3> DEFINE E == Place(m - 1)
               w == ValueOf(From(u, 0), m - 1)
               d == u[m - 1]
    <3>1. E \in Nat /\ w \in Nat /\ w < E /\ Place(m) = B * E /\ d \in Nat /\ d < B /\ nu = d * E + w
      BY <1>1, LeadingDigit
    <3> HIDE DEF E, w, d, nu
    <3>2. (d + 1) * E <= B * E /\ (d + 1) * E = d * E + E BY <3>1, Base, SMT
    <3>3. d * E \in Int /\ B * E \in Int BY <3>1, Base
    <3> QED BY <3>1, <3>2, <3>3
  <2> QED BY <2>1, <2>2
<1> HIDE DEF nu, nv
<1>4. \A i, j \in Nat : i <= j => Place(i) <= Place(j)
  <2>1. ASSUME NEW i \in Nat, NEW j \in Nat, i <= j PROVE Place(i) <= Place(j)
    <3> DEFINE d == j - i
    <3>1. d \in Nat /\ i + d = j BY <2>1
    <3> HIDE DEF d
    <3>2. Place(i + d) = Place(i) * Place(d) /\ Place(i) \in Nat /\ Place(d) \in Nat /\ Place(d) >= 1
      BY <3>1, PlacesAdd, PlacesAre
    <3>3. Place(i) <= Place(i) * Place(d) BY <3>2, ProductsGrow
    <3> QED BY <3>1, <3>2, <3>3
  <2> QED BY <2>1
<1>5. /\ Place(n) \in Nat /\ Place(m) \in Nat /\ Place(n - 1) \in Nat /\ Place(k) \in Nat /\ Place(k) >= 1
      /\ Place(m1) = B * Place(m) /\ Place(m) = Place(k) * Place(n - 1)
      /\ Place(m1) <= Place(9) /\ Place(n) <= Place(9) /\ B \in Nat /\ Place(9) \in Nat /\ Place(m1) \in Nat
  <2> DEFINE nine == 9
             e == n - 1
  <2>1. e \in Nat /\ nine \in Nat /\ k + e = m /\ m1 <= nine /\ n <= nine BY <1>1
  <2> HIDE DEF nine, e
  <2>2. Place(k + e) = Place(k) * Place(e) BY <1>1, <2>1, PlacesAdd
  <2>3. Place(m1) <= Place(nine) /\ Place(n) <= Place(nine) BY <1>1, <1>4, <2>1
  <2>4. Place(m + 1) = B * Place(m) BY <1>1, PlacesAre
  <2>5. /\ Place(n) \in Nat /\ Place(m) \in Nat /\ Place(e) \in Nat /\ Place(k) \in Nat /\ Place(k) >= 1
        /\ Place(nine) \in Nat /\ Place(m1) \in Nat BY <1>1, <2>1, PlacesAre
  <2> QED BY <2>1, <2>2, <2>3, <2>4, <2>5, Base DEF nine, e, m1
<1>6. x * nu < x * Place(m) /\ x * nu < Place(m1) /\ x * nu \in Nat /\ x * nv \in Nat
  <2>1. x * nu < x * Place(m) BY <1>2, <1>3, <1>5, SMT
  <2>2. x * Place(m) <= B * Place(m)
    <3>1. x <= B BY <1>2, <1>5
    <3> QED BY <1>2, <1>5, <3>1, SMT
  <2>3. x * Place(m) \in Int /\ B * Place(m) \in Int /\ x * nu \in Nat /\ x * nv \in Nat
    BY <1>2, <1>3, <1>5, ProductsGrow
  <2> QED BY <1>5, <2>1, <2>2, <2>3
<1>7. un \in Halves /\ Number(un) = x * nu
  <2>1. TwoTo[s] * ValueOf(From(u, 0), 9) < Place(9) BY <1>5, <1>6 DEF x, nu, Number
  <2> QED BY <1>2, <2>1, NormalisedIs DEF x, nu, Number
<1>8. vn \in Halves /\ Number(vn) = x * nv
  <2>1. TwoTo[s] * ValueOf(From(v, 0), 9) < Place(9) BY <1>2, <1>5, <1>6 DEF x, nv, Number
  <2> QED BY <1>2, <2>1, NormalisedIs DEF x, nv, Number
<1> HIDE DEF un, vn
<1>9. /\ \A p \in Places : p >= n => vn[p] = 0
      /\ ValueOf(From(vn, 0), n) = x * nv
  <2>1. ValueOf(From(vn, 0), 9) < Place(n) BY <1>2, <1>8 DEF Number
  <2> QED BY <1>1, <1>8, <2>1, NoDigitsAbove DEF Number
<1>10. \A p \in Places : p >= k + n => un[p] = 0
  <2>1. ValueOf(From(un, 0), 9) < Place(m1) BY <1>6, <1>7 DEF Number
  <2>2. \A p \in Places : p >= m1 => un[p] = 0 BY <1>1, <1>7, <2>1, NoDigitsAbove
  <2> QED BY <1>1, <2>2
<1>11. ValueOf(From(un, k), n) < x * nv
  <2> DEFINE w == ValueOf(From(un, k), n)
             l == ValueOf(From(un, 0), k)
             P == Place(k)
             E == Place(n - 1)
  <2>1. Number(un) = l + P * w /\ l \in Nat /\ w \in Nat
    <3>1. Number(un) = ValueOf(From(un, 0), k) + Place(k) * ValueOf(From(un, k), n)
      BY <1>1, <1>7, <1>10, PartsOf
    <3>2. l \in Nat BY <1>1, <1>7, <1>10, PartsOf
    <3>3. w \in Nat BY <1>1, <1>7, <1>10, PartsOf
    <3> QED BY <3>1, <3>2, <3>3
  <2> HIDE DEF w, l, P, E
  <2>2. P \in Nat /\ P >= 1 /\ E \in Nat /\ E <= nv /\ Place(m) = P * E BY <1>2, <1>5 DEF P, E
  <2>3. P * w < x * (P * E)
    <3>1. P * w \in Nat BY <2>1, <2>2, ProductsGrow
    <3>2. x * (P * E) \in Int
      <4>1. P * E \in Int BY <2>2
      <4> QED BY <1>2, <4>1
    <3> QED BY <1>6, <1>7, <2>1, <2>2, <3>1, <3>2
  <2>4. x * (P * E) = P * (x * E) BY <1>2, <2>2, SMT
  <2>5. w < x * E
    <3> DEFINE y == x * E
    <3>1. y \in Nat /\ P * w < P * y BY <1>2, <2>2, <2>3, <2>4, ProductsGrow
    <3> HIDE DEF y
    <3>2. y <= w => P * y <= P * w BY <2>1, <2>2, <3>1, SMT
    <3>3. P * y \in Int /\ P * w \in Int BY <2>1, <2>2, <3>1
    <3>4. w < y BY <2>1, <3>1, <3>2, <3>3
    <3> QED BY <3>4 DEF y
  <2>6. x * E <= x * nv BY <1>2, <1>3, <2>2, SMT
  <2>7. x * E \in Int BY <1>2, <2>2
  <2>8. w < x * nv BY <1>6, <2>1, <2>5, <2>6, <2>7
  <2> QED BY <2>8 DEF w
<1>12. vn[n] = 0
  <2>1. n \in Places BY <1>1 DEF Places
  <2> QED BY <1>1, <1>9, <2>1
<1>13. Place(n) <= 2 * ValueOf(From(vn, 0), n) /\ ValueOf(From(un, k), n) < ValueOf(From(vn, 0), n)
  BY <1>2, <1>9, <1>11
<1>14. /\ r.q \in Nat /\ r.un \in Halves
       /\ ValueOf(From(r.un, 0), n) < ValueOf(From(vn, 0), n)
       /\ Number(un) = r.q * ValueOf(From(vn, 0), n) + ValueOf(From(r.un, 0), n)
       /\ \A p \in Places : p >= n => r.un[p] = 0
  BY <1>1, <1>7, <1>8, <1>10, <1>12, <1>13, LongDivisionIs
<1> HIDE DEF r
<1>15. Number(r.un) = ValueOf(From(r.un, 0), n)
  <2> DEFINE c == From(r.un, 0)
             nine == 9
  <2>1. c \in Columns /\ \A i \in Places : c[i] = r.un[i] BY <1>14, DigitsAtZero
  <2>2. nine \in Nat /\ n <= nine /\ \A i \in Nat : n <= i /\ i < nine => c[i] = 0
    <3>1. \A i \in Nat : i < 9 => i \in Places BY DEF Places
    <3> HIDE DEF c
    <3> QED BY <1>1, <1>14, <2>1, <3>1
  <2> HIDE DEF c, nine
  <2>3. ValueOf(c, nine) = ValueOf(c, n) BY <1>1, <2>1, <2>2, ValuesEnd
  <2> QED BY <2>3 DEF c, nine, Number
<1> QED BY <1>2, <1>7, <1>9, <1>14, <1>15 DEF s, x, un, vn, k, r, nu, nv

\* Quotient and remainder are what divides so.
LEMMA DivisionUnique ==
    ASSUME NEW a \in Nat, NEW b \in Nat \ {0}, NEW q \in Nat, NEW r \in Nat, r < b, a = q * b + r
    PROVE  a \div b = q /\ a % b = r
<1>1. b * q = q * b /\ r \in 0 .. b - 1 BY SMT
<1>2. (b * q + r) % b = r /\ (b * q + r) \div b = q BY <1>1, QuotientIs
<1> QED BY <1>1, <1>2

\* The division of double words by words.
LEMMA DivisionIs ==
    ASSUME NEW u \in Halves, NEW v \in Halves, u[8] = 0, Number(v) # 0,
           \A p \in Places : p >= 4 => v[p] = 0
    PROVE  divmnu(u, v) = <<(Number(u) \div Number(v)) % TwoTo[M], Number(u) % Number(v)>>
<1> DEFINE n == Significant(v, 1)
           m == Significant(u, n)
           s == nlz(v[n - 1])
           short == ShortDivision(u, v[0], m)
           long == LongDivision(Normalised(u, s), Normalised(v, s), n, m - n + 1)
           nu == Number(u)
           nv == Number(v)
<1>1. /\ 0 \in Places /\ 8 \in Places
      /\ \A p \in Places : u[p] \in 0 .. B - 1 /\ v[p] \in 0 .. B - 1
      /\ nu \in Nat /\ nv \in Nat /\ B \in Nat BY DigitsAtZero, Base DEF Places
<1>2. v[8] = 0 BY <1>1
<1>3. n \in 1 .. 8 /\ (n = 1 \/ v[n - 1] # 0) /\ \A k \in n .. 8 : v[k] = 0
  <2> DEFINE one == 1
  <2>1. one \in 1 .. 8 OBVIOUS
  <2> HIDE DEF one
  <2>2. LET f == Significant(v, one)
        IN  f \in one .. 8 /\ (f = one \/ v[f - 1] # 0) /\ \A k \in f .. 8 : v[k] = 0
    BY <1>2, <2>1, SignificantIs
  <2> QED BY <2>2 DEF one
<1> HIDE DEF n
<1>4. m \in n .. 8 /\ \A k \in m .. 8 : u[k] = 0 BY <1>3, SignificantIs
<1> HIDE DEF m
<1>5. n \in Nat /\ m \in Nat /\ m \in 1 .. 8 /\ m \in 0 .. 9
      /\ (\A p \in Places : p >= n => v[p] = 0) /\ \A p \in Places : p >= m => u[p] = 0
  <2>1. n \in Nat /\ m \in Nat /\ m \in 1 .. 8 /\ m \in 0 .. 9 BY <1>3, <1>4
  <2>2. \A p \in Places : p >= n => p \in n .. 8 BY <2>1 DEF Places
  <2>3. \A p \in Places : p >= m => p \in m .. 8 BY <2>1 DEF Places
  <2> QED BY <1>3, <1>4, <2>1, <2>2, <2>3
<1>6. CASE n = 1
  <2>1. nv = v[0] /\ v[0] \in Nat \ {0}
    <3> DEFINE E == Place(n - 1)
               w == ValueOf(From(v, 0), n - 1)
    <3>1. E \in Nat /\ w \in Nat /\ w < E /\ v[n - 1] \in Nat /\ nv = v[n - 1] * E + w
      BY <1>3, <1>5, LeadingDigit
    <3>2. n - 1 = 0 /\ Place(0) = 1 BY <1>6, PlacesAre
    <3>3. E = 1 /\ v[n - 1] = v[0] BY <3>2
    <3> HIDE DEF E, w, nv
    <3>4. w = 0 /\ nv = v[0] * 1 + 0 /\ v[0] \in Nat BY <3>1, <3>3
    <3>5. nv = v[0] BY <3>4
    <3> QED BY <3>4, <3>5 DEF nv
  <2>2. short.q \in Nat /\ short.k \in Nat /\ short.k < v[0] /\ nu = short.q * v[0] + short.k
    BY <1>5, <2>1, ShortDivisionIs
  <2>3. divmnu(u, v) = <<short.q % TwoTo[M], short.k>> BY <1>6, Zenon DEF divmnu, n, m
  <2> HIDE DEF short, nu, nv
  <2>4. nu \div nv = short.q /\ nu % nv = short.k
    <3> DEFINE d == v[0]
               q == short.q
               r == short.k
    <3>1. d \in Nat \ {0} /\ q \in Nat /\ r \in Nat /\ r < d /\ nu = q * d + r /\ nu \in Nat
      BY <1>1, <2>1, <2>2
    <3> HIDE DEF d, q, r
    <3>2. nu \div d = q /\ nu % d = r BY <3>1, DivisionUnique
    <3> QED BY <2>1, <3>2 DEF d, q, r
  <2> QED BY <2>3, <2>4 DEF nu, nv
<1>7. CASE n # 1
  <2> DEFINE x == TwoTo[s]
             R == Number(long.un)
             q == long.q
  <2>1. n \in 2 .. 8 /\ v[n - 1] # 0 /\ n <= 4
    <3>1. n \in 2 .. 8 /\ v[n - 1] # 0 BY <1>3, <1>7
    <3>2. n > 4 => n - 1 \in Places /\ n - 1 >= 4 BY <1>3 DEF Places
    <3> QED BY <1>5, <3>1, <3>2
  <2>2. /\ s \in Nat /\ q \in Nat /\ long.un \in Halves
        /\ \A p \in Places : p >= n => long.un[p] = 0
        /\ R < x * nv /\ x * nu = q * (x * nv) + R BY <1>4, <1>5, <2>1, NormalDivision
  <2>3. divmnu(u, v) = <<q % TwoTo[M], packup(long.un, 0) \div x>> BY <1>7, Zenon DEF divmnu, n, m
  <2> HIDE DEF s, long, nu, nv
  <2>4. packup(long.un, 0) = R /\ R \in Nat
    <3>1. \A p \in Places : p >= 4 => long.un[p] = 0
      <4>1. \A p \in Places : p \in Nat BY DEF Places
      <4> QED BY <1>5, <2>1, <2>2, <4>1
    <3> QED BY <2>2, <3>1, PackedUp, DigitsAtZero
  <2>5. x \in Nat \ {0} BY <2>2, PowersOfTwo
  <2> HIDE DEF x, R, q
  <2> DEFINE r == nu - q * nv
  <2>6. r \in Int /\ x * r = R
    <3>1. q * nv \in Int /\ q * (x * nv) = x * (q * nv) BY <1>1, <2>2, <2>5, SMT
    <3> DEFINE y == q * nv
    <3>2. y \in Int /\ r = nu - y BY <3>1
    <3> HIDE DEF y
    <3>3. x * (nu - y) = x * nu - x * y BY <1>1, <2>5, <3>2, SMT
    <3>4. x * y \in Int /\ x * nu \in Int /\ x * nu = x * y + R
      BY <1>1, <2>2, <2>5, <3>1, <3>2 DEF y
    <3>5. x * r = R BY <2>4, <3>2, <3>3, <3>4
    <3> QED BY <1>1, <3>2, <3>5
  <2> HIDE DEF r
  <2>7. r >= 0 /\ r < nv
    <3>1. r <= -1 => x * r <= -x BY <2>5, <2>6, SMT
    <3>2. r >= nv => x * r >= x * nv BY <1>1, <2>5, <2>6, SMT
    <3>3. x * nv \in Int BY <1>1, <2>5
    <3> QED BY <1>1, <2>2, <2>4, <2>5, <2>6, <3>1, <3>2, <3>3
  <2>8. R \div x = r
    <3>1. r \in Int /\ (x * r) \div x = r BY <2>5, <2>6, Multiples
    <3> QED BY <2>6, <3>1
  <2>9. nu \div nv = q /\ nu % nv = r
    <3>1. nv \in Nat \ {0} BY <1>1 DEF nv
    <3>2. r \in Nat BY <2>6, <2>7
    <3>3. nu = q * nv + r
      <4>1. q * nv \in Int BY <1>1, <2>2
      <4> QED BY <1>1, <2>6, <4>1 DEF r
    <3> QED BY <1>1, <2>2, <2>7, <3>1, <3>2, <3>3, DivisionUnique
  <2> QED BY <2>3, <2>4, <2>8, <2>9 DEF nu, nv
<1> QED BY <1>6, <1>7

-----
(* Double words *)

\* A double word in two machine words.
LEMMA TwoMachineWords ==
    ASSUME WordsFit, NEW h \in Nat, NEW l \in Nat, h < 2 * topbit_mask, l < 2 * topbit_mask
    PROVE  LET W  == TwoTo[int_len]
               lo == (l + h * W) % TwoTo[M]
               hi == IF int_len = M THEN h ELSE h \div TwoTo[M - int_len]
           IN  /\ lo \in Nat /\ lo < TwoTo[M] /\ hi \in Nat /\ hi < TwoTo[M]
               /\ lo + TwoTo[M] * hi = h * W + l /\ h * W + l \in Nat
<1> DEFINE W  == TwoTo[int_len]
           P  == TwoTo[M]
           Q  == TwoTo[M - int_len]
           lo == (l + h * W) % P
           hi == IF int_len = M THEN h ELSE h \div Q
<1>1. /\ M \in Nat /\ int_len \in Nat /\ int_len <= M /\ P \in Nat \ {0} /\ W \in Nat \ {0}
      /\ W = 2 * topbit_mask /\ W <= P
  <2>1. M \in Nat /\ int_len <= M /\ 2 * topbit_mask <= P BY TheMachineWord
  <2>2. int_len \in Nat /\ W = 2 * topbit_mask BY LengthIs DEF WordsFit, topbit_mask
  <2> QED BY <2>1, <2>2, PowersOfTwo
<1>2. h < W /\ l < W /\ h * W \in Nat /\ h * W + l \in Nat /\ l + h * W = h * W + l
  <2>1. h * W \in Nat BY <1>1, ProductsGrow
  <2> HIDE DEF W
  <2> DEFINE x == h * W
  <2>2. x \in Nat BY <2>1
  <2> HIDE DEF x
  <2>3. x + l \in Nat /\ l + x = x + l BY <2>2
  <2> QED BY <1>1, <2>1, <2>3 DEF x
<1>3. CASE int_len = M
  <2>1. hi = h /\ W = P BY <1>3
  <2> HIDE DEF W, P
  <2>2. (P * h + l) % P = l
    <3>1. l \in 0 .. P - 1 /\ h \in Int BY <1>1, <1>2, <2>1
    <3> QED BY <1>1, <3>1, QuotientIs
  <2>3. P * h = h * W BY <1>1, <2>1
  <2>4. lo = l BY <1>2, <2>2, <2>3
  <2> HIDE DEF lo
  <2>5. lo + P * h = h * W + l
    <3> DEFINE x == h * W
    <3>1. x \in Nat /\ P * h = x BY <1>2, <2>3
    <3> HIDE DEF x
    <3>2. lo + P * h = x + l BY <2>4, <3>1
    <3> QED BY <3>2 DEF x
  <2> HIDE DEF hi
  <2> QED BY <1>1, <1>2, <2>1, <2>4, <2>5 DEF lo, hi, W, P
<1>4. CASE int_len # M
  <2>1. Q \in Nat \ {0} /\ P = W * Q
    <3>1. M - int_len \in Nat /\ int_len + (M - int_len) = M BY <1>1
    <3>2. TwoTo[int_len + (M - int_len)] = TwoTo[int_len] * TwoTo[M - int_len]
      BY <1>1, <3>1, PowersAdd
    <3> QED BY <3>1, <3>2, PowersOfTwo
  <2> DEFINE a == h \div Q
             b == h % Q
             c == W * b + l
  <2>2. hi = a BY <1>4
  <2> HIDE DEF W, P, Q, hi
  <2>3. a \in Nat /\ b \in 0 .. Q - 1 /\ h = Q * a + b /\ a <= h BY <2>1, Divided
  <2> HIDE DEF a, b
  <2>4. c \in Nat /\ c < P
    <3>1. W * b \in Nat /\ b \in Nat /\ b + 1 <= Q
      <4>1. b \in Nat /\ b + 1 <= Q BY <2>1, <2>3
      <4> QED BY <1>1, <4>1, ProductsGrow
    <3>2. W * (b + 1) <= W * Q /\ W * (b + 1) = W * b + W BY <1>1, <2>1, <3>1, SMT
    <3> QED BY <1>1, <1>2, <2>1, <3>1, <3>2
  <2>5. h * W + l = P * a + c
    <3>1. (Q * a) * W = P * a BY <1>1, <2>1, <2>3, SMT
    <3> DEFINE y == Q * a
    <3>2. y \in Int /\ h = y + b /\ b \in Int BY <2>1, <2>3
    <3> HIDE DEF y
    <3>3. (y + b) * W = y * W + b * W /\ b * W = W * b /\ y * W \in Int /\ b * W \in Int
      BY <1>1, <3>2, SMT
    <3>4. h * W = P * a + W * b BY <3>1, <3>2, <3>3 DEF y
    <3> DEFINE e == P * a
               f == W * b
    <3>5. e \in Int /\ f \in Int /\ h * W = e + f BY <1>1, <2>3, <3>2, <3>4
    <3> HIDE DEF e, f
    <3>6. h * W + l = e + (f + l) BY <3>5
    <3> QED BY <3>6 DEF e, f
  <2> HIDE DEF c
  <2>6. lo = c
    <3>1. c \in 0 .. P - 1 /\ a \in Int BY <1>1, <2>3, <2>4
    <3>2. (P * a + c) % P = c BY <1>1, <3>1, QuotientIs
    <3> QED BY <1>2, <2>5, <3>2
  <2> HIDE DEF lo
  <2>7. lo + P * hi = h * W + l
    <3> DEFINE x == P * a
    <3>1. x \in Nat BY <1>1, <2>3, ProductsGrow
    <3> HIDE DEF x
    <3>2. c + x = x + c BY <2>4, <3>1
    <3> QED BY <2>2, <2>5, <2>6, <3>2 DEF x
  <2> QED BY <1>1, <1>2, <2>2, <2>3, <2>4, <2>6, <2>7 DEF lo, hi, W, P, Q
<1> QED BY <1>3, <1>4

\* The magnitude's two words.
LEMMA MagnitudeWords ==
    ASSUME WordsFit, NEW y, NEW z, IsWord(y), IsWord(z)
    PROVE  LET t  == topbit_mask
               hl == IF Bit(~Unsigned /\ IsTop(y)) = 0 THEN <<y, z>>
                     ELSE IF int_mode = "SGNMANT" THEN <<y - t, z>>
                     ELSE Negated(y, z)
           IN  /\ hl[1] \in Nat /\ hl[2] \in Nat /\ hl[1] < 2 * t /\ hl[2] < 2 * t
               /\ hl[1] * TwoTo[int_len] + hl[2] = DoubleWord(y, z)
<1> DEFINE t  == topbit_mask
           W  == TwoTo[int_len]
           neg == ~Unsigned /\ IsTop(y)
           n == y * W + z
           hl == IF Bit(neg) = 0 THEN <<y, z>>
                 ELSE IF int_mode = "SGNMANT" THEN <<y - t, z>>
                 ELSE Negated(y, z)
           N == DoubleWord(y, z)
<1>1. /\ t \in Nat \ {0} /\ W = 2 * t /\ W \in Nat /\ int_mode \in Modes /\ int_len \in Nat
      /\ y \in Nat /\ z \in Nat /\ y < W /\ z < W
  <2>1. t \in Nat \ {0} /\ int_mode \in Modes BY TopBit
  <2>2. int_len \in Nat /\ W = 2 * t BY LengthIs DEF WordsFit, topbit_mask
  <2> QED BY <2>1, <2>2 DEF IsWord
<1>2. TwoTo[2 * int_len] = W * W
  <2>1. 2 * int_len = int_len + int_len BY <1>1
  <2> QED BY <1>1, <2>1, PowersAdd
<1>3. IsTop(y) <=> y >= t
  <2>1. y \in Int /\ y >= 0 /\ y < 2 * topbit_mask BY <1>1
  <2>2. mask_value(y) = y BY <2>1, Masks
  <2> QED BY <2>2 DEF IsTop
<1>4. n \in Nat /\ y * W \in Nat
  <2>1. y * W \in Nat BY <1>1, ProductsGrow
  <2> QED BY <1>1, <2>1
<1>5. CASE ~neg
  <2>1. hl = <<y, z>> /\ N = n BY <1>5 DEF Bit, DoubleWord
  <2> HIDE DEF hl
  <2>2. hl[1] = y /\ hl[2] = z BY <2>1
  <2> QED BY <1>1, <2>1, <2>2 DEF hl
<1>6. CASE neg
  <2>1. int_mode \in {"2COMP", "1COMP", "SGNMANT"} /\ y >= t BY <1>1, <1>3, <1>6 DEF Modes, Unsigned
  <2>2. CASE int_mode = "SGNMANT"
    <3>1. hl = <<y - t, z>> /\ N = (y - t) * W + z BY <1>6, <2>2 DEF Bit, DoubleWord
    <3>2. y - t \in Nat /\ y - t < W BY <1>1, <2>1
    <3> HIDE DEF hl
    <3>3. hl[1] = y - t /\ hl[2] = z BY <3>1
    <3> QED BY <1>1, <3>1, <3>2, <3>3 DEF hl
  <2>3. CASE int_mode = "2COMP"
    <3> DEFINE a == mask_value(IF z = 0 THEN -y ELSE -y - 1)
               b == mask_value(-z)
    <3>1. hl = <<a, b>> /\ N = W * W - n
      <4>1. Bit(neg) # 0 /\ int_mode # "SGNMANT" BY <1>6, <2>3 DEF Bit
      <4>2. hl = Negated(y, z) BY <4>1
      <4>3. Negated(y, z) = <<a, b>> BY <2>3, Zenon DEF Negated
      <4>4. N = TwoTo[2 * int_len] - n BY <1>6, <2>3, Zenon DEF DoubleWord
      <4> QED BY <1>2, <4>2, <4>3, <4>4
    <3>2. CASE z = 0
      <4>1. a = W - y /\ b = 0
        <5>1. -y \in Int /\ -y < 0 /\ -y >= -(2 * t) BY <1>1, <2>1
        <5>7. -z = z
          <6>1. ASSUME NEW i \in Int, i <= 0, i >= 0 PROVE -i = i BY <6>1
          <6>2. z \in Int /\ z <= 0 /\ z >= 0 BY <1>1, <3>2
          <6> QED BY <6>1, <6>2
        <5>2. mask_value(-y) = -y + 2 * t BY <5>1, Masks
        <5>3. mask_value(0) = 0
          <6> DEFINE o == 0
          <6>1. o \in Int /\ o >= 0 /\ o < 2 * topbit_mask BY <1>1
          <6> HIDE DEF o
          <6>2. mask_value(o) = o BY <6>1, Masks
          <6> QED BY <6>2 DEF o
        <5>4. -y + 2 * t = W - y BY <1>1
        <5>5. a = mask_value(-y) BY <3>2
        <5>6. b = mask_value(0) BY <3>2, <5>7
        <5> HIDE DEF a, b
        <5> QED BY <5>2, <5>3, <5>4, <5>5, <5>6
      <4> HIDE DEF a, b, hl, N, W
      <4>2. hl[1] = W - y /\ hl[2] = 0 BY <3>1, <4>1
      <4>3. (W - y) * W = W * W - y * W /\ W * W \in Int BY <1>1, SMT
      <4>4. n = y * W BY <1>4, <3>2
      <4>5. (W - y) * W + 0 = N
        <5> DEFINE e == W * W
                   f == y * W
        <5>1. e \in Int /\ f \in Int /\ (W - y) * W = e - f /\ N = e - f BY <1>4, <3>1, <4>3, <4>4
        <5> HIDE DEF e, f
        <5>2. (W - y) * W = e - f /\ e - f \in Int BY <5>1
        <5> DEFINE k == (W - y) * W
        <5>3. k = e - f BY <5>2
        <5> HIDE DEF k
        <5>4. k + 0 = e - f BY <5>1, <5>3
        <5> QED BY <5>1, <5>4 DEF k
      <4>6. W - y \in Nat /\ W - y < 2 * t /\ 0 \in Nat /\ 0 < 2 * t BY <1>1, <2>1
      <4> QED BY <4>2, <4>5, <4>6 DEF hl, N, W
    <3>3. CASE z # 0
      <4>1. a = W - y - 1 /\ b = W - z
        <5>1. -y - 1 \in Int /\ -y - 1 < 0 /\ -y - 1 >= -(2 * t) /\ -z \in Int /\ -z < 0 /\ -z >= -(2 * t)
          BY <1>1, <2>1, <3>3
        <5>2. mask_value(-y - 1) = (-y - 1) + 2 * t /\ mask_value(-z) = -z + 2 * t BY <5>1, Masks
        <5>3. (-y - 1) + 2 * t = W - y - 1 /\ -z + 2 * t = W - z BY <1>1
        <5> QED BY <3>3, <5>2, <5>3
      <4> HIDE DEF a, b, hl, N, W
      <4>2. hl[1] = W - y - 1 /\ hl[2] = W - z BY <3>1, <4>1
      <4>3. (W - y - 1) * W = W * W - y * W - W /\ W * W \in Int BY <1>1, SMT
      <4>4. (W - y - 1) * W + (W - z) = N
        <5> DEFINE e == W * W
                   f == y * W
                   k == (W - y - 1) * W
        <5>1. e \in Int /\ f \in Int /\ k = e - f - W /\ N = e - (f + z) BY <1>4, <3>1, <4>3
        <5> HIDE DEF e, f, k
        <5>2. k + (W - z) = N BY <1>1, <5>1
        <5> QED BY <5>2 DEF k
      <4>5. W - y - 1 \in Nat /\ W - y - 1 < 2 * t /\ W - z \in Nat /\ W - z < 2 * t
        BY <1>1, <2>1, <3>3
      <4> QED BY <4>2, <4>4, <4>5 DEF hl, N, W
    <3> QED BY <3>2, <3>3
  <2>4. CASE int_mode = "1COMP"
    <3> DEFINE a == mask_value(-y - 1)
               b == mask_value(-z - 1)
    <3>1. hl = <<a, b>> /\ N = W * W - n - 1
      <4>1. Bit(neg) # 0 /\ int_mode # "SGNMANT" /\ int_mode # "2COMP" BY <1>6, <2>4 DEF Bit
      <4>2. hl = Negated(y, z) BY <4>1
      <4>3. Negated(y, z) = <<a, b>> BY <2>4, <4>1, SMT DEF Negated
      <4>4. N = TwoTo[2 * int_len] - n - 1 BY <1>6, <2>4, <4>1, SMT DEF DoubleWord
      <4> QED BY <1>2, <4>2, <4>3, <4>4
    <3>2. a = W - y - 1 /\ b = W - z - 1
      <4>1. -y - 1 \in Int /\ -y - 1 < 0 /\ -y - 1 >= -(2 * t)
            /\ -z - 1 \in Int /\ -z - 1 < 0 /\ -z - 1 >= -(2 * t) BY <1>1, <2>1
      <4>2. mask_value(-y - 1) = (-y - 1) + 2 * t /\ mask_value(-z - 1) = (-z - 1) + 2 * t
        BY <4>1, Masks
      <4>3. (-y - 1) + 2 * t = W - y - 1 /\ (-z - 1) + 2 * t = W - z - 1 BY <1>1
      <4> QED BY <4>2, <4>3
    <3> HIDE DEF a, b, hl, N, W
    <3>3. hl[1] = W - y - 1 /\ hl[2] = W - z - 1 BY <3>1, <3>2
    <3>4. (W - y - 1) * W = W * W - y * W - W /\ W * W \in Int BY <1>1, SMT
    <3>5. (W - y - 1) * W + (W - z - 1) = N
      <4> DEFINE e == W * W
                 f == y * W
                 k == (W - y - 1) * W
      <4>1. e \in Int /\ f \in Int /\ k = e - f - W /\ N = e - (f + z) - 1 BY <1>4, <3>1, <3>4
      <4> HIDE DEF e, f, k
      <4>2. k + (W - z - 1) = N BY <1>1, <4>1
      <4> QED BY <4>2 DEF k
    <3>6. W - y - 1 \in Nat /\ W - y - 1 < 2 * t /\ W - z - 1 \in Nat /\ W - z - 1 < 2 * t
      BY <1>1, <2>1
    <3> QED BY <3>3, <3>5, <3>6 DEF hl, N, W
  <2> QED BY <2>1, <2>2, <2>3, <2>4
<1> QED BY <1>5, <1>6

\* The division by magnitudes: the quotient in a machine word, and the remainder.
LEMMA DivmodIs ==
    ASSUME WordsFit, NEW y, NEW z, NEW x, IsWord(y), IsWord(z), IsWord(x), magnitude(x) # 0
    PROVE  LET n == DoubleWord(y, z)
               d == magnitude(x)
           IN  /\ n \in Nat /\ d \in Nat \ {0}
               /\ divmod(z, y, x) = [v |-> <<(n \div d) % TwoTo[M], n % d>>, sx |-> sign(x),
                                     sy |-> Bit(~Unsigned /\ IsTop(y)), e |-> "none"]
<1> DEFINE t  == topbit_mask
           sy == Bit(~Unsigned /\ IsTop(y))
           hl == IF sy = 0 THEN <<y, z>>
                 ELSE IF int_mode = "SGNMANT" THEN <<y - t, z>>
                 ELSE Negated(y, z)
           d  == magnitude(x)
           lo == (hl[2] + hl[1] * TwoTo[int_len]) % TwoTo[M]
           hi == IF int_len = M THEN hl[1] ELSE hl[1] \div TwoTo[M - int_len]
           u  == Halfwords(lo, hi)
           v  == Halfwords(d, 0)
           qr == divmnu(u, v)
           n  == DoubleWord(y, z)
<1>1. /\ hl[1] \in Nat /\ hl[2] \in Nat /\ hl[1] < 2 * t /\ hl[2] < 2 * t
      /\ hl[1] * TwoTo[int_len] + hl[2] = n BY MagnitudeWords
<1> HIDE DEF hl
<1>2. /\ lo \in Nat /\ lo < TwoTo[M] /\ hi \in Nat /\ hi < TwoTo[M]
      /\ lo + TwoTo[M] * hi = n /\ n \in Nat
  <2> DEFINE h == hl[1]
             l == hl[2]
  <2>1. h \in Nat /\ l \in Nat /\ h < 2 * topbit_mask /\ l < 2 * topbit_mask /\ h * TwoTo[int_len] + l = n
    BY <1>1
  <2> HIDE DEF h, l, n
  <2> DEFINE a == (l + h * TwoTo[int_len]) % TwoTo[M]
             b == IF int_len = M THEN h ELSE h \div TwoTo[M - int_len]
  <2>2. /\ a \in Nat /\ a < TwoTo[M] /\ b \in Nat /\ b < TwoTo[M]
        /\ a + TwoTo[M] * b = h * TwoTo[int_len] + l /\ h * TwoTo[int_len] + l \in Nat
    BY <2>1, TwoMachineWords
  <2>3. a = lo /\ b = hi BY DEF h, l
  <2> HIDE DEF a, b, lo, hi
  <2> QED BY <2>1, <2>2, <2>3
<1>3. d \in Nat \ {0} /\ d < TwoTo[M]
  <2>1. d \in Nat BY NumberIs
  <2>2. d < 2 * t /\ 2 * t <= TwoTo[M] /\ t \in Nat /\ TwoTo[M] \in Nat
    BY MagnitudeRange, TheMachineWord, TopBit
  <2> HIDE DEF d
  <2> QED BY <2>1, <2>2 DEF d
<1> HIDE DEF d, n
<1>4. u \in Halves /\ u[8] = 0 /\ Number(u) = n
  <2> HIDE DEF lo, hi
  <2>1. /\ Halfwords(lo, hi) \in Halves /\ Halfwords(lo, hi)[8] = 0
        /\ ValueOf(From(Halfwords(lo, hi), 0), 9) = lo + TwoTo[M] * hi BY <1>2, HalfwordsAre
  <2> QED BY <1>2, <2>1 DEF Number
<1>5. v \in Halves /\ Number(v) = d /\ \A p \in Places : p >= 4 => v[p] = 0
  <2> DEFINE o == 0
  <2>1. o \in Nat /\ o < TwoTo[M] /\ TwoTo[M] \in Nat /\ o = 0 BY TheMachineWord
  <2>2. TwoTo[M] * o = 0 BY <2>1
  <2> HIDE DEF o
  <2>3. /\ Halfwords(d, o) \in Halves
        /\ ValueOf(From(Halfwords(d, o), 0), 9) = d + TwoTo[M] * o
        /\ o = 0 => \A p \in Places : p >= 4 => Halfwords(d, o)[p] = 0 BY <1>3, <2>1, HalfwordsAre
  <2>4. d + 0 = d BY <1>3
  <2>5. v = Halfwords(d, o) BY <2>1
  <2> HIDE DEF v
  <2> QED BY <2>1, <2>2, <2>3, <2>4, <2>5 DEF Number
<1>6. qr = <<(n \div d) % TwoTo[M], n % d>>
  <2> HIDE DEF u, v
  <2>1. Number(v) # 0 BY <1>3, <1>5
  <2>2. divmnu(u, v) = <<(Number(u) \div Number(v)) % TwoTo[M], Number(u) % Number(v)>>
    BY <1>4, <1>5, <2>1, DivisionIs
  <2> QED BY <1>4, <1>5, <2>2
<1>7. (IF lo + hi = 0 THEN <<0, 0>> ELSE qr) = qr
  <2>1. CASE lo + hi = 0
    <3> HIDE DEF lo, hi, qr
    <3>1. lo = 0 /\ hi = 0 /\ TwoTo[M] \in Nat \ {0} BY <1>2, <2>1, TheMachineWord
    <3>2. TwoTo[M] * hi = 0 BY <3>1
    <3>3. n = 0 BY <1>2, <3>1, <3>2
    <3>4. n \div d = 0 /\ n % d = 0
      <4>1. 0 \in Nat /\ 0 < d /\ 0 * d = 0 BY <1>3
      <4>2. n = 0 * d + 0 BY <3>3, <4>1
      <4> DEFINE o == 0
      <4>3. o \in Nat /\ o < d /\ n = o * d + o BY <4>1, <4>2
      <4> HIDE DEF o
      <4>4. n \div d = o /\ n % d = o BY <1>2, <1>3, <4>3, DivisionUnique
      <4> QED BY <4>4 DEF o
    <3>5. 0 % TwoTo[M] = 0 BY <3>1
    <3> QED BY <1>6, <3>4, <3>5
  <2>2. CASE lo + hi # 0 BY <2>2
  <2> QED BY <2>1, <2>2
<1>8. divmod(z, y, x) = (IF d = 0 THEN DivideByZero(lo + hi, sign(x), sy)
                         ELSE [v |-> IF lo + hi = 0 THEN <<0, 0>> ELSE qr, sx |-> sign(x), sy |-> sy,
                               e |-> "none"]) BY Zenon DEF divmod, hl, d
<1> HIDE DEF qr, lo, hi, sy
<1>9. divmod(z, y, x) = [v |-> qr, sx |-> sign(x), sy |-> sy, e |-> "none"] BY <1>3, <1>7, <1>8
<1> QED BY <1>2, <1>3, <1>6, <1>9 DEF d, n, sy

\* Numbers within the range are built as they are.
LEMMA NumbersBuilt ==
    ASSUME WordsFit, NEW a \in Nat, a <= MaxInt, NEW g \in {0, 1}, Unsigned => g = 0
    PROVE  magnitude(build_value(a, g)) = a /\ (a # 0 => sign(build_value(a, g)) = g)
<1> DEFINE w == build_value(a, g)
<1>1. a < topbit_mask \/ (Unsigned /\ a < 2 * topbit_mask) BY MaxIs, TopBit
<1>2. InRange(IF g = 1 THEN -a ELSE a) BY <1>1, SmallInRange
<1>3. IsWord(w) /\ Signed(w) = (IF g = 1 THEN -a ELSE a) BY <1>2, WordsBuilt
<1> HIDE DEF w
<1>4. magnitude(w) \in Nat /\ sign(w) \in {0, 1}
      /\ Signed(w) = (IF sign(w) = 1 THEN -magnitude(w) ELSE magnitude(w)) BY <1>3, NumberIs
<1> DEFINE m == magnitude(w)
           s == sign(w)
<1>5. m \in Nat /\ s \in {0, 1} /\ (IF s = 1 THEN -m ELSE m) = (IF g = 1 THEN -a ELSE a)
  BY <1>3, <1>4
<1> HIDE DEF m, s
<1>6. m = a /\ (a # 0 => s = g) BY <1>5
<1> QED BY <1>6 DEF m, s, w

\* Double words are divided as they should be.
LEMMA DoubleWordsTold == WordsFit => DoubleWordQuotientsTold
<1> SUFFICES ASSUME WordsFit, NEW z \in Sample,
                    magnitude(X) # 0, DoubleWord(Y, z) \div magnitude(X) <= MaxInt
             PROVE  LET n   == DoubleWord(Y, z)
                        neg == ~Unsigned /\ IsTop(Y)
                        d   == magnitude(X)
                    IN  /\ magnitude(intDblDiv(z, Y, X).v) * d + magnitude(intDblRmdr(z, Y, X).v) = n
                        /\ magnitude(intDblRmdr(z, Y, X).v) < d
                        /\ n \div d # 0 => sign(intDblDiv(z, Y, X).v) = Bit(neg # (sign(X) = 1))
                        /\ intDblDiv(z, Y, X).c = Bit(n % d # 0)
  BY Zenon DEF DoubleWordQuotientsTold, DoubleWord
<1> DEFINE n   == DoubleWord(Y, z)
           neg == ~Unsigned /\ IsTop(Y)
           d   == magnitude(X)
           q   == n \div d
           r   == n % d
           g   == Bit(sign(X) # Bit(neg))
<1>1. IsWord(X) /\ IsWord(Y) /\ IsWord(z)
  <2>1. PICK a \in Operands : z = mask_value(a) BY DEF Sample
  <2>2. a \in Int BY <2>1, IntegerSizes
  <2>3. mask_value(a) \in 0 .. 2 * topbit_mask - 1 BY <2>2, Masks
  <2> QED BY <2>1, <2>3 DEF WordsFit, IsWord
<1>2. /\ n \in Nat /\ d \in Nat \ {0}
      /\ divmod(z, Y, X) = [v |-> <<q % TwoTo[M], r>>, sx |-> sign(X), sy |-> Bit(neg), e |-> "none"]
  BY <1>1, DivmodIs
<1>3. q \in Nat /\ r \in Nat /\ r < d /\ n = q * d + r /\ q <= MaxInt
  <2> HIDE DEF n, d
  <2>1. q \in Nat /\ r \in 0 .. d - 1 /\ n = d * q + r /\ d * q = q * d BY <1>2, Divided
  <2> HIDE DEF q, r
  <2> QED BY <1>2, <2>1 DEF q, n, d
<1>4. MaxInt \in Int /\ MaxInt < TwoTo[M] /\ TwoTo[M] \in Nat \ {0} /\ d <= MaxInt + 1
  <2>1. MaxInt \in Int /\ MaxInt = (IF Unsigned THEN 2 * topbit_mask - 1 ELSE topbit_mask - 1)
    BY MaxIs
  <2>2. topbit_mask \in Nat \ {0} /\ TwoTo[M] \in Nat /\ 2 * topbit_mask <= TwoTo[M]
    BY TopBit, TheMachineWord
  <2>3. d < 2 * topbit_mask /\ (~Unsigned => d <= topbit_mask) BY <1>1, MagnitudeRange
  <2> HIDE DEF d
  <2> QED BY <1>2, <2>1, <2>2, <2>3
<1> HIDE DEF n, d, q, r
<1>5. q % TwoTo[M] = q
  <2> DEFINE P == TwoTo[M]
  <2>1. P \in Nat \ {0} /\ q \in Int /\ q >= 0 /\ q < P BY <1>3, <1>4
  <2> HIDE DEF P
  <2>2. q % P = q BY <2>1, Remainders
  <2> QED BY <2>2 DEF P
<1>6. sign(X) \in {0, 1} /\ (Unsigned => sign(X) = 0) BY <1>1, Magnitudes
<1>7. /\ Bit(neg) \in {0, 1} /\ (Unsigned => Bit(neg) = 0)
      /\ g \in {0, 1} /\ (Unsigned => g = 0) /\ g = Bit(neg # (sign(X) = 1)) BY <1>6 DEF Bit
<1> HIDE DEF g, neg
<1>8. /\ intDblDiv(z, Y, X) = Result(build_value(q, g), Bit(r # 0), 0)
      /\ intDblRmdr(z, Y, X) = Result(build_value(r, Bit(neg)), KEEP, KEEP)
  <2> DEFINE p == divmod(z, Y, X)
  <2>1. p.v = <<q, r>> /\ p.sx = sign(X) /\ p.sy = Bit(neg) /\ p.e = "none" BY <1>2, <1>5
  <2>2. p.v[1] = q /\ p.v[2] = r BY <2>1
  <2> HIDE DEF p
  <2>3. intDblDiv(z, Y, X) = (IF p.e # "none" THEN p
                              ELSE Result(build_value(p.v[1], Bit(p.sx # p.sy)), Bit(p.v[2] # 0), 0))
    BY Zenon DEF intDblDiv, p
  <2>4. intDblRmdr(z, Y, X) = (IF p.e # "none" THEN p
                               ELSE Result(build_value(p.v[2], p.sy), KEEP, KEEP))
    BY Zenon DEF intDblRmdr, p
  <2> QED BY <2>1, <2>2, <2>3, <2>4 DEF g
<1>9. magnitude(build_value(q, g)) = q /\ (q # 0 => sign(build_value(q, g)) = g)
  BY <1>3, <1>7, NumbersBuilt
<1>10. magnitude(build_value(r, Bit(neg))) = r
  <2>1. r <= MaxInt BY <1>2, <1>3, <1>4
  <2> QED BY <1>3, <1>7, <2>1, NumbersBuilt
<1>11. /\ intDblDiv(z, Y, X).v = build_value(q, g) /\ intDblDiv(z, Y, X).c = Bit(r # 0)
       /\ intDblRmdr(z, Y, X).v = build_value(r, Bit(neg)) BY <1>8 DEF Result
<1> QED BY <1>3, <1>7, <1>9, <1>10, <1>11 DEF n, d, q, r, neg

-----
(* Residues *)

\* Such a loop is done with a double word after 2M turns, and keeps what each turn keeps.
LEMMA BitByBit ==
    ASSUME WordsFit, NEW g \in [BitLoop -> BitLoop], NEW a \in BitLoop, a.b < TwoTo[2 * M],
           NEW K, a \in K, \A s \in BitLoop : s \in K => g[s] \in K,
           \A s \in BitLoop : g[s].b = s.b \div 2
    PROVE  LET r == Turned(g, a, 2 * M) IN r \in BitLoop /\ r \in K /\ r.b = 0
<1> DEFINE I == [n \in Nat |-> {s \in BitLoop : s \in K /\ s.b * TwoTo[n] <= a.b}]
<1>1. a.b \in Nat /\ 2 * M \in Nat
  <2>1. M \in Nat BY TheMachineWord
  <2> QED BY <2>1 DEF BitLoop
<1>2. a \in I[0]
  <2>1. TwoTo[0] = 1 BY PowersOfTwo
  <2>2. a.b * 1 = a.b BY <1>1
  <2>3. a.b * TwoTo[0] <= a.b BY <1>1, <2>1, <2>2
  <2> QED BY <2>3
<1>3. ASSUME NEW n \in Nat, NEW s \in BitLoop, s \in I[n] PROVE g[s] \in I[n + 1]
  <2>1. g[s] \in BitLoop /\ g[s] \in K /\ s.b \in Nat /\ g[s].b = s.b \div 2 /\ s.b * TwoTo[n] <= a.b
    BY <1>3 DEF BitLoop
  <2> DEFINE b == s.b
             h == b \div 2
             p == TwoTo[n]
             two == 2
  <2>2. p \in Nat /\ TwoTo[n + 1] = 2 * p BY PowersOfTwo
  <2>3. h \in Nat /\ 2 * h <= b
    <3>1. two \in Nat \ {0} /\ b \in Nat BY <2>1
    <3> HIDE DEF two, b
    <3>2. b \div two \in Nat /\ b % two \in 0 .. two - 1 /\ b = two * (b \div two) + (b % two)
      BY <3>1, Divided
    <3> HIDE DEF h
    <3>3. h = b \div two BY DEF h, two
    <3>4. h \in Nat /\ b % two \in Nat /\ b = two * h + (b % two) BY <3>1, <3>2, <3>3
    <3> DEFINE e == b % two
    <3>5. e \in Nat /\ b = two * h + e BY <3>4
    <3> HIDE DEF e
    <3> QED BY <3>1, <3>4, <3>5 DEF two
  <2>4. b \in Nat /\ b * p <= a.b /\ a.b \in Nat BY <1>1, <2>1
  <2> HIDE DEF b, h, p
  <2>5. h * (2 * p) <= b * p
    <3>1. b = 2 * h + (b - 2 * h) /\ b - 2 * h \in Nat BY <2>3, <2>4
    <3> DEFINE e == b - 2 * h
    <3>2. e \in Nat /\ b = 2 * h + e BY <3>1
    <3> HIDE DEF e
    <3>3. (2 * h + e) * p = h * (2 * p) + e * p /\ h * (2 * p) \in Int BY <2>2, <2>3, <3>2, SMT
    <3>4. e * p \in Nat BY <2>2, <3>2, ProductsGrow
    <3> QED BY <3>2, <3>3, <3>4
  <2>6. h * (2 * p) <= a.b
    <3>1. h * (2 * p) \in Int /\ b * p \in Int BY <2>2, <2>3, <2>4
    <3> QED BY <2>4, <2>5, <3>1
  <2>7. g[s].b * TwoTo[n + 1] <= a.b BY <2>1, <2>2, <2>6 DEF h, b
  <2>8. n + 1 \in Nat OBVIOUS
  <2> QED BY <2>1, <2>7, <2>8
<1> DEFINE r == Turned(g, a, 2 * M)
<1>4. r \in I[2 * M] /\ r \in BitLoop
  <2> DEFINE n == 2 * M
             S == BitLoop
  <2>1. n \in Nat /\ a \in S /\ g \in [S -> S] BY <1>1
  <2>2. \A k \in Nat : \A s \in S : s \in I[k] => g[s] \in I[k + 1] BY <1>3
  <2> HIDE DEF n, I, S
  <2>3. Turned(g, a, n) \in I[n] /\ Turned(g, a, n) \in S BY <1>2, <2>1, <2>2, LoopKeeps
  <2> QED BY <2>3 DEF n, S
<1> HIDE DEF r
<1>5. r \in K /\ r.b \in Nat /\ r.b * TwoTo[2 * M] <= a.b BY <1>1, <1>4 DEF BitLoop
<1>6. r.b = 0
  <2> DEFINE b == r.b
             p == TwoTo[2 * M]
  <2>1. p \in Nat /\ b \in Nat /\ b * p <= a.b /\ a.b < p BY <1>1, <1>5, PowersOfTwo
  <2> HIDE DEF b, p
  <2>2. b > 0 => p <= b * p BY <2>1, ProductsGrow
  <2>3. b * p \in Nat BY <2>1, ProductsGrow
  <2>4. b = 0 BY <1>1, <2>1, <2>2, <2>3
  <2> QED BY <2>4 DEF b
<1> QED BY <1>4, <1>5, <1>6 DEF r

\* A number is twice its half and its lowest bit.
LEMMA LowestBit ==
    ASSUME NEW b \in Nat
    PROVE  /\ b \div 2 \in Nat /\ b % 2 \in {0, 1} /\ b = 2 * (b \div 2) + (b % 2)
           /\ b = 0 => b \div 2 = 0
<1> DEFINE two == 2
<1>1. two \in Nat \ {0} OBVIOUS
<1> HIDE DEF two
<1>2. b \div two \in Nat /\ b % two \in 0 .. two - 1 /\ b = two * (b \div two) + (b % two)
      /\ b \div two <= b BY <1>1, Divided
<1> DEFINE h == b \div 2
           e == b % 2
<1>3. h \in Nat /\ e \in 0 .. 1 /\ b = 2 * h + e /\ h <= b BY <1>2 DEF two
<1> HIDE DEF h, e
<1>4. e \in {0, 1} /\ (b = 0 => h = 0) BY <1>3
<1> QED BY <1>3, <1>4 DEF h, e

\* A sum modulo c in a word that holds it.
LEMMA SumModulo ==
    ASSUME NEW c \in Nat \ {0}, NEW w \in Nat, 2 * c <= w, NEW x \in Nat, NEW y \in Nat, x < c, y < c
    PROVE  LET s == ((x + y) % w) % c
           IN  s \in Nat /\ s < c /\ \E f \in Int : x + y = c * f + s
<1> DEFINE z == x + y
<1>1. z \in Nat /\ z < w /\ w \in Nat \ {0} OBVIOUS
<1> HIDE DEF z
<1>2. z % w = z
  <2>1. z >= 0 /\ z < w /\ z \in Int BY <1>1
  <2> QED BY <1>1, <2>1, Remainders
<1>3. z \div c \in Nat /\ z % c \in 0 .. c - 1 /\ z = c * (z \div c) + (z % c) BY <1>1, Divided
<1> DEFINE s == z % c
           f == z \div c
<1>4. s \in Nat /\ s < c /\ f \in Int /\ z = c * f + s
  <2> HIDE DEF f, s
  <2>1. f \in Nat /\ s \in 0 .. c - 1 /\ z = c * f + s BY <1>3 DEF f, s
  <2> QED BY <2>1
<1>5. ((x + y) % w) % c = s /\ x + y = z BY <1>2 DEF z
<1> HIDE DEF s, f
<1> QED BY <1>4, <1>5

\* One turn: what was added is what the product is short of, but for multiples of c.
LEMMA DoubledAndHalved ==
    ASSUME NEW c \in Nat \ {0}, NEW x \in Nat, NEW y \in Nat, NEW h \in Nat, NEW e \in {0, 1},
           NEW x2 \in Nat, NEW y2 \in Nat, NEW f \in Int, NEW k \in Int,
           y + y = c * f + y2, x + e * y = c * k + x2
    PROVE  x + y * (2 * h + e) = (x2 + y2 * h) + c * (k + f * h) /\ k + f * h \in Int
<1>1. y * (2 * h + e) = (y + y) * h + e * y BY SMT
<1>2. (c * f + y2) * h = c * (f * h) + y2 * h
  <2> DEFINE u == c * f
  <2>1. u \in Int /\ u * h = c * (f * h) BY SMT
  <2> HIDE DEF u
  <2>2. (u + y2) * h = u * h + y2 * h BY <2>1, SMT
  <2> QED BY <2>1, <2>2 DEF u
<1>3. c * (k + f * h) = c * k + c * (f * h) /\ f * h \in Int
  <2> DEFINE u == f * h
  <2>1. u \in Int OBVIOUS
  <2> HIDE DEF u
  <2>2. c * (k + u) = c * k + c * u BY <2>1, SMT
  <2> QED BY <2>1, <2>2 DEF u
<1> DEFINE u1 == y * (2 * h + e)
           u2 == e * y
           u3 == c * (f * h)
           u4 == y2 * h
           u5 == c * k
           u6 == c * (k + f * h)
           u7 == (y + y) * h
<1>4. /\ u1 \in Int /\ u2 \in Int /\ u3 \in Int /\ u4 \in Int /\ u5 \in Int /\ u6 \in Int /\ u7 \in Int
      /\ u1 = u7 + u2 /\ u7 = u3 + u4 /\ u6 = u5 + u3 /\ x + u2 = u5 + x2
  <2>1. u3 \in Int /\ u4 \in Int /\ u5 \in Int /\ u2 \in Int /\ u7 \in Int BY <1>3
  <2>2. u1 = u7 + u2 /\ u7 = u3 + u4 /\ u6 = u5 + u3 /\ x + u2 = u5 + x2 BY <1>1, <1>2, <1>3
  <2> HIDE DEF u1, u2, u3, u4, u5, u6, u7
  <2>3. u1 \in Int /\ u6 \in Int BY <2>1, <2>2
  <2> QED BY <2>1, <2>2, <2>3
<1> HIDE DEF u1, u2, u3, u4, u5, u6, u7
<1>5. x + u1 = (x2 + u4) + u6 BY <1>4
<1>6. k + f * h \in Int BY <1>3
<1> QED BY <1>5, <1>6 DEF u1, u4, u6

\* The product modulo c.
LEMMA MulmodAdds ==
    ASSUME WordsFit, NEW a \in Nat, NEW b \in Nat, NEW c \in Nat \ {0}, NEW w \in Nat,
           2 * c <= w
    PROVE  /\ mulmod(a, b, c, w) \in Nat
           /\ b < TwoTo[2 * M] => mulmod(a, b, c, w) = (a * b) % c
<1> DEFINE S == BitLoop
           g == [s \in S |->
                   IF s.b = 0 THEN s
                   ELSE [x |-> IF s.b % 2 = 1 THEN ((s.x + s.y) % w) % c ELSE s.x,
                         y |-> ((s.y + s.y) % w) % c, b |-> s.b \div 2]]
           s0 == [x |-> 0, y |-> a % c, b |-> b]
           Short(s, e) == s.x + s.y * s.b + c * e = a * b
           K == {s \in S : s.x < c /\ s.y < c /\ \E e \in Int : Short(s, e)}
<1>1. ASSUME NEW s \in S, s.x < c, s.y < c
      PROVE  /\ g[s] \in S /\ g[s].x < c /\ g[s].y < c /\ g[s].b = s.b \div 2
             /\ (\E e \in Int : Short(s, e)) => \E e \in Int : Short(g[s], e)
  <2>1. s.x \in Nat /\ s.y \in Nat /\ s.b \in Nat BY DEF BitLoop
  <2>2. CASE s.b = 0
    <3>1. g[s] = s BY <2>2
    <3>2. s.b \div 2 = 0 BY <2>1, <2>2, LowestBit
    <3> HIDE DEF g
    <3> QED BY <1>1, <2>2, <3>1, <3>2
  <2>3. CASE s.b # 0
    <3> DEFINE x == s.x
               y == s.y
               h == s.b \div 2
               d == s.b % 2
               x1 == ((x + y) % w) % c
               x2 == IF d = 1 THEN x1 ELSE x
               y2 == ((y + y) % w) % c
    <3>1. g[s] = [x |-> x2, y |-> y2, b |-> h] BY <2>3
    <3>2. h \in Nat /\ d \in {0, 1} /\ s.b = 2 * h + d BY <2>1, LowestBit
    <3>3. x1 \in Nat /\ x1 < c /\ \E f \in Int : x + y = c * f + x1
      <4> HIDE DEF x, y
      <4>1. x \in Nat /\ y \in Nat /\ x < c /\ y < c BY <1>1, <2>1 DEF x, y
      <4> QED BY <4>1, SumModulo
    <3>4. y2 \in Nat /\ y2 < c /\ \E f \in Int : y + y = c * f + y2
      <4> HIDE DEF y
      <4>1. y \in Nat /\ y < c BY <1>1, <2>1 DEF y
      <4> QED BY <4>1, SumModulo
    <3>5. x \in Nat /\ y \in Nat /\ x < c BY <1>1, <2>1
    <3> HIDE DEF x, y, h, d, x1, y2
    <3>6. x2 \in Nat /\ x2 < c /\ \E k \in Int : x + d * y = c * k + x2
      <4>1. CASE d = 1
        <5>1. x2 = x1 /\ d * y = y BY <3>5, <4>1
        <5> HIDE DEF x2
        <5> QED BY <3>3, <5>1
      <4>2. CASE d = 0
        <5>1. x2 = x /\ d * y = 0 BY <3>5, <4>2
        <5> DEFINE o == 0
        <5>2. c * o = 0 /\ o \in Int OBVIOUS
        <5> HIDE DEF x2, o
        <5>3. x + d * y = c * o + x2 BY <3>5, <5>1, <5>2
        <5> QED BY <3>5, <5>1, <5>2, <5>3
      <4> QED BY <3>2, <4>1, <4>2
    <3> HIDE DEF g, x2
    <3>7. g[s].x = x2 /\ g[s].y = y2 /\ g[s].b = h BY <3>1
    <3>8. g[s] \in S BY <3>1, <3>2, <3>4, <3>6 DEF BitLoop
    <3>9. ASSUME NEW e \in Int, Short(s, e) PROVE \E e2 \in Int : Short(g[s], e2)
      <4>1. PICK f \in Int : y + y = c * f + y2 BY <3>4
      <4>2. PICK k \in Int : x + d * y = c * k + x2 BY <3>6
      <4>3. x + y * (2 * h + d) = (x2 + y2 * h) + c * (k + f * h) /\ k + f * h \in Int
        BY <3>2, <3>4, <3>5, <3>6, <4>1, <4>2, DoubledAndHalved
      <4> DEFINE m == k + f * h
      <4>4. m \in Int /\ x + y * (2 * h + d) = (x2 + y2 * h) + c * m BY <4>3
      <4> HIDE DEF m
      <4>5. x + y * (2 * h + d) + c * e = a * b BY <3>2, <3>9 DEF x, y
      <4>6. (x2 + y2 * h) + c * (m + e) = a * b /\ m + e \in Int
        <5>1. c * (m + e) = c * m + c * e BY <4>4, SMT
        <5> DEFINE u1 == x2 + y2 * h
                   u2 == c * m
                   u3 == c * e
                   u4 == x + y * (2 * h + d)
        <5>2. u1 \in Int /\ u2 \in Int /\ u3 \in Int /\ u4 = u1 + u2 /\ u4 + u3 = a * b
          <6>1. y2 * h \in Int BY <3>2, <3>4
          <6> QED BY <3>6, <4>4, <4>5, <6>1
        <5> HIDE DEF u1, u2, u3, u4
        <5>3. u1 + (u2 + u3) = a * b BY <5>2
        <5> QED BY <4>4, <5>1, <5>3 DEF u1, u2, u3
      <4>7. Short(g[s], m + e) BY <3>7, <4>6
      <4> HIDE DEF Short
      <4> QED BY <4>6, <4>7
    <3> HIDE DEF Short
    <3> QED BY <3>4, <3>6, <3>7, <3>8, <3>9 DEF h
  <2> QED BY <2>2, <2>3
<1>2. \A s \in S : g[s] \in S /\ g[s].b = s.b \div 2
  <2> SUFFICES ASSUME NEW s \in S PROVE g[s] \in S /\ g[s].b = s.b \div 2 OBVIOUS
  <2>1. s.x \in Nat /\ s.y \in Nat /\ s.b \in Nat BY DEF BitLoop
  <2>2. CASE s.b = 0
    <3>1. g[s] = s BY <2>2
    <3>2. s.b \div 2 = 0 BY <2>1, <2>2, LowestBit
    <3> HIDE DEF g
    <3> QED BY <2>2, <3>1, <3>2
  <2>3. CASE s.b # 0
    <3> DEFINE x1 == ((s.x + s.y) % w) % c
               x2 == IF s.b % 2 = 1 THEN x1 ELSE s.x
               y2 == ((s.y + s.y) % w) % c
               h == s.b \div 2
    <3>1. g[s] = [x |-> x2, y |-> y2, b |-> h] BY <2>3
    <3>2. h \in Nat BY <2>1, LowestBit
    <3>3. \A z \in Nat : (z % w) % c \in Nat
      <4> SUFFICES ASSUME NEW z \in Nat PROVE (z % w) % c \in Nat OBVIOUS
      <4>1. w \in Nat \ {0} OBVIOUS
      <4>2. z % w \in 0 .. w - 1 BY <4>1, Remainders
      <4> DEFINE v == z % w
      <4>3. v \in Nat BY <4>1, <4>2
      <4> HIDE DEF v
      <4>4. v % c \in 0 .. c - 1 BY <4>3, Remainders
      <4>5. v % c \in Nat BY <4>4
      <4> QED BY <4>5 DEF v
    <3>4. x2 \in Nat /\ y2 \in Nat
      <4>1. s.x + s.y \in Nat /\ s.y + s.y \in Nat BY <2>1
      <4>2. x1 \in Nat /\ y2 \in Nat BY <3>3, <4>1
      <4> HIDE DEF x1, y2
      <4> QED BY <2>1, <4>2
    <3> HIDE DEF g, x2, y2, h
    <3> QED BY <3>1, <3>2, <3>4 DEF BitLoop, h
  <2> QED BY <2>2, <2>3
<1>3. g \in [S -> S]
  <2>1. g = [s \in S |-> g[s]] OBVIOUS
  <2> HIDE DEF g, S
  <2> QED BY <1>2, <2>1
<1>4. a % c \in Nat /\ a % c < c /\ a \div c \in Nat /\ a = c * (a \div c) + (a % c)
  <2>1. a \div c \in Nat /\ a % c \in 0 .. c - 1 /\ a = c * (a \div c) + (a % c) BY Divided
  <2> DEFINE r == a % c
  <2>2. r \in 0 .. c - 1 BY <2>1
  <2> HIDE DEF r
  <2>3. r \in Nat /\ r < c BY <2>2
  <2> QED BY <2>1, <2>3 DEF r
<1>5. s0 \in S /\ s0.b = b /\ s0.x = 0 /\ s0.y = a % c BY <1>4 DEF BitLoop
<1>6. s0 \in K
  <2> DEFINE q == a \div c
             r == a % c
  <2>1. q \in Nat /\ r \in Nat /\ r < c /\ a = c * q + r BY <1>4
  <2> HIDE DEF q, r, s0
  <2>2. a * b = (c * q) * b + r * b
    <3> DEFINE u == c * q
    <3>1. u \in Int /\ a = u + r BY <2>1
    <3> HIDE DEF u
    <3>2. (u + r) * b = u * b + r * b BY <2>1, <3>1, SMT
    <3> QED BY <3>1, <3>2 DEF u
  <2>3. (c * q) * b = c * (q * b) /\ q * b \in Int BY <2>1, SMT
  <2>4. 0 + r * b + c * (q * b) = a * b
    <3> DEFINE u1 == r * b
               u2 == c * (q * b)
    <3>1. u1 \in Int /\ u2 \in Int /\ a * b = u2 + u1 BY <2>1, <2>2, <2>3
    <3> HIDE DEF u1, u2
    <3>2. 0 + u1 + u2 = a * b BY <3>1
    <3> QED BY <3>2 DEF u1, u2
  <2>5. Short(s0, q * b) BY <1>5, <2>4 DEF r
  <2>6. s0.x < c /\ s0.y < c BY <1>4, <1>5
  <2> HIDE DEF Short
  <2>7. \E e \in Int : Short(s0, e) BY <2>3, <2>5
  <2> QED BY <1>5, <2>6, <2>7
<1> DEFINE r == Turned(g, s0, 2 * M)
<1>7. r \in S
  <2> DEFINE n == 2 * M
  <2>1. n \in Nat
    <3>1. M \in Nat BY TheMachineWord
    <3> QED BY <3>1
  <2> HIDE DEF g, s0, S, n
  <2>2. Turned(g, s0, n) \in S BY <1>3, <1>5, <2>1, TurnsFollow
  <2> QED BY <2>2 DEF n
<1>8. mulmod(a, b, c, w) = r.x % c BY Zenon DEF mulmod, BitLoop
<1>9. r.x \in Nat /\ r.y \in Nat
  <2> HIDE DEF r
  <2> QED BY <1>7 DEF BitLoop
<1>10. mulmod(a, b, c, w) \in Nat
  <2> DEFINE x == r.x
  <2>1. x \in Nat BY <1>9
  <2> HIDE DEF x
  <2>2. x % c \in 0 .. c - 1 BY <2>1, Remainders
  <2>3. x % c \in Nat BY <2>2
  <2> QED BY <1>8, <2>3 DEF x
<1>11. ASSUME b < TwoTo[2 * M] PROVE mulmod(a, b, c, w) = (a * b) % c
  <2>1. r \in K /\ r.b = 0
    <3>1. \A s \in S : s \in K => g[s] \in K
      <4> HIDE DEF g, Short, S
      <4> QED BY <1>1
    <3>2. \A s \in BitLoop : g[s].b = s.b \div 2
      <4> HIDE DEF g
      <4> QED BY <1>2
    <3>3. \A s \in BitLoop : s \in K => g[s] \in K
      <4> HIDE DEF g, K
      <4> QED BY <3>1
    <3>4. g \in [BitLoop -> BitLoop] /\ s0 \in BitLoop /\ s0.b < TwoTo[2 * M]
      <4> HIDE DEF g, s0
      <4> QED BY <1>3, <1>5, <1>11
    <3> HIDE DEF g, s0, K
    <3> QED BY <1>6, <3>2, <3>3, <3>4, BitByBit
  <2> HIDE DEF r, g, s0
  <2>2. PICK e \in Int : r.x + r.y * r.b + c * e = a * b BY <2>1
  <2>3. r.x < c BY <2>1
  <2> DEFINE x == r.x
             y == r.y
  <2>4. x \in Nat /\ x < c /\ y \in Nat /\ x + y * 0 + c * e = a * b /\ y * 0 = 0
    BY <1>9, <2>1, <2>2, <2>3
  <2> HIDE DEF x, y
  <2>5. c * e + x = a * b /\ x \in 0 .. c - 1 BY <2>4
  <2>6. (c * e + x) % c = x BY <2>5, QuotientIs
  <2>7. x % c = x
    <3>1. x \in Int /\ x >= 0 /\ x < c BY <2>4
    <3> QED BY <3>1, Remainders
  <2> QED BY <1>8, <2>5, <2>6, <2>7 DEF x
<1> HIDE DEF r, g, s0
<1> QED BY <1>10, <1>11

\* The product modulo c, of a double word.
LEMMA MulmodIs ==
    ASSUME WordsFit, NEW a \in Nat, NEW b \in Nat, NEW c \in Nat \ {0}, NEW w \in Nat,
           2 * c <= w, b < TwoTo[2 * M]
    PROVE  mulmod(a, b, c, w) = (a * b) % c
BY MulmodAdds, Zenon

\* Factors may be taken modulo c.
LEMMA FactorModulo ==
    ASSUME NEW a \in Nat, NEW b \in Nat, NEW c \in Nat \ {0}
    PROVE  ((a % c) * b) % c = (a * b) % c /\ (a % c) % c = a % c /\ a % c \in Nat /\ a % c < c
<1> DEFINE q == a \div c
           r == a % c
<1>1. q \in Nat /\ r \in 0 .. c - 1 /\ a = c * q + r BY Divided
<1> HIDE DEF q, r
<1>2. r \in Nat /\ r < c BY <1>1
<1> DEFINE z == r * b
           k == z \div c
           s == z % c
<1>3. z \in Nat BY <1>2, ProductsGrow
<1>4. k \in Nat /\ s \in 0 .. c - 1 /\ z = c * k + s
  <2> HIDE DEF z
  <2> QED BY <1>3, Divided
<1> HIDE DEF k, s
<1>5. a * b = c * (q * b + k) + s /\ q * b + k \in Int
  <2> DEFINE u == c * q
             v == q * b
  <2>1. u \in Int /\ v \in Int /\ u * b = c * v BY <1>1, SMT
  <2>2. (u + r) * b = u * b + r * b
    <3> HIDE DEF u, v
    <3> QED BY <1>2, <2>1, SMT
  <2>3. a = u + r BY <1>1
  <2> HIDE DEF u, v
  <2>4. c * (v + k) = c * v + c * k BY <1>4, <2>1, SMT
  <2>5. a * b = c * v + z BY <2>1, <2>2, <2>3
  <2> DEFINE u1 == c * v
             u2 == c * k
  <2>6. u1 \in Int /\ u2 \in Int /\ s \in Int /\ z = u2 + s BY <1>4, <2>1
  <2> HIDE DEF u1, u2, z
  <2>7. u1 + z = (u1 + u2) + s BY <2>6
  <2>8. a * b = c * (v + k) + s BY <2>4, <2>5, <2>7 DEF u1, u2
  <2> QED BY <1>4, <2>1, <2>8 DEF v
<1>6. (a * b) % c = s
  <2> DEFINE m == q * b + k
  <2>1. m \in Int /\ a * b = c * m + s BY <1>5
  <2> HIDE DEF m
  <2> QED BY <1>4, <2>1, QuotientIs
<1>7. r % c = r
  <2>1. r \in Int /\ r >= 0 /\ r < c BY <1>2
  <2> QED BY <2>1, Remainders
<1> QED BY <1>2, <1>6, <1>7 DEF r, s, z

\* A power's residue is the power of the residue.
LEMMA PowerOfResidue ==
    ASSUME NEW y \in Nat, NEW c \in Nat \ {0}
    PROVE  \A n \in Nat : Power(y % c, n) % c = Power(y, n) % c
<1> DEFINE r == y % c
           T == {n \in Nat : Power(r, n) % c = Power(y, n) % c}
<1>1. r \in Nat /\ r % c = y % c BY FactorModulo
<1>2. /\ \A n \in Nat : Power(y, n) \in Nat
      /\ Power(y, 0) = 1
      /\ \A n \in Nat : Power(y, n + 1) = Power(y, n) * y BY Powers
<1> HIDE DEF r
<1>3. /\ \A n \in Nat : Power(r, n) \in Nat
      /\ Power(r, 0) = 1
      /\ \A n \in Nat : Power(r, n + 1) = Power(r, n) * r BY <1>1, Powers
<1>4. 0 \in T BY <1>2, <1>3
<1>5. ASSUME NEW n \in Nat, n \in T PROVE n + 1 \in T
  <2> DEFINE p == Power(r, n)
             q == Power(y, n)
  <2>1. p \in Nat /\ q \in Nat /\ p % c = q % c /\ Power(r, n + 1) = p * r /\ Power(y, n + 1) = q * y
    BY <1>2, <1>3, <1>5
  <2> HIDE DEF p, q
  <2>2. ((p % c) * r) % c = (p * r) % c /\ ((q % c) * r) % c = (q * r) % c
    BY <1>1, <2>1, FactorModulo
  <2>3. ((r % c) * q) % c = (r * q) % c /\ ((y % c) * q) % c = (y * q) % c
    BY <1>1, <2>1, FactorModulo
  <2>4. r * q = q * r /\ y * q = q * y BY <1>1, <2>1
  <2>5. (p * r) % c = (q * r) % c BY <2>1, <2>2
  <2>6. (q * r) % c = (q * y) % c BY <1>1, <2>3, <2>4
  <2>7. Power(r, n + 1) % c = Power(y, n + 1) % c BY <2>1, <2>5, <2>6
  <2> QED BY <2>7
<1>6. \A n \in Nat : n \in T
  <2> HIDE DEF T
  <2> QED BY <1>4, <1>5, AllNaturals
<1> QED BY <1>6 DEF r

\* The powers modulo c are the powers' residues.
LEMMA PowersModulo ==
    ASSUME NEW b \in Nat, NEW c \in Nat, c > 1
    PROVE  \A n \in Nat : PowerModulo(b, n, c) = Power(b, n) % c
<1> DEFINE g == [p \in Nat |-> (p * b) % c]
           T == {n \in Nat : Turned(g, 1, n) = Power(b, n) % c}
<1>1. c \in Nat \ {0} OBVIOUS
<1>2. g \in [Nat -> Nat]
  <2>1. ASSUME NEW p \in Nat PROVE (p * b) % c \in Nat
    <3> DEFINE z == p * b
    <3>1. z \in Nat BY ProductsGrow
    <3> HIDE DEF z
    <3>2. z % c \in Nat BY <1>1, <3>1, FactorModulo
    <3> QED BY <3>2 DEF z
  <2> QED BY <2>1
<1>3. /\ \A n \in Nat : Turned(g, 1, n) \in Nat
      /\ Turned(g, 1, 0) = 1
      /\ \A n \in Nat : Turned(g, 1, n + 1) = g[Turned(g, 1, n)]
  <2> DEFINE one == 1
             S == Nat
  <2>1. one \in S /\ g \in [S -> S] BY <1>2
  <2> HIDE DEF g, one, S
  <2>2. /\ \A n \in Nat : Turned(g, one, n) \in S
        /\ Turned(g, one, 0) = one
        /\ \A n \in Nat : Turned(g, one, n + 1) = g[Turned(g, one, n)] BY <2>1, TurnsFollow
  <2> QED BY <2>2 DEF one, S
<1>4. /\ \A n \in Nat : Power(b, n) \in Nat
      /\ Power(b, 0) = 1
      /\ \A n \in Nat : Power(b, n + 1) = Power(b, n) * b BY Powers
<1>5. 0 \in T
  <2> DEFINE one == 1
  <2>1. one \in Int /\ one >= 0 /\ one < c OBVIOUS
  <2> HIDE DEF one
  <2>2. one % c = one BY <1>1, <2>1, Remainders
  <2> HIDE DEF g
  <2> QED BY <1>3, <1>4, <2>2 DEF one
<1>6. ASSUME NEW n \in Nat, n \in T PROVE n + 1 \in T
  <2> DEFINE p == Power(b, n)
             t == Turned(g, 1, n)
  <2>1. p \in Nat /\ t \in Nat /\ t = p % c /\ Power(b, n + 1) = p * b
        /\ Turned(g, 1, n + 1) = g[t]
    <3> HIDE DEF g
    <3> QED BY <1>3, <1>4, <1>6
  <2>2. g[t] = (t * b) % c BY <2>1
  <2> HIDE DEF g, p, t
  <2>3. ((p % c) * b) % c = (p * b) % c BY <1>1, <2>1, FactorModulo
  <2>4. Turned(g, 1, n + 1) = Power(b, n + 1) % c BY <2>1, <2>2, <2>3
  <2> QED BY <2>4
<1>7. \A n \in Nat : n \in T
  <2> HIDE DEF T
  <2> QED BY <1>5, <1>6, AllNaturals
<1>8. \A n \in Nat : PowerModulo(b, n, c) = Turned(g, 1, n) BY Zenon DEF PowerModulo
<1> HIDE DEF g
<1> QED BY <1>7, <1>8

\* The power modulo c, squared bit by bit.
LEMMA ExpmodIs ==
    ASSUME WordsFit, NEW a \in Nat, NEW b \in Nat, NEW c \in Nat, c > 1, NEW w \in Nat,
           2 * c <= w, a < TwoTo[2 * M], b < TwoTo[2 * M], c < TwoTo[2 * M]
    PROVE  expmod(a, b, c, w) = PowerModulo(a, b, c)
<1> DEFINE S == BitLoop
           W == TwoTo[2 * M]
           g == [s \in S |->
                   IF s.b = 0 THEN s
                   ELSE [x |-> IF s.b % 2 = 1 THEN mulmod(s.x, s.y, c, w) ELSE s.x,
                         y |-> mulmod(s.y, s.y, c, w), b |-> s.b \div 2]]
           s0 == [x |-> 1, y |-> a, b |-> b]
           left(s) == (s.x * Power(s.y, s.b)) % c
           good(s) == IF s.b = 0 THEN s
                      ELSE [x |-> IF s.b % 2 = 1 THEN (s.x * s.y) % c ELSE s.x,
                            y |-> (s.y * s.y) % c, b |-> s.b \div 2]
           K == {s \in S : s.y < W /\ left(s) = Power(a, b) % c}
<1>1. c \in Nat \ {0} /\ c < W OBVIOUS
<1>2. ASSUME NEW s \in S
      PROVE  good(s) \in S /\ good(s).b = s.b \div 2 /\ (s.y < W => good(s).y < W)
  <2>1. s.x \in Nat /\ s.y \in Nat /\ s.b \in Nat BY DEF BitLoop
  <2>2. CASE s.b = 0
    <3>1. good(s) = s /\ s.b \div 2 = 0 BY <2>1, <2>2, LowestBit
    <3> HIDE DEF good
    <3> QED BY <2>2, <3>1
  <2>3. CASE s.b # 0
    <3> DEFINE x2 == IF s.b % 2 = 1 THEN (s.x * s.y) % c ELSE s.x
               y2 == (s.y * s.y) % c
               h == s.b \div 2
    <3>1. good(s) = [x |-> x2, y |-> y2, b |-> h] BY <2>3
    <3>2. h \in Nat BY <2>1, LowestBit
    <3>3. \A z \in Nat : z % c \in Nat /\ z % c < c BY <1>1, FactorModulo
    <3>4. s.x * s.y \in Nat /\ s.y * s.y \in Nat BY <2>1, ProductsGrow
    <3>5. x2 \in Nat /\ y2 \in Nat /\ y2 < c BY <2>1, <3>3, <3>4
    <3> HIDE DEF x2, y2, h, good
    <3>6. good(s) \in S BY <3>1, <3>2, <3>5 DEF BitLoop
    <3>7. W \in Nat
      <4>1. M \in Nat BY TheMachineWord
      <4>2. 2 * M \in Nat BY <4>1
      <4> QED BY <4>2, PowersOfTwo
    <3>8. y2 < W
      <4> HIDE DEF W
      <4> QED BY <1>1, <3>5, <3>7
    <3>9. good(s).b = h /\ good(s).y = y2 BY <3>1
    <3> QED BY <3>6, <3>8, <3>9 DEF h
  <2> QED BY <2>2, <2>3
<1>3. ASSUME NEW s \in S PROVE left(good(s)) = left(s)
  <2>1. s.x \in Nat /\ s.y \in Nat /\ s.b \in Nat BY DEF BitLoop
  <2>2. CASE s.b = 0
    <3>1. good(s) = s BY <2>2
    <3> HIDE DEF good
    <3> QED BY <3>1
  <2>3. CASE s.b # 0
    <3> DEFINE x == s.x
               y == s.y
               h == s.b \div 2
               d == s.b % 2
               x2 == IF d = 1 THEN (x * y) % c ELSE x
               yy == y * y
               y2 == yy % c
               p == Power(yy, h)
               p2 == Power(y2, h)
    <3>1. good(s) = [x |-> x2, y |-> y2, b |-> h] BY <2>3
    <3>2. h \in Nat /\ d \in {0, 1} /\ s.b = 2 * h + d BY <2>1, LowestBit
    <3>3. x \in Nat /\ y \in Nat BY <2>1
    <3> HIDE DEF x, y, h, d
    <3>4. yy \in Nat /\ y2 \in Nat
      <4>1. yy \in Nat BY <3>3, ProductsGrow
      <4> HIDE DEF yy
      <4> QED BY <1>1, <4>1, FactorModulo
    <3>5. Power(y, 2 * h) = p /\ Power(y, 2 * h + 1) = p * y BY <3>2, <3>3, PowerOfSquare
    <3> HIDE DEF yy
    <3>6. p2 % c = p % c BY <1>1, <3>2, <3>4, PowerOfResidue
    <3> HIDE DEF y2
    <3>7. p \in Nat /\ p2 \in Nat BY <3>2, <3>4, Powers
    <3> HIDE DEF p, p2
    <3>8. (x2 * p2) % c = (x2 * p) % c /\ x2 \in Nat
      <4>1. x2 \in Nat
        <5> DEFINE z == x * y
        <5>1. z \in Nat BY <3>3, ProductsGrow
        <5> HIDE DEF z
        <5>2. z % c \in Nat BY <1>1, <5>1, FactorModulo
        <5> QED BY <3>3, <5>2 DEF z
      <4> HIDE DEF x2
      <4>2. (x2 * p2) % c = (x2 * p) % c
        <5>1. ((p2 % c) * x2) % c = (p2 * x2) % c /\ ((p % c) * x2) % c = (p * x2) % c
          BY <1>1, <3>7, <4>1, FactorModulo
        <5>2. p2 * x2 = x2 * p2 /\ p * x2 = x2 * p BY <3>7, <4>1
        <5> QED BY <3>6, <5>1, <5>2
      <4> QED BY <4>1, <4>2
    <3>9. (x2 * p) % c = (x * Power(y, 2 * h + d)) % c
      <4>1. CASE d = 1
        <5>1. x2 = (x * y) % c BY <4>1
        <5> DEFINE z == x * y
        <5>2. z \in Nat /\ x2 = z % c BY <3>3, <5>1, ProductsGrow
        <5> HIDE DEF x2
        <5>3. z * p = x * (p * y) BY <3>3, <3>7, SMT
        <5> HIDE DEF z
        <5>4. ((z % c) * p) % c = (z * p) % c BY <1>1, <3>7, <5>2, FactorModulo
        <5>5. Power(y, 2 * h + d) = p * y BY <3>5, <4>1
        <5> QED BY <5>2, <5>3, <5>4, <5>5
      <4>2. CASE d = 0
        <5>1. x2 = x /\ 2 * h + d = 2 * h BY <3>2, <4>2
        <5> HIDE DEF x2
        <5> QED BY <3>5, <5>1
      <4> QED BY <3>2, <4>1, <4>2
    <3> HIDE DEF good, x2
    <3>10. good(s).x = x2 /\ good(s).y = y2 /\ good(s).b = h BY <3>1
    <3>11. left(good(s)) = (x2 * p2) % c BY <3>10 DEF p2
    <3>12. left(s) = (x * Power(y, 2 * h + d)) % c BY <3>2 DEF x, y
    <3> QED BY <3>8, <3>9, <3>11, <3>12
  <2> QED BY <2>2, <2>3
<1>4. \A s \in S : s.y < W => g[s] = good(s)
  <2> SUFFICES ASSUME NEW s \in S, s.y < W PROVE g[s] = good(s) OBVIOUS
  <2> DEFINE x == s.x
             y == s.y
  <2>1. x \in Nat /\ y \in Nat BY DEF BitLoop
  <2>2. y < TwoTo[2 * M] OBVIOUS
  <2> HIDE DEF x, y
  <2>3. mulmod(x, y, c, w) = (x * y) % c /\ mulmod(y, y, c, w) = (y * y) % c
    <3> HIDE DEF S, W, g, s0, left, good, K
    <3>1. y \in Nat /\ c \in Nat \ {0} /\ y < TwoTo[2 * M] BY <1>1, <2>1, <2>2
    <3>2. ASSUME NEW u \in Nat PROVE mulmod(u, y, c, w) = (u * y) % c BY <3>1, MulmodIs
    <3>3. mulmod(x, y, c, w) = (x * y) % c BY <2>1, <3>2
    <3>4. mulmod(y, y, c, w) = (y * y) % c BY <2>1, <3>2
    <3> QED BY <3>3, <3>4
  <2>4. g[s] = (IF s.b = 0 THEN s
                ELSE [x |-> IF s.b % 2 = 1 THEN mulmod(x, y, c, w) ELSE x,
                      y |-> mulmod(y, y, c, w), b |-> s.b \div 2]) BY DEF x, y
  <2>5. good(s) = (IF s.b = 0 THEN s
                   ELSE [x |-> IF s.b % 2 = 1 THEN (x * y) % c ELSE x,
                         y |-> (y * y) % c, b |-> s.b \div 2]) BY DEF x, y
  <2> HIDE DEF g, good
  <2> QED BY <2>3, <2>4, <2>5
<1>5. \A s \in S : g[s] \in S /\ g[s].b = s.b \div 2
  <2> SUFFICES ASSUME NEW s \in S PROVE g[s] \in S /\ g[s].b = s.b \div 2 OBVIOUS
  <2>1. s.x \in Nat /\ s.y \in Nat /\ s.b \in Nat BY DEF BitLoop
  <2> DEFINE x2 == IF s.b % 2 = 1 THEN mulmod(s.x, s.y, c, w) ELSE s.x
             y2 == mulmod(s.y, s.y, c, w)
             h == s.b \div 2
  <2>2. mulmod(s.x, s.y, c, w) \in Nat /\ y2 \in Nat
    <3> DEFINE x == s.x
               y == s.y
    <3>1. x \in Nat /\ y \in Nat BY <2>1
    <3> HIDE DEF x, y
    <3>2. mulmod(x, y, c, w) \in Nat /\ mulmod(y, y, c, w) \in Nat BY <1>1, <3>1, MulmodAdds
    <3> QED BY <3>2 DEF x, y
  <2>3. h \in Nat /\ (s.b = 0 => h = 0) BY <2>1, LowestBit
  <2>4. g[s] = (IF s.b = 0 THEN s ELSE [x |-> x2, y |-> y2, b |-> h]) OBVIOUS
  <2>5. x2 \in Nat BY <2>1, <2>2
  <2> HIDE DEF g, x2, y2, h
  <2>6. CASE s.b = 0 BY <2>3, <2>4, <2>6 DEF h
  <2>7. CASE s.b # 0 BY <2>2, <2>3, <2>4, <2>5, <2>7 DEF BitLoop, h
  <2> QED BY <2>6, <2>7
<1>6. g \in [S -> S]
  <2>1. g = [s \in S |-> g[s]] OBVIOUS
  <2> HIDE DEF g, S
  <2> QED BY <1>5, <2>1
<1>7. s0 \in S /\ s0 \in K /\ s0.b = b
  <2>1. s0 \in S /\ s0.x = 1 /\ s0.y = a /\ s0.b = b BY DEF BitLoop
  <2>2. Power(a, b) \in Nat BY Powers
  <2> HIDE DEF s0
  <2> DEFINE p == Power(a, b)
  <2>3. left(s0) = (1 * p) % c BY <2>1
  <2>4. p \in Nat BY <2>2
  <2> HIDE DEF p, left
  <2>5. 1 * p = p BY <2>4
  <2>6. left(s0) = p % c BY <2>3, <2>5
  <2> QED BY <2>1, <2>6 DEF p
<1> DEFINE r == Turned(g, s0, 2 * M)
<1>8. r \in S /\ r \in K /\ r.b = 0
  <2>1. \A s \in BitLoop : s \in K => g[s] \in K
    <3> HIDE DEF g, good, left, S
    <3> QED BY <1>2, <1>3, <1>4 DEF S
  <2>2. \A s \in BitLoop : g[s].b = s.b \div 2
    <3> HIDE DEF g
    <3> QED BY <1>5
  <2>3. g \in [BitLoop -> BitLoop] /\ s0 \in BitLoop /\ s0.b < TwoTo[2 * M]
    <3> HIDE DEF g, s0
    <3> QED BY <1>6, <1>7
  <2> HIDE DEF g, s0, K
  <2> QED BY <1>7, <2>1, <2>2, <2>3, BitByBit
<1>9. expmod(a, b, c, w) = r.x % c BY Zenon DEF expmod, BitLoop
<1> HIDE DEF r, g, s0
<1>10. r.x \in Nat /\ r.y \in Nat /\ left(r) = Power(a, b) % c /\ r.b = 0 BY <1>8 DEF BitLoop
<1>11. Power(r.y, 0) = 1 BY <1>10, Powers
<1>12. left(r) = r.x % c
  <2> DEFINE x == r.x
  <2>1. x \in Nat /\ x * 1 = x BY <1>10
  <2>2. left(r) = (x * 1) % c BY <1>10, <1>11
  <2> HIDE DEF x, left
  <2>3. left(r) = x % c BY <2>1, <2>2
  <2> QED BY <2>3 DEF x
<1>13. PowerModulo(a, b, c) = Power(a, b) % c BY PowersModulo
<1> QED BY <1>9, <1>10, <1>12, <1>13
\* Residues are what they should be.
LEMMA ResiduesAreTold == WordsFit => ResiduesTold
<1> SUFFICES ASSUME WordsFit, X > 1, 2 * X <= TwoTo[M], Unsigned, NEW z \in Sample
             PROVE  /\ intmodop("MULMOD", z, Y, X).v = (z * Y) % X
                    /\ intmodop("EXPMOD", z, Y, X).v = PowerModulo(z, Y, X)
  BY Zenon DEF ResiduesTold
<1>1. IsWord(X) /\ IsWord(Y) /\ IsWord(z)
  <2>1. PICK a \in Operands : z = mask_value(a) BY DEF Sample
  <2>2. a \in Int BY <2>1, IntegerSizes
  <2>3. mask_value(a) \in 0 .. 2 * topbit_mask - 1 BY <2>2, Masks
  <2> QED BY <2>1, <2>3 DEF WordsFit, IsWord
<1> DEFINE t == topbit_mask
           w == TwoTo[M]
<1>2. \A v : IsWord(v) => v \in Nat /\ v < 2 * t /\ sign(v) = 0 /\ magnitude(v) = v
  <2> SUFFICES ASSUME NEW v, IsWord(v)
               PROVE  v \in Nat /\ v < 2 * t /\ sign(v) = 0 /\ magnitude(v) = v OBVIOUS
  <2>1. v \in Int /\ v >= 0 /\ v < 2 * t /\ sign(v) = 0 /\ magnitude(v) = v
    BY NumbersOfWords DEF Unsigned
  <2> QED BY <2>1
<1>3. X \in Nat /\ Y \in Nat /\ z \in Nat /\ X < 2 * t /\ Y < 2 * t /\ z < 2 * t BY <1>1, <1>2
<1>4. w \in Nat /\ 2 * t <= w /\ t \in Nat /\ w <= TwoTo[2 * M] /\ TwoTo[2 * M] \in Nat
  <2>1. w \in Nat /\ 2 * t <= w /\ t \in Nat /\ M \in Nat BY TheMachineWord, TopBit
  <2>2. 2 * M \in Nat /\ M <= 2 * M BY <2>1
  <2>3. TwoTo[M] <= TwoTo[2 * M] /\ TwoTo[2 * M] \in Nat BY <2>1, <2>2, PowersRise
  <2> QED BY <2>1, <2>3
<1>5. ASSUME NEW v \in Nat, v < X PROVE build_value(v, 0) = v
  <2>1. build_value(v, 0) = mask_value(v) BY DEF build_value
  <2>2. v \in Int /\ v >= 0 /\ v < 2 * topbit_mask BY <1>3, <1>4, <1>5
  <2>3. mask_value(v) = v BY <2>2, Masks
  <2> QED BY <2>1, <2>3
<1>6. \A op : intmodop(op, z, Y, X) =
          Result(build_value(IF op = "MULMOD" THEN mulmod(z, Y, X, w) ELSE expmod(z, Y, X, w), 0),
                 KEEP, KEEP)
  <2>1. /\ sign(X) = 0 /\ sign(Y) = 0 /\ sign(z) = 0
        /\ magnitude(X) = X /\ magnitude(Y) = Y /\ magnitude(z) = z BY <1>1, <1>2
  <2>2. ~(X <= 1) BY <1>3
  <2>3. ~(sign(X) = 1 \/ sign(Y) = 1 \/ sign(z) = 1 \/ magnitude(X) <= 1) BY <2>1, <2>2
  <2> QED BY <2>1, <2>3 DEF intmodop
<1> DEFINE n == z * Y
<1>7. n \in Nat /\ X \in Nat \ {0} BY <1>3, ProductsGrow
<1>8. Y < TwoTo[2 * M] /\ z < TwoTo[2 * M] /\ X < TwoTo[2 * M] /\ 2 * X <= w BY <1>3, <1>4
<1> HIDE DEF w, t
<1>9. intmodop("MULMOD", z, Y, X).v = (z * Y) % X
  <2>1. mulmod(z, Y, X, w) = n % X BY <1>3, <1>4, <1>7, <1>8, MulmodIs
  <2> HIDE DEF n
  <2>2. n % X \in Nat /\ n % X < X BY <1>7, FactorModulo
  <2> DEFINE r == n % X
  <2>3. r \in Nat /\ r < X /\ mulmod(z, Y, X, w) = r BY <2>1, <2>2
  <2> HIDE DEF r
  <2>4. build_value(r, 0) = r BY <1>5, <2>3
  <2>5. intmodop("MULMOD", z, Y, X) = Result(build_value(mulmod(z, Y, X, w), 0), KEEP, KEEP) BY <1>6
  <2>6. intmodop("MULMOD", z, Y, X).v = r BY <2>3, <2>4, <2>5 DEF Result
  <2> QED BY <2>6 DEF r, n
<1>10. intmodop("EXPMOD", z, Y, X).v = PowerModulo(z, Y, X)
  <2>1. expmod(z, Y, X, w) = PowerModulo(z, Y, X) BY <1>3, <1>4, <1>8, ExpmodIs
  <2>2. PowerModulo(z, Y, X) = Power(z, Y) % X /\ Power(z, Y) \in Nat BY <1>3, Powers, PowersModulo
  <2> DEFINE p == Power(z, Y)
             r == p % X
  <2>3. p \in Nat BY <2>2
  <2> HIDE DEF p
  <2>4. r \in Nat /\ r < X BY <1>7, <2>3, FactorModulo
  <2>5. expmod(z, Y, X, w) = r /\ PowerModulo(z, Y, X) = r BY <2>1, <2>2 DEF p
  <2> HIDE DEF r
  <2>6. build_value(r, 0) = r BY <1>5, <2>4
  <2>7. intmodop("EXPMOD", z, Y, X) = Result(build_value(expmod(z, Y, X, w), 0), KEEP, KEEP) BY <1>6
  <2> QED BY <2>5, <2>6, <2>7 DEF Result
<1> QED BY <1>9, <1>10

\* The remainders of double words, of products and of powers are told as they
\* are for every size of the machine word, word size, sign mode and operand:
\* the long division by half-words with its estimates, their corrections and
\* the rare one taken back, and the products made bit by bit (intDblDiv,
\* intDblRmdr, divmnu, mulmod, expmod).
THEOREM RemaindersAreTold == Spec => []RemaindersTold
<1>1. WordsFit => RemaindersTold BY DoubleWordsTold, ResiduesAreTold DEF RemaindersTold
<1> QED BY <1>1, RegistersAreWords, PTL
=============================================================================
