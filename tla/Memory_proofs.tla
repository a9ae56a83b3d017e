--------------------------- MODULE Memory_proofs ----------------------------
(***************************************************************************)
(* Theorems about Memory, for memories of every size: the return stack is a *)
(* nest of levels (StackInv), the boundaries are coherent and keep program   *)
(* and return stack apart (LayoutInv), and the levels read from the stack    *)
(* are those of CallStack (CallsInv).                                       *)
(*                                                                         *)
(* First properly nested return stacks: what the commands of Memory do to   *)
(* the words of the stack keeps them readable as levels, each a return      *)
(* address and at most one frame on top of it.                              *)
(***************************************************************************)
EXTENDS MemoryCalls, WellFoundedInduction, SequenceTheorems, TLAPS

-----------------------------------------------------------------------------
(* Nested levels *)

\* The end of the level below the one that ends at e > 0.
Below(s, e) == IF isLOCAL(s[e]) THEN e - LOCAL_LEVELS(s[e]) - 1 ELSE e - 1

\* One level of s, ending at e > 0, above the end Below(s, e).
IsLevel(s, e) ==
    /\ Below(s, e) \in 0 .. e - 1
    /\ s[Below(s, e) + 1] \in PCs
    /\ isLOCAL(s[e]) => Below(s, e) + 2 < e

\* The levels of s end at the members of E.
LevelsEndAt(s, E) ==
    /\ E \subseteq 0 .. Len(s)
    /\ Len(s) \in E
    /\ \A e \in E : e > 0 => /\ IsLevel(s, e)
                             /\ Below(s, e) \in E
                             /\ \A f \in E : f <= Below(s, e) \/ f >= e

\* Going down from the n-th word, l is the first marker; 0 when there is none.
FirstMarker(s, n, l) ==
    /\ l \in 0 .. n
    /\ l > 0 => isLOCAL(s[l])
    /\ \A j \in l + 1 .. n : ~ isLOCAL(s[j])

\* A stack of levels E whose innermost frame ends at l.
Nested(s, l, E) == LevelsEndAt(s, E) /\ FirstMarker(s, Len(s), l)

-----------------------------------------------------------------------------

\* PCs are no markers, and all words are numbers.
LEMMA PCsAreNoMarkers ==
    /\ PCs \subseteq Nat
    /\ \A r \in PCs : ~ isLOCAL(r)
    /\ LOCAL_MARKER \in Nat
    /\ DataWords \subseteq Nat
BY WordsAssumption DEF isLOCAL

\* For the positions below RetStk, which the code counts as negative offsets.
LEMMA MinusZero == -0 = 0
<1>1. \A x \in Int : -x = 0 - x
  OBVIOUS
<1>2. 0 \in Int /\ 0 - 0 = 0
  OBVIOUS
<1> QED BY <1>1, <1>2, Zenon

\* A nonempty set of naturals has a least member.
LEMMA LeastMember ==
    ASSUME NEW T \in SUBSET Nat, T # {}
    PROVE  \E x \in T : \A y \in T : x <= y
<1> DEFINE R == OpToRel(<, Nat)
<1>1. IsWellFoundedOn(R, Nat)
  BY NatLessThanWellFounded
<1>2. \A x, y \in Nat : y < x => << y, x >> \in R
  BY DEF OpToRel
<1> HIDE DEF R
<1>3. PICK x \in T : \A y \in T : << y, x >> \notin R
  BY <1>1, WFMin
<1>4. ASSUME NEW y \in T PROVE x <= y
  <2>1. x \in Nat /\ y \in Nat
    OBVIOUS
  <2>2. ~ (y < x)
    BY <2>1, <1>2, <1>3, Zenon
  <2> QED BY <2>1, <2>2
<1> QED BY <1>4

\* A level lies below its end.
LEMMA BelowInside ==
    ASSUME NEW s, NEW p \in Nat, NEW e \in 1 .. p, IsLevel(s, e)
    PROVE  Below(s, e) \in 0 .. p /\ Below(s, e) + 1 \in 1 .. p
<1> DEFINE x == Below(s, e)
<1>1. x \in 0 .. e - 1
  BY DEF IsLevel
<1> HIDE DEF x
<1>2. x \in 0 .. p /\ x + 1 \in 1 .. p
  BY <1>1
<1> QED BY <1>2 DEF x

\* The empty stack has no level.
LEMMA EmptyNested == Nested(<< >>, 0, {0})
BY DEF Nested, LevelsEndAt, FirstMarker

\* A call, and the start of a program: one return address more.
LEMMA PushNested ==
    ASSUME NEW s \in Seq(Nat), NEW l, NEW E, Nested(s, l, E), NEW r \in PCs
    PROVE  Nested(Append(s, r), l, E \cup {Len(s) + 1})
<1> DEFINE t == Append(s, r)
           F == E \cup {Len(s) + 1}
<1>1. /\ t \in Seq(Nat) /\ Len(t) = Len(s) + 1 /\ Len(s) \in Nat
      /\ \A i \in 1 .. Len(s) : t[i] = s[i] /\ t[i] \in Nat
      /\ t[Len(s) + 1] = r
  BY PCsAreNoMarkers, AppendProperties, LenProperties, ElementOfSeq
<1>2. ~ isLOCAL(r) /\ r \in Nat
  BY PCsAreNoMarkers
<1> HIDE DEF t
<1>3. FirstMarker(t, Len(t), l)
  BY <1>1, <1>2 DEF Nested, FirstMarker
<1>4. E \subseteq 0 .. Len(s) /\ Len(s) \in E
  BY DEF Nested, LevelsEndAt
<1>5. ASSUME NEW e \in F, e > 0
      PROVE  /\ IsLevel(t, e)
             /\ Below(t, e) \in F
             /\ \A f \in F : f <= Below(t, e) \/ f >= e
  <2>1. CASE e = Len(s) + 1
    <3>1. Below(t, e) = Len(s)
      BY <2>1, <1>1, <1>2 DEF Below
    <3> QED BY <3>1, <2>1, <1>1, <1>2, <1>4 DEF IsLevel
  <2>2. CASE e \in E
    <3>1. e \in 1 .. Len(s) /\ t[e] = s[e]
      BY <2>2, <1>5, <1>4, <1>1
    <3>2. /\ IsLevel(s, e) /\ Below(s, e) \in E
          /\ \A f \in E : f <= Below(s, e) \/ f >= e
      BY <2>2, <1>5 DEF Nested, LevelsEndAt
    <3>3. Below(t, e) = Below(s, e)
      BY <3>1 DEF Below
    <3>4. t[Below(s, e) + 1] = s[Below(s, e) + 1]
      <4>1. Below(s, e) + 1 \in 1 .. Len(s)
        BY <3>1, <3>2, <1>1, BelowInside
      <4> QED BY <4>1, <1>1
    <3>5. IsLevel(t, e)
      BY <3>1, <3>2, <3>3, <3>4 DEF IsLevel
    <3> QED BY <3>1, <3>2, <3>3, <3>5, <1>1
  <2> QED BY <2>1, <2>2
<1>6. F \subseteq 0 .. Len(t) /\ Len(t) \in F
  <2>1. Len(t) = Len(s) + 1 /\ Len(s) \in Nat
    BY <1>1
  <2>2. ASSUME NEW x \in F PROVE x \in 0 .. Len(t)
    <3>1. CASE x \in E
      BY <3>1, <2>1, <1>4
    <3>2. CASE x = Len(s) + 1
      BY <3>2, <2>1
    <3> QED BY <3>1, <3>2
  <2> QED BY <2>1, <2>2
<1> HIDE DEF F
<1>7. LevelsEndAt(t, F)
  BY <1>5, <1>6 DEF LevelsEndAt
<1> QED BY <1>3, <1>7 DEF Nested, t, F

\* The first marker going down from the end of a level ends a level itself.
LEMMA MarkerEndsLevel ==
    ASSUME NEW s \in Seq(Nat), NEW E, LevelsEndAt(s, E), NEW n \in E, NEW l,
           FirstMarker(s, n, l), l > 0
    PROVE  l \in E
<1>0. n \in Nat /\ n <= Len(s) /\ Len(s) \in Nat /\ l \in 0 .. n
  BY LenProperties DEF LevelsEndAt, FirstMarker
<1> SUFFICES ASSUME l \notin E PROVE FALSE
  OBVIOUS
<1> DEFINE G == {d \in Nat : n - d >= l /\ n - d \notin E}
<1>1. n - l \in G
  BY <1>0
<1>2. PICK d \in G : \A m \in G : d <= m
  <2>1. G \in SUBSET Nat /\ G # {}
    BY <1>1
  <2> HIDE DEF G
  <2> QED BY <2>1, LeastMember
<1>3. d > 0 /\ n - d >= l /\ n - d \notin E
  BY <1>2, <1>0
<1>4. d - 1 \in Nat /\ d - 1 \notin G
  BY <1>2, <1>3
<1>5. n - d + 1 \in E
  BY <1>3, <1>4, <1>0
<1>6. ~ isLOCAL(s[n - d + 1])
  BY <1>0, <1>3 DEF FirstMarker
<1>7. Below(s, n - d + 1) = n - d
  BY <1>6, <1>0 DEF Below
<1> QED BY <1>0, <1>3, <1>5, <1>7 DEF LevelsEndAt

\* A return: the last level goes.
LEMMA PopNested ==
    ASSUME NEW s \in Seq(Nat), NEW l, NEW E, Nested(s, l, E), Len(s) > 0,
           NEW k, FirstMarker(s, Below(s, Len(s)), k)
    PROVE  /\ Below(s, Len(s)) \in 0 .. Len(s) - 1
           /\ s[Below(s, Len(s)) + 1] \in PCs
           /\ Nested(SubSeq(s, 1, Below(s, Len(s))), k,
                     E \cap (0 .. Below(s, Len(s))))
<1> DEFINE p == Below(s, Len(s))
           t == SubSeq(s, 1, p)
           F == E \cap (0 .. p)
<1>1. Len(s) \in E /\ Len(s) \in Nat /\ E \subseteq 0 .. Len(s)
  BY LenProperties DEF Nested, LevelsEndAt
<1>2. p \in E /\ IsLevel(s, Len(s)) /\ p \in 0 .. Len(s) - 1
  BY <1>1 DEF Nested, LevelsEndAt, IsLevel
<1> HIDE DEF p
<1>3. /\ t \in Seq(Nat) /\ Len(t) = p
      /\ \A i \in 1 .. p : t[i] = s[i]
  <2>1. \A i \in 1 .. p : s[i] \in Nat
    BY <1>1, <1>2, ElementOfSeq
  <2> QED BY <2>1, <1>2, SubSeqProperties
<1> HIDE DEF t
<1>4. FirstMarker(t, Len(t), k)
  <2>1. FirstMarker(s, p, k)
    BY DEF p
  <2> QED BY SMTT(30), <2>1, <1>1, <1>2, <1>3 DEF FirstMarker
<1>5. ASSUME NEW e \in F, e > 0
      PROVE  /\ IsLevel(t, e)
             /\ Below(t, e) \in F
             /\ \A f \in F : f <= Below(t, e) \/ f >= e
  <2>1. e \in 1 .. p /\ t[e] = s[e] /\ e \in E
    BY <1>5, <1>3, <1>2
  <2>2. /\ IsLevel(s, e) /\ Below(s, e) \in E
        /\ \A f \in E : f <= Below(s, e) \/ f >= e
    BY <2>1 DEF Nested, LevelsEndAt
  <2>3. Below(t, e) = Below(s, e)
    BY <2>1 DEF Below
  <2>4. t[Below(s, e) + 1] = s[Below(s, e) + 1]
    <3>1. Below(s, e) + 1 \in 1 .. p
      BY <2>1, <2>2, <1>2, BelowInside
    <3> QED BY <3>1, <1>3
  <2>5. IsLevel(t, e)
    BY <2>1, <2>2, <2>3, <2>4 DEF IsLevel
  <2>6. Below(s, e) \in 0 .. p
    BY <2>1, <2>2, <1>2, BelowInside
  <2> QED BY <2>2, <2>3, <2>5, <2>6
<1>6. F \subseteq 0 .. Len(t) /\ Len(t) \in F
  BY <1>1, <1>2, <1>3
<1> HIDE DEF F
<1>7. LevelsEndAt(t, F)
  BY <1>5, <1>6 DEF LevelsEndAt
<1> QED BY <1>2, <1>4, <1>7 DEF Nested, t, p, F, IsLevel

\* PopLR: the last level's frame goes, its return address stays.
LEMMA DropNested ==
    ASSUME NEW s \in Seq(Nat), NEW l, NEW E, Nested(s, l, E), Len(s) > 0,
           NEW k, FirstMarker(s, Below(s, Len(s)), k)
    PROVE  LET t == SubSeq(s, 1, Below(s, Len(s)) + 1)
           IN  /\ t \in Seq(Nat)
               /\ Len(t) = Below(s, Len(s)) + 1
               /\ ~ isLOCAL(t[Len(t)])
               /\ \E F : Nested(t, k, F)
<1> DEFINE p == Below(s, Len(s))
           q == SubSeq(s, 1, p)
           t == SubSeq(s, 1, p + 1)
<1>1. /\ p \in 0 .. Len(s) - 1
      /\ s[p + 1] \in PCs
      /\ \E F : Nested(q, k, F)
  BY PopNested
<1> HIDE DEF p
<1>2. Len(s) \in Nat /\ \A i \in 1 .. Len(s) : s[i] \in Nat
  BY LenProperties, ElementOfSeq
<1>3. \A i \in 1 .. p + 1 : s[i] \in Nat
  BY <1>1, <1>2
<1>4. /\ q \in Seq(Nat) /\ Len(q) = p
      /\ \A i \in 1 .. p : q[i] = s[i]
  BY <1>1, <1>3, SubSeqProperties
<1>5. /\ t \in Seq(Nat) /\ Len(t) = p + 1
      /\ \A i \in 1 .. p + 1 : t[i] = s[i]
  BY <1>1, <1>3, SubSeqProperties
<1> HIDE DEF q, t
<1>6. t = Append(q, s[p + 1])
  <2> DEFINE a == Append(q, s[p + 1])
  <2>1. /\ a \in Seq(Nat) /\ Len(a) = p + 1
        /\ \A i \in 1 .. p : a[i] = s[i]
        /\ a[p + 1] = s[p + 1]
    BY <1>1, <1>3, <1>4, AppendProperties
  <2> HIDE DEF a
  <2>2. \A i \in 1 .. Len(t) : t[i] = a[i]
    <3> SUFFICES ASSUME NEW i \in 1 .. p + 1 PROVE t[i] = a[i]
      BY <1>5
    <3>1. CASE i \in 1 .. p
      BY <3>1, <1>5, <2>1
    <3>2. CASE i = p + 1
      BY <3>2, <1>5, <2>1
    <3> QED BY <3>1, <3>2, <1>1
  <2>3. t = a
    BY <2>1, <2>2, <1>5, SeqEqual
  <2> QED BY <2>3 DEF a
<1>7. PICK F : Nested(q, k, F)
  BY <1>1
<1>8. Nested(t, k, F \cup {Len(q) + 1})
  BY <1>1, <1>4, <1>6, <1>7, PushNested
<1>9. t[Len(t)] = s[p + 1] /\ ~ isLOCAL(s[p + 1])
  BY <1>1, <1>5, PCsAreNoMarkers
<1> QED BY <1>5, <1>8, <1>9 DEF t, p

\* A store into the innermost frame, behind its marker.
LEMMA StoreNested ==
    ASSUME NEW s \in Seq(Nat), NEW l, NEW E, Nested(s, l, E), l > 0,
           NEW k \in 1 .. LOCAL_LEVELS(s[l]) - 1,
           NEW t \in Seq(Nat), Len(t) = Len(s),
           \A i \in 1 .. Len(s) : i # l - k => t[i] = s[i]
    PROVE  Nested(t, l, E)
<1> DEFINE b == Below(s, l)
<1>1. /\ Len(s) \in Nat /\ Len(s) \in E /\ E \subseteq 0 .. Len(s)
      /\ \A i \in 1 .. Len(s) : s[i] \in Nat
  BY LenProperties, ElementOfSeq DEF Nested, LevelsEndAt
<1>2. l \in 1 .. Len(s) /\ isLOCAL(s[l]) /\ l \in E
  <2>1. LevelsEndAt(s, E) /\ FirstMarker(s, Len(s), l)
    BY DEF Nested
  <2>2. l \in E
    BY <2>1, <1>1, MarkerEndsLevel
  <2> QED BY <2>1, <2>2, <1>1 DEF FirstMarker
<1>3. /\ IsLevel(s, l) /\ b \in E
      /\ \A f \in E : f <= b \/ f >= l
  BY <1>2 DEF Nested, LevelsEndAt
<1>4. b = l - LOCAL_LEVELS(s[l]) - 1 /\ b \in 0 .. l - 1
  BY <1>2, <1>3 DEF Below, IsLevel
<1>5. LOCAL_LEVELS(s[l]) \in Int
  BY <1>1, <1>2, PCsAreNoMarkers DEF LOCAL_LEVELS
<1> HIDE DEF b
<1>6. l - k \in 1 .. Len(s) /\ b + 1 < l - k /\ l - k < l
  <2> DEFINE n == LOCAL_LEVELS(s[l])
  <2>1. n \in Int /\ k \in 1 .. n - 1 /\ b = l - n - 1 /\ b \in 0 .. l - 1
    BY <1>4, <1>5
  <2>2. Len(s) \in Nat /\ l \in 1 .. Len(s)
    BY <1>1, <1>2
  <2> HIDE DEF n
  <2> QED BY <2>1, <2>2
<1>7. Len(t) = Len(s)
  OBVIOUS
<1>8. \A i \in 1 .. Len(s) : i # l - k => t[i] = s[i]
  OBVIOUS
<1>9. FirstMarker(t, Len(t), l)
  <2>1. FirstMarker(s, Len(s), l)
    BY DEF Nested
  <2>2. t[l] = s[l] /\ \A j \in l + 1 .. Len(s) : t[j] = s[j]
    BY <1>1, <1>2, <1>6, <1>8
  <2> QED BY <2>1, <2>2, <1>7 DEF FirstMarker
<1>10. ASSUME NEW e \in E, e > 0
       PROVE  /\ IsLevel(t, e)
              /\ Below(t, e) \in E
              /\ \A f \in E : f <= Below(t, e) \/ f >= e
  <2>1. /\ IsLevel(s, e) /\ Below(s, e) \in E
        /\ \A f \in E : f <= Below(s, e) \/ f >= e
    BY <1>10 DEF Nested, LevelsEndAt
  <2>2. e \in 1 .. Len(s) /\ e # l - k
    <3>1. e <= b \/ e >= l
      BY <1>3
    <3>2. e \in 1 .. Len(s) /\ l \in Int /\ b \in Int
      BY <1>1, <1>2, <1>4, <1>10
    <3>3. Len(s) \in Nat /\ k \in Int /\ b + 1 < l - k /\ l - k < l
      BY <1>1, <1>5, <1>6
    <3> QED BY <3>1, <3>2, <3>3
  <2>3. t[e] = s[e]
    BY <2>2, <1>8
  <2>4. Below(t, e) = Below(s, e)
    BY <2>3 DEF Below
  <2>5. Below(s, e) + 1 \in 1 .. Len(s) /\ Below(s, e) + 1 # l - k
    <3>1. Below(s, e) <= b \/ Below(s, e) >= l
      BY <2>1, <1>3
    <3>2. Below(s, e) \in 0 .. e - 1
      BY <2>1 DEF IsLevel
    <3>3. /\ Len(s) \in Nat /\ k \in Int /\ l \in Int /\ b \in Int
          /\ b + 1 < l - k /\ l - k < l
      BY <1>1, <1>2, <1>4, <1>5, <1>6
    <3>4. e \in 1 .. Len(s)
      BY <2>2
    <3> DEFINE a == Below(s, e)
    <3>5. a \in Int /\ a + 1 >= 1 /\ a + 1 <= Len(s)
      BY <3>2, <3>3, <3>4
    <3>6. a <= b \/ a >= l
      BY <3>1
    <3> HIDE DEF a
    <3>7. a + 1 # l - k
      BY <3>3, <3>5, <3>6
    <3>8. a + 1 \in 1 .. Len(s)
      BY <3>3, <3>5
    <3> QED BY <3>7, <3>8 DEF a
  <2>6. t[Below(s, e) + 1] = s[Below(s, e) + 1]
    BY <2>5, <1>8
  <2>7. IsLevel(t, e)
    BY <2>1, <2>3, <2>4, <2>6 DEF IsLevel
  <2> QED BY <2>1, <2>4, <2>7
<1>11. LevelsEndAt(t, E)
  BY <1>1, <1>7, <1>10 DEF LevelsEndAt
<1> QED BY <1>9, <1>11 DEF Nested

\* A new frame on a level that has none: its marker lies on top.
LEMMA FrameNested ==
    ASSUME NEW s \in Seq(Nat), NEW l, NEW E, Nested(s, l, E), Len(s) > 0,
           ~ isLOCAL(s[Len(s)]),
           NEW t \in Seq(Nat), Len(t) >= 2, t[Len(t)] = LOCAL_MARKER + Len(t)
    PROVE  /\ s \o t \in Seq(Nat)
           /\ Len(s \o t) = Len(s) + Len(t)
           /\ Nested(s \o t, Len(s) + Len(t),
                     (E \ {Len(s)}) \cup {Len(s) + Len(t)})
<1> DEFINE u == s \o t
           n == Len(s)
           m == Len(t)
           F == (E \ {n}) \cup {n + m}
<1>1. /\ n \in Nat /\ n \in E /\ E \subseteq 0 .. n
      /\ \A i \in 1 .. n : s[i] \in Nat
  BY LenProperties, ElementOfSeq DEF Nested, LevelsEndAt
<1>2. m \in Nat /\ m >= 2
  BY LenProperties
<1>3. /\ u \in Seq(Nat) /\ Len(u) = n + m
      /\ \A i \in 1 .. n + m : u[i] = IF i <= n THEN s[i] ELSE t[i - n]
  BY ConcatProperties
<1>4. u[n + m] = LOCAL_MARKER + m
  <2>1. n + m \in 1 .. n + m /\ ~ (n + m <= n) /\ n + m - n = m
    BY <1>1, <1>2
  <2> QED BY <2>1, <1>3
<1>5. \A i \in 1 .. n : u[i] = s[i]
  BY <1>1, <1>2, <1>3
<1>6. /\ Below(s, n) = n - 1 /\ n - 1 \in E /\ s[n] \in PCs
  <2>1. IsLevel(s, n) /\ Below(s, n) \in E
    BY <1>1 DEF Nested, LevelsEndAt
  <2>2. Below(s, n) = n - 1 /\ n - 1 + 1 = n
    BY <1>1 DEF Below
  <2> QED BY <2>1, <2>2 DEF IsLevel
<1> HIDE DEF u, n, m
<1>7. isLOCAL(u[n + m]) /\ LOCAL_LEVELS(u[n + m]) = m
  BY <1>2, <1>4, PCsAreNoMarkers DEF isLOCAL, LOCAL_LEVELS
<1>8. FirstMarker(u, n + m, n + m)
  BY <1>1, <1>2, <1>7 DEF FirstMarker
<1>9. ASSUME NEW e \in F, e > 0
      PROVE  /\ IsLevel(u, e)
             /\ Below(u, e) \in F
             /\ \A f \in F : f <= Below(u, e) \/ f >= e
  <2>1. CASE e = n + m
    <3>1. Below(u, e) = n - 1
      BY <2>1, <1>1, <1>2, <1>7 DEF Below
    <3>2. n \in 1 .. n /\ n - 1 + 1 = n
      BY <1>1, <1>6
    <3>3. u[n] = s[n]
      BY <3>2, <1>5
    <3>4. IsLevel(u, e)
      <4>1. n - 1 \in 0 .. e - 1 /\ n - 1 + 2 < e
        <5>1. n \in Nat /\ n >= 1
          BY <3>2
        <5> HIDE DEF F
        <5> QED BY <2>1, <5>1, <1>2
      <4>2. u[n - 1 + 1] \in PCs
        BY <3>2, <3>3, <1>6
      <4> QED BY <3>1, <4>1, <4>2, Zenon DEF IsLevel
    <3>5. n - 1 \in F
      BY <1>1, <1>6
    <3>6. \A f \in F : f <= n - 1 \/ f >= e
      BY <2>1, <1>1, <1>2
    <3> QED BY <3>1, <3>4, <3>5, <3>6
  <2>2. CASE e \in E /\ e # n
    <3>1. e \in 1 .. n - 1
      BY <2>2, <1>1, <1>9
    <3>2. /\ IsLevel(s, e) /\ Below(s, e) \in E
          /\ \A f \in E : f <= Below(s, e) \/ f >= e
      BY <2>2, <1>9 DEF Nested, LevelsEndAt
    <3>3. u[e] = s[e]
      BY <3>1, <1>1, <1>5
    <3>4. Below(u, e) = Below(s, e)
      BY <3>3 DEF Below
    <3>5. Below(s, e) \in 0 .. e - 1
      BY <3>2 DEF IsLevel
    <3>6. Below(s, e) + 1 \in 1 .. n /\ Below(s, e) # n
      BY <3>1, <3>5, <1>1
    <3>7. u[Below(s, e) + 1] = s[Below(s, e) + 1]
      BY <3>6, <1>5
    <3>8. IsLevel(u, e)
      BY <3>2, <3>3, <3>4, <3>7 DEF IsLevel
    <3>9. \A f \in F : f <= Below(s, e) \/ f >= e
      BY <3>1, <3>2, <1>1, <1>2
    <3> QED BY <3>2, <3>4, <3>6, <3>8, <3>9
  <2> QED BY <2>1, <2>2
<1>10. F \subseteq 0 .. n + m /\ n + m \in F
  BY <1>1, <1>2
<1> HIDE DEF F
<1>11. LevelsEndAt(u, F)
  BY <1>3, <1>9, <1>10 DEF LevelsEndAt
<1> QED BY <1>3, <1>8, <1>11 DEF Nested, u, n, m, F

-----------------------------------------------------------------------------
(* The return stack *)

StackInv ==
    /\ stk \in Seq(Nat)
    /\ RetStkPtr = -Len(stk)
    /\ LocalRegs \in Int
    /\ \E E : Nested(stk, -LocalRegs, E)
    /\ pc \in PCs
    /\ Running \in BOOLEAN
    /\ Running => Len(stk) > 0

\* The scan of retstk_up finds the first marker going down the stack.
LEMMA InnermostIsFirst ==
    ASSUME stk \in Seq(Nat), NEW n \in 0 .. Len(stk)
    PROVE  /\ Innermost(-n) \in Int
           /\ FirstMarker(stk, n, -Innermost(-n))
<1> DEFINE M == {i \in -n .. -1 : isLOCAL(Word(i))}
<1>1. n \in Nat /\ n <= Len(stk) /\ Len(stk) \in Nat
  BY LenProperties
<1>2. CASE M = {}
  <2>1. Innermost(-n) = 0
    BY <1>2 DEF Innermost
  <2>2. \A j \in 1 .. n : ~ isLOCAL(stk[j])
    <3> SUFFICES ASSUME NEW j \in 1 .. n PROVE ~ isLOCAL(stk[j])
      OBVIOUS
    <3>1. -j \in -n .. -1 /\ -(-j) = j
      BY <1>1
    <3> QED BY <3>1, <1>2 DEF Word
  <2> QED BY <2>1, <2>2, <1>1 DEF FirstMarker
<1>3. CASE M # {}
  <2> DEFINE D == {d \in Nat : d - n \in M}
  <2>1. PICK d \in D : \A e \in D : d <= e
    <3>1. D \in SUBSET Nat
      OBVIOUS
    <3>2. D # {}
      <4>1. PICK i \in M : TRUE
        BY <1>3
      <4>2. i \in Int /\ n \in Int /\ i + n \in Nat /\ i + n - n = i
        BY <1>1
      <4> HIDE DEF M
      <4>3. i + n \in D
        BY <4>1, <4>2
      <4> QED BY <4>3
    <3> HIDE DEF D
    <3> QED BY <3>1, <3>2, LeastMember
  <2> DEFINE Best(i) == /\ isLOCAL(Word(i))
                        /\ \A j \in -n .. i - 1 : ~ isLOCAL(Word(j))
  <2>2. d - n \in -n .. -1 /\ isLOCAL(Word(d - n))
    BY <2>1
  <2>3. \A j \in -n .. d - n - 1 : ~ isLOCAL(Word(j))
    <3> SUFFICES ASSUME NEW j \in -n .. d - n - 1, isLOCAL(Word(j)) PROVE FALSE
      OBVIOUS
    <3>1. d \in Nat /\ j + n \in Nat /\ j + n < d /\ j + n - n = j /\ j \in -n .. -1
      BY <1>1, <2>1, <2>2
    <3>2. j \in M
      BY <3>1
    <3> HIDE DEF M
    <3>3. j + n \in D
      BY <3>1, <3>2
    <3> HIDE DEF D
    <3>4. d <= j + n
      BY <3>3, <2>1
    <3> QED BY <3>1, <3>4, <1>1
  <2> DEFINE c == Innermost(-n)
  <2>4. c = CHOOSE i \in -n .. -1 : Best(i)
    BY <2>2 DEF Innermost
  <2>5. c \in -n .. -1 /\ Best(c)
    <3> HIDE DEF Best, c
    <3>1. \E i \in -n .. -1 : Best(i)
      BY <2>2, <2>3 DEF Best
    <3> QED BY <3>1, <2>4
  <2> HIDE DEF c
  <2>6. -c \in 1 .. n
    BY <2>5, <1>1
  <2>7. isLOCAL(stk[-c])
    BY <2>5 DEF Word
  <2>8. \A j \in -c + 1 .. n : ~ isLOCAL(stk[j])
    <3> SUFFICES ASSUME NEW j \in -c + 1 .. n PROVE ~ isLOCAL(stk[j])
      OBVIOUS
    <3>1. -j \in -n .. c - 1 /\ -(-j) = j
      BY <1>1, <2>5
    <3>2. ~ isLOCAL(Word(-j))
      BY <3>1, <2>5
    <3> QED BY <3>1, <3>2 DEF Word
  <2> QED BY <2>5, <2>6, <2>7, <2>8, <1>1 DEF FirstMarker, c
<1> QED BY <1>2, <1>3

\* What is left after retstk_up: the stack up to the end of the level below.
LEMMA UpIsBelow ==
    ASSUME StackInv, RetStkPtr < 0
    PROVE  /\ Below(stk, Len(stk)) \in 0 .. Len(stk) - 1
           /\ UpPtr = -Below(stk, Len(stk))
           /\ UpLocal \in Int
           /\ FirstMarker(stk, Below(stk, Len(stk)), -UpLocal)
           /\ Word(UpPtr - 1) = stk[Below(stk, Len(stk)) + 1]
           /\ Word(UpPtr - 1) \in PCs
<1> DEFINE n == Len(stk)
           b == Below(stk, n)
<1>1. n \in Nat /\ n > 0 /\ RetStkPtr = -n /\ Word(RetStkPtr) = stk[n] /\ stk[n] \in Nat
  BY LenProperties, ElementOfSeq DEF StackInv, Word
<1>2. PICK E : Nested(stk, -LocalRegs, E)
  BY DEF StackInv
<1>3. IsLevel(stk, n)
  BY <1>1, <1>2 DEF Nested, LevelsEndAt
<1>4. b \in 0 .. n - 1 /\ stk[b + 1] \in PCs
  BY <1>3 DEF IsLevel
<1>5. UpPtr = -b
  BY <1>1, PCsAreNoMarkers DEF UpPtr, Below, LOCAL_LEVELS
<1>6. UpPtr - 1 = -(b + 1) /\ -(-(b + 1)) = b + 1
  BY <1>4, <1>5, <1>1
<1>7. Word(UpPtr - 1) = stk[b + 1]
  BY <1>6 DEF Word
<1>8. UpLocal \in Int /\ FirstMarker(stk, b, -UpLocal)
  <2>1. CASE isLOCAL(stk[n])
    <3>1. b \in 0 .. Len(stk) /\ UpLocal = Innermost(-b)
      BY <2>1, <1>1, <1>4, <1>5 DEF UpLocal
    <3> HIDE DEF b
    <3> QED BY <3>1, InnermostIsFirst DEF StackInv
  <2>2. CASE ~ isLOCAL(stk[n])
    <3>1. UpLocal = LocalRegs /\ b = n - 1
      BY <2>2, <1>1 DEF UpLocal, Below
    <3>2. FirstMarker(stk, n, -LocalRegs) /\ LocalRegs \in Int
      BY <1>2 DEF Nested, StackInv
    <3>3. -LocalRegs \in 0 .. n /\ -LocalRegs # n
      BY <3>2, <2>2, <1>1 DEF FirstMarker
    <3> QED BY <3>1, <3>2, <3>3, <1>1 DEF FirstMarker
  <2> QED BY <2>1, <2>2
<1> QED BY <1>4, <1>5, <1>7, <1>8

\* Commands that leave the stack alone.
LEMMA SameStack ==
    ASSUME StackInv, UNCHANGED stack, pc' \in PCs, Running' \in BOOLEAN,
           Running' => Len(stk) > 0
    PROVE  StackInv'
BY DEF StackInv, stack

\* Commands that clear it.
LEMMA ClearedStack ==
    ASSUME clrretstk, pc' \in PCs, Running' = FALSE
    PROVE  StackInv'
<1>1. stk' = << >> /\ RetStkPtr' = 0 /\ LocalRegs' = 0
  BY DEF clrretstk
<1>2. -0 = 0
  BY MinusZero
<1>3. << >> \in Seq(Nat) /\ Len(<< >>) = 0
  BY EmptySeq
<1>4. Nested(stk', -LocalRegs', {0})
  BY <1>1, <1>2, EmptyNested
<1> QED BY <1>1, <1>2, <1>3, <1>4 DEF StackInv

\* The program counter of a command is a program step.
LEMMA AtIsStep ==
    ASSUME StackInv, NEW by
    PROVE  At(by) \subseteq PCs
BY DEF StackInv, At

\* One return address more, on the stack or on the cleared stack.
LEMMA PushedStack ==
    ASSUME StackInv, NEW s, NEW l, s \in Seq(Nat), l \in Int,
           \E E : Nested(s, -l, E), NEW r \in PCs,
           stk' = Append(s, r), RetStkPtr' = -Len(s) - 1, LocalRegs' = l,
           pc' \in PCs, Running' \in BOOLEAN
    PROVE  StackInv'
<1>1. PICK E : Nested(s, -l, E)
  OBVIOUS
<1>2. Nested(stk', -LocalRegs', E \cup {Len(s) + 1})
  BY <1>1, PushNested
<1>3. stk' \in Seq(Nat) /\ Len(stk') = Len(s) + 1 /\ Len(s) \in Nat
  BY PCsAreNoMarkers, AppendProperties, LenProperties
<1> QED BY <1>2, <1>3 DEF StackInv

\* XEQ (gsbgto) pushes a return address.
LEMMA CallNests ==
    ASSUME StackInv, NEW by, NEW target \in PCs, NEW back \in PCs, Call(by, target, back)
    PROVE  StackInv'
<1>1. pc' \in PCs /\ Running' \in BOOLEAN
  BY DEF Call
<1>2. CASE by = "key"
  <2>1. << >> \in Seq(Nat) /\ Len(<< >>) = 0
    BY EmptySeq
  <2>2. -0 = 0 /\ 0 \in Int
    BY MinusZero
  <2>3. \E E : Nested(<< >>, -0, E)
    BY <2>2, EmptyNested
  <2>4. stk' = Append(<< >>, back) /\ RetStkPtr' = 0 - 1 /\ LocalRegs' = 0
    BY <1>2 DEF Call
  <2>5. RetStkPtr' = -Len(<< >>) - 1
    BY <2>1, <2>2, <2>4
  <2> QED BY <1>1, <2>1, <2>2, <2>3, <2>4, <2>5, PushedStack
<1>3. CASE by # "key"
  <2>1. /\ stk' = Append(stk, back) /\ RetStkPtr' = -Len(stk) - 1
        /\ LocalRegs' = LocalRegs
    BY <1>3 DEF Call, StackInv
  <2>2. stk \in Seq(Nat) /\ LocalRegs \in Int /\ \E E : Nested(stk, -LocalRegs, E)
    BY DEF StackInv
  <2> QED BY <1>1, <2>1, <2>2, PushedStack
<1> QED BY <1>2, <1>3

\* R/S (op_rs) pushes the address to return to when it starts.
LEMMA RunStopNests ==
    ASSUME StackInv, NEW by, RunStop(by)
    PROVE  StackInv'
<1>1. pc' \in PCs /\ Running' \in BOOLEAN
  BY AtIsStep DEF RunStop
<1>2. CASE by = "key" /\ RetStkPtr = 0
  <2>1. Len(stk) = 0 /\ Len(stk) \in Nat /\ stk \in Seq(Nat)
    BY <1>2, LenProperties DEF StackInv
  <2>2. stk = << >>
    BY <2>1, EmptySeq
  <2>3. stk' = Append(stk, pc)
    BY <1>2, <2>2 DEF RunStop
  <2>4. RetStkPtr' = -1 /\ LocalRegs' = LocalRegs /\ pc \in PCs
    BY <1>2 DEF RunStop, StackInv
  <2>5. RetStkPtr' = -Len(stk) - 1
    BY <2>1, <2>4
  <2>6. LocalRegs \in Int /\ \E E : Nested(stk, -LocalRegs, E)
    BY DEF StackInv
  <2> QED BY <1>1, <2>1, <2>3, <2>4, <2>5, <2>6, PushedStack
<1>3. CASE ~ (by = "key" /\ RetStkPtr = 0)
  <2>1. UNCHANGED stack
    BY <1>3 DEF RunStop
  <2>2. Running' => Len(stk) > 0
    BY <1>3, LenProperties DEF RunStop, StackInv
  <2> QED BY <1>1, <2>1, <2>2, SameStack
<1> QED BY <1>2, <1>3

\* RTN (retstk_up, do_rtn) drops the innermost level.
LEMMA ReturnNests ==
    ASSUME StackInv, NEW by, NEW plus1 \in BOOLEAN, Return(by, plus1)
    PROVE  StackInv'
<1> DEFINE b == Below(stk, Len(stk))
<1>1. RetStkPtr < 0 /\ Len(stk) > 0 /\ stk \in Seq(Nat) /\ Len(stk) \in Nat
  BY LenProperties DEF Return, StackInv
<1>2. /\ b \in 0 .. Len(stk) - 1 /\ UpPtr = -b
      /\ UpLocal \in Int /\ FirstMarker(stk, b, -UpLocal)
      /\ Word(UpPtr - 1) \in PCs
  BY <1>1, UpIsBelow
<1>3. PICK E : Nested(stk, -LocalRegs, E)
  BY DEF StackInv
<1>4. Nested(SubSeq(stk, 1, b), -UpLocal, E \cap (0 .. b))
  BY <1>1, <1>2, <1>3, PopNested
<1> HIDE DEF b
<1>5. stk' = SubSeq(stk, 1, b) /\ LocalRegs' = UpLocal /\ RetStkPtr' = -b
  BY <1>1, <1>2 DEF Return
<1>6. SubSeq(stk, 1, b) \in Seq(Nat) /\ Len(SubSeq(stk, 1, b)) = b
  <2>1. \A i \in 1 .. b : stk[i] \in Nat
    BY <1>1, <1>2, ElementOfSeq
  <2> QED BY <2>1, <1>2, SubSeqProperties
<1>7. pc' \in PCs
  <2>1. pc' \in Targets(plus1)
    BY DEF Return
  <2> QED BY <2>1, <1>2 DEF Targets
<1>8. Running' \in BOOLEAN /\ (Running' => b > 0)
  <2>1. Running' = (Running /\ UpPtr # 0)
    BY DEF Return
  <2>2. UpPtr # 0 => b > 0
    BY <1>1, <1>2
  <2> QED BY <2>1, <2>2, Zenon
<1> QED BY <1>2, <1>4, <1>5, <1>6, <1>7, <1>8 DEF StackInv

\* The stack without the frame of its last level.
LEMMA WithoutFrame ==
    ASSUME StackInv, RetStkPtr < 0
    PROVE  LET t == SubSeq(stk, 1, 1 - UpPtr)
           IN  /\ t \in Seq(Nat) /\ Len(t) = 1 - UpPtr /\ Len(t) \in Nat \ {0}
               /\ ~ isLOCAL(t[Len(t)])
               /\ UpLocal \in Int
               /\ \E E : Nested(t, -UpLocal, E)
<1> DEFINE b == Below(stk, Len(stk))
<1>1. stk \in Seq(Nat) /\ Len(stk) > 0
  BY LenProperties DEF StackInv
<1>2. b \in 0 .. Len(stk) - 1 /\ UpPtr = -b /\ UpLocal \in Int /\ FirstMarker(stk, b, -UpLocal)
  BY UpIsBelow
<1>3. PICK E : Nested(stk, -LocalRegs, E)
  BY DEF StackInv
<1>4. LET t == SubSeq(stk, 1, b + 1)
      IN  /\ t \in Seq(Nat) /\ Len(t) = b + 1 /\ ~ isLOCAL(t[Len(t)])
          /\ \E F : Nested(t, -UpLocal, F)
  BY <1>1, <1>2, <1>3, DropNested
<1> HIDE DEF b
<1>5. 1 - UpPtr = b + 1 /\ b + 1 \in Nat \ {0}
  BY <1>1, <1>2, LenProperties
<1> QED BY <1>2, <1>4, <1>5

\* PopLR (cmdlpop) drops a frame and keeps its return address.
LEMMA PopLRNests ==
    ASSUME StackInv, NEW by, PopLR(by)
    PROVE  StackInv'
<1>1. /\ RetStkPtr < 0 /\ RetStkPtr' = UpPtr - 1 /\ LocalRegs' = UpLocal
      /\ stk' = SubSeq(stk, 1, 1 - UpPtr)
  BY DEF PopLR
<1>2. /\ stk' \in Seq(Nat) /\ Len(stk') = 1 - UpPtr /\ Len(stk') \in Nat \ {0}
      /\ UpLocal \in Int /\ \E E : Nested(stk', -UpLocal, E)
  BY <1>1, WithoutFrame
<1>3. UpPtr \in Int
  BY <1>1, UpIsBelow, LenProperties DEF StackInv
<1>4. RetStkPtr' = -Len(stk')
  BY <1>1, <1>2, <1>3
<1>5. pc' \in PCs /\ Running' \in BOOLEAN
  BY AtIsStep DEF PopLR, Done, StackInv
<1> QED BY <1>1, <1>2, <1>4, <1>5 DEF StackInv

\* What a store does to the words of the stack.
LEMMA StoredWords ==
    ASSUME StackInv, NEW by, NEW k, NEW w \in DataWords, StoreLocal(by, k, w)
    PROVE  LET l == -LocalRegs
           IN  /\ l \in 1 .. Len(stk) /\ isLOCAL(stk[l])
               /\ k \in 1 .. LOCAL_LEVELS(stk[l]) - 1
               /\ stk' \in Seq(Nat) /\ Len(stk') = Len(stk)
               /\ \A i \in 1 .. Len(stk) : i # l - k => stk'[i] = stk[i]
<1>1. LocalRegs < 0 /\ k \in 1 .. LOCAL_LEVELS(stk[-LocalRegs]) - 1
  BY DEF StoreLocal, local_levels, Word
<1>2. stk \in Seq(Nat) /\ LocalRegs \in Int /\ w \in Nat
  BY PCsAreNoMarkers DEF StackInv
<1>3. PICK E : Nested(stk, -LocalRegs, E)
  BY DEF StackInv
<1> DEFINE l == -LocalRegs
<1>4. l > 0 /\ l - k = -(LocalRegs + k) /\ -l = LocalRegs
  BY <1>1, <1>2
<1>5. stk' = [stk EXCEPT ![l - k] = w]
  BY <1>4 DEF StoreLocal
<1> HIDE DEF l
<1>6. k \in 1 .. LOCAL_LEVELS(stk[l]) - 1 /\ Nested(stk, l, E)
  BY <1>1, <1>3 DEF l
<1>7. l \in 1 .. Len(stk) /\ Len(stk) \in Nat /\ isLOCAL(stk[l])
  BY <1>2, <1>4, <1>6, LenProperties DEF Nested, FirstMarker
<1>8. l \in E /\ stk[l] \in Nat
  <2>1. LevelsEndAt(stk, E) /\ FirstMarker(stk, Len(stk), l)
    BY <1>6 DEF Nested
  <2>2. Len(stk) \in E
    BY <2>1 DEF LevelsEndAt
  <2>3. l \in E
    BY <2>1, <2>2, <1>2, <1>4, MarkerEndsLevel
  <2> QED BY <2>3, <1>2, <1>7, ElementOfSeq
<1>9. l - LOCAL_LEVELS(stk[l]) - 1 \in 0 .. l - 1
  BY <1>6, <1>7, <1>8 DEF Nested, LevelsEndAt, IsLevel, Below
<1>10. LOCAL_LEVELS(stk[l]) \in Int
  BY <1>8, PCsAreNoMarkers DEF LOCAL_LEVELS
<1>11. l - k \in 1 .. Len(stk)
  <2> DEFINE m == LOCAL_LEVELS(stk[l])
  <2>1. m \in Int /\ k \in 1 .. m - 1 /\ l - m - 1 \in 0 .. l - 1
    BY <1>6, <1>9, <1>10
  <2> HIDE DEF m
  <2> QED BY <2>1, <1>7
<1>12. /\ stk' \in Seq(Nat) /\ Len(stk') = Len(stk)
       /\ \A i \in 1 .. Len(stk) : i # l - k => stk'[i] = stk[i]
  BY <1>2, <1>5, <1>11, ExceptSeq
<1> QED BY <1>6, <1>7, <1>12 DEF l

\* A store changes a word inside a frame, never a marker.
LEMMA StoreLocalNests ==
    ASSUME StackInv, NEW by, NEW k, NEW w \in DataWords, StoreLocal(by, k, w)
    PROVE  StackInv'
<1> DEFINE l == -LocalRegs
<1>1. /\ l \in 1 .. Len(stk) /\ k \in 1 .. LOCAL_LEVELS(stk[l]) - 1
      /\ stk' \in Seq(Nat) /\ Len(stk') = Len(stk)
      /\ \A i \in 1 .. Len(stk) : i # l - k => stk'[i] = stk[i]
  BY StoredWords
<1>2. PICK E : Nested(stk, l, E)
  BY DEF StackInv
<1>3. stk \in Seq(Nat) /\ l > 0
  BY <1>1 DEF StackInv
<1> HIDE DEF l
<1>4. Nested(stk', l, E)
  BY <1>1, <1>2, <1>3, StoreNested
<1>5. pc' \in PCs /\ Running' = Running /\ RetStkPtr' = RetStkPtr /\ LocalRegs' = LocalRegs
  BY AtIsStep DEF StoreLocal, Done
<1> QED BY <1>1, <1>4, <1>5 DEF StackInv, l

\* t is the frame that LocR puts on base, which is s without the frame its last
\* level had, of old words: flags and registers are taken over.
Framed(s, old, base, t) ==
    LET n == Len(s)
        m == Len(t)
        o == FlagOffset(-(Len(base) + m), m)
    IN  /\ base \in Seq(Nat) /\ t \in Seq(Nat)
        /\ base = SubSeq(s, 1, n - old) /\ Len(base) = n - old /\ Len(base) > 0
        /\ ~ isLOCAL(base[Len(base)])
        /\ \E l, F : Nested(base, l, F)
        /\ m >= 2 /\ t[m] = LOCAL_MARKER + m /\ m % 2 = 0
        /\ \/ /\ ~ isLOCAL(s[n]) /\ old = 0
              /\ t[m - o] = 0
           \/ /\ isLOCAL(s[n]) /\ old = LOCAL_LEVELS(s[n])
              /\ t[m - o] = s[n - FlagOffset(-n, old)]
              /\ \A k \in 1 .. m - 1 : k # o /\ k < old => t[m - k] = s[n - k]

\* LocR asks for an even number of words.
LEMMA FramesAreEven ==
    ASSUME NEW arg \in LocArgs, NEW dbl
    PROVE  LET size == arg * REG_WORDS * (IF dbl THEN 2 ELSE 1) + 2
           IN  size \in Nat /\ size >= 2 /\ size % 2 = 0
<1>1. arg \in Nat /\ REG_WORDS \in Nat /\ REG_WORDS % 2 = 0
  BY SizesAssumption, ArgsAssumption, EvenAssumption
<1>2. PICK h \in Nat : REG_WORDS = 2 * h
  <2>1. REG_WORDS \div 2 \in Nat /\ REG_WORDS = 2 * (REG_WORDS \div 2)
    BY <1>1
  <2> QED BY <2>1
<1> DEFINE x == arg * h
<1>3. x \in Nat
  BY <1>1
<1>4. arg * REG_WORDS = 2 * x
  <2>1. arg * (2 * h) = 2 * (arg * h)
    BY <1>1
  <2> QED BY <2>1, <1>2
<1> HIDE DEF x
<1>5. arg * REG_WORDS * 1 = 2 * x /\ arg * REG_WORDS * 2 = 4 * x
  BY <1>3, <1>4
<1>6. /\ 2 * x + 2 \in Nat /\ 2 * x + 2 >= 2 /\ (2 * x + 2) % 2 = 0
      /\ 4 * x + 2 \in Nat /\ 4 * x + 2 >= 2 /\ (4 * x + 2) % 2 = 0
  BY <1>3
<1> QED BY <1>5, <1>6

\* What LocR does to the words of the stack.
LEMMA LocRWords ==
    ASSUME StackInv, NEW by, NEW arg \in LocArgs, RetStkPtr < 0, LocR(by, arg),
           LocalRegs' = RetStkPtr'
    PROVE  \E old \in Nat : \E base, t :
              /\ Framed(stk, old, base, t)
              /\ stk' = base \o t
              /\ RetStkPtr' = -(Len(base) + Len(t))
<1> DEFINE size  == arg * REG_WORDS * (IF is_dblmode THEN 2 ELSE 1) + 2
           again == RetStkPtr # 0 /\ RetStkPtr = LocalRegs
           old   == IF again THEN local_levels ELSE 0
           flags == IF again THEN Word(LocalRegs + FlagOffset(LocalRegs, old)) ELSE 0
           sp    == RetStkPtr + old - size
           off   == FlagOffset(sp, size)
           f     == [k \in 0 .. size - 1 |-> IF k < old THEN Word(LocalRegs + k) ELSE 0]
           g     == [f EXCEPT ![0] = LOCAL_MARKER + size, ![off] = flags]
           t     == [j \in 1 .. size |-> g[size - j]]
           n     == Len(stk)
           base  == SubSeq(stk, 1, n - old)
<1>1. /\ stk' = base \o t /\ RetStkPtr' = sp
  BY DEF LocR, Done
<1>2. /\ n \in Nat /\ n > 0 /\ RetStkPtr = -n /\ stk \in Seq(Nat) /\ LocalRegs \in Int
      /\ \A i \in 1 .. n : stk[i] \in Nat
  BY LenProperties, ElementOfSeq DEF StackInv
<1>3. PICK E : Nested(stk, -LocalRegs, E)
  BY DEF StackInv
<1>4. size \in Nat /\ size >= 2 /\ size % 2 = 0
  BY FramesAreEven
<1>5. again => /\ isLOCAL(stk[n]) /\ old = LOCAL_LEVELS(stk[n])
               /\ n - old = 1 - UpPtr /\ old \in 2 .. n - 1
  <2> SUFFICES ASSUME again
               PROVE  /\ isLOCAL(stk[n]) /\ old = LOCAL_LEVELS(stk[n])
                      /\ n - old = 1 - UpPtr /\ old \in 2 .. n - 1
    OBVIOUS
  <2>1. -LocalRegs = n /\ LocalRegs < 0 /\ FirstMarker(stk, n, n)
    BY <1>2, <1>3 DEF Nested
  <2>2. isLOCAL(stk[n])
    BY <2>1, <1>2 DEF FirstMarker
  <2>3. old = LOCAL_LEVELS(stk[n])
    BY <2>1, <1>2 DEF local_levels, Word
  <2>4. IsLevel(stk, n) /\ Below(stk, n) = n - old - 1
    BY <2>2, <2>3, <1>2, <1>3 DEF Nested, LevelsEndAt, Below
  <2>5. stk[n] \in Nat /\ LOCAL_MARKER \in Nat
    BY <1>2, PCsAreNoMarkers
  <2>6. old \in Int
    BY <2>3, <2>5 DEF LOCAL_LEVELS
  <2>7. UpPtr = -Below(stk, n)
    BY UpIsBelow
  <2> HIDE DEF old
  <2>8. n - old - 1 \in 0 .. n - 1 /\ n - old - 1 + 2 < n
    BY <2>2, <2>4 DEF IsLevel
  <2>9. n \in Nat
    BY <1>2
  <2> HIDE DEF n
  <2>10. n - old = 1 - UpPtr /\ old \in 2 .. n - 1
    BY <2>4, <2>6, <2>7, <2>8, <2>9
  <2> QED BY <2>2, <2>3, <2>10
<1>6. ~ again => old = 0 /\ ~ isLOCAL(stk[n])
  <2> SUFFICES ASSUME ~ again, isLOCAL(stk[n]) PROVE FALSE
    OBVIOUS
  <2>1. FirstMarker(stk, n, -LocalRegs)
    BY <1>3 DEF Nested
  <2>2. -LocalRegs \in 0 .. n /\ ~ (n \in -LocalRegs + 1 .. n)
    BY <2>1 DEF FirstMarker
  <2> QED BY <2>2, <1>2
<1>7. /\ base \in Seq(Nat) /\ Len(base) = n - old /\ Len(base) \in Nat \ {0}
      /\ ~ isLOCAL(base[Len(base)])
      /\ \E l, F : Nested(base, l, F)
  <2>1. CASE again
    <3>1. base = SubSeq(stk, 1, 1 - UpPtr)
      BY <2>1, <1>5
    <3> HIDE DEF base, again, old
    <3>2. \E F : Nested(base, -UpLocal, F)
      BY <3>1, WithoutFrame
    <3> QED BY <2>1, <3>1, <3>2, <1>5, WithoutFrame
  <2>2. CASE ~ again
    <3>1. base = stk
      BY <2>2, <1>2, <1>6, SubSeqFull
    <3> HIDE DEF base, again, old
    <3> QED BY <2>2, <3>1, <1>2, <1>3, <1>6
  <2> QED BY <2>1, <2>2
<1>8. old \in Nat /\ (old > 0 => again /\ old <= n - 1 /\ LocalRegs = -n)
  <2>1. CASE again
    BY <2>1, <1>2, <1>5
  <2>2. CASE ~ again
    BY <2>2, <1>6
  <2> QED BY <2>1, <2>2
<1> HIDE DEF old, again, size
<1>9. off \in 1 .. size - 1
  BY <1>4 DEF FlagOffset
<1>10. flags \in Nat /\ (again => flags = stk[n - FlagOffset(-n, old)])
                     /\ (~ again => flags = 0)
  <2>1. CASE again
    <3> DEFINE o == FlagOffset(LocalRegs, old)
    <3>1. old \in 2 .. n - 1 /\ LocalRegs = -n
      BY <2>1, <1>2, <1>5 DEF again
    <3>2. o \in 1 .. old - 1
      BY <3>1 DEF FlagOffset
    <3>3. o = FlagOffset(-n, old)
      BY <3>1
    <3> HIDE DEF o
    <3>4. -(LocalRegs + o) = n - o /\ n - o \in 1 .. n
      BY <3>1, <3>2, <1>2
    <3>5. Word(LocalRegs + o) = stk[n - o] /\ Word(LocalRegs + o) \in Nat
      BY <3>4, <1>2 DEF Word
    <3>6. flags = Word(LocalRegs + o)
      BY <2>1 DEF o
    <3> HIDE DEF flags
    <3> QED BY <2>1, <3>3, <3>5, <3>6
  <2>2. CASE ~ again
    BY <2>2
  <2> QED BY <2>1, <2>2
<1>11. /\ f \in [0 .. size - 1 -> Nat]
       /\ \A k \in 1 .. size - 1 : k < old => f[k] = stk[n - k]
  <2>1. ASSUME NEW k \in 0 .. size - 1, k < old
        PROVE  Word(LocalRegs + k) \in Nat /\ Word(LocalRegs + k) = stk[n - k]
    <3>1. k \in Nat /\ old <= n - 1 /\ LocalRegs = -n /\ old \in Nat
      BY <2>1, <1>4, <1>8
    <3>2. -(LocalRegs + k) \in 1 .. n /\ -(LocalRegs + k) = n - k
      BY <3>1, <2>1, <1>2
    <3> QED BY <3>2, <1>2 DEF Word
  <2>2. f \in [0 .. size - 1 -> Nat]
    BY <2>1
  <2>3. \A k \in 1 .. size - 1 : k \in 0 .. size - 1
    BY <1>4
  <2> QED BY <2>1, <2>2, <2>3
<1> HIDE DEF f, flags, off
<1>12. /\ t \in Seq(Nat) /\ Len(t) = size /\ t[size] = LOCAL_MARKER + size
       /\ t[size - off] = flags
       /\ \A k \in 1 .. size - 1 : k # off /\ k < old => t[size - k] = stk[n - k]
  <2>1. g \in [0 .. size - 1 -> Nat]
    <3>1. LOCAL_MARKER + size \in Nat
      BY <1>4, PCsAreNoMarkers
    <3> QED BY <3>1, <1>10, <1>11
  <2>2. g[0] = LOCAL_MARKER + size /\ g[off] = flags
    BY <1>4, <1>9, <1>11
  <2>3. \A k \in 1 .. size - 1 : k # off => g[k] = f[k]
    BY <1>4, <1>9, <1>11
  <2> HIDE DEF g
  <2>4. \A j \in 1 .. size : size - j \in 0 .. size - 1
    BY <1>4
  <2>5. \A j \in 1 .. size : g[size - j] \in Nat
    BY <2>1, <2>4
  <2>6. t \in Seq(Nat) /\ Len(t) = size
    BY <1>4, <2>5, IsASeq
  <2>7. size \in 1 .. size /\ size - size = 0
    BY <1>4
  <2>8. \A k \in 1 .. size - 1 : size - k \in 1 .. size /\ size - (size - k) = k
    BY <1>4
  <2>9. \A k \in 1 .. size - 1 : t[size - k] = g[k]
    BY <2>8
  <2>10. t[size] = LOCAL_MARKER + size
    BY <2>2, <2>7
  <2> HIDE DEF t
  <2>11. t[size - off] = flags
    BY <2>2, <2>9, <1>9
  <2>12. \A k \in 1 .. size - 1 : k # off /\ k < old => t[size - k] = stk[n - k]
    BY <2>3, <2>9, <1>11, Zenon
  <2> QED BY <2>6, <2>10, <2>11, <2>12
<1>13. base = SubSeq(stk, 1, n - old)
  OBVIOUS
<1> HIDE DEF t, base
<1>14. sp = -(Len(base) + Len(t)) /\ off = FlagOffset(-(Len(base) + Len(t)), Len(t))
  <2>1. sp = -(Len(base) + Len(t))
    BY <1>2, <1>4, <1>7, <1>8, <1>12
  <2> HIDE DEF sp
  <2> QED BY <2>1, <1>12 DEF off
<1> HIDE DEF sp
<1>15. Framed(stk, old, base, t)
  <2>1. Len(base) > 0
    BY <1>7
  <2>2. CASE again
    BY <2>1, <2>2, <1>4, <1>5, <1>7, <1>10, <1>12, <1>13, <1>14, Zenon DEF Framed, n
  <2>3. CASE ~ again
    BY <2>1, <2>3, <1>4, <1>6, <1>7, <1>10, <1>12, <1>13, <1>14, Zenon DEF Framed, n
  <2> QED BY <2>2, <2>3
<1> QED BY <1>1, <1>8, <1>14, <1>15, Zenon

\* The words of a frame are numbers, and its marker lies on top.
LEMMA LocRNests ==
    ASSUME StackInv, NEW by, NEW arg \in LocArgs, RetStkPtr < 0, LocR(by, arg),
           LocalRegs' = RetStkPtr'
    PROVE  StackInv'
<1>1. PICK old \in Nat : \E base, t :
         /\ Framed(stk, old, base, t)
         /\ stk' = base \o t
         /\ RetStkPtr' = -(Len(base) + Len(t))
  BY LocRWords
<1>2. PICK base, t :
         /\ Framed(stk, old, base, t)
         /\ stk' = base \o t
         /\ RetStkPtr' = -(Len(base) + Len(t))
  BY <1>1
<1>3. /\ base \in Seq(Nat) /\ Len(base) > 0 /\ ~ isLOCAL(base[Len(base)])
      /\ t \in Seq(Nat) /\ Len(t) >= 2 /\ t[Len(t)] = LOCAL_MARKER + Len(t)
      /\ \E l, F : Nested(base, l, F)
  BY <1>2, Zenon DEF Framed
<1>4. PICK l, F : Nested(base, l, F)
  BY <1>3
<1> DEFINE n == Len(base) + Len(t)
           u == base \o t
<1>5. u \in Seq(Nat) /\ Len(u) = n /\ \E G : Nested(u, n, G)
  BY <1>3, <1>4, FrameNested, Zenon
<1>6. n \in Nat /\ n > 0
  BY <1>3, LenProperties
<1>7. stk' = u /\ RetStkPtr' = -n /\ LocalRegs' = -n
  BY <1>2
<1>8. pc' \in PCs /\ Running' \in BOOLEAN
  BY AtIsStep DEF LocR, Done, StackInv
<1> HIDE DEF n, u
<1>9. -(-n) = n
  BY <1>6
<1> QED BY <1>5, <1>6, <1>7, <1>8, <1>9 DEF StackInv

\* Calls, returns and R/S together.
LEMMA LevelsNest ==
    ASSUME StackInv, NEW by, Levels(by)
    PROVE  StackInv'
<1>1. CASE \E target, back \in PCs : Call(by, target, back)
  BY <1>1, CallNests
<1>2. CASE \E target \in PCs : Goto(by, target)
  BY <1>2, SameStack DEF Goto, StackInv
<1>3. CASE \E plus1 \in BOOLEAN : Return(by, plus1)
  BY <1>3, ReturnNests
<1>4. CASE StrayReturn(by)
  <2>1. clrretstk /\ pc' \in PCs /\ Running' = FALSE
    BY <1>4, WordsAssumption DEF StrayReturn
  <2> QED BY <2>1, ClearedStack
<1>5. CASE RunStop(by)
  BY <1>5, RunStopNests
<1> QED BY <1>1, <1>2, <1>3, <1>4, <1>5 DEF Levels

\* LocR, PopLR and stores together.
LEMMA LocalsNest ==
    ASSUME StackInv, NEW by, Locals(by)
    PROVE  StackInv'
<1>1. CASE \E n \in LocArgs : RetStkPtr < 0 /\ LocR(by, n) /\ LocalRegs' = RetStkPtr'
  BY <1>1, LocRNests
<1>2. CASE PopLR(by)
  BY <1>2, PopLRNests
<1>3. CASE \E k \in 1 .. Len(stk), w \in DataWords : StoreLocal(by, k, w)
  BY <1>3, StoreLocalNests
<1> QED BY <1>1, <1>2, <1>3 DEF Locals

\* Registers, precision and statistics leave the stack's words alone.
LEMMA RegistersNest ==
    ASSUME StackInv, NEW by, Registers(by)
    PROVE  StackInv'
<1>1. UNCHANGED stack /\ Done(by)
  BY DEF Registers, cmdregs, op_double, Precision, SetIntMode, cmdrestm,
         sigmaAllocate, sigmaDeallocate, stack
<1>2. pc' \in PCs /\ Running' = Running
  BY <1>1, AtIsStep DEF Done
<1> QED BY <1>1, <1>2, SameStack DEF StackInv

\* Program commands clear the return stack or leave it alone.
LEMMA ProgramsNest ==
    ASSUME StackInv, Programs
    PROVE  StackInv'
<1>1. ~ Running /\ Running' = Running /\ pc' \in PCs
  BY WordsAssumption
     DEF Programs, stoprog, delprog, clrprog, clpall, clrall, reset, load_state, recall_program,
         load_program, append_program, Appended, AppendRefused, TooLong, StackInv
<1>2. UNCHANGED stack \/ clrretstk
  BY DEF Programs, stoprog, delprog, clrprog, clpall, clrall, reset, load_state, recall_program,
         load_program, append_program, Appended, AppendRefused, TooLong, GivenUp
<1>3. CASE UNCHANGED stack
  <2>1. Running' = FALSE
    BY <1>1 DEF StackInv
  <2> QED BY <1>1, <1>3, <2>1, SameStack
<1>4. CASE clrretstk
  BY <1>1, <1>4, ClearedStack DEF StackInv
<1> QED BY <1>2, <1>3, <1>4

\* Every checked command keeps the stack's invariant.
LEMMA StackStep ==
    ASSUME StackInv, [CheckedNext]_vars
    PROVE  StackInv'
<1>1. CASE \E by \in Sources : Levels(by)
  BY <1>1, LevelsNest
<1>2. CASE \E by \in Sources : Locals(by)
  BY <1>2, LocalsNest
<1>3. CASE \E by \in Sources : Registers(by)
  BY <1>3, RegistersNest
<1>4. CASE \E by \in Sources : Fail(by)
  <2>1. UNCHANGED stack /\ pc' \in PCs /\ Running' = FALSE
    BY <1>4, AtIsStep DEF Fail
  <2> QED BY <2>1, SameStack
<1>5. CASE Programs
  BY <1>5, ProgramsNest
<1>6. CASE CallRefused
  <2>1. (clrretstk \/ UNCHANGED stack) /\ pc' \in PCs /\ Running' = FALSE
    BY <1>6 DEF CallRefused, GivenUp, StackInv
  <2> QED BY <2>1, ClearedStack, SameStack
<1>7. CASE \E c \in {"stop", "other"} : KeyWhileRunning(c)
  <2>1. UNCHANGED stack /\ pc' \in PCs /\ Running' \in BOOLEAN /\ Len(stk) > 0
    BY <1>7 DEF KeyWhileRunning, StackInv
  <2> QED BY <2>1, SameStack
<1>8. CASE UNCHANGED vars
  BY <1>8, SameStack DEF vars, stack, StackInv
<1> QED BY <1>1, <1>2, <1>3, <1>4, <1>5, <1>6, <1>7, <1>8 DEF CheckedNext

\* The invariant holds of the calculator after a reset.
LEMMA StackInit == Init => StackInv
<1> SUFFICES ASSUME Init PROVE StackInv
  OBVIOUS
<1>1. stk = << >> /\ RetStkPtr = 0 /\ LocalRegs = 0
  BY DEF Init
<1>2. -0 = 0
  BY MinusZero
<1>3. << >> \in Seq(Nat) /\ Len(<< >>) = 0
  BY EmptySeq
<1>4. Nested(stk, -LocalRegs, {0})
  BY <1>1, <1>2, EmptyNested
<1>5. pc \in PCs /\ Running = FALSE
  BY WordsAssumption DEF Init
<1> QED BY <1>1, <1>2, <1>3, <1>4, <1>5 DEF StackInv

\* The words of the return stack are nested levels, each a return address with
\* at most one frame on it, whatever XEQ, RTN, LocR, PopLR and stores do.
THEOREM StackIsNested == CheckedSpec => []StackInv
<1>1. StackInv /\ [RetStkPtr <= 0 /\ CheckedNext]_vars => StackInv'
  BY StackStep
<1> QED BY <1>1, StackInit, PTL DEF CheckedSpec

\* A running program has a level to return from (gsbgto, op_rs, do_rtn).
THEOREM AlwaysBase == CheckedSpec => []RunningHasBase
<1>1. StackInv => RunningHasBase
  BY LenProperties DEF StackInv, RunningHasBase
<1> QED BY <1>1, StackIsNested, PTL

\* LocalRegs, which retstk_up finds by stepping over the words, is the innermost
\* frame on the stack.
THEOREM AlwaysInnermost == CheckedSpec => []LocalRegsInnermost
<1>1. StackInv => LocalRegsInnermost
  <2> SUFFICES ASSUME StackInv PROVE LocalRegs = Innermost(RetStkPtr)
    BY DEF LocalRegsInnermost
  <2>1. Len(stk) \in 0 .. Len(stk) /\ RetStkPtr = -Len(stk) /\ stk \in Seq(Nat)
    BY LenProperties DEF StackInv
  <2>2. /\ FirstMarker(stk, Len(stk), -Innermost(RetStkPtr)) /\ Innermost(RetStkPtr) \in Int
    BY <2>1, InnermostIsFirst
  <2>3. FirstMarker(stk, Len(stk), -LocalRegs) /\ LocalRegs \in Int
    BY DEF StackInv, Nested
  <2>4. \A l, m \in 0 .. Len(stk) :
           FirstMarker(stk, Len(stk), l) /\ FirstMarker(stk, Len(stk), m) => l = m
    BY <2>1 DEF FirstMarker
  <2>5. -Innermost(RetStkPtr) \in 0 .. Len(stk) /\ -LocalRegs \in 0 .. Len(stk)
    BY <2>2, <2>3 DEF FirstMarker
  <2>6. -Innermost(RetStkPtr) = -LocalRegs
    BY <2>2, <2>3, <2>4, <2>5
  <2> QED BY <2>2, <2>3, <2>6
<1> QED BY <1>1, StackIsNested, PTL

\* A program whose RTN empties the stack stops (do_rtn).
THEOREM StopsWhenEmpty == CheckedSpec => EmptyStackStops
<1>1. StackInv' => (Running' => ~ (RetStkPtr' >= 0))
  BY LenProperties DEF StackInv
<1>2. StackInv /\ [RetStkPtr <= 0 /\ CheckedNext]_vars
        => [Running /\ RetStkPtr < RetStkPtr' /\ RetStkPtr' >= 0 => ~ Running']_vars
  BY <1>1, StackStep
<1> QED BY <1>2, StackIsNested, PTL DEF CheckedSpec, EmptyStackStops

-----------------------------------------------------------------------------
(* The boundaries *)

\* Where RetStk belongs: above the statistics block and the registers.
Base(regs, stats) ==
    (TOPREALREG - regs) * REG_WORDS - (IF stats THEN STAT_WORDS ELSE 0)

\* The boundaries are those of the registers and statistics there are.  Unless a
\* program runs, the room left may date from before the program was edited, and
\* statistics dropped by a command that failed may be there again.
Current == \E size \in Int, stats \in BOOLEAN :
              /\ ctx = Contexts(size, NumRegs, stats)
              /\ stats => have_stats
              /\ Running => size = ProgSize /\ stats = have_stats

LayoutInv ==
    /\ ProgSize \in Nat /\ NumRegs \in Nat
    /\ have_stats \in BOOLEAN /\ mode_double \in BOOLEAN /\ intm \in BOOLEAN
    /\ Current
    /\ ProgSize <= RET_STACK_SIZE + Base(NumRegs, have_stats) + RetStkPtr
    /\ DoubleHasRoom
    /\ NumRegs <= 2 * TOPREALREG + LETTERED

\* Products, which the rest of the proofs take as they are.
LEMMA Products ==
    /\ \A a, b, c \in Int : a * c \in Int /\ (a - b) * c = a * c - b * c
    /\ \A a, b \in Int, c \in Nat : a <= b => a * c <= b * c
<1>1. ASSUME NEW a \in Int, NEW b \in Int, NEW c \in Int
      PROVE  a * c \in Int /\ (a - b) * c = a * c - b * c
  OBVIOUS
<1>2. ASSUME NEW a \in Int, NEW b \in Int, NEW c \in Nat, a <= b
      PROVE  a * c <= b * c
  <2>1. (b - a) * c \in Nat
    BY <1>2
  <2> QED BY <2>1, <1>1
<1> QED BY <1>1, <1>2

\* The words below the registers and the statistics, as a number.
LEMMA BaseIsInt ==
    ASSUME NEW regs \in Int, NEW stats
    PROVE  Base(regs, stats) \in Int
<1>1. TOPREALREG - regs \in Int /\ REG_WORDS \in Int /\ STAT_WORDS \in Int
  BY SizesAssumption
<1>2. (TOPREALREG - regs) * REG_WORDS \in Int
  BY <1>1, Products
<1> QED BY <1>1, <1>2 DEF Base

\* What the assumptions on the sizes say of Base.
LEMMA BaseType ==
    ASSUME NEW regs \in Int, NEW stats \in BOOLEAN
    PROVE  /\ Base(regs, stats) \in Int
           /\ \A r \in Int : Base(r, stats) = Base(regs, stats) + (regs - r) * REG_WORDS
           /\ Base(regs, FALSE) = Base(regs, TRUE) + STAT_WORDS
           /\ regs <= 2 * TOPREALREG + LETTERED => RET_STACK_SIZE + Base(regs, stats) >= 1
<1>1. /\ TOPREALREG \in Int /\ REG_WORDS \in Nat /\ STAT_WORDS \in Nat
      /\ LETTERED \in Int /\ RET_STACK_SIZE \in Int
      /\ (TOPREALREG + LETTERED) * REG_WORDS + STAT_WORDS < RET_STACK_SIZE
  BY SizesAssumption
<1>2. (TOPREALREG - regs) * REG_WORDS \in Int
  BY <1>1, Products
<1>3. ASSUME NEW r \in Int
      PROVE  Base(r, stats) = Base(regs, stats) + (regs - r) * REG_WORDS
  <2>1. /\ (TOPREALREG - regs) * REG_WORDS = TOPREALREG * REG_WORDS - regs * REG_WORDS
        /\ (TOPREALREG - r) * REG_WORDS = TOPREALREG * REG_WORDS - r * REG_WORDS
        /\ (regs - r) * REG_WORDS = regs * REG_WORDS - r * REG_WORDS
        /\ TOPREALREG * REG_WORDS \in Int /\ regs * REG_WORDS \in Int /\ r * REG_WORDS \in Int
    BY <1>1, Products
  <2> QED BY <2>1, <1>1 DEF Base
<1>4. ASSUME regs <= 2 * TOPREALREG + LETTERED
      PROVE  RET_STACK_SIZE + Base(regs, stats) >= 1
  <2> DEFINE a == TOPREALREG + LETTERED
  <2>1. a \in Int /\ 0 - a <= TOPREALREG - regs
    BY <1>1, <1>4
  <2>2. (0 - a) * REG_WORDS <= (TOPREALREG - regs) * REG_WORDS
    BY <2>1, <1>1, Products
  <2>3. (0 - a) * REG_WORDS = 0 * REG_WORDS - a * REG_WORDS
    BY <2>1, <1>1, Products
  <2>4. 0 * REG_WORDS = 0 /\ a * REG_WORDS \in Int
    BY <2>1, <1>1, Products
  <2>5. a * REG_WORDS + STAT_WORDS < RET_STACK_SIZE
    BY <1>1
  <2> HIDE DEF a
  <2> QED BY <1>1, <1>2, <2>2, <2>3, <2>4, <2>5 DEF Base
<1> QED BY <1>1, <1>2, <1>3, <1>4 DEF Base

\* xeq_init_contexts, in terms of Base.
LEMMA ContextsAre ==
    ASSUME NEW size \in Int, NEW regs \in Int, NEW stats \in BOOLEAN
    PROVE  /\ Contexts(size, regs, stats) \in [RetStk : Int, RetStkSize : Int, SizeStatRegs : Nat]
           /\ Contexts(size, regs, stats).RetStk = Base(regs, stats)
           /\ Contexts(size, regs, stats).RetStkSize = Base(regs, stats) + RET_STACK_SIZE - size
           /\ Contexts(size, regs, stats).SizeStatRegs = (IF stats THEN STAT_WORDS ELSE 0)
BY BaseType, SizesAssumption DEF Contexts, Base

\* Moving RetStk for other registers gives the boundaries of those registers.
LEMMA MovedForRegs ==
    ASSUME NEW size \in Int, NEW regs \in Int, NEW stats \in BOOLEAN, NEW r \in Int
    PROVE  move_retstk(Contexts(size, regs, stats), (regs - r) * REG_WORDS)
              = Contexts(size, r, stats)
<1> DEFINE d == (regs - r) * REG_WORDS
           b == Base(regs, stats)
           st == IF stats THEN STAT_WORDS ELSE 0
<1>1. b \in Int /\ Base(r, stats) = b + d /\ d \in Int /\ RET_STACK_SIZE \in Int
  <2>1. regs - r \in Int /\ REG_WORDS \in Int /\ RET_STACK_SIZE \in Int
    BY SizesAssumption
  <2>2. d \in Int
    BY <2>1, Products
  <2>3. b \in Int
    BY BaseIsInt
  <2>4. Base(r, stats) = b + d
    BY BaseType, Zenon
  <2> QED BY <2>1, <2>2, <2>3, <2>4
<1>2. Contexts(size, regs, stats) =
         [RetStk |-> b, RetStkSize |-> b + RET_STACK_SIZE - size, SizeStatRegs |-> st]
  BY DEF Contexts, Base
<1>3. Contexts(size, r, stats) =
         [RetStk |-> Base(r, stats), RetStkSize |-> Base(r, stats) + RET_STACK_SIZE - size,
          SizeStatRegs |-> st]
  BY DEF Contexts, Base
<1> HIDE DEF d, b, st
<1>4. move_retstk(Contexts(size, regs, stats), d) =
         [RetStk |-> b + d, RetStkSize |-> b + RET_STACK_SIZE - size + d, SizeStatRegs |-> st]
  BY <1>2 DEF move_retstk
<1>5. b + RET_STACK_SIZE - size + d = b + d + RET_STACK_SIZE - size
  BY <1>1
<1> QED BY <1>1, <1>3, <1>4, <1>5 DEF d

\* A record moved, and its statistics block resized.
LEMMA MovedRecord ==
    ASSUME NEW x, NEW y, NEW w, NEW d, NEW v
    PROVE  with_stats(move_retstk([RetStk |-> x, RetStkSize |-> y, SizeStatRegs |-> w], d), v)
              = [RetStk |-> x + d, RetStkSize |-> y + d, SizeStatRegs |-> v]
<1>1. move_retstk([RetStk |-> x, RetStkSize |-> y, SizeStatRegs |-> w], d)
         = [RetStk |-> x + d, RetStkSize |-> y + d, SizeStatRegs |-> w]
  BY DEF move_retstk
<1>2. with_stats([RetStk |-> x + d, RetStkSize |-> y + d, SizeStatRegs |-> w], v)
         = [RetStk |-> x + d, RetStkSize |-> y + d, SizeStatRegs |-> v]
  BY DEF with_stats
<1> QED BY <1>1, <1>2

\* And so for the statistics block: allocated, dropped, or dropped again.
LEMMA MovedForStats ==
    ASSUME NEW size \in Int, NEW regs \in Int
    PROVE  /\ with_stats(move_retstk(Contexts(size, regs, FALSE), -STAT_WORDS), STAT_WORDS)
                 = Contexts(size, regs, TRUE)
           /\ with_stats(move_retstk(Contexts(size, regs, TRUE), STAT_WORDS), 0)
                 = Contexts(size, regs, FALSE)
           /\ with_stats(move_retstk(Contexts(size, regs, FALSE), 0), 0)
                 = Contexts(size, regs, FALSE)
<1> DEFINE b == (TOPREALREG - regs) * REG_WORDS
           w == STAT_WORDS
           r == b + RET_STACK_SIZE - size
<1>1. b \in Int /\ RET_STACK_SIZE \in Int /\ w \in Int
  <2>1. TOPREALREG - regs \in Int /\ REG_WORDS \in Int /\ STAT_WORDS \in Int
        /\ RET_STACK_SIZE \in Int
    BY SizesAssumption
  <2> QED BY <2>1, Products
<1>2. Contexts(size, regs, FALSE) =
         [RetStk |-> b - 0, RetStkSize |-> b - 0 + RET_STACK_SIZE - size, SizeStatRegs |-> 0]
  BY DEF Contexts
<1>3. Contexts(size, regs, TRUE) =
         [RetStk |-> b - w, RetStkSize |-> b - w + RET_STACK_SIZE - size, SizeStatRegs |-> w]
  BY DEF Contexts
<1> HIDE DEF b, w
<1>4. /\ b - 0 = b /\ b - 0 + RET_STACK_SIZE - size = r
      /\ b - w + RET_STACK_SIZE - size = r - w
      /\ b + (-w) = b - w /\ r + (-w) = r - w
      /\ b - w + w = b /\ r - w + w = r /\ b + 0 = b /\ r + 0 = r
  BY <1>1
<1> HIDE DEF r
<1>5. Contexts(size, regs, FALSE) = [RetStk |-> b, RetStkSize |-> r, SizeStatRegs |-> 0]
  BY <1>2, <1>4
<1>6. Contexts(size, regs, TRUE) = [RetStk |-> b - w, RetStkSize |-> r - w, SizeStatRegs |-> w]
  BY <1>3, <1>4
<1>7. with_stats(move_retstk([RetStk |-> b, RetStkSize |-> r, SizeStatRegs |-> 0], -w), w)
         = [RetStk |-> b + (-w), RetStkSize |-> r + (-w), SizeStatRegs |-> w]
  BY MovedRecord
<1>8. with_stats(move_retstk([RetStk |-> b - w, RetStkSize |-> r - w, SizeStatRegs |-> w], w), 0)
         = [RetStk |-> b - w + w, RetStkSize |-> r - w + w, SizeStatRegs |-> 0]
  BY MovedRecord
<1>9. with_stats(move_retstk([RetStk |-> b, RetStkSize |-> r, SizeStatRegs |-> 0], 0), 0)
         = [RetStk |-> b + 0, RetStkSize |-> r + 0, SizeStatRegs |-> 0]
  BY MovedRecord
<1>10. with_stats(move_retstk(Contexts(size, regs, FALSE), -w), w) = Contexts(size, regs, TRUE)
  BY <1>4, <1>5, <1>6, <1>7, Zenon
<1>11. with_stats(move_retstk(Contexts(size, regs, TRUE), w), 0) = Contexts(size, regs, FALSE)
  BY <1>4, <1>5, <1>6, <1>8, Zenon
<1>12. with_stats(move_retstk(Contexts(size, regs, FALSE), 0), 0) = Contexts(size, regs, FALSE)
  BY <1>4, <1>5, <1>9, Zenon
<1> QED BY <1>10, <1>11, <1>12 DEF w

\* A command finds the boundaries of the present sizes.
LEMMA ViewIsCurrent ==
    ASSUME LayoutInv, NEW by, Executes(by)
    PROVE  View(by) = Contexts(ProgSize, NumRegs, have_stats)
<1>1. CASE by = "step"
  <2>1. Running
    BY <1>1 DEF Executes
  <2> QED BY <1>1, <2>1 DEF View, LayoutInv, Current
<1>2. CASE by # "step"
  BY <1>2 DEF View
<1> QED BY <1>1, <1>2

\* A step that leaves sizes and modes alone.
LEMMA SameSizes ==
    ASSUME LayoutInv, UNCHANGED <<memory, modes>>,
           ctx' = Contexts(ProgSize, NumRegs, have_stats),
           ProgSize <= RET_STACK_SIZE + Base(NumRegs, have_stats) + RetStkPtr'
    PROVE  LayoutInv'
<1>1. /\ ProgSize' = ProgSize /\ NumRegs' = NumRegs /\ have_stats' = have_stats
      /\ mode_double' = mode_double /\ intm' = intm
  BY DEF memory, modes
<1>2. /\ ProgSize' \in Int /\ have_stats' \in BOOLEAN
      /\ ctx' = Contexts(ProgSize', NumRegs', have_stats')
  BY <1>1 DEF LayoutInv
<1>3. Current'
  BY <1>2 DEF Current
<1>4. Base(NumRegs, have_stats)' = Base(NumRegs, have_stats)
  BY <1>1 DEF Base
<1> QED BY <1>1, <1>3, <1>4 DEF LayoutInv, DoubleHasRoom

\* A step that lowers RetStkPtr no further.
LEMMA NoDeeper ==
    ASSUME LayoutInv, StackInv, UNCHANGED <<memory, modes>>,
           ctx' = Contexts(ProgSize, NumRegs, have_stats),
           RetStkPtr' \in Int, RetStkPtr' >= RetStkPtr
    PROVE  LayoutInv'
<1>1. RetStkPtr \in Int /\ Base(NumRegs, have_stats) \in Int /\ RET_STACK_SIZE \in Int
  <2>1. Base(NumRegs, have_stats) \in Int
    <3>1. NumRegs \in Int
      BY DEF LayoutInv
    <3> QED BY <3>1, BaseIsInt
  <2>2. RetStkPtr \in Int
    BY LenProperties DEF StackInv
  <2> QED BY <2>1, <2>2, SizesAssumption
<1>2. ProgSize <= RET_STACK_SIZE + Base(NumRegs, have_stats) + RetStkPtr'
  BY <1>1 DEF LayoutInv
<1> QED BY <1>2, SameSizes

\* The room a command checks against.
LEMMA RoomChecked ==
    ASSUME LayoutInv, NEW p \in Int, p <= Contexts(ProgSize, NumRegs, have_stats).RetStkSize
    PROVE  ProgSize <= RET_STACK_SIZE + Base(NumRegs, have_stats) + (-p)
<1>1. /\ Base(NumRegs, have_stats) \in Int /\ RET_STACK_SIZE \in Int /\ ProgSize \in Int
      /\ p <= Base(NumRegs, have_stats) + RET_STACK_SIZE - ProgSize
  BY BaseType, ContextsAre, SizesAssumption DEF LayoutInv
<1> QED BY <1>1

\* Calls, returns and R/S: only XEQ and R/S push, after a check for room.
LEMMA LevelsLayout ==
    ASSUME LayoutInv, StackInv, NEW by, Levels(by)
    PROVE  LayoutInv'
<1>0. RetStkPtr \in Int /\ RetStkPtr <= 0
  BY LenProperties DEF StackInv
<1>1. ASSUME NEW target \in PCs, NEW back \in PCs, Call(by, target, back) PROVE LayoutInv'
  <2> DEFINE ptr == IF by = "key" THEN 0 ELSE RetStkPtr
             m == Contexts(ProgSize, NumRegs, have_stats)
  <2>1. m = View(by)
    BY <1>1, ViewIsCurrent DEF Call
  <2>2. -ptr < m.RetStkSize /\ RetStkPtr' = ptr - 1 /\ ctx' = m /\ ptr \in Int
    BY <1>0, <1>1, <2>1 DEF Call
  <2>3. m.RetStkSize \in Int
    BY ContextsAre DEF LayoutInv
  <2> HIDE DEF ptr
  <2>4. 1 - ptr \in Int /\ 1 - ptr <= m.RetStkSize /\ -(1 - ptr) = RetStkPtr'
    BY <2>2, <2>3
  <2>5. ProgSize <= RET_STACK_SIZE + Base(NumRegs, have_stats) + RetStkPtr'
    BY <2>4, RoomChecked
  <2> QED BY <1>1, <2>2, <2>5, SameSizes DEF Call
<1>2. ASSUME NEW target \in PCs, Goto(by, target) PROVE LayoutInv'
  BY <1>0, <1>2, ViewIsCurrent, NoDeeper DEF Goto, stack
<1>3. ASSUME NEW plus1 \in BOOLEAN, Return(by, plus1) PROVE LayoutInv'
  <2>1. UpPtr \in Int /\ UpPtr >= RetStkPtr
    <3> DEFINE n == Len(stk)
               b == Below(stk, n)
    <3>1. n \in Nat /\ RetStkPtr = -n
      BY LenProperties DEF StackInv
    <3>2. b \in 0 .. n - 1 /\ UpPtr = -b
      BY <1>3, UpIsBelow DEF Return
    <3> HIDE DEF n, b
    <3> QED BY <3>1, <3>2
  <2> QED BY <1>3, <2>1, ViewIsCurrent, NoDeeper DEF Return
<1>4. ASSUME StrayReturn(by) PROVE LayoutInv'
  BY <1>0, <1>4, ViewIsCurrent, NoDeeper DEF StrayReturn, clrretstk
<1>5. ASSUME RunStop(by), by = "key" => ~ NoRoomToStart PROVE LayoutInv'
  <2> DEFINE m == Contexts(ProgSize, NumRegs, have_stats)
  <2>1. UNCHANGED <<memory, modes>> /\ ctx' = m
    BY <1>5, ViewIsCurrent DEF RunStop
  <2>2. CASE by = "key" /\ RetStkPtr = 0
    <3>1. ~ (m.RetStkSize <= 0) /\ RetStkPtr' = -1
      BY <1>5, <2>2 DEF NoRoomToStart, View, RunStop
    <3>2. m.RetStkSize \in Int
      BY ContextsAre DEF LayoutInv
    <3>3. 1 <= m.RetStkSize
      BY <3>1, <3>2
    <3>4. ProgSize <= RET_STACK_SIZE + Base(NumRegs, have_stats) + (-1)
      BY <3>3, RoomChecked
    <3> QED BY <2>1, <3>1, <3>4, SameSizes
  <2>3. CASE ~ (by = "key" /\ RetStkPtr = 0)
    <3>1. RetStkPtr' = RetStkPtr
      BY <1>5, <2>3 DEF RunStop, stack
    <3> QED BY <1>0, <2>1, <3>1, NoDeeper
  <2> QED BY <2>2, <2>3
<1> QED BY <1>1, <1>2, <1>3, <1>4, <1>5 DEF Levels

\* LocR checks for its frame; PopLR and stores lower nothing.
LEMMA LocalsLayout ==
    ASSUME LayoutInv, StackInv, NEW by, Locals(by)
    PROVE  LayoutInv'
<1>0. RetStkPtr \in Int /\ RetStkPtr <= 0
  BY LenProperties DEF StackInv
<1>1. ASSUME NEW n \in LocArgs, RetStkPtr < 0, LocR(by, n), LocalRegs' = RetStkPtr'
      PROVE  LayoutInv'
  <2> DEFINE m == Contexts(ProgSize, NumRegs, have_stats)
  <2>1. m = View(by) /\ UNCHANGED <<memory, modes>>
    BY <1>1, ViewIsCurrent DEF LocR, Done
  <2>2. -RetStkPtr' <= m.RetStkSize /\ ctx' = m
    BY <1>1, <2>1 DEF LocR
  <2>3. RetStkPtr' \in Int
    <3>1. StackInv'
      BY <1>1, LocRNests
    <3> QED BY <3>1, LenProperties DEF StackInv
  <2>4. -RetStkPtr' \in Int /\ -(-RetStkPtr') = RetStkPtr'
    <3>1. \A x \in Int : -x \in Int /\ -(-x) = x
      OBVIOUS
    <3> QED BY <2>3, <3>1
  <2>5. ProgSize <= RET_STACK_SIZE + Base(NumRegs, have_stats) + RetStkPtr'
    BY <2>2, <2>4, RoomChecked
  <2> QED BY <2>1, <2>2, <2>5, SameSizes
<1>2. ASSUME PopLR(by) PROVE LayoutInv'
  <2>1. UpPtr \in Int /\ UpPtr - 1 >= RetStkPtr
    BY <1>2, UpIsBelow, LenProperties DEF PopLR, StackInv
  <2> QED BY <1>2, <2>1, ViewIsCurrent, NoDeeper DEF PopLR, Done
<1>3. ASSUME NEW k, NEW w \in DataWords, StoreLocal(by, k, w) PROVE LayoutInv'
  BY <1>0, <1>3, ViewIsCurrent, NoDeeper DEF StoreLocal, Done
<1> QED BY <1>1, <1>2, <1>3 DEF Locals

\* The invariant after a step that renews or moves the boundaries.
LEMMA FromContexts ==
    ASSUME NEW size \in Int, ProgSize' \in Nat, NumRegs' \in Nat, have_stats' \in BOOLEAN,
           mode_double' \in BOOLEAN, intm' \in BOOLEAN,
           ctx' = Contexts(size, NumRegs', have_stats'), Running' => size = ProgSize',
           ProgSize' <= RET_STACK_SIZE + Base(NumRegs', have_stats') + RetStkPtr',
           DoubleHasRoom', NumRegs' <= 2 * TOPREALREG + LETTERED
    PROVE  LayoutInv'
<1>1. Current'
  BY DEF Current
<1> QED BY <1>1 DEF LayoutInv

\* move_retstk for another number of registers, after its check.
LEMMA Resized ==
    ASSUME LayoutInv, StackInv, NEW by, Executes(by), NEW r \in Nat,
           NEW distance, distance = (NumRegs - r) * REG_WORDS,
           distance # 0 => CanMove(View(by), distance)
    PROVE  /\ move_retstk(View(by), distance) = Contexts(ProgSize, r, have_stats)
           /\ ProgSize <= RET_STACK_SIZE + Base(r, have_stats) + RetStkPtr
<1> DEFINE m == Contexts(ProgSize, NumRegs, have_stats)
           b == Base(NumRegs, have_stats)
<1>1. View(by) = m
  BY ViewIsCurrent
<1>2. NumRegs \in Int /\ r \in Int /\ ProgSize \in Int /\ have_stats \in BOOLEAN
  BY DEF LayoutInv
<1>3. move_retstk(m, distance) = Contexts(ProgSize, r, have_stats)
  BY <1>2, MovedForRegs, Zenon
<1>4. Base(r, have_stats) = b + distance
  BY <1>2, BaseType, Zenon
<1>5. m.RetStkSize = b + RET_STACK_SIZE - ProgSize
  BY <1>2, ContextsAre, Zenon
<1>6. b \in Int /\ Base(r, have_stats) \in Int
  BY <1>2, BaseIsInt
<1>7. RetStkPtr \in Int /\ RET_STACK_SIZE \in Int
  BY LenProperties, SizesAssumption DEF StackInv
<1>8. NumRegs - r \in Int /\ REG_WORDS \in Int
  BY <1>2, SizesAssumption
<1>9. distance \in Int
  BY <1>8, Products
<1>10. ProgSize <= RET_STACK_SIZE + b + RetStkPtr
  BY DEF LayoutInv
<1>11. distance # 0 => m.RetStkSize + RetStkPtr + distance >= 0
  BY <1>1 DEF CanMove
<1> HIDE DEF m, b
<1>12. ProgSize <= RET_STACK_SIZE + Base(r, have_stats) + RetStkPtr
  <2>1. CASE distance = 0
    BY <2>1, <1>2, <1>4, <1>6, <1>7, <1>10
  <2>2. CASE distance # 0
    BY <2>2, <1>2, <1>4, <1>5, <1>6, <1>7, <1>9, <1>11
  <2> QED BY <2>1, <2>2
<1> QED BY <1>1, <1>3, <1>12

\* REGS (cmdregs).
LEMMA RegsLayout ==
    ASSUME LayoutInv, StackInv, NEW by, NEW n \in RegsArgs, cmdregs(by, n)
    PROVE  LayoutInv'
<1> DEFINE r == WantedRegs(n)
           d == (NumRegs - r) * REG_WORDS
<1>1. /\ Executes(by) /\ Running' = Running /\ CanMove(View(by), d) /\ ~ RangeError(n)
      /\ NumRegs' = r /\ ctx' = move_retstk(View(by), d)
  BY DEF cmdregs, Done
<1>2. /\ ProgSize' = ProgSize /\ have_stats' = have_stats /\ mode_double' = mode_double
      /\ intm' = intm /\ RetStkPtr' = RetStkPtr
  BY DEF cmdregs, modes, stack
<1>3. n \in 0 .. TOPREALREG /\ TOPREALREG \in Nat /\ LETTERED \in Nat
  BY SizesAssumption, ArgsAssumption
<1>4. r \in Nat /\ r <= 2 * TOPREALREG + LETTERED
  BY <1>3 DEF WantedRegs
<1>5. IF mode_double THEN r >= LETTERED ELSE r <= TOPREALREG
  BY <1>1, <1>3 DEF WantedRegs, RangeError, is_dblmode
<1> HIDE DEF r
<1>6. /\ move_retstk(View(by), d) = Contexts(ProgSize, r, have_stats)
      /\ ProgSize <= RET_STACK_SIZE + Base(r, have_stats) + RetStkPtr
  BY <1>1, <1>4, Resized
<1>7. ProgSize \in Nat /\ ProgSize \in Int /\ have_stats \in BOOLEAN
      /\ mode_double \in BOOLEAN /\ intm \in BOOLEAN
  BY DEF LayoutInv
<1>8. DoubleHasRoom'
  BY <1>1, <1>2, <1>5 DEF DoubleHasRoom
<1> QED BY <1>1, <1>2, <1>4, <1>6, <1>7, <1>8, FromContexts

\* Both precisions find their registers, if old is the precision there was or
\* at least not the new one.
LEMMA PrecisionLayout ==
    ASSUME LayoutInv, StackInv, NEW by, NEW old \in BOOLEAN, NEW new \in BOOLEAN,
           old = mode_double \/ old # new, Precision(by, old, new)
    PROVE  LayoutInv'
<1> DEFINE r == RegsFor(old, new)
           d == (NumRegs - r) * REG_WORDS
<1>1. /\ Executes(by) /\ Running' = Running /\ (d # 0 => CanMove(View(by), d))
      /\ NumRegs' = r /\ ctx' = move_retstk(View(by), d)
      /\ mode_double' = new /\ intm' = FALSE
  BY DEF Precision, Done
<1>2. ProgSize' = ProgSize /\ have_stats' = have_stats /\ RetStkPtr' = RetStkPtr
  BY DEF Precision, stack
<1>3. TOPREALREG \in Nat /\ LETTERED \in 0 .. TOPREALREG /\ LETTERED \in Nat
  BY SizesAssumption
<1>4. ProgSize \in Nat /\ ProgSize \in Int /\ have_stats \in BOOLEAN
      /\ NumRegs \in Nat /\ NumRegs <= 2 * TOPREALREG + LETTERED
      /\ mode_double \in BOOLEAN
      /\ IF mode_double THEN NumRegs >= LETTERED ELSE NumRegs <= TOPREALREG
  BY DEF LayoutInv, DoubleHasRoom
<1>5. r \in Nat /\ r <= 2 * TOPREALREG + LETTERED
  BY <1>3, <1>4 DEF RegsFor
<1>6. IF new THEN r >= LETTERED ELSE r <= TOPREALREG
  <2>1. CASE new /\ ~ old
    BY <2>1, <1>3, <1>4 DEF RegsFor
  <2>2. CASE ~ new /\ old
    BY <2>2, <1>3, <1>4 DEF RegsFor
  <2>3. CASE new = old /\ old = mode_double
    BY <2>3, <1>3, <1>4 DEF RegsFor
  <2> QED BY <2>1, <2>2, <2>3
<1> HIDE DEF r
<1>7. /\ move_retstk(View(by), d) = Contexts(ProgSize, r, have_stats)
      /\ ProgSize <= RET_STACK_SIZE + Base(r, have_stats) + RetStkPtr
  BY <1>1, <1>5, Resized
<1>8. DoubleHasRoom'
  BY <1>1, <1>6 DEF DoubleHasRoom
<1> QED BY <1>1, <1>2, <1>4, <1>5, <1>7, <1>8, FromContexts

\* A change of integer mode alone.
LEMMA IntModeLayout ==
    ASSUME LayoutInv, NEW by, Done(by), intm' \in BOOLEAN, mode_double' = mode_double,
           ctx' = View(by), UNCHANGED <<memory, stack>>
    PROVE  LayoutInv'
<1>1. /\ ProgSize' = ProgSize /\ NumRegs' = NumRegs /\ have_stats' = have_stats
      /\ RetStkPtr' = RetStkPtr /\ Running' = Running /\ Executes(by)
  BY DEF memory, stack, Done
<1>2. /\ ProgSize \in Nat /\ ProgSize \in Int /\ NumRegs \in Nat /\ have_stats \in BOOLEAN
      /\ mode_double \in BOOLEAN /\ NumRegs <= 2 * TOPREALREG + LETTERED /\ DoubleHasRoom
      /\ ProgSize <= RET_STACK_SIZE + Base(NumRegs, have_stats) + RetStkPtr
  BY DEF LayoutInv
<1>3. ctx' = Contexts(ProgSize, NumRegs', have_stats')
  BY <1>1, ViewIsCurrent
<1>4. DoubleHasRoom'
  BY <1>1, <1>2 DEF DoubleHasRoom
<1> QED BY <1>1, <1>2, <1>3, <1>4, FromContexts

\* RCLM (cmdrestm), in the cases the code checks for.
LEMMA RestoredModes ==
    ASSUME LayoutInv, StackInv, NEW by, NEW i \in BOOLEAN, NEW dbl \in BOOLEAN,
           ~ PrecisionInIntMode(by, i, dbl), cmdrestm(by, i, dbl)
    PROVE  LayoutInv'
<1>1. mode_double \in BOOLEAN /\ intm \in BOOLEAN /\ is_dblmode \in BOOLEAN
  BY DEF LayoutInv, is_dblmode
<1>2. CASE ~ i /\ dbl # is_dblmode
  BY <1>1, <1>2, PrecisionLayout DEF cmdrestm
<1>3. CASE ~ (~ i /\ dbl # is_dblmode)
  <2>1. Done(by) /\ intm' = i /\ mode_double' = dbl /\ ctx' = View(by)
        /\ UNCHANGED <<memory, stack>>
    BY <1>3 DEF cmdrestm
  <2>2. dbl = mode_double
    BY <1>1, <1>3 DEF PrecisionInIntMode, is_dblmode
  <2> QED BY <2>1, <2>2, IntModeLayout
<1> QED BY <1>2, <1>3

\* Statistics are allocated (sigmaAllocate).
LEMMA AllocateLayout ==
    ASSUME LayoutInv, StackInv, NEW by, sigmaAllocate(by)
    PROVE  LayoutInv'
<1> DEFINE m == Contexts(ProgSize, NumRegs, have_stats)
<1>1. /\ Executes(by) /\ Running' = Running /\ have_stats' = TRUE
      /\ ProgSize' = ProgSize /\ NumRegs' = NumRegs /\ RetStkPtr' = RetStkPtr
      /\ mode_double' = mode_double /\ intm' = intm
  BY DEF sigmaAllocate, Done, modes, stack
<1>2. /\ ProgSize \in Nat /\ ProgSize \in Int /\ NumRegs \in Nat /\ NumRegs \in Int
      /\ have_stats \in BOOLEAN /\ mode_double \in BOOLEAN /\ intm \in BOOLEAN
      /\ NumRegs <= 2 * TOPREALREG + LETTERED /\ DoubleHasRoom
      /\ ProgSize <= RET_STACK_SIZE + Base(NumRegs, have_stats) + RetStkPtr
  BY DEF LayoutInv
<1>3. View(by) = m
  BY <1>1, ViewIsCurrent
<1>4. /\ ctx' = Contexts(ProgSize, NumRegs, TRUE)
      /\ ProgSize <= RET_STACK_SIZE + Base(NumRegs, TRUE) + RetStkPtr
  <2>1. CASE have_stats
    <3>1. have_stats = TRUE
      BY <2>1, <1>2
    <3>2. ctx' = m
      BY <2>1, <1>3 DEF sigmaAllocate
    <3> QED BY <3>1, <3>2, <1>2
  <2>2. CASE ~ have_stats
    <3>1. have_stats = FALSE
      BY <2>2, <1>2
    <3>2. /\ CanMove(m, -STAT_WORDS)
          /\ ctx' = with_stats(move_retstk(m, -STAT_WORDS), STAT_WORDS)
      BY <2>2, <1>3 DEF sigmaAllocate
    <3>3. ctx' = Contexts(ProgSize, NumRegs, TRUE)
      BY <3>1, <3>2, <1>2, MovedForStats
    <3> DEFINE b == Base(NumRegs, FALSE)
               c == Base(NumRegs, TRUE)
    <3>4. b = c + STAT_WORDS
      BY <1>2, BaseType, Zenon
    <3>5. b \in Int /\ c \in Int
      BY <1>2, BaseIsInt
    <3>6. m.RetStkSize = b + RET_STACK_SIZE - ProgSize
      BY <3>1, <1>2, ContextsAre, Zenon
    <3>7. m.RetStkSize + RetStkPtr + (-STAT_WORDS) >= 0
      BY <3>2 DEF CanMove
    <3>8. RetStkPtr \in Int /\ RET_STACK_SIZE \in Int /\ STAT_WORDS \in Int
      BY LenProperties, SizesAssumption DEF StackInv
    <3> HIDE DEF b, c, m
    <3>9. ProgSize <= RET_STACK_SIZE + c + RetStkPtr
      BY <1>2, <3>4, <3>5, <3>6, <3>7, <3>8
    <3> QED BY <3>3, <3>9 DEF c
  <2> QED BY <2>1, <2>2
<1>5. DoubleHasRoom'
  BY <1>1, <1>2 DEF DoubleHasRoom
<1> QED BY <1>1, <1>2, <1>4, <1>5, FromContexts

\* Dropping the statistics only gives room.
LEMMA DroppedIsLarger ==
    ASSUME LayoutInv
    PROVE  /\ Base(NumRegs, have_stats) <= Base(NumRegs, FALSE)
           /\ Base(NumRegs, have_stats) \in Int /\ Base(NumRegs, FALSE) \in Int
<1>1. NumRegs \in Int /\ have_stats \in BOOLEAN /\ STAT_WORDS \in Nat
  BY SizesAssumption DEF LayoutInv
<1>2. Base(NumRegs, have_stats) \in Int /\ Base(NumRegs, FALSE) \in Int /\ Base(NumRegs, TRUE) \in Int
  BY <1>1, BaseIsInt
<1>3. Base(NumRegs, FALSE) = Base(NumRegs, TRUE) + STAT_WORDS
  BY <1>1, BaseType, Zenon
<1> DEFINE b == Base(NumRegs, have_stats)
           f == Base(NumRegs, FALSE)
           t == Base(NumRegs, TRUE)
<1>4. b = f \/ b = t
  BY <1>1, Zenon
<1> HIDE DEF b, f, t
<1>5. b <= f
  <2>1. b \in Int /\ f \in Int /\ t \in Int /\ f = t + STAT_WORDS
    BY <1>2, <1>3 DEF b, f, t
  <2> QED BY <2>1, <1>1, <1>4
<1> QED BY <1>2, <1>5 DEF b, f

\* The boundaries without statistics.
LEMMA Dropped ==
    ASSUME LayoutInv
    PROVE  LET m == Contexts(ProgSize, NumRegs, have_stats)
           IN  with_stats(move_retstk(m, m.SizeStatRegs), 0)
                  = Contexts(ProgSize, NumRegs, FALSE)
<1>1. ProgSize \in Int /\ NumRegs \in Int /\ have_stats \in BOOLEAN
  BY DEF LayoutInv
<1>2. Contexts(ProgSize, NumRegs, have_stats).SizeStatRegs = IF have_stats THEN STAT_WORDS ELSE 0
  BY <1>1, ContextsAre, Zenon
<1>3. CASE have_stats = FALSE
  <2>1. Contexts(ProgSize, NumRegs, have_stats).SizeStatRegs = 0
    BY <1>2, <1>3
  <2> QED BY <2>1, <1>1, <1>3, MovedForStats, Zenon
<1>4. CASE have_stats = TRUE
  <2>1. Contexts(ProgSize, NumRegs, have_stats).SizeStatRegs = STAT_WORDS
    BY <1>2, <1>4
  <2> QED BY <2>1, <1>1, <1>4, MovedForStats, Zenon
<1> QED BY <1>1, <1>3, <1>4

\* Statistics are dropped (sigmaDeallocate).
LEMMA DeallocateLayout ==
    ASSUME LayoutInv, StackInv, NEW by, sigmaDeallocate(by)
    PROVE  LayoutInv'
<1>1. /\ Executes(by) /\ Running' = Running /\ have_stats' = FALSE
      /\ ProgSize' = ProgSize /\ NumRegs' = NumRegs /\ RetStkPtr' = RetStkPtr
      /\ mode_double' = mode_double /\ intm' = intm
  BY DEF sigmaDeallocate, Done, modes, stack
<1>2. /\ ProgSize \in Nat /\ ProgSize \in Int /\ NumRegs \in Nat
      /\ mode_double \in BOOLEAN /\ intm \in BOOLEAN
      /\ NumRegs <= 2 * TOPREALREG + LETTERED /\ DoubleHasRoom
      /\ ProgSize <= RET_STACK_SIZE + Base(NumRegs, have_stats) + RetStkPtr
  BY DEF LayoutInv
<1>3. ctx' = Contexts(ProgSize, NumRegs, FALSE)
  BY <1>1, ViewIsCurrent, Dropped DEF sigmaDeallocate
<1>4. RetStkPtr \in Int /\ RET_STACK_SIZE \in Int
  BY LenProperties, SizesAssumption DEF StackInv
<1>5. ProgSize <= RET_STACK_SIZE + Base(NumRegs, FALSE) + RetStkPtr
  <2> DEFINE b == Base(NumRegs, have_stats)
             f == Base(NumRegs, FALSE)
  <2>1. b <= f /\ b \in Int /\ f \in Int
    BY DroppedIsLarger
  <2>2. ProgSize <= RET_STACK_SIZE + b + RetStkPtr
    BY <1>2
  <2> HIDE DEF b, f
  <2>3. ProgSize <= RET_STACK_SIZE + f + RetStkPtr
    BY <1>2, <1>4, <2>1, <2>2
  <2> QED BY <2>3 DEF f
<1>6. DoubleHasRoom'
  BY <1>1, <1>2 DEF DoubleHasRoom
<1> QED BY <1>1, <1>2, <1>3, <1>5, <1>6, FromContexts

\* The commands on registers, precision and statistics together.
LEMMA RegistersLayout ==
    ASSUME LayoutInv, StackInv, NEW by, Registers(by)
    PROVE  LayoutInv'
<1>1. CASE \E n \in RegsArgs : cmdregs(by, n)
  BY <1>1, RegsLayout
<1>2. CASE \E dbl \in BOOLEAN : op_double(by, dbl)
  <2>1. mode_double \in BOOLEAN
    BY DEF LayoutInv
  <2> QED BY <1>2, <2>1, PrecisionLayout DEF op_double
<1>3. ASSUME NEW i \in BOOLEAN, SetIntMode(by, i) PROVE LayoutInv'
  BY <1>3, IntModeLayout DEF SetIntMode
<1>4. CASE \E i, dbl \in BOOLEAN : ~ PrecisionInIntMode(by, i, dbl) /\ cmdrestm(by, i, dbl)
  BY <1>4, RestoredModes
<1>5. CASE sigmaAllocate(by)
  BY <1>5, AllocateLayout
<1>6. CASE sigmaDeallocate(by)
  BY <1>6, DeallocateLayout
<1> QED BY <1>1, <1>2, <1>3, <1>4, <1>5, <1>6 DEF Registers

-----------------------------------------------------------------------------
(* Entering, deleting and appending programs *)

\* What the invariant says of the room, in terms of Base.
LEMMA Room ==
    ASSUME LayoutInv, StackInv
    PROVE  /\ Base(NumRegs, have_stats) \in Int /\ RET_STACK_SIZE \in Int
           /\ RetStkPtr \in Int /\ RetStkPtr <= 0 /\ ProgSize \in Nat
           /\ ProgSize <= RET_STACK_SIZE + Base(NumRegs, have_stats) + RetStkPtr
           /\ RET_STACK_SIZE + Base(NumRegs, have_stats) >= 1
<1>1. NumRegs \in Int /\ have_stats \in BOOLEAN /\ NumRegs <= 2 * TOPREALREG + LETTERED
  BY DEF LayoutInv
<1>2. RET_STACK_SIZE + Base(NumRegs, have_stats) >= 1
  BY <1>1, BaseType, Zenon
<1>3. Base(NumRegs, have_stats) \in Int
  BY <1>1, BaseIsInt
<1>4. RetStkPtr \in Int /\ RetStkPtr <= 0 /\ RET_STACK_SIZE \in Int
  BY LenProperties, SizesAssumption DEF StackInv
<1> QED BY <1>2, <1>3, <1>4 DEF LayoutInv

\* The free words, in the same terms.
LEMMA FreeWords ==
    ASSUME LayoutInv, NEW size \in Int, NEW rsp \in Int
    PROVE  /\ ProgFree(size, rsp) \in Int
           /\ ProgFree(size, rsp) + size + MINIMUM_RET_STACK_SIZE
                 = RET_STACK_SIZE + Base(NumRegs, have_stats) + rsp
<1> DEFINE b == Base(NumRegs, have_stats)
<1>1. NumRegs \in Int
  BY DEF LayoutInv
<1>2. b \in Int
  BY <1>1, BaseIsInt
<1>3. RET_STACK_SIZE \in Int /\ MINIMUM_RET_STACK_SIZE \in Int
  BY SizesAssumption
<1>4. ProgFree(size, rsp) = b + RET_STACK_SIZE - MINIMUM_RET_STACK_SIZE - size + rsp
  BY DEF ProgFree, Base
<1> HIDE DEF b
<1>5. /\ ProgFree(size, rsp) \in Int
      /\ ProgFree(size, rsp) + size + MINIMUM_RET_STACK_SIZE = RET_STACK_SIZE + b + rsp
  BY <1>2, <1>3, <1>4
<1> QED BY <1>5 DEF b

\* The headroom that program entry leaves to the stack.
Headroom == ProgSize + MINIMUM_RET_STACK_SIZE <= RET_STACK_SIZE + ctx.RetStk

\* Editing that leaves the registers alone.
LEMMA EditedLayout ==
    ASSUME LayoutInv, Running' = FALSE, UNCHANGED <<NumRegs, have_stats, modes>>,
           NEW size \in Int, ctx' = Contexts(size, NumRegs, have_stats), ProgSize' \in Nat,
           ProgSize' <= RET_STACK_SIZE + Base(NumRegs, have_stats) + RetStkPtr'
    PROVE  LayoutInv'
<1>1. /\ NumRegs' = NumRegs /\ have_stats' = have_stats
      /\ mode_double' = mode_double /\ intm' = intm
  BY DEF modes
<1>2. /\ NumRegs \in Nat /\ have_stats \in BOOLEAN /\ mode_double \in BOOLEAN /\ intm \in BOOLEAN
      /\ NumRegs <= 2 * TOPREALREG + LETTERED /\ DoubleHasRoom
  BY DEF LayoutInv
<1>3. DoubleHasRoom'
  BY <1>1, <1>2 DEF DoubleHasRoom
<1> QED BY <1>1, <1>2, <1>3, FromContexts

\* A program step is entered (stoprog).
LEMMA EnteredLayout ==
    ASSUME LayoutInv, StackInv, NEW off \in Nat, NEW atEnd, stoprog(off, atEnd)
    PROVE  LayoutInv' /\ (ProgSize < ProgSize' => Headroom')
<1> DEFINE withEnd == IF atEnd /\ ProgFree(ProgSize, 0) >= 1 THEN ProgSize + 1 ELSE ProgSize
           b == Base(NumRegs, have_stats)
<1>1. /\ ~ Running /\ Running' = Running /\ UNCHANGED <<NumRegs, have_stats, modes>>
      /\ ProgSize' = (IF ProgFree(withEnd, 0) >= off THEN withEnd + off ELSE withEnd)
      /\ ctx' = Contexts(withEnd, NumRegs, have_stats) /\ RetStkPtr' = 0
  BY DEF stoprog, clrretstk
<1>2. /\ b \in Int /\ RET_STACK_SIZE \in Int /\ ProgSize \in Nat
      /\ RetStkPtr \in Int /\ RetStkPtr <= 0 /\ ProgSize <= RET_STACK_SIZE + b + RetStkPtr
  BY Room
<1>3. MINIMUM_RET_STACK_SIZE \in Nat
  BY SizesAssumption
<1>4. ProgFree(ProgSize, 0) \in Int
      /\ ProgFree(ProgSize, 0) + ProgSize + MINIMUM_RET_STACK_SIZE = RET_STACK_SIZE + b + 0
  <2>1. ProgSize \in Int /\ 0 \in Int
    BY <1>2
  <2> QED BY <2>1, FreeWords, Zenon
<1>5. ProgSize <= RET_STACK_SIZE + b
  BY <1>2
<1>6. withEnd \in Nat /\ withEnd <= RET_STACK_SIZE + b
  <2> HIDE DEF b
  <2>1. CASE atEnd /\ ProgFree(ProgSize, 0) >= 1
    BY <2>1, <1>2, <1>3, <1>4
  <2>2. CASE ~ (atEnd /\ ProgFree(ProgSize, 0) >= 1)
    BY <2>2, <1>2, <1>5
  <2> QED BY <2>1, <2>2
<1> HIDE DEF withEnd
<1>7. ProgFree(withEnd, 0) \in Int
      /\ ProgFree(withEnd, 0) + withEnd + MINIMUM_RET_STACK_SIZE = RET_STACK_SIZE + b + 0
  <2>1. withEnd \in Int /\ 0 \in Int
    BY <1>6
  <2> QED BY <2>1, FreeWords, Zenon
<1> HIDE DEF b
<1>8. ProgSize' \in Nat /\ ProgSize' <= RET_STACK_SIZE + b + RetStkPtr'
  <2>1. CASE ProgFree(withEnd, 0) >= off
    BY <2>1, <1>1, <1>2, <1>3, <1>6, <1>7
  <2>2. CASE ~ (ProgFree(withEnd, 0) >= off)
    BY <2>2, <1>1, <1>2, <1>6
  <2> QED BY <2>1, <2>2
<1>9. Running' = FALSE /\ withEnd \in Int
  BY <1>1, <1>6 DEF StackInv
<1>10. ProgSize < ProgSize' => ProgSize' + MINIMUM_RET_STACK_SIZE <= RET_STACK_SIZE + b
  <2>1. CASE ProgFree(withEnd, 0) >= off
    BY <2>1, <1>1, <1>2, <1>3, <1>6, <1>7
  <2>2. CASE ~ (ProgFree(withEnd, 0) >= off)
    BY <2>2, <1>1, <1>2, <1>3, <1>4 DEF withEnd
  <2> QED BY <2>1, <2>2
<1>11. ctx'.RetStk = b
  <2>1. NumRegs \in Int /\ have_stats \in BOOLEAN
    BY DEF LayoutInv
  <2> QED BY <2>1, <1>1, <1>9, ContextsAre, Zenon DEF b
<1>12. LayoutInv'
  BY <1>1, <1>8, <1>9, EditedLayout DEF b
<1> QED BY <1>10, <1>11, <1>12 DEF Headroom

\* Programs get shorter, or one END is all there is.
LEMMA ShorterLayout ==
    ASSUME LayoutInv, StackInv, Running' = FALSE,
           UNCHANGED <<NumRegs, have_stats, modes>>, ctx' = View("key"),
           ProgSize' \in Nat, ProgSize' <= ProgSize \/ (ProgSize' = 1 /\ RetStkPtr' = 0),
           RetStkPtr' = RetStkPtr \/ RetStkPtr' = 0
    PROVE  LayoutInv'
<1> DEFINE b == Base(NumRegs, have_stats)
<1>1. /\ b \in Int /\ RET_STACK_SIZE \in Int /\ ProgSize \in Nat
      /\ RetStkPtr \in Int /\ RetStkPtr <= 0 /\ ProgSize <= RET_STACK_SIZE + b + RetStkPtr
      /\ RET_STACK_SIZE + b >= 1
  BY Room
<1>2. ctx' = Contexts(ProgSize, NumRegs, have_stats)
  BY DEF View
<1> HIDE DEF b
<1>3. ProgSize' <= RET_STACK_SIZE + b + RetStkPtr'
  BY <1>1
<1>4. ProgSize \in Int
  BY <1>1
<1> QED BY <1>2, <1>3, <1>4, EditedLayout DEF b

\* CLALL and RESET.
LEMMA ClearedLayout ==
    ASSUME LayoutInv, StackInv, clrall \/ reset
    PROVE  LayoutInv'
<1>1. /\ ~ Running /\ Running' = Running /\ NumRegs' = TOPREALREG /\ ProgSize' = 1
      /\ RetStkPtr' = 0
  BY DEF clrall, reset, clrretstk
<1>2. /\ have_stats' \in BOOLEAN /\ mode_double' \in BOOLEAN /\ intm' \in BOOLEAN
      /\ ProgSize \in Int
  <2>1. CASE clrall
    BY <2>1 DEF clrall, LayoutInv, modes
  <2>2. CASE reset
    <3>1. have_stats' = FALSE /\ mode_double' = FALSE /\ intm' = FALSE
      BY <2>2 DEF reset
    <3>2. ProgSize \in Int
      BY DEF LayoutInv
    <3> QED BY <3>1, <3>2, Zenon
  <2> QED BY <2>1, <2>2
<1>3. \E size \in Int : ctx' = Contexts(size, NumRegs', have_stats')
  <2>1. CASE clrall
    <3>1. ctx' = Contexts(ProgSize, NumRegs', have_stats')
      BY <1>1, <2>1 DEF clrall
    <3> QED BY <3>1, <1>2
  <2>2. CASE reset
    <3>1. ctx' = Contexts(0, NumRegs', have_stats')
      BY <1>1, <2>2, Zenon DEF reset
    <3> QED BY <3>1
  <2> QED BY <2>1, <2>2
<1>4. TOPREALREG \in Nat /\ LETTERED \in Nat /\ LETTERED <= TOPREALREG /\ RET_STACK_SIZE \in Int
  BY SizesAssumption
<1>5. TOPREALREG \in Int /\ TOPREALREG <= 2 * TOPREALREG + LETTERED
  BY <1>4
<1>6. Base(TOPREALREG, have_stats') \in Int /\ RET_STACK_SIZE + Base(TOPREALREG, have_stats') >= 1
  BY <1>2, <1>5, BaseType, Zenon
<1>7. ProgSize' <= RET_STACK_SIZE + Base(NumRegs', have_stats') + RetStkPtr'
  <2>1. 1 <= RET_STACK_SIZE + Base(TOPREALREG, have_stats') + 0
    BY <1>4, <1>6
  <2> QED BY <2>1, <1>1
<1>8. DoubleHasRoom'
  BY <1>1, <1>4 DEF DoubleHasRoom
<1>9. Running' = FALSE /\ ProgSize' \in Nat /\ NumRegs' \in Nat
  BY <1>1, <1>4 DEF StackInv
<1> QED BY <1>1, <1>2, <1>3, <1>5, <1>7, <1>8, <1>9, FromContexts

\* Rounding up gives enough units.
LEMMA CeilingCovers ==
    ASSUME NEW n \in Nat \ {0}, NEW d \in Nat \ {0}
    PROVE  Ceiling(n, d) \in Nat /\ n <= Ceiling(n, d) * d
<1> DEFINE q == (n + d - 1) \div d
<1>1. n + d - 1 \in Nat
  OBVIOUS
<1>2. q \in Nat /\ n + d - 1 < q * d + d
  BY <1>1
<1>3. q * d \in Int
  BY <1>2, Products
<1> HIDE DEF q
<1>4. n <= q * d
  BY <1>2, <1>3
<1> QED BY <1>2, <1>4 DEF Ceiling, q

\* The registers given up cover the words needed, in either precision.
LEMMA RegistersCover ==
    ASSUME LayoutInv, NEW needed \in Nat \ {0}, RegsLeft(needed) >= 0,
           ~ RangeError(RegsLeft(needed))
    PROVE  LET r == WantedRegs(RegsLeft(needed))
           IN  /\ r \in Nat /\ r <= NumRegs
               /\ IF mode_double THEN r >= LETTERED ELSE r <= TOPREALREG
               /\ needed <= (NumRegs - r) * REG_WORDS
<1> DEFINE r == WantedRegs(RegsLeft(needed))
<1>1. /\ NumRegs \in Nat /\ LETTERED \in Nat /\ REG_WORDS \in Nat \ {0} /\ TOPREALREG \in Nat
      /\ IF mode_double THEN NumRegs >= LETTERED ELSE NumRegs <= TOPREALREG
  BY SizesAssumption DEF LayoutInv, DoubleHasRoom
<1>2. CASE is_dblmode
  <2> DEFINE h == (NumRegs - LETTERED) \div 2
             c == Ceiling(needed, 2 * REG_WORDS)
  <2>1. mode_double /\ NumRegs - LETTERED \in Int
    BY <1>1, <1>2 DEF is_dblmode
  <2>2. h \in Int /\ 2 * h <= NumRegs - LETTERED
    BY <2>1
  <2>3. 2 * REG_WORDS \in Nat \ {0}
    BY <1>1
  <2>4. c \in Nat /\ needed <= c * (2 * REG_WORDS)
    BY <2>3, CeilingCovers
  <2>5. c * (2 * REG_WORDS) = (2 * c) * REG_WORDS
    BY <2>4, <1>1
  <2> HIDE DEF h, c
  <2>6. RegsLeft(needed) = h - c /\ r = 2 * (h - c) + LETTERED
    BY <1>2 DEF RegsLeft, WantedRegs, h, c
  <2>7. h - c >= 0
    BY <2>6
  <2>8. r \in Nat /\ r <= NumRegs /\ r >= LETTERED /\ 2 * c <= NumRegs - r
    BY <1>1, <2>2, <2>4, <2>6, <2>7
  <2> HIDE DEF r
  <2>9. (2 * c) * REG_WORDS <= (NumRegs - r) * REG_WORDS
    <3>1. 2 * c \in Int /\ NumRegs - r \in Int /\ REG_WORDS \in Nat
      BY <1>1, <2>4, <2>8
    <3> QED BY <3>1, <2>8, Products
  <2>10. /\ (NumRegs - r) * REG_WORDS \in Int /\ (2 * c) * REG_WORDS \in Int
    <3>1. 2 * c \in Int /\ NumRegs - r \in Int /\ REG_WORDS \in Int
      BY <1>1, <2>4, <2>8
    <3> QED BY <3>1, Products
  <2>11. needed <= (NumRegs - r) * REG_WORDS
    BY <2>4, <2>5, <2>9, <2>10
  <2> QED BY <2>1, <2>8, <2>11 DEF r
<1>3. CASE ~ is_dblmode
  <2> DEFINE c == Ceiling(needed, REG_WORDS)
  <2>1. c \in Nat /\ needed <= c * REG_WORDS
    BY <1>1, CeilingCovers
  <2> HIDE DEF c
  <2>2. RegsLeft(needed) = NumRegs - c /\ r = NumRegs - c
    BY <1>3 DEF RegsLeft, WantedRegs, c
  <2>3. r \in Nat /\ r <= NumRegs /\ NumRegs - r = c
    BY <1>1, <2>1, <2>2
  <2>4. mode_double => r >= LETTERED
    BY <1>1, <1>3, <2>2, <2>3 DEF RangeError
  <2>5. ~ mode_double => r <= TOPREALREG
    BY <1>1, <2>3
  <2> HIDE DEF r
  <2>6. needed <= (NumRegs - r) * REG_WORDS
    BY <2>1, <2>3
  <2> QED BY <2>3, <2>4, <2>5, <2>6 DEF r
<1> QED BY <1>2, <1>3

\* The statistics after append_program, and the boundaries it leaves them with.
LEMMA AfterDropIs ==
    ASSUME LayoutInv, NEW size, NEW len, NEW s, s = (have_stats /\ ~ DropsStats(size, len))
    PROVE  /\ s \in BOOLEAN
           /\ AfterDrop(size, len) = Contexts(ProgSize, NumRegs, s)
           /\ Base(NumRegs, s) = Base(NumRegs, have_stats)
                                   + (IF DropsStats(size, len) THEN STAT_WORDS ELSE 0)
<1>1. NumRegs \in Int /\ have_stats \in BOOLEAN
  BY DEF LayoutInv
<1>2. Base(NumRegs, have_stats) \in Int
  BY <1>1, BaseIsInt
<1>3. CASE DropsStats(size, len)
  <2>1. s = FALSE /\ have_stats = TRUE
    BY <1>3, <1>1, Zenon DEF DropsStats
  <2>2. AfterDrop(size, len) = Contexts(ProgSize, NumRegs, s)
    BY <2>1, <1>3, Dropped, Zenon DEF AfterDrop, View
  <2>3. Base(NumRegs, s) = Base(NumRegs, have_stats) + STAT_WORDS
    BY <2>1, <1>1, BaseType, Zenon
  <2> QED BY <1>3, <2>1, <2>2, <2>3
<1>4. CASE ~ DropsStats(size, len)
  <2>1. s = have_stats
    BY <1>4, <1>1, Zenon
  <2>2. AfterDrop(size, len) = Contexts(ProgSize, NumRegs, s)
    BY <2>1, <1>4, Zenon DEF AfterDrop, View
  <2> DEFINE b == Base(NumRegs, have_stats)
  <2>3. Base(NumRegs, s) = b
    BY <2>1, Zenon
  <2> HIDE DEF b
  <2>4. b + 0 = b
    BY <1>2 DEF b
  <2>5. Base(NumRegs, s) = b + (IF DropsStats(size, len) THEN STAT_WORDS ELSE 0)
    BY <1>4, <2>3, <2>4, Zenon
  <2> QED BY <1>1, <2>1, <2>2, <2>5, Zenon DEF b
<1> QED BY <1>3, <1>4

\* A lone END gives way, or the END that LOADP takes for granted.
LEMMA KeptIsShorter ==
    ASSUME ProgSize \in Nat, NEW size \in {ProgSize, 1}
    PROVE  /\ SizeKept(size) \in Nat
           /\ SizeKept(size) <= ProgSize
           /\ SizeKept(size) + (IF size = 1 THEN 1 ELSE 0) <= ProgSize + 1
           /\ ProgSize > 0 => SizeKept(size) + (IF size = 1 THEN 1 ELSE 0) <= ProgSize
BY DEF SizeKept

\* append_program fits the program in.
LEMMA AppendedLayout ==
    ASSUME LayoutInv, StackInv, NEW size \in {ProgSize, 1}, NEW len \in Nat,
           ~ RegistersKept(size, len), Appended(size, len)
    PROVE  LayoutInv' /\ (0 < ProgSize => Headroom')
<1> DEFINE needed == StillNeeded(size, len)
           moves == needed > 0 /\ ~ RangeError(RegsLeft(needed))
           r == IF moves THEN WantedRegs(RegsLeft(needed)) ELSE NumRegs
           s == have_stats /\ ~ DropsStats(size, len)
           one == IF size = 1 THEN 1 ELSE 0
           drop == IF DropsStats(size, len) THEN STAT_WORDS ELSE 0
           b == Base(NumRegs, have_stats)
           kept == SizeKept(size)
           free == ProgFree(ProgSize, RetStkPtr)
           d == (NumRegs - r) * REG_WORDS
<1>1. /\ ~ Running /\ Running' = Running /\ (needed > 0 => RegsLeft(needed) >= 0)
      /\ ProgSize' = kept + len /\ NumRegs' = r /\ have_stats' = s /\ RetStkPtr' = 0
      /\ ctx' = move_retstk(AfterDrop(size, len), d)
      /\ mode_double' = mode_double /\ intm' = intm
  BY DEF Appended, RegistersKept, clrretstk, modes
<1>2. /\ b \in Int /\ RET_STACK_SIZE \in Int /\ ProgSize \in Nat
      /\ RetStkPtr \in Int /\ RetStkPtr <= 0
  BY Room
<1>3. /\ NumRegs \in Nat /\ NumRegs \in Int /\ NumRegs <= 2 * TOPREALREG + LETTERED
      /\ mode_double \in BOOLEAN /\ intm \in BOOLEAN /\ DoubleHasRoom /\ ProgSize \in Int
  BY DEF LayoutInv
<1>4. /\ s \in BOOLEAN /\ AfterDrop(size, len) = Contexts(ProgSize, NumRegs, s)
      /\ Base(NumRegs, s) = b + drop
  BY AfterDropIs
<1>5. /\ kept \in Nat /\ kept + one <= ProgSize + 1
      /\ ProgSize > 0 => kept + one <= ProgSize
  BY <1>2, KeptIsShorter
<1>6. free \in Int
      /\ free + ProgSize + MINIMUM_RET_STACK_SIZE = RET_STACK_SIZE + b + RetStkPtr
  BY <1>2, <1>3, FreeWords, Zenon
<1>7. needed = len - free - one - drop
  BY DEF StillNeeded, SpaceNeeded
<1>8. /\ one \in Int /\ drop \in Int /\ MINIMUM_RET_STACK_SIZE \in Nat \ {0}
      /\ REG_WORDS \in Int /\ TOPREALREG \in Nat /\ LETTERED \in Nat
  BY SizesAssumption
<1> HIDE DEF one, drop, b, kept, free, s, needed
<1>9. needed \in Int
  BY <1>6, <1>7, <1>8
<1>10. /\ r \in Nat /\ r <= NumRegs /\ needed <= d
       /\ IF mode_double THEN r >= LETTERED ELSE r <= TOPREALREG
  <2>1. CASE needed > 0
    <3>1. ~ RangeError(RegsLeft(needed))
      BY <2>1 DEF RegistersKept, needed
    <3>2. r = WantedRegs(RegsLeft(needed))
      BY <2>1, <3>1
    <3>3. needed \in Nat \ {0} /\ RegsLeft(needed) >= 0
      BY <2>1, <1>1, <1>9
    <3> QED BY <3>1, <3>2, <3>3, RegistersCover
  <2>2. CASE ~ (needed > 0)
    <3>1. r = NumRegs
      BY <2>2
    <3>2. d = 0
      BY <3>1, <1>3, <1>8
    <3> QED BY <2>2, <3>1, <3>2, <1>3, <1>9 DEF DoubleHasRoom
  <2> QED BY <2>1, <2>2
<1> HIDE DEF r, moves
<1>11. r \in Int /\ d \in Int
  <2>1. r \in Int /\ NumRegs - r \in Int
    BY <1>3, <1>10
  <2> QED BY <2>1, <1>8, Products
<1>12. ctx' = Contexts(ProgSize, r, s)
  <2>1. ctx' = move_retstk(Contexts(ProgSize, NumRegs, s), d)
    BY <1>1, <1>4
  <2>2. move_retstk(Contexts(ProgSize, NumRegs, s), d) = Contexts(ProgSize, r, s)
    <3>1. ProgSize \in Int /\ NumRegs \in Int /\ s \in BOOLEAN /\ r \in Int
      BY <1>3, <1>4, <1>11
    <3> HIDE DEF s
    <3> QED BY <3>1, MovedForRegs, Zenon
  <2> QED BY <2>1, <2>2
<1>13. Base(r, s) = Base(NumRegs, s) + d
  <2>1. NumRegs \in Int /\ s \in BOOLEAN /\ r \in Int
    BY <1>3, <1>4, <1>11
  <2> HIDE DEF s
  <2> QED BY <2>1, BaseType, Zenon
<1> HIDE DEF d
<1>14. kept + len <= RET_STACK_SIZE + Base(r, s) + 0
  BY <1>2, <1>4, <1>5, <1>6, <1>7, <1>8, <1>9, <1>10, <1>11, <1>13
<1>15. kept + len \in Nat /\ r <= 2 * TOPREALREG + LETTERED
  BY <1>3, <1>5, <1>8, <1>10
<1>16. DoubleHasRoom'
  BY <1>1, <1>10 DEF DoubleHasRoom
<1>17. Running' = FALSE
  BY <1>1 DEF StackInv
<1>18. LayoutInv'
  BY <1>1, <1>3, <1>4, <1>10, <1>12, <1>14, <1>15, <1>16, <1>17, FromContexts
<1>19. ctx'.RetStk = Base(r, s)
  BY <1>3, <1>4, <1>11, <1>12, ContextsAre, Zenon
<1>20. ProgSize > 0 =>
          kept + len + MINIMUM_RET_STACK_SIZE <= RET_STACK_SIZE + Base(r, s)
  BY <1>2, <1>4, <1>5, <1>6, <1>7, <1>8, <1>9, <1>10, <1>11, <1>13
<1>21. 0 < ProgSize => Headroom'
  <2>1. ProgSize' + MINIMUM_RET_STACK_SIZE = kept + len + MINIMUM_RET_STACK_SIZE
    BY <1>1
  <2> QED BY <1>2, <1>19, <1>20, <2>1 DEF Headroom
<1> QED BY <1>18, <1>21

\* append_program has too few registers to give up.
LEMMA RefusedLayout ==
    ASSUME LayoutInv, StackInv, NEW size \in {ProgSize, 1}, NEW len,
           AppendRefused(size, len)
    PROVE  LayoutInv'
<1> DEFINE s == have_stats /\ ~ DropsStats(size, len)
           drop == IF DropsStats(size, len) THEN STAT_WORDS ELSE 0
           b == Base(NumRegs, have_stats)
           kept == SizeKept(size)
<1>1. /\ ~ Running /\ Running' = Running /\ ProgSize' = kept /\ NumRegs' = NumRegs
      /\ ctx' = AfterDrop(size, len) /\ mode_double' = mode_double /\ intm' = intm
      /\ \/ have_stats' = s /\ RetStkPtr' = 0
         \/ have_stats' = have_stats /\ RetStkPtr' = RetStkPtr
  BY DEF AppendRefused, GivenUp, clrretstk, modes, stack
<1>2. /\ b \in Int /\ RET_STACK_SIZE \in Int /\ ProgSize \in Nat
      /\ RetStkPtr \in Int /\ RetStkPtr <= 0 /\ ProgSize <= RET_STACK_SIZE + b + RetStkPtr
  BY Room
<1>3. /\ NumRegs \in Nat /\ NumRegs <= 2 * TOPREALREG + LETTERED /\ ProgSize \in Int
      /\ mode_double \in BOOLEAN /\ intm \in BOOLEAN /\ DoubleHasRoom
  BY DEF LayoutInv
<1>4. /\ s \in BOOLEAN /\ AfterDrop(size, len) = Contexts(ProgSize, NumRegs, s)
      /\ Base(NumRegs, s) = b + drop
  BY AfterDropIs
<1>5. kept \in Nat /\ kept <= ProgSize
  BY <1>2, KeptIsShorter
<1>6. drop \in Nat
  BY SizesAssumption
<1> HIDE DEF s, drop, b, kept
<1>7. kept <= RET_STACK_SIZE + Base(NumRegs, s) + 0
  BY <1>2, <1>4, <1>5, <1>6
<1>8. DoubleHasRoom'
  BY <1>1, <1>3 DEF DoubleHasRoom
<1>9. Running' = FALSE /\ ctx' = Contexts(ProgSize, NumRegs', s)
  BY <1>1, <1>4 DEF StackInv
<1>10. CASE have_stats' = s /\ RetStkPtr' = 0
  BY <1>1, <1>3, <1>4, <1>5, <1>7, <1>8, <1>9, <1>10, FromContexts
<1>11. CASE have_stats' = have_stats /\ RetStkPtr' = RetStkPtr
  <2>1. Current'
    BY <1>3, <1>4, <1>9, <1>11 DEF Current, s
  <2>2. Base(NumRegs', have_stats') = b
    BY <1>1, <1>11 DEF b
  <2>3. ProgSize' <= RET_STACK_SIZE + Base(NumRegs', have_stats') + RetStkPtr'
    BY <1>1, <1>2, <1>5, <1>11, <2>2
  <2>4. have_stats' \in BOOLEAN
    BY <1>11 DEF LayoutInv
  <2> QED BY <1>1, <1>3, <1>5, <1>8, <2>1, <2>3, <2>4 DEF LayoutInv
<1> QED BY <1>1, <1>10, <1>11

\* append_program meets a program beyond NUMPROG_LIMIT.
LEMMA TooLongLayout ==
    ASSUME LayoutInv, StackInv, NEW size \in {ProgSize, 1}, NEW len, TooLong(size, len),
           UNCHANGED <<stack, have_stats>> \/ GivenUp(have_stats)
    PROVE  LayoutInv'
<1>1. /\ Running' = FALSE /\ ProgSize' = SizeKept(size)
      /\ UNCHANGED <<NumRegs, have_stats, modes>> /\ ctx' = View("key")
  BY DEF TooLong, StackInv, GivenUp
<1>2. RetStkPtr' = RetStkPtr \/ RetStkPtr' = 0
  BY DEF stack, GivenUp, clrretstk
<1>3. SizeKept(size) \in Nat /\ SizeKept(size) <= ProgSize
  BY KeptIsShorter DEF LayoutInv
<1>4. ProgSize' \in Nat /\ ProgSize' <= ProgSize
  BY <1>1, <1>3
<1> QED BY <1>1, <1>2, <1>4, ShorterLayout, Zenon

\* The cases of append_program, for PRCL and for LOADP.
LEMMA AppendLayout ==
    ASSUME LayoutInv, StackInv, NEW len \in 1 .. MAX_LEN,
           \/ ~ RegistersKept(ProgSize, len) /\ recall_program(len)
           \/ ~ RegistersKept(1, len) /\ load_program(len)
    PROVE  LayoutInv'
<1>1. len \in Nat
  BY SizesAssumption
<1>2. PICK size \in {ProgSize, 1} :
         /\ ~ RegistersKept(size, len)
         /\ \/ Appended(size, len)
            \/ AppendRefused(size, len)
            \/ /\ TooLong(size, len)
               /\ UNCHANGED <<stack, have_stats>> \/ GivenUp(have_stats)
  BY DEF recall_program, load_program, append_program
<1>3. CASE Appended(size, len)
  BY <1>1, <1>2, <1>3, AppendedLayout
<1>4. CASE AppendRefused(size, len)
  BY <1>4, RefusedLayout
<1>5. CASE TooLong(size, len) /\ (UNCHANGED <<stack, have_stats>> \/ GivenUp(have_stats))
  BY <1>5, TooLongLayout
<1> QED BY <1>2, <1>3, <1>4, <1>5

\* LOADSS of a state that suits the memory.
LEMMA LoadStateLayout ==
    ASSUME LayoutInv, StackInv, NEW stats \in BOOLEAN, NEW i \in BOOLEAN, NEW dbl \in BOOLEAN,
           ~ OtherMemory(stats, dbl), load_state(stats, i, dbl)
    PROVE  LayoutInv'
<1>1. /\ Running' = FALSE /\ ProgSize' = ProgSize /\ NumRegs' = NumRegs
      /\ have_stats' = have_stats /\ mode_double' = dbl /\ intm' = i /\ RetStkPtr' = 0
      /\ ctx' = Contexts(ProgSize, NumRegs, have_stats)
  BY DEF load_state, OtherMemory, clrretstk, View, StackInv
<1>2. /\ ProgSize \in Nat /\ ProgSize \in Int /\ NumRegs \in Nat /\ have_stats \in BOOLEAN
      /\ NumRegs <= 2 * TOPREALREG + LETTERED
  BY DEF LayoutInv
<1>3. ProgSize' <= RET_STACK_SIZE + Base(NumRegs', have_stats') + RetStkPtr'
  <2> DEFINE b == Base(NumRegs, have_stats)
  <2>1. /\ b \in Int /\ RET_STACK_SIZE \in Int /\ RetStkPtr \in Int /\ RetStkPtr <= 0
        /\ ProgSize <= RET_STACK_SIZE + b + RetStkPtr
    BY Room
  <2>2. Base(NumRegs', have_stats') = b
    BY <1>1
  <2> HIDE DEF b
  <2> QED BY <1>1, <1>2, <2>1, <2>2
<1>4. DoubleHasRoom'
  BY <1>1, <1>2, SizesAssumption DEF DoubleHasRoom, OtherMemory
<1> QED BY <1>1, <1>2, <1>3, <1>4, FromContexts

\* Program editing and append together.
LEMMA ProgramsLayout ==
    ASSUME LayoutInv, StackInv, Programs
    PROVE  LayoutInv'
<1>0. ProgSize \in Nat /\ (~ Running => Running = FALSE)
  BY DEF LayoutInv, StackInv
<1>1. CASE \E off \in {1, 2}, atEnd \in BOOLEAN : stoprog(off, atEnd)
  BY <1>1, EnteredLayout
<1>2. ASSUME NEW off \in {1, 2}, delprog(off) PROVE LayoutInv'
  <2>1. ProgSize' \in Nat /\ ProgSize' <= ProgSize
    BY <1>0, <1>2 DEF delprog
  <2>2. Running' = FALSE /\ RetStkPtr' = RetStkPtr
    BY <1>0, <1>2 DEF delprog, stack
  <2>3. UNCHANGED <<NumRegs, have_stats, modes>> /\ ctx' = View("key")
    BY <1>2 DEF delprog
  <2> QED BY <2>1, <2>2, <2>3, ShorterLayout, Zenon
<1>3. ASSUME NEW len \in 1 .. ProgSize, clrprog(len) PROVE LayoutInv'
  <2>1. ProgSize' \in Nat /\ (ProgSize' <= ProgSize \/ ProgSize' = 1) /\ RetStkPtr' = 0
    BY <1>0, <1>3 DEF clrprog, clrretstk
  <2>2. Running' = FALSE
    BY <1>0, <1>3 DEF clrprog
  <2>3. UNCHANGED <<NumRegs, have_stats, modes>> /\ ctx' = View("key")
    BY <1>3 DEF clrprog
  <2> QED BY <2>1, <2>2, <2>3, ShorterLayout, Zenon
<1>4. CASE clpall
  <2>1. ProgSize' = 1 /\ RetStkPtr' = 0
    BY <1>4 DEF clpall, clrretstk
  <2>2. Running' = FALSE
    BY <1>0, <1>4 DEF clpall
  <2>3. UNCHANGED <<NumRegs, have_stats, modes>> /\ ctx' = View("key")
    BY <1>4 DEF clpall
  <2>4. ProgSize' \in Nat
    BY <2>1
  <2> QED BY <2>1, <2>2, <2>3, <2>4, ShorterLayout, Zenon
<1>5. CASE clrall \/ reset
  BY <1>5, ClearedLayout
<1>6. CASE \E len \in 1 .. MAX_LEN : ~ RegistersKept(ProgSize, len) /\ recall_program(len)
  BY <1>6, AppendLayout
<1>7. CASE \E len \in 1 .. MAX_LEN : ~ RegistersKept(1, len) /\ load_program(len)
  BY <1>7, AppendLayout
<1>8. CASE \E stats, i, dbl \in BOOLEAN :
              ~ OtherMemory(stats, dbl) /\ load_state(stats, i, dbl)
  BY <1>8, LoadStateLayout
<1> QED BY <1>1, <1>2, <1>3, <1>4, <1>5, <1>6, <1>7, <1>8 DEF Programs
-----------------------------------------------------------------------------
(* The theorems *)

\* Every checked command keeps the layout's invariant.
LEMMA LayoutStep ==
    ASSUME LayoutInv, StackInv, [CheckedNext]_vars
    PROVE  LayoutInv'
<1> DEFINE m == Contexts(ProgSize, NumRegs, have_stats)
<1>1. RetStkPtr \in Int /\ RetStkPtr <= 0
  BY Room
<1>2. CASE \E by \in Sources : Levels(by)
  BY <1>2, LevelsLayout
<1>3. CASE \E by \in Sources : Locals(by)
  BY <1>3, LocalsLayout
<1>4. CASE \E by \in Sources : Registers(by)
  BY <1>4, RegistersLayout
<1>5. CASE \E by \in Sources : Fail(by)
  <2>1. UNCHANGED <<memory, modes, stack>> /\ ctx' = m
    BY <1>5 DEF Fail
  <2>2. RetStkPtr' = RetStkPtr
    BY <2>1 DEF stack
  <2> QED BY <1>1, <2>1, <2>2, NoDeeper
<1>6. CASE Programs
  BY <1>6, ProgramsLayout
<1>7. CASE CallRefused
  <2>1. UNCHANGED <<memory, modes>> /\ ctx' = m /\ (RetStkPtr' = 0 \/ RetStkPtr' = RetStkPtr)
    BY <1>7 DEF CallRefused, GivenUp, clrretstk, View, memory, stack
  <2> QED BY <1>1, <2>1, NoDeeper
<1>8. CASE \E c \in {"stop", "other"} : KeyWhileRunning(c)
  <2>1. UNCHANGED <<memory, modes, stack>> /\ ctx' = m
    BY <1>8 DEF KeyWhileRunning
  <2>2. RetStkPtr' = RetStkPtr
    BY <2>1 DEF stack
  <2> QED BY <1>1, <2>1, <2>2, NoDeeper
<1>9. CASE UNCHANGED vars
  <2>1. UNCHANGED <<memory, modes, stack, Running, ctx>>
    BY <1>9 DEF vars
  <2>2. LayoutInv' = LayoutInv
    BY <2>1 DEF LayoutInv, Current, DoubleHasRoom, Base, memory, modes, stack
  <2> QED BY <2>2
<1> QED BY <1>2, <1>3, <1>4, <1>5, <1>6, <1>7, <1>8, <1>9 DEF CheckedNext

\* The invariant holds of the calculator after a reset.
LEMMA LayoutInit == Init => LayoutInv
<1> SUFFICES ASSUME Init PROVE LayoutInv
  OBVIOUS
<1>1. /\ ProgSize = 1 /\ NumRegs = TOPREALREG /\ have_stats = FALSE /\ mode_double = FALSE
      /\ intm = FALSE /\ RetStkPtr = 0 /\ Running = FALSE
      /\ ctx = Contexts(0, TOPREALREG, FALSE)
  BY DEF Init
<1>2. TOPREALREG \in Nat /\ LETTERED \in Nat /\ RET_STACK_SIZE \in Int
  BY SizesAssumption
<1>3. TOPREALREG \in Int /\ TOPREALREG <= 2 * TOPREALREG + LETTERED
  BY <1>2
<1>4. Base(TOPREALREG, FALSE) \in Int /\ RET_STACK_SIZE + Base(TOPREALREG, FALSE) >= 1
  BY <1>3, BaseType, Zenon
<1>5. Current
  <2>1. ctx = Contexts(0, NumRegs, have_stats) /\ ~ Running
    BY <1>1, Zenon
  <2>2. 0 \in Int
    OBVIOUS
  <2>3. have_stats \in BOOLEAN
    BY <1>1
  <2> QED BY <2>1, <2>2, <2>3, Zenon DEF Current
<1>6. ProgSize <= RET_STACK_SIZE + Base(NumRegs, have_stats) + RetStkPtr
  <2> DEFINE b == Base(TOPREALREG, FALSE)
  <2>1. Base(NumRegs, have_stats) = b
    BY <1>1, Zenon
  <2> HIDE DEF b
  <2>2. b \in Int /\ RET_STACK_SIZE + b >= 1
    BY <1>4 DEF b
  <2>3. 1 <= RET_STACK_SIZE + b + 0
    BY <1>2, <2>2
  <2> QED BY <1>1, <2>1, <2>3
<1>7. DoubleHasRoom
  BY <1>1, <1>2 DEF DoubleHasRoom
<1>8. ProgSize \in Nat /\ NumRegs \in Nat /\ NumRegs <= 2 * TOPREALREG + LETTERED
  BY <1>1, <1>2
<1>9. have_stats \in BOOLEAN /\ mode_double \in BOOLEAN /\ intm \in BOOLEAN
  BY <1>1
<1> QED BY <1>5, <1>6, <1>7, <1>8, <1>9 DEF LayoutInv

\* The boundaries every command leaves behind (move_retstk, xeq_init_contexts)
\* stay coherent and apart from the program, over the nested return stack.
THEOREM LayoutIsSound == CheckedSpec => [](StackInv /\ LayoutInv)
<1>1. StackInv /\ LayoutInv /\ [RetStkPtr <= 0 /\ CheckedNext]_vars
        => StackInv' /\ LayoutInv'
  BY StackStep, LayoutStep
<1>2. Init => StackInv /\ LayoutInv
  BY StackInit, LayoutInit
<1> QED BY <1>1, <1>2, PTL DEF CheckedSpec

\* Every variable keeps the type of its declaration in data.h, and the return
\* stack holds exactly the words RetStkPtr says.
THEOREM TypesHold == CheckedSpec => []TypeOK
<1>1. StackInv /\ LayoutInv => TypeOK
  <2> SUFFICES ASSUME StackInv, LayoutInv PROVE TypeOK
    OBVIOUS
  <2>1. /\ stk \in Seq(Nat) /\ RetStkPtr = -Len(stk) /\ Len(stk) \in Nat /\ LocalRegs \in Int
        /\ pc \in Nat
    BY LenProperties, PCsAreNoMarkers DEF StackInv
  <2>2. RetStkPtr \in Int /\ Len(stk) = -RetStkPtr
    BY <2>1
  <2>3. /\ ProgSize \in Nat /\ NumRegs \in Nat /\ have_stats \in BOOLEAN
        /\ mode_double \in BOOLEAN /\ intm \in BOOLEAN
    BY DEF LayoutInv
  <2>4. ctx \in [RetStk : Int, RetStkSize : Int, SizeStatRegs : Nat]
    <3>1. PICK size \in Int, stats \in BOOLEAN : ctx = Contexts(size, NumRegs, stats)
      BY DEF LayoutInv, Current
    <3>2. NumRegs \in Int
      BY <2>3
    <3> QED BY <2>3, <3>1, <3>2, ContextsAre, Zenon
  <2>5. Running \in BOOLEAN
    BY DEF StackInv
  <2> QED BY <2>1, <2>2, <2>3, <2>4, <2>5 DEF TypeOK
<1> QED BY <1>1, LayoutIsSound, PTL

\* The return stack never reaches into the program, whatever the order of
\* REGS, statistics, XEQ, LocR, program entry and append.
THEOREM NeverOverlap == CheckedSpec => []NoOverlap
<1>1. StackInv /\ LayoutInv => NoOverlap
  <2> SUFFICES ASSUME StackInv, LayoutInv PROVE NoOverlap
    OBVIOUS
  <2>1. PICK size \in Int, stats \in BOOLEAN :
           ctx = Contexts(size, NumRegs, stats) /\ (stats => have_stats)
    BY DEF LayoutInv, Current
  <2>2. NumRegs \in Int /\ have_stats \in BOOLEAN
    BY DEF LayoutInv
  <2>3. ctx.RetStk = Base(NumRegs, stats)
    BY <2>1, <2>2, ContextsAre, Zenon
  <2>4. /\ Base(NumRegs, have_stats) \in Int /\ Base(NumRegs, stats) \in Int
        /\ Base(NumRegs, FALSE) = Base(NumRegs, TRUE) + STAT_WORDS /\ STAT_WORDS \in Nat
    <3>1. Base(NumRegs, have_stats) \in Int /\ Base(NumRegs, stats) \in Int
      BY <2>2, BaseIsInt
    <3>2. Base(NumRegs, FALSE) = Base(NumRegs, TRUE) + STAT_WORDS
      BY <2>2, BaseType, Zenon
    <3> QED BY <3>1, <3>2, SizesAssumption
  <2>5. Base(NumRegs, have_stats) <= Base(NumRegs, stats)
    <3> DEFINE f == Base(NumRegs, FALSE)
               t == Base(NumRegs, TRUE)
               g == Base(NumRegs, have_stats)
               h == Base(NumRegs, stats)
    <3>1. CASE h = g
      <4>1. g \in Int
        BY <2>4
      <4> HIDE DEF g, h
      <4>2. g <= h
        BY <3>1, <4>1
      <4> QED BY <4>2 DEF g, h
    <3>2. CASE g = t /\ h = f
      <4>1. t \in Int /\ f = t + STAT_WORDS /\ STAT_WORDS \in Nat
        BY <2>4, <3>2
      <4> HIDE DEF f, t, g, h
      <4>2. g <= h
        BY <3>2, <4>1
      <4> QED BY <4>2 DEF g, h
    <3>3. h = g \/ (g = t /\ h = f)
      BY <2>1, <2>2
    <3> QED BY <3>1, <3>2, <3>3
  <2>6. /\ ProgSize <= RET_STACK_SIZE + Base(NumRegs, have_stats) + RetStkPtr
        /\ ProgSize \in Nat /\ RetStkPtr \in Int /\ RET_STACK_SIZE \in Int
    BY Room DEF LayoutInv
  <2> QED BY <2>3, <2>4, <2>5, <2>6 DEF NoOverlap
<1> QED BY <1>1, LayoutIsSound, PTL

\* Statistics and stack always lie below the registers, and the boundaries that
\* move_retstk adjusts command by command while a program runs are those
\* xeq_init_contexts would compute afresh.
THEOREM AlwaysCoherent == CheckedSpec => []LayoutCoherent
<1>1. StackInv /\ LayoutInv => LayoutCoherent
  <2> SUFFICES ASSUME LayoutInv PROVE LayoutCoherent
    OBVIOUS
  <2>1. PICK size \in Int, stats \in BOOLEAN :
           /\ ctx = Contexts(size, NumRegs, stats)
           /\ Running => size = ProgSize /\ stats = have_stats
    BY DEF LayoutInv, Current
  <2>2. NumRegs \in Int
    BY DEF LayoutInv
  <2> DEFINE b == Base(NumRegs, stats)
             w == IF stats THEN STAT_WORDS ELSE 0
             p == (TOPREALREG - NumRegs) * REG_WORDS
  <2>3. ctx.RetStk = b /\ ctx.RetStkSize = b + RET_STACK_SIZE - size /\ ctx.SizeStatRegs = w
    BY <2>1, <2>2, ContextsAre, Zenon
  <2>4. b = p - w
    BY DEF Base
  <2>5. /\ TOPREALREG - NumRegs \in Int /\ REG_WORDS \in Int /\ w \in Int
        /\ RET_STACK_SIZE \in Int
    BY <2>2, SizesAssumption
  <2>6. p \in Int
    BY <2>5, Products
  <2> HIDE DEF b, w, p
  <2>7. ctx.RetStk + ctx.SizeStatRegs = p
    BY <2>3, <2>4, <2>5, <2>6
  <2>8. ctx.RetStkSize = RET_STACK_SIZE + ctx.RetStk - size
    BY <2>3, <2>4, <2>5, <2>6
  <2>9. Running => /\ ctx.SizeStatRegs = (IF have_stats THEN STAT_WORDS ELSE 0)
                   /\ ctx.RetStkSize = RET_STACK_SIZE + ctx.RetStk - ProgSize
    BY <2>1, <2>3, <2>8 DEF w
  <2> QED BY <2>7, <2>9 DEF LayoutCoherent, p
<1> QED BY <1>1, LayoutIsSound, PTL

\* Double precision has the space of its lettered registers (op_double, cmdregs,
\* cmdrestm), single precision no more registers than REGS can name.
THEOREM AlwaysRoom == CheckedSpec => []DoubleHasRoom
<1>1. StackInv /\ LayoutInv => DoubleHasRoom
  BY DEF LayoutInv
<1> QED BY <1>1, LayoutIsSound, PTL

\* Program entry and append (stoprog, append_program) keep the headroom of
\* MINIMUM_RET_STACK_SIZE words below the return stack.
THEOREM GrowthIsBounded == CheckedSpec => GrowthKeepsHeadroom
<1> DEFINE grows == 0 < ProgSize /\ ProgSize < ProgSize'
<1>1. ASSUME StackInv, LayoutInv, CheckedNext, grows PROVE Headroom'
  <2>1. Programs
    <3>1. ProgSize \in Nat
      BY <1>1 DEF LayoutInv
    <3>2. ProgSize' # ProgSize
      BY <1>1, <3>1
    <3>3. ASSUME NEW by, Levels(by) \/ Locals(by) \/ Registers(by) \/ Fail(by)
          PROVE  ProgSize' = ProgSize
      BY <3>3 DEF Levels, Call, Goto, Return, StrayReturn, RunStop, Locals, LocR, PopLR,
                  StoreLocal, Registers, cmdregs, op_double, Precision, SetIntMode, cmdrestm,
                  sigmaAllocate, sigmaDeallocate, Fail, memory
    <3>4. CallRefused \/ (\E c \in {"stop", "other"} : KeyWhileRunning(c)) => ProgSize' = ProgSize
      BY DEF CallRefused, KeyWhileRunning, memory
    <3> QED BY <1>1, <3>2, <3>3, <3>4 DEF CheckedNext
  <2>2. ProgSize \in Nat /\ 0 < ProgSize /\ ProgSize < ProgSize'
    BY <1>1 DEF LayoutInv
  <2>3. CASE \E off \in {1, 2}, atEnd \in BOOLEAN : stoprog(off, atEnd)
    BY <1>1, <2>2, <2>3, EnteredLayout
  <2>4. ASSUME NEW size \in {ProgSize, 1}, NEW len \in 1 .. MAX_LEN,
               ~ RegistersKept(size, len), Appended(size, len)
        PROVE  Headroom'
    <3>1. len \in Nat
      BY SizesAssumption
    <3> QED BY <1>1, <2>2, <2>4, <3>1, AppendedLayout
  <2>5. ASSUME NEW size \in {ProgSize, 1}, NEW len,
               AppendRefused(size, len) \/ TooLong(size, len)
        PROVE  ProgSize' <= ProgSize
    BY <2>2, <2>5, KeptIsShorter DEF AppendRefused, TooLong
  <2>6. ASSUME NEW len \in 1 .. MAX_LEN,
               \/ ~ RegistersKept(ProgSize, len) /\ recall_program(len)
               \/ ~ RegistersKept(1, len) /\ load_program(len)
        PROVE  Headroom'
    <3>1. PICK size \in {ProgSize, 1} :
             /\ ~ RegistersKept(size, len)
             /\ Appended(size, len) \/ AppendRefused(size, len) \/ TooLong(size, len)
      BY <2>6 DEF recall_program, load_program, append_program
    <3>2. ProgSize' \in Int
      <4>1. LayoutInv'
        BY <1>1, LayoutStep
      <4> QED BY <4>1 DEF LayoutInv
    <3>3. ~ (ProgSize' <= ProgSize)
      BY <2>2, <3>2
    <3> QED BY <2>4, <2>5, <3>1, <3>3
  <2>7. ASSUME \/ \E off \in {1, 2} : delprog(off)
               \/ \E len \in 1 .. ProgSize : clrprog(len)
               \/ clpall \/ clrall \/ reset
               \/ (\E stats, i, dbl \in BOOLEAN : load_state(stats, i, dbl))
        PROVE  FALSE
    <3>1. ASSUME NEW off \in {1, 2}, delprog(off) PROVE FALSE
      BY <2>2, <3>1 DEF delprog
    <3>2. ASSUME NEW len \in 1 .. ProgSize, clrprog(len) PROVE FALSE
      BY <2>2, <3>2 DEF clrprog
    <3>3. ASSUME clpall \/ clrall \/ reset PROVE FALSE
      <4>1. ProgSize' = 1
        BY <3>3 DEF clpall, clrall, reset
      <4>2. ProgSize \in Nat /\ 0 < ProgSize /\ ProgSize < 1
        BY <2>2, <4>1
      <4> QED BY <4>2
    <3>4. ASSUME NEW stats, NEW i, NEW dbl, load_state(stats, i, dbl) PROVE FALSE
      BY <2>2, <3>4 DEF load_state
    <3> QED BY <2>7, <3>1, <3>2, <3>3, <3>4
  <2> QED BY <2>1, <2>3, <2>6, <2>7 DEF Programs
<1>2. StackInv /\ LayoutInv /\ [RetStkPtr <= 0 /\ CheckedNext]_vars
        => [grows => ProgSize' + MINIMUM_RET_STACK_SIZE <= RET_STACK_SIZE + ctx'.RetStk]_vars
  BY <1>1 DEF Headroom
<1> QED BY <1>2, LayoutIsSound, PTL DEF CheckedSpec, GrowthKeepsHeadroom
\* In a memory no larger than LocalRegs reaches (the 2 KB build), LocR (cmdlocr)
\* never makes a frame that LocalRegs cannot name.
THEOREM FramesInReach ==
    ASSUME RET_STACK_SIZE + TOPREALREG * REG_WORDS <= LOCAL_RANGE,
           StackInv, LayoutInv, NEW by \in Sources, NEW n \in LocArgs,
           RetStkPtr < 0, LocR(by, n)
    PROVE  LocalRegs' = RetStkPtr'
<1> DEFINE size == n * REG_WORDS * (IF is_dblmode THEN 2 ELSE 1) + 2
           again == RetStkPtr # 0 /\ RetStkPtr = LocalRegs
           old   == IF again THEN local_levels ELSE 0
           sp    == RetStkPtr + old - size
           room  == View(by).RetStkSize
<1>1. RetStkPtr' = sp /\ LocalRegs' = Narrow(sp) /\ -sp <= room
  BY DEF LocR
<1>2. /\ room = Base(NumRegs, have_stats) + RET_STACK_SIZE - ProgSize
      /\ ProgSize \in Nat /\ NumRegs \in Nat /\ have_stats \in BOOLEAN
  <2>1. View(by) = Contexts(ProgSize, NumRegs, have_stats)
    BY ViewIsCurrent DEF LocR, Done
  <2> QED BY <2>1, ContextsAre DEF LayoutInv
<1>3. /\ Base(NumRegs, have_stats) \in Int
      /\ Base(NumRegs, have_stats) <= TOPREALREG * REG_WORDS
      /\ TOPREALREG * REG_WORDS \in Int
  <2>1. /\ TOPREALREG \in Int /\ REG_WORDS \in Nat /\ STAT_WORDS \in Nat
        /\ TOPREALREG - NumRegs \in Int /\ TOPREALREG - NumRegs <= TOPREALREG
    BY <1>2, SizesAssumption
  <2>2. /\ (TOPREALREG - NumRegs) * REG_WORDS <= TOPREALREG * REG_WORDS
        /\ TOPREALREG * REG_WORDS \in Int /\ (TOPREALREG - NumRegs) * REG_WORDS \in Int
    BY <2>1, Products
  <2> QED BY <2>1, <2>2 DEF Base
<1>4. RetStkPtr' \in Int /\ RET_STACK_SIZE \in Int /\ LOCAL_RANGE \in Int
  <2>1. RET_STACK_SIZE \in Int /\ LOCAL_RANGE \in Int
    BY SizesAssumption
  <2>2. sp \in Int
    <3>1. RetStkPtr \in Int /\ RetStkPtr = -Len(stk) /\ Len(stk) \in 1 .. Len(stk)
      BY LenProperties DEF StackInv
    <3>2. old \in Int
      <4>1. stk[Len(stk)] \in Nat /\ LOCAL_MARKER \in Nat
        BY <3>1, ElementOfSeq, WordsAssumption DEF StackInv
      <4>2. again => LocalRegs < 0 /\ Word(LocalRegs) = stk[Len(stk)]
        BY <3>1 DEF Word
      <4> QED BY <4>1, <4>2 DEF local_levels, LOCAL_LEVELS
    <3>3. size \in Int
      <4>1. n \in Nat /\ REG_WORDS \in Nat
        BY SizesAssumption, ArgsAssumption
      <4>2. n * REG_WORDS \in Nat
        BY <4>1
      <4> QED BY <4>2
    <3> HIDE DEF old, size
    <3> QED BY <3>1, <3>2, <3>3
  <2> QED BY <2>1, <2>2, <1>1
<1> HIDE DEF sp, room
<1>5. sp >= -LOCAL_RANGE
  BY <1>1, <1>2, <1>3, <1>4
<1> QED BY <1>1, <1>5, <1>4 DEF Narrow

-----------------------------------------------------------------------------
(* The stack read as levels *)

LevelType == [ret : Nat, levels : Nat, flags : Nat, regs : Seq(Nat)]

\* One line of the definition of LevelsUpTo.
UpToBody(s, f, n) ==
    IF n > 0 /\ LevelStart(s, n) \in 1 .. n
    THEN Append(f[LevelStart(s, n) - 1], LevelAt(s, n))
    ELSE << >>

\* The levels up to the m-th word can be read.
ReadsUpTo(s, f, m) == f = [n \in 0 .. m |-> UpToBody(s, f, n)]

\* One word more can be read.
LEMMA ReadsOneMore ==
    ASSUME NEW s, NEW m \in Nat, NEW f, ReadsUpTo(s, f, m)
    PROVE  \E g : ReadsUpTo(s, g, m + 1)
<1> DEFINE g == [n \in 0 .. m + 1 |-> UpToBody(s, f, n)]
<1>1. \A n \in 0 .. m : f[n] = UpToBody(s, f, n)
  BY DEF ReadsUpTo
<1>2. \A n \in 0 .. m : g[n] = f[n]
  BY <1>1
<1>3. ASSUME NEW n \in 0 .. m + 1 PROVE UpToBody(s, f, n) = UpToBody(s, g, n)
  <2>1. CASE n > 0 /\ LevelStart(s, n) \in 1 .. n
    <3>1. LevelStart(s, n) - 1 \in 0 .. m
      BY <2>1
    <3>2. g[LevelStart(s, n) - 1] = f[LevelStart(s, n) - 1]
      BY <3>1, <1>2
    <3> HIDE DEF g
    <3> QED BY <3>2 DEF UpToBody
  <2>2. CASE ~ (n > 0 /\ LevelStart(s, n) \in 1 .. n)
    BY <2>2 DEF UpToBody
  <2> QED BY <2>1, <2>2
<1>4. g = [n \in 0 .. m + 1 |-> UpToBody(s, g, n)]
  <2> DEFINE h == [n \in 0 .. m + 1 |-> UpToBody(s, g, n)]
  <2>1. \A n \in 0 .. m + 1 : UpToBody(s, f, n) = UpToBody(s, g, n)
    BY <1>3
  <2> QED BY <2>1, Zenon
<1> HIDE DEF g
<1> QED BY <1>4 DEF ReadsUpTo

\* All words can be read.
LEMMA ReadsAll ==
    ASSUME NEW s, NEW m \in Nat
    PROVE  \E f : ReadsUpTo(s, f, m)
<1> DEFINE T == {d \in Nat : ~ \E f : ReadsUpTo(s, f, d)}
<1> SUFFICES ASSUME T # {} PROVE FALSE
  OBVIOUS
<1>1. PICK d \in T : \A e \in T : d <= e
  <2>1. T \in SUBSET Nat
    OBVIOUS
  <2> HIDE DEF T
  <2> QED BY <2>1, LeastMember
<1>2. d \in Nat /\ ~ \E f : ReadsUpTo(s, f, d)
  BY <1>1
<1>3. d # 0
  <2> DEFINE f == [n \in 0 .. 0 |-> << >>]
  <2>1. \A n \in 0 .. 0 : UpToBody(s, f, n) = << >>
    BY DEF UpToBody
  <2>2. f = [n \in 0 .. 0 |-> UpToBody(s, f, n)]
    BY <2>1, Zenon
  <2> HIDE DEF f
  <2>3. ReadsUpTo(s, f, 0)
    BY <2>2 DEF ReadsUpTo
  <2> QED BY <2>3, <1>2
<1>4. d - 1 \in Nat /\ d - 1 + 1 = d
  BY <1>2, <1>3
<1>5. d - 1 \notin T
  BY <1>1, <1>4
<1>6. PICK f : ReadsUpTo(s, f, d - 1)
  BY <1>4, <1>5
<1>7. \E g : ReadsUpTo(s, g, d - 1 + 1)
  BY <1>4, <1>6, ReadsOneMore
<1> QED BY <1>2, <1>4, <1>7

\* LevelsUpTo satisfies its recursive definition.
LEMMA LevelsUnfold ==
    ASSUME NEW s \in Seq(Nat), NEW n \in 0 .. Len(s)
    PROVE  LevelsUpTo(s)[n] = UpToBody(s, LevelsUpTo(s), n)
<1> DEFINE U == CHOOSE f : f = [k \in 0 .. Len(s) |-> UpToBody(s, f, k)]
<1>1. LevelsUpTo(s) = U
  BY Zenon DEF LevelsUpTo, UpToBody
<1>2. Len(s) \in Nat
  BY LenProperties
<1>3. \E f : f = [k \in 0 .. Len(s) |-> UpToBody(s, f, k)]
  <2>1. PICK f : ReadsUpTo(s, f, Len(s))
    BY <1>2, ReadsAll
  <2> QED BY <2>1 DEF ReadsUpTo
<1>4. U = [k \in 0 .. Len(s) |-> UpToBody(s, U, k)]
  BY <1>3
<1> HIDE DEF U
<1>5. U[n] = UpToBody(s, U, n)
  BY <1>4
<1> QED BY <1>1, <1>5

\* No word, no level.
LEMMA NoLevels ==
    ASSUME NEW s \in Seq(Nat)
    PROVE  LevelsUpTo(s)[0] = << >>
<1>1. 0 \in 0 .. Len(s)
  BY LenProperties
<1>2. LevelsUpTo(s)[0] = UpToBody(s, LevelsUpTo(s), 0)
  BY <1>1, LevelsUnfold
<1> QED BY <1>2 DEF UpToBody

\* The levels up to the end of a level: those below it, and it.
LEMMA LevelsStep ==
    ASSUME NEW s \in Seq(Nat), NEW e \in 1 .. Len(s), IsLevel(s, e)
    PROVE  LevelsUpTo(s)[e] = Append(LevelsUpTo(s)[Below(s, e)], LevelAt(s, e))
<1>1. e \in Nat /\ e > 0 /\ e \in 0 .. Len(s) /\ s[e] \in Nat /\ LOCAL_MARKER \in Nat
  BY LenProperties, ElementOfSeq, PCsAreNoMarkers
<1>2. LevelStart(s, e) - 1 = Below(s, e)
  BY <1>1 DEF LevelStart, Below, LOCAL_LEVELS
<1>3. LevelStart(s, e) \in Int
  BY <1>1 DEF LevelStart, LOCAL_LEVELS
<1>4. Below(s, e) \in 0 .. e - 1
  BY DEF IsLevel
<1>5. LevelStart(s, e) \in 1 .. e
  BY <1>1, <1>2, <1>3, <1>4
<1>6. LevelsUpTo(s)[e] = UpToBody(s, LevelsUpTo(s), e)
  BY <1>1, LevelsUnfold
<1> QED BY <1>1, <1>2, <1>5, <1>6 DEF UpToBody

\* A frame of m words ending at e, its flag word o words below its marker, lies
\* within n words, and its registers beside the flag word.
FrameFits(n, e, m, o) ==
    /\ m >= 2 /\ e - m = (e - m - 1) + 1
    /\ e - m \in 1 .. n
    /\ o \in 1 .. m - 1
    /\ e - o \in e - m + 1 .. e - 1
    /\ \A i \in 1 .. m - 2 :
          /\ e - (IF o = 1 THEN 2 ELSE 1) - (i - 1) \in e - m + 1 .. e - 1
          /\ e - (IF o = 1 THEN 2 ELSE 1) - (i - 1) # e - o

LEMMA FrameArithmetic ==
    ASSUME NEW n \in Nat, NEW e \in 1 .. n, NEW m \in Nat, NEW o,
           o = m - 1 \/ o = 1, e - m - 1 \in 0 .. e - 1, e - m - 1 + 2 < e
    PROVE  FrameFits(n, e, m, o)
<1>1. /\ m >= 2 /\ e - m = (e - m - 1) + 1 /\ e - m \in 1 .. n
      /\ o \in 1 .. m - 1 /\ e - o \in e - m + 1 .. e - 1
  OBVIOUS
<1>2. ASSUME NEW i \in 1 .. m - 2
      PROVE  /\ e - (IF o = 1 THEN 2 ELSE 1) - (i - 1) \in e - m + 1 .. e - 1
             /\ e - (IF o = 1 THEN 2 ELSE 1) - (i - 1) # e - o
  <2>1. CASE o = 1
    BY <2>1
  <2>2. CASE o # 1
    BY <2>2
  <2> QED BY <2>1, <2>2
<1> QED BY <1>1, <1>2 DEF FrameFits

\* Intervals that begin at 1 tell where they end.
LEMMA SameEnd ==
    ASSUME NEW k \in Nat, NEW n \in Nat, 1 .. k = 1 .. n
    PROVE  k = n
<1>1. k \in 1 .. k => k <= n
  OBVIOUS
<1>2. n \in 1 .. n => n <= k
  OBVIOUS
<1> QED BY <1>1, <1>2

\* A level with a frame fills all the words from its marker down to its start.
LEMMA FrameWords ==
    ASSUME NEW s \in Seq(Nat), NEW e \in 1 .. Len(s), IsLevel(s, e), isLOCAL(s[e]),
           NEW size, size = LOCAL_LEVELS(s[e])
    PROVE  /\ size \in Nat /\ size >= 2 /\ e - size = Below(s, e) + 1
           /\ e - size \in 1 .. Len(s)
           /\ FlagOffset(-e, size) \in 1 .. size - 1
           /\ e - FlagOffset(-e, size) \in e - size + 1 .. e - 1
           /\ \A i \in 1 .. size - 2 :
                 /\ e - (IF FlagOffset(-e, size) = 1 THEN 2 ELSE 1) - (i - 1)
                       \in e - size + 1 .. e - 1
                 /\ e - (IF FlagOffset(-e, size) = 1 THEN 2 ELSE 1) - (i - 1)
                       # e - FlagOffset(-e, size)
<1>1. Len(s) \in Nat /\ s[e] \in Nat /\ LOCAL_MARKER \in Nat
  BY LenProperties, ElementOfSeq, PCsAreNoMarkers
<1>2. size \in Nat
  BY <1>1 DEF isLOCAL, LOCAL_LEVELS
<1>3. Below(s, e) = e - size - 1
  BY DEF Below
<1>4. FlagOffset(-e, size) = size - 1 \/ FlagOffset(-e, size) = 1
  BY DEF FlagOffset
<1> DEFINE n == Len(s)
           m == size
           o == FlagOffset(-e, size)
<1>5. n \in Nat /\ e \in 1 .. n /\ m \in Nat /\ (o = m - 1 \/ o = 1)
  BY <1>1, <1>2, <1>4
<1>6. e - m - 1 \in 0 .. e - 1 /\ e - m - 1 + 2 < e
  BY <1>3 DEF IsLevel
<1>7. size = m /\ Len(s) = n /\ FlagOffset(-e, size) = o /\ Below(s, e) = e - m - 1
  BY <1>3
<1> HIDE DEF n, m, o
<1>8. FrameFits(n, e, m, o)
  BY <1>5, <1>6, FrameArithmetic
<1> QED BY <1>5, <1>7, <1>8, Zenon DEF FrameFits

\* What is read as a level is one.
LEMMA LevelIsTyped ==
    ASSUME NEW s \in Seq(Nat), NEW e \in 1 .. Len(s), IsLevel(s, e)
    PROVE  LevelAt(s, e) \in LevelType
<1>1. Len(s) \in Nat /\ \A i \in 1 .. Len(s) : s[i] \in Nat
  BY LenProperties, ElementOfSeq
<1>2. CASE isLOCAL(s[e])
  <2> DEFINE size == LOCAL_LEVELS(s[e])
             o == FlagOffset(-e, size)
             r == [i \in 1 .. size - 2 |-> s[e - (IF o = 1 THEN 2 ELSE 1) - (i - 1)]]
  <2>1. /\ size \in Nat /\ size >= 2 /\ e - size \in 1 .. Len(s)
        /\ e - o \in e - size + 1 .. e - 1
        /\ \A i \in 1 .. size - 2 :
              e - (IF o = 1 THEN 2 ELSE 1) - (i - 1) \in e - size + 1 .. e - 1
    BY <1>2, FrameWords
  <2>2. LevelAt(s, e) = [ret |-> s[e - size], levels |-> size, flags |-> s[e - o], regs |-> r]
    BY <1>2, Zenon DEF LevelAt, FrameAt
  <2> HIDE DEF size, o
  <2>3. \A x \in e - size + 1 .. e - 1 : s[x] \in Nat
    BY <1>1, <2>1
  <2>4. \A i \in 1 .. size - 2 : s[e - (IF o = 1 THEN 2 ELSE 1) - (i - 1)] \in Nat
    BY <2>1, <2>3, Zenon
  <2>5. size - 2 \in Nat
    BY <2>1
  <2>6. r \in Seq(Nat)
    <3> DEFINE Reg(i) == s[e - (IF o = 1 THEN 2 ELSE 1) - (i - 1)]
    <3>1. \A i \in 1 .. size - 2 : Reg(i) \in Nat
      BY <2>4
    <3> HIDE DEF Reg
    <3>2. [i \in 1 .. size - 2 |-> Reg(i)] \in Seq(Nat)
      BY <3>1, <2>5, IsASeq
    <3> QED BY <3>2 DEF Reg
  <2>7. s[e - o] \in Nat /\ s[e - size] \in Nat
    BY <1>1, <2>1, <2>3
  <2> HIDE DEF r
  <2> QED BY <2>1, <2>2, <2>6, <2>7 DEF LevelType
<1>3. CASE ~ isLOCAL(s[e])
  <2>1. << >> \in Seq(Nat)
    BY EmptySeq
  <2> QED BY <1>1, <1>3, <2>1 DEF LevelAt, LevelType
<1> QED BY <1>2, <1>3

\* Below a level end there is only words and levels of the stack.
LEMMA EndIsLevel ==
    ASSUME NEW s \in Seq(Nat), NEW E, LevelsEndAt(s, E), NEW e \in E, e # 0
    PROVE  /\ e \in 1 .. Len(s) /\ IsLevel(s, e)
           /\ Below(s, e) \in E /\ Below(s, e) \in 0 .. e - 1
<1>1. Len(s) \in Nat /\ e \in 0 .. Len(s)
  BY LenProperties DEF LevelsEndAt
<1>2. e > 0 /\ e \in 1 .. Len(s)
  BY <1>1
<1> QED BY <1>2 DEF LevelsEndAt, IsLevel

\* The levels are read as a sequence of levels.
LEMMA LevelsAreTyped ==
    ASSUME NEW s \in Seq(Nat), NEW E, LevelsEndAt(s, E), NEW e \in E
    PROVE  LevelsUpTo(s)[e] \in Seq(LevelType)
<1> DEFINE T == {x \in E : LevelsUpTo(s)[x] \notin Seq(LevelType)}
<1> SUFFICES ASSUME T # {} PROVE FALSE
  OBVIOUS
<1>1. PICK d \in T : \A x \in T : d <= x
  <2>1. E \subseteq 0 .. Len(s) /\ Len(s) \in Nat
    BY LenProperties DEF LevelsEndAt
  <2>2. \A x \in E : x \in Nat
    BY <2>1
  <2>3. T \in SUBSET Nat
    BY <2>2, Zenon
  <2> HIDE DEF T
  <2> QED BY <2>3, LeastMember
<1>2. d \in E /\ LevelsUpTo(s)[d] \notin Seq(LevelType)
  BY <1>1
<1>3. d # 0
  <2>1. << >> \in Seq(LevelType)
    BY EmptySeq
  <2> QED BY <2>1, <1>2, NoLevels
<1>4. /\ d \in 1 .. Len(s) /\ IsLevel(s, d)
      /\ Below(s, d) \in E /\ Below(s, d) \in 0 .. d - 1
  BY <1>2, <1>3, EndIsLevel
<1>5. Below(s, d) \notin T
  <2>1. ~ (d <= Below(s, d))
    BY <1>4
  <2> HIDE DEF T
  <2> QED BY <2>1, <1>1, Zenon
<1>6. LevelsUpTo(s)[Below(s, d)] \in Seq(LevelType)
  BY <1>4, <1>5
<1>7. LevelsUpTo(s)[d] = Append(LevelsUpTo(s)[Below(s, d)], LevelAt(s, d))
  BY <1>4, LevelsStep
<1>8. LevelAt(s, d) \in LevelType
  BY <1>4, LevelIsTyped
<1> QED BY <1>2, <1>6, <1>7, <1>8, AppendProperties

\* A level is read from its own words.
LEMMA SameLevel ==
    ASSUME NEW s \in Seq(Nat), NEW e \in 1 .. Len(s), IsLevel(s, e),
           NEW t, \A i \in Below(s, e) + 1 .. e : t[i] = s[i]
    PROVE  LevelAt(t, e) = LevelAt(s, e)
<1>1. t[e] = s[e] /\ Below(s, e) \in 0 .. e - 1
  <2>1. Below(s, e) \in 0 .. e - 1
    BY DEF IsLevel
  <2>2. e \in Below(s, e) + 1 .. e
    BY <2>1
  <2> QED BY <2>1, <2>2, Zenon
<1>2. CASE isLOCAL(s[e])
  <2> DEFINE size == LOCAL_LEVELS(s[e])
             o == FlagOffset(-e, size)
  <2>1. /\ size \in Nat /\ size >= 2 /\ e - size = Below(s, e) + 1
        /\ e - o \in e - size + 1 .. e - 1
        /\ \A i \in 1 .. size - 2 :
              e - (IF o = 1 THEN 2 ELSE 1) - (i - 1) \in e - size + 1 .. e - 1
    BY <1>2, FrameWords
  <2>2. LevelAt(s, e) = [ret |-> s[e - size], levels |-> size, flags |-> s[e - o],
           regs |-> [i \in 1 .. size - 2 |-> s[e - (IF o = 1 THEN 2 ELSE 1) - (i - 1)]]]
    BY <1>2, Zenon DEF LevelAt, FrameAt
  <2>3. LevelAt(t, e) = [ret |-> t[e - size], levels |-> size, flags |-> t[e - o],
           regs |-> [i \in 1 .. size - 2 |-> t[e - (IF o = 1 THEN 2 ELSE 1) - (i - 1)]]]
    BY <1>1, <1>2, Zenon DEF LevelAt, FrameAt
  <2> HIDE DEF size, o
  <2>4. \A x \in e - size .. e - 1 : t[x] = s[x]
    BY <2>1
  <2>5. t[e - size] = s[e - size] /\ t[e - o] = s[e - o]
    BY <2>1, <2>4
  <2>6. \A x \in e - size + 1 .. e - 1 : t[x] = s[x]
    BY <2>1, <2>4
  <2>7. \A i \in 1 .. size - 2 : t[e - (IF o = 1 THEN 2 ELSE 1) - (i - 1)]
                                  = s[e - (IF o = 1 THEN 2 ELSE 1) - (i - 1)]
    BY <2>1, <2>6, Zenon
  <2>8. [i \in 1 .. size - 2 |-> t[e - (IF o = 1 THEN 2 ELSE 1) - (i - 1)]]
           = [i \in 1 .. size - 2 |-> s[e - (IF o = 1 THEN 2 ELSE 1) - (i - 1)]]
    BY <2>7, Zenon
  <2> QED BY <2>2, <2>3, <2>5, <2>8, Zenon
<1>3. CASE ~ isLOCAL(s[e])
  BY <1>1, <1>3, Zenon DEF LevelAt
<1> QED BY <1>2, <1>3

\* The levels up to p are read from the words up to p.
LEMMA SameLevels ==
    ASSUME NEW s \in Seq(Nat), NEW E, LevelsEndAt(s, E), NEW p \in E,
           NEW t \in Seq(Nat), p <= Len(t), \A i \in 1 .. p : t[i] = s[i]
    PROVE  LevelsUpTo(t)[p] = LevelsUpTo(s)[p]
<1> DEFINE T == {x \in E : x <= p /\ LevelsUpTo(t)[x] # LevelsUpTo(s)[x]}
<1>0. p \in Nat /\ Len(t) \in Nat /\ p <= p
  BY LenProperties DEF LevelsEndAt
<1> SUFFICES ASSUME T # {} PROVE FALSE
  BY <1>0
<1>1. PICK d \in T : \A x \in T : d <= x
  <2>1. E \subseteq 0 .. Len(s) /\ Len(s) \in Nat
    BY LenProperties DEF LevelsEndAt
  <2>2. \A x \in E : x \in Nat
    BY <2>1
  <2>3. T \in SUBSET Nat
    BY <2>2, Zenon
  <2> HIDE DEF T
  <2> QED BY <2>3, LeastMember
<1>2. d \in E /\ d <= p /\ LevelsUpTo(t)[d] # LevelsUpTo(s)[d]
  BY <1>1
<1>3. d # 0
  BY <1>2, NoLevels
<1>4. /\ d \in 1 .. Len(s) /\ IsLevel(s, d)
      /\ Below(s, d) \in E /\ Below(s, d) \in 0 .. d - 1
  BY <1>2, <1>3, EndIsLevel
<1>5. Below(s, d) \notin T /\ Below(s, d) <= p
  <2>1. ~ (d <= Below(s, d)) /\ Below(s, d) <= p
    BY <1>0, <1>2, <1>4
  <2> HIDE DEF T
  <2> QED BY <2>1, <1>1, Zenon
<1>6. LevelsUpTo(t)[Below(s, d)] = LevelsUpTo(s)[Below(s, d)]
  BY <1>4, <1>5
<1>7. d \in 1 .. Len(t) /\ d \in 1 .. p /\ Below(s, d) + 1 \in 1 .. p
  BY <1>0, <1>2, <1>4
<1>8. /\ Below(t, d) = Below(s, d) /\ IsLevel(t, d)
  <2>1. t[d] = s[d] /\ t[Below(s, d) + 1] = s[Below(s, d) + 1]
    BY <1>7
  <2>2. Below(t, d) = Below(s, d)
    BY <2>1, Zenon DEF Below
  <2> QED BY <2>1, <2>2, <1>4, Zenon DEF IsLevel
<1>9. LevelAt(t, d) = LevelAt(s, d)
  <2>1. \A i \in Below(s, d) + 1 .. d : t[i] = s[i]
    BY <1>4, <1>7
  <2> QED BY <2>1, <1>4, SameLevel
<1>10. LevelsUpTo(s)[d] = Append(LevelsUpTo(s)[Below(s, d)], LevelAt(s, d))
  BY <1>4, LevelsStep
<1>11. LevelsUpTo(t)[d] = Append(LevelsUpTo(t)[Below(t, d)], LevelAt(t, d))
  BY <1>7, <1>8, LevelsStep
<1> QED BY <1>2, <1>6, <1>8, <1>9, <1>10, <1>11, Zenon

\* A sequence with one element more, seen from its end.
LEMMA AppendedLevel ==
    ASSUME NEW S, NEW x \in Seq(S), NEW l \in S
    PROVE  /\ Append(x, l) \in Seq(S)
           /\ Len(x) \in Nat
           /\ Len(Append(x, l)) = Len(x) + 1
           /\ Append(x, l)[Len(Append(x, l))] = l
           /\ SubSeq(Append(x, l), 1, Len(Append(x, l)) - 1) = x
           /\ Append(x, l) # << >>
           /\ \A i \in 1 .. Len(x) : Append(x, l)[i] = x[i]
<1> DEFINE c == Append(x, l)
<1>1. /\ c \in Seq(S) /\ Len(c) = Len(x) + 1 /\ c[Len(x) + 1] = l
      /\ \A i \in 1 .. Len(x) : c[i] = x[i]
  BY AppendProperties
<1>2. Len(x) \in Nat /\ \A i \in 1 .. Len(x) : x[i] \in S
  BY LenProperties, ElementOfSeq
<1> HIDE DEF c
<1>3. SubSeq(c, 1, Len(c) - 1) = x
  <2> DEFINE d == SubSeq(c, 1, Len(x))
  <2>1. \A i \in 1 .. Len(x) : c[i] \in S
    BY <1>1, <1>2
  <2>2. d \in Seq(S) /\ Len(d) = Len(x) /\ \A i \in 1 .. Len(x) : d[i] = c[i]
    BY <2>1, <1>2, SubSeqProperties
  <2> HIDE DEF d
  <2>3. \A i \in 1 .. Len(d) : d[i] = x[i]
    BY <1>1, <2>2
  <2>4. d = x
    BY <2>2, <2>3, SeqEqual
  <2>5. Len(c) - 1 = Len(x)
    BY <1>1, <1>2
  <2> QED BY <2>4, <2>5 DEF d
<1>4. c # << >>
  <2>1. Len(c) # 0
    BY <1>1, <1>2
  <2> QED BY <2>1, EmptySeq
<1> QED BY <1>1, <1>2, <1>3, <1>4 DEF c

\* The innermost level comes after those of the words below it.
LEMMA TopLevel ==
    ASSUME NEW s \in Seq(Nat), NEW E, LevelsEndAt(s, E), Len(s) > 0,
           NEW q \in Seq(Nat), Len(q) = Below(s, Len(s)), \A i \in 1 .. Len(q) : q[i] = s[i]
    PROVE  /\ LevelsOf(s) = Append(LevelsOf(q), LevelAt(s, Len(s)))
           /\ LevelsOf(q) \in Seq(LevelType)
           /\ LevelAt(s, Len(s)) \in LevelType
<1>1. Len(s) \in E /\ Len(s) # 0 /\ Len(q) \in Nat
  BY LenProperties DEF LevelsEndAt
<1>2. /\ Len(s) \in 1 .. Len(s) /\ IsLevel(s, Len(s)) /\ Len(q) \in E
  BY <1>1, EndIsLevel
<1>3. LevelsUpTo(q)[Len(q)] = LevelsUpTo(s)[Len(q)]
  <2>1. Len(q) <= Len(q)
    BY <1>1
  <2> QED BY <2>1, <1>2, SameLevels
<1>4. LevelsUpTo(s)[Len(s)] = Append(LevelsUpTo(s)[Len(q)], LevelAt(s, Len(s)))
  BY <1>2, LevelsStep
<1>5. LevelsUpTo(s)[Len(q)] \in Seq(LevelType)
  BY <1>2, LevelsAreTyped
<1>6. LevelAt(s, Len(s)) \in LevelType
  BY <1>2, LevelIsTyped
<1> QED BY <1>3, <1>4, <1>5, <1>6 DEF LevelsOf

\* The empty stack, and only it, has no level.
LEMMA LevelsOfEmpty == LevelsOf(<< >>) = << >>
<1>1. << >> \in Seq(Nat) /\ Len(<< >>) = 0
  BY EmptySeq
<1> QED BY <1>1, NoLevels DEF LevelsOf

\* A stack that is nested is read as levels.
LEMMA LevelsOfNested ==
    ASSUME NEW s \in Seq(Nat), NEW l, NEW E, Nested(s, l, E)
    PROVE  LevelsOf(s) \in Seq(LevelType)
<1>1. LevelsEndAt(s, E) /\ Len(s) \in E
  BY DEF Nested, LevelsEndAt
<1> QED BY <1>1, LevelsAreTyped DEF LevelsOf

\* A level just called.
NewLevel(r) == [ret |-> r, levels |-> 0, flags |-> 0, regs |-> << >>]

\* A return address more is a level more.
LEMMA PushedLevels ==
    ASSUME NEW s \in Seq(Nat), NEW l, NEW E, Nested(s, l, E), NEW r \in PCs
    PROVE  /\ LevelsOf(Append(s, r)) = Append(LevelsOf(s), NewLevel(r))
           /\ NewLevel(r) \in LevelType
<1> DEFINE t == Append(s, r)
<1>1. /\ t \in Seq(Nat) /\ Len(t) = Len(s) + 1 /\ Len(s) \in Nat
      /\ \A i \in 1 .. Len(s) : s[i] = t[i]
      /\ t[Len(t)] = r
  BY PCsAreNoMarkers, AppendProperties, LenProperties
<1>2. ~ isLOCAL(r) /\ r \in Nat
  BY PCsAreNoMarkers
<1>3. Nested(t, l, E \cup {Len(s) + 1})
  BY PushNested
<1> HIDE DEF t
<1>4. Len(t) > 0 /\ Len(s) = Len(t) - 1
  BY <1>1
<1>5. Below(t, Len(t)) = Len(s)
  BY <1>1, <1>2, <1>4, Zenon DEF Below
<1>6. LevelAt(t, Len(t)) = NewLevel(r)
  BY <1>1, <1>2, Zenon DEF LevelAt, NewLevel
<1>7. LevelsEndAt(t, E \cup {Len(s) + 1})
  BY <1>3 DEF Nested
<1>8. /\ LevelsOf(t) = Append(LevelsOf(s), LevelAt(t, Len(t)))
      /\ LevelAt(t, Len(t)) \in LevelType
  BY <1>1, <1>4, <1>5, <1>7, TopLevel
<1> QED BY <1>6, <1>8 DEF t

\* The fields of a level.
LEMMA LevelFields ==
    ASSUME NEW r, NEW n, NEW w, NEW g,
           NEW lv, lv = [ret |-> r, levels |-> n, flags |-> w, regs |-> g]
    PROVE  lv.ret = r /\ lv.levels = n /\ lv.flags = w /\ lv.regs = g
OBVIOUS

\* u, the words t on the level s, is read as the level fr on those of q.
ReadsAsFrame(s, t, q, u, fr, first) ==
    /\ LevelsOf(q) \in Seq(LevelType)
    /\ LevelsOf(s) = Append(LevelsOf(q), NewLevel(s[Len(s)]))
    /\ NewLevel(s[Len(s)]) \in LevelType
    /\ LevelsOf(u) = Append(LevelsOf(q), fr)
    /\ fr \in LevelType
    /\ fr.ret = s[Len(s)]
    /\ fr.levels = Len(t)
    /\ fr.flags = t[Len(t) - FlagOffset(-Len(u), Len(t))]
    /\ Len(fr.regs) = Len(t) - 2
    /\ \A i \in 1 .. Len(t) - 2 : fr.regs[i] = t[Len(t) - first - (i - 1)]

\* What LocR puts on a level: the words of a frame on a return address.
LEMMA FrameLevels ==
    ASSUME NEW s \in Seq(Nat), NEW l, NEW E, Nested(s, l, E), Len(s) > 0,
           ~ isLOCAL(s[Len(s)]),
           NEW t \in Seq(Nat), Len(t) >= 2, t[Len(t)] = LOCAL_MARKER + Len(t),
           NEW q, q = SubSeq(s, 1, Len(s) - 1),
           NEW u, u = s \o t, NEW fr, fr = LevelAt(u, Len(u)),
           NEW first, first = IF FlagOffset(-Len(u), Len(t)) = 1 THEN 2 ELSE 1
    PROVE  ReadsAsFrame(s, t, q, u, fr, first)
<1> DEFINE n   == Len(s)
           m   == Len(t)
           top == Len(u)
           o   == FlagOffset(-top, m)
<1>1. /\ n \in Nat /\ n > 0 /\ m \in Nat /\ m >= 2
      /\ \A i \in 1 .. n : s[i] \in Nat
  BY LenProperties, ElementOfSeq
<1>2. /\ u \in Seq(Nat) /\ top = n + m
      /\ \A i \in 1 .. n : u[i] = s[i]
      /\ \A i \in 1 .. m : u[n + i] = t[i]
  <2>1. /\ u \in Seq(Nat) /\ Len(u) = n + m
        /\ \A i \in 1 .. n + m : u[i] = IF i <= n THEN s[i] ELSE t[i - n]
    BY ConcatProperties, Zenon
  <2> HIDE DEF n, m
  <2>2. \A i \in 1 .. n : u[i] = s[i]
    <3>1. \A i \in 1 .. n : i \in 1 .. n + m /\ i <= n
      BY <1>1
    <3> QED BY <3>1, <2>1, Zenon
  <2>3. ASSUME NEW i \in 1 .. m PROVE u[n + i] = t[i]
    <3>1. n + i \in 1 .. n + m /\ ~ (n + i <= n) /\ (n + i) - n = i
      BY <1>1
    <3>2. u[n + i] = IF n + i <= n THEN s[n + i] ELSE t[(n + i) - n]
      BY <3>1, <2>1, Zenon
    <3> QED BY <3>1, <3>2, Zenon
  <2> QED BY <2>1, <2>2, <2>3
<1>3. /\ q \in Seq(Nat) /\ Len(q) = n - 1
      /\ \A i \in 1 .. n - 1 : q[i] = s[i] /\ q[i] = u[i]
  <2> HIDE DEF n
  <2>1. \A i \in 1 .. n - 1 : s[i] \in Nat /\ u[i] = s[i]
    <3>1. \A i \in 1 .. n - 1 : i \in 1 .. n
      BY <1>1
    <3> QED BY <3>1, <1>1, <1>2, Zenon
  <2> DEFINE k == n - 1
  <2>2. k \in Nat
    BY <1>1
  <2>3. q = SubSeq(s, 1, k)
    BY DEF n
  <2>4. \A i \in 1 .. k : s[i] \in Nat
    BY <2>1
  <2> HIDE DEF k
  <2>5. SubSeq(s, 1, k) \in Seq(Nat) /\ Len(SubSeq(s, 1, k)) = k
    BY <2>2, <2>4, SubSeqProperties
  <2>6. \A i \in 1 .. k : SubSeq(s, 1, k)[i] = s[i]
    BY <2>2, <2>4, SubSeqProperties
  <2>7. q \in Seq(Nat) /\ Len(q) = k /\ \A i \in 1 .. k : q[i] = s[i]
    BY <2>3, <2>5, <2>6, Zenon
  <2> QED BY <2>1, <2>7, Zenon DEF k
<1>4. LevelsEndAt(s, E) /\ \E F : LevelsEndAt(u, F)
  <2>1. \E F : Nested(u, Len(s) + Len(t), F)
    BY FrameNested, Zenon
  <2> QED BY <2>1 DEF Nested
<1>5. PICK F : LevelsEndAt(u, F)
  BY <1>4
<1> HIDE DEF n, m, top
<1>6. /\ Below(s, n) = n - 1 /\ LevelAt(s, n) = NewLevel(s[n])
  BY Zenon DEF Below, LevelAt, NewLevel, n
<1>7. u[top] = LOCAL_MARKER + m /\ isLOCAL(u[top]) /\ LOCAL_LEVELS(u[top]) = m
  <2>1. m \in 1 .. m /\ t[m] = LOCAL_MARKER + m
    BY <1>1 DEF m
  <2>2. u[top] = LOCAL_MARKER + m
    BY <2>1, <1>2
  <2> QED BY <2>2, <1>1, PCsAreNoMarkers DEF isLOCAL, LOCAL_LEVELS
<1>8. top \in Nat /\ top > 0 /\ Below(u, top) = n - 1
  BY <1>1, <1>2, <1>7 DEF Below
<1>9. /\ LevelsOf(s) = Append(LevelsOf(q), NewLevel(s[n]))
      /\ LevelsOf(q) \in Seq(LevelType)
      /\ NewLevel(s[n]) \in LevelType
  <2>1. Len(q) = Below(s, Len(s)) /\ \A i \in 1 .. Len(q) : q[i] = s[i]
    BY <1>3, <1>6 DEF n
  <2>2. /\ LevelsOf(s) = Append(LevelsOf(q), LevelAt(s, Len(s)))
        /\ LevelsOf(q) \in Seq(LevelType)
        /\ LevelAt(s, Len(s)) \in LevelType
    BY <2>1, <1>3, <1>4, TopLevel
  <2> QED BY <2>2, <1>6 DEF n
<1>10. /\ LevelsOf(u) = Append(LevelsOf(q), fr) /\ fr \in LevelType
  <2>1. Len(q) = Below(u, Len(u)) /\ \A i \in 1 .. Len(q) : q[i] = u[i]
    BY <1>3, <1>8 DEF top
  <2>2. Len(u) > 0
    BY <1>8 DEF top
  <2>3. /\ LevelsOf(u) = Append(LevelsOf(q), LevelAt(u, Len(u)))
        /\ LevelAt(u, Len(u)) \in LevelType
    BY <2>1, <2>2, <1>2, <1>3, <1>5, TopLevel
  <2> QED BY <2>3
<1> DEFINE Reg(i) == u[top - first - (i - 1)]
<1>11. fr = [ret |-> u[top - m], levels |-> m, flags |-> u[top - o],
             regs |-> [i \in 1 .. m - 2 |-> Reg(i)]]
  <2>1. first = IF o = 1 THEN 2 ELSE 1
    BY DEF top, m
  <2>2. fr = FrameAt(u, top)
    BY <1>7 DEF LevelAt, top
  <2>3. fr = [ret |-> u[top - m], levels |-> m, flags |-> u[top - o],
             regs |-> [i \in 1 .. m - 2 |-> u[top - (IF o = 1 THEN 2 ELSE 1) - (i - 1)]]]
    BY <2>2, <1>7, Zenon DEF FrameAt
  <2> QED BY <2>1, <2>3, Zenon
<1>12. /\ o \in 1 .. m - 1 /\ first \in {1, 2}
       /\ \A i \in 1 .. m - 2 : top - first - (i - 1) \in top - m + 1 .. top - 1
  <2>1. top \in 1 .. Len(u) /\ IsLevel(u, top) /\ m = LOCAL_LEVELS(u[top])
    <3>1. top \in F /\ top # 0
      BY <1>5, <1>8 DEF LevelsEndAt, top
    <3> QED BY <3>1, <1>2, <1>5, <1>7, EndIsLevel
  <2>2. /\ o \in 1 .. m - 1
        /\ \A i \in 1 .. m - 2 :
              top - (IF o = 1 THEN 2 ELSE 1) - (i - 1) \in top - m + 1 .. top - 1
    BY <2>1, <1>2, <1>7, FrameWords
  <2>3. first = IF o = 1 THEN 2 ELSE 1
    BY DEF top, m
  <2> HIDE DEF o
  <2>4. first \in {1, 2}
    BY <2>3
  <2> QED BY <2>2, <2>3, <2>4, Zenon
<1> HIDE DEF o
<1>13. /\ u[top - m] = s[n]
       /\ u[top - o] = t[m - o]
       /\ \A i \in 1 .. m - 2 : Reg(i) = t[m - first - (i - 1)]
  <2>1. top - m = n /\ n \in 1 .. n
    BY <1>1, <1>2
  <2>2. m - o \in 1 .. m /\ n + (m - o) = top - o
    BY <1>1, <1>2, <1>12
  <2>3. ASSUME NEW i \in 1 .. m - 2
        PROVE  Reg(i) = t[m - first - (i - 1)]
    <3>1. first \in Int
      BY <1>12
    <3>2. top - first - (i - 1) \in top - m + 1 .. top - 1
      BY <1>12
    <3> DEFINE j == m - first - (i - 1)
    <3>3. i \in Int /\ m \in Nat /\ n \in Nat /\ top = n + m
      BY <1>1, <1>2
    <3>4. j \in 1 .. m /\ n + j = top - first - (i - 1)
      BY <3>1, <3>2, <3>3
    <3> HIDE DEF j
    <3>5. u[n + j] = t[j]
      BY <3>4, <1>2
    <3>6. u[top - first - (i - 1)] = t[j]
      BY <3>4, <3>5, Zenon
    <3> QED BY <3>6 DEF j
  <2> HIDE DEF Reg
  <2> QED BY <2>1, <2>2, <2>3, <1>2
<1> HIDE DEF Reg
<1>14. /\ fr.ret = s[n] /\ fr.levels = m /\ fr.flags = t[m - o]
       /\ fr.regs = [i \in 1 .. m - 2 |-> Reg(i)]
  <2> DEFINE R  == [i \in 1 .. m - 2 |-> Reg(i)]
             re == u[top - m]
             fl == u[top - o]
             v  == fr
  <2>1. v = [ret |-> re, levels |-> m, flags |-> fl, regs |-> R]
    BY <1>11
  <2>2. re = s[n] /\ fl = t[m - o]
    BY <1>13
  <2> HIDE DEF R, re, fl, v
  <2>3. v.ret = re /\ v.levels = m /\ v.flags = fl /\ v.regs = R
    BY <2>1, LevelFields, Zenon
  <2>4. v.ret = s[n] /\ v.levels = m /\ v.flags = t[m - o] /\ v.regs = R
    BY <2>2, <2>3, Zenon
  <2> QED BY <2>4 DEF R, v
<1>15. /\ Len(fr.regs) = m - 2
       /\ \A i \in 1 .. m - 2 : fr.regs[i] = t[m - first - (i - 1)]
  <2>1. fr.regs \in Seq(Nat)
    BY <1>10 DEF LevelType
  <2>2. DOMAIN fr.regs = 1 .. m - 2 /\ m - 2 \in Nat
    BY <1>1, <1>14
  <2>3. Len(fr.regs) = m - 2
    <3>1. DOMAIN fr.regs = 1 .. Len(fr.regs) /\ Len(fr.regs) \in Nat
      BY <2>1, LenProperties
    <3> DEFINE r == fr.regs
               k == Len(r)
    <3>2. k \in Nat /\ 1 .. k = 1 .. m - 2 /\ m - 2 \in Nat
      BY <3>1, <2>2
    <3> HIDE DEF k
    <3> QED BY <3>2, SameEnd DEF k
  <2>4. \A i \in 1 .. m - 2 : fr.regs[i] = Reg(i)
    BY <1>14
  <2> QED BY <2>3, <2>4, <1>13
<1>16. FlagOffset(-Len(u), Len(t)) = o
  BY DEF o, top, m
<1> QED BY <1>9, <1>10, <1>14, <1>15, <1>16 DEF ReadsAsFrame, n, m

\* y is x but for the level v, the last one with a frame, which is b instead of a.
Stored(x, y, v, a, b) ==
    /\ Len(y) = Len(x)
    /\ v \in 1 .. Len(x)
    /\ x[v] = a /\ y[v] = b
    /\ \A i \in 1 .. Len(x) : i # v => y[i] = x[i]
    /\ \A j \in v + 1 .. Len(x) : x[j].levels = 0

\* The same with one level more that has no frame.
LEMMA StoredBelow ==
    ASSUME NEW S, NEW x \in Seq(S), NEW y \in Seq(S), NEW v, NEW a, NEW b,
           Stored(x, y, v, a, b), NEW m \in S, m.levels = 0
    PROVE  Stored(Append(x, m), Append(y, m), v, a, b)
<1> DEFINE X == Append(x, m)
           Y == Append(y, m)
           n == Len(x)
<1>1. /\ n \in Nat /\ Len(y) = n /\ v \in 1 .. n
  BY LenProperties DEF Stored
<1>2. /\ Len(X) = n + 1 /\ X[n + 1] = m /\ \A i \in 1 .. n : X[i] = x[i]
  BY AppendProperties
<1>3. /\ Len(Y) = n + 1 /\ Y[n + 1] = m /\ \A i \in 1 .. n : Y[i] = y[i]
  BY <1>1, AppendProperties
<1> HIDE DEF X, Y
<1>4. /\ x[v] = a /\ y[v] = b
      /\ \A i \in 1 .. n : i # v => y[i] = x[i]
      /\ \A j \in v + 1 .. n : x[j].levels = 0
  BY DEF Stored
<1> HIDE DEF n
<1>5. v \in 1 .. n + 1 /\ X[v] = a /\ Y[v] = b
  BY <1>1, <1>2, <1>3, <1>4
<1>6. ASSUME NEW i \in 1 .. n + 1, i # v PROVE Y[i] = X[i]
  <2>1. CASE i = n + 1
    BY <2>1, <1>2, <1>3
  <2>2. CASE i # n + 1
    <3>1. i \in 1 .. n
      BY <2>2, <1>1
    <3> QED BY <3>1, <1>2, <1>3, <1>4, <1>6
  <2> QED BY <2>1, <2>2
<1>7. ASSUME NEW j \in v + 1 .. n + 1 PROVE X[j].levels = 0
  <2>1. CASE j = n + 1
    BY <2>1, <1>2
  <2>2. CASE j # n + 1
    <3>1. j \in v + 1 .. n /\ j \in 1 .. n
      BY <2>2, <1>1
    <3> QED BY <3>1, <1>2, <1>4
  <2> QED BY <2>1, <2>2
<1> QED BY <1>2, <1>3, <1>5, <1>6, <1>7 DEF Stored, X, Y

\* The same for the level itself.
LEMMA StoredHere ==
    ASSUME NEW S, NEW x \in Seq(S), NEW a \in S, NEW b \in S
    PROVE  Stored(Append(x, a), Append(x, b), Len(x) + 1, a, b)
<1> DEFINE X == Append(x, a)
           Y == Append(x, b)
           n == Len(x)
<1>1. n \in Nat
  BY LenProperties
<1>2. /\ Len(X) = n + 1 /\ X[n + 1] = a /\ \A i \in 1 .. n : X[i] = x[i]
  BY AppendProperties
<1>3. /\ Len(Y) = n + 1 /\ Y[n + 1] = b /\ \A i \in 1 .. n : Y[i] = x[i]
  BY AppendProperties
<1> HIDE DEF X, Y, n
<1>4. n + 1 \in 1 .. n + 1
  BY <1>1
<1>5. ASSUME NEW i \in 1 .. n + 1, i # n + 1 PROVE Y[i] = X[i]
  <2>1. i \in 1 .. n
    BY <1>1, <1>5
  <2> QED BY <2>1, <1>2, <1>3
<1>6. ASSUME NEW j \in (n + 1) + 1 .. n + 1 PROVE FALSE
  BY <1>1
<1>7. Stored(X, Y, n + 1, a, b)
  BY <1>2, <1>3, <1>4, <1>5, <1>6 DEF Stored
<1> QED BY <1>7 DEF X, Y, n

\* A store into the innermost frame changes its level and no other.
LEMMA StoredLevels ==
    ASSUME NEW s \in Seq(Nat), NEW l, NEW E, Nested(s, l, E), l > 0,
           NEW k \in 1 .. LOCAL_LEVELS(s[l]) - 1,
           NEW t \in Seq(Nat), Len(t) = Len(s),
           \A i \in 1 .. Len(s) : i # l - k => t[i] = s[i]
    PROVE  \E v \in Nat : Stored(LevelsOf(s), LevelsOf(t), v, LevelAt(s, l), LevelAt(t, l))
<1>1. LevelsEndAt(s, E) /\ FirstMarker(s, Len(s), l) /\ Len(s) \in Nat /\ Len(s) \in E
  BY LenProperties DEF Nested, LevelsEndAt
<1>2. l \in E /\ l # 0 /\ l \in Nat /\ l <= Len(s) /\ isLOCAL(s[l])
  <2>1. l \in E
    BY <1>1, MarkerEndsLevel
  <2>2. l \in 0 .. Len(s) /\ isLOCAL(s[l])
    BY <1>1 DEF FirstMarker
  <2> QED BY <2>1, <2>2, <1>1
<1>3. /\ l \in 1 .. Len(s) /\ IsLevel(s, l)
      /\ Below(s, l) \in E /\ Below(s, l) \in 0 .. l - 1
  BY <1>1, <1>2, EndIsLevel
<1>4. LevelsEndAt(t, E)
  BY StoreNested DEF Nested
<1> DEFINE b == Below(s, l)
           size == LOCAL_LEVELS(s[l])
<1>5. /\ size \in Nat /\ l - size = b + 1
  BY <1>2, <1>3, FrameWords
<1>6. k \in 1 .. size - 1 /\ b \in 0 .. l - 1
  BY <1>3
<1> HIDE DEF b, size
<1>7. l - k \in b + 2 .. l - 1
  BY <1>2, <1>5, <1>6
<1>8. t[l] = s[l] /\ \A i \in 1 .. b + 1 : t[i] = s[i]
  <2>1. l # l - k /\ l \in 1 .. Len(s)
    BY <1>2, <1>7
  <2>2. \A i \in 1 .. b + 1 : i \in 1 .. Len(s) /\ i # l - k
    BY <1>1, <1>2, <1>6, <1>7
  <2> QED BY <2>1, <2>2, Zenon
<1>9. \A i \in l + 1 .. Len(s) : t[i] = s[i]
  <2>1. l - k <= l - 1 /\ l - k \in Int
    BY <1>2, <1>5, <1>6, <1>7
  <2>2. \A i \in l + 1 .. Len(s) : i \in 1 .. Len(s) /\ i # l - k
    BY <2>1, <1>1, <1>2
  <2> QED BY <2>2, Zenon
<1>10. LevelsUpTo(t)[b] = LevelsUpTo(s)[b] /\ LevelsUpTo(s)[b] \in Seq(LevelType)
  <2>1. b \in E /\ b <= Len(t) /\ \A i \in 1 .. b : t[i] = s[i]
    BY <1>1, <1>2, <1>3, <1>6, <1>8 DEF b
  <2> QED BY <2>1, <1>1, SameLevels, LevelsAreTyped
<1>11. Below(t, l) = b /\ IsLevel(t, l) /\ l \in 1 .. Len(t)
  <2>1. Below(t, l) = b
    BY <1>8, Zenon DEF Below, b
  <2>2. l \in 1 .. Len(t)
    BY <1>3
  <2> QED BY <2>1, <2>2, <1>2, <1>4, EndIsLevel
<1>12. /\ LevelsUpTo(s)[l] = Append(LevelsUpTo(s)[b], LevelAt(s, l))
       /\ LevelsUpTo(t)[l] = Append(LevelsUpTo(s)[b], LevelAt(t, l))
       /\ LevelAt(s, l) \in LevelType /\ LevelAt(t, l) \in LevelType
  BY <1>3, <1>10, <1>11, LevelsStep, LevelIsTyped DEF b
<1> DEFINE v == Len(LevelsUpTo(s)[b]) + 1
           P(e) == Stored(LevelsUpTo(s)[e], LevelsUpTo(t)[e], v, LevelAt(s, l), LevelAt(t, l))
<1>13. P(l) /\ v \in Nat
  <2>1. v \in Nat
    BY <1>10, LenProperties
  <2> QED BY <2>1, <1>10, <1>12, StoredHere
<1> HIDE DEF v
<1>14. ASSUME NEW e \in E, e > l, P(Below(s, e)) PROVE P(e)
  <2>1. e \in Nat /\ e # 0 /\ e > 0
    <3>1. e \in 0 .. Len(s)
      BY <1>1 DEF LevelsEndAt
    <3> QED BY <3>1, <1>1, <1>2, <1>14
  <2>2. /\ e \in 1 .. Len(s) /\ IsLevel(s, e)
        /\ Below(s, e) \in E /\ Below(s, e) \in 0 .. e - 1
    BY <2>1, <1>1, EndIsLevel
  <2>3. l <= Below(s, e)
    <3>1. l <= Below(s, e) \/ l >= e
      BY <2>1, <1>1, <1>2 DEF LevelsEndAt
    <3> QED BY <3>1, <2>1, <1>2, <1>14
  <2>4. e \in l + 1 .. Len(s)
    <3>1. e \in 1 .. Len(s) /\ e > l
      BY <2>2, <1>14
    <3> QED BY <3>1, <1>1, <1>2
  <2>5. t[e] = s[e] /\ ~ isLOCAL(s[e])
    BY <2>4, <1>1, <1>9 DEF FirstMarker
  <2>6. Below(t, e) = Below(s, e)
    BY <2>5, Zenon DEF Below
  <2>7. e \in 1 .. Len(t) /\ IsLevel(t, e)
    BY <2>1, <1>4, EndIsLevel
  <2>8. LevelAt(t, e) = LevelAt(s, e)
    BY <2>5, Zenon DEF LevelAt
  <2>9. LevelAt(s, e).levels = 0
    BY <2>5 DEF LevelAt
  <2>10. LevelAt(s, e) \in LevelType
    BY <2>2, LevelIsTyped
  <2>11. /\ LevelsUpTo(s)[e] = Append(LevelsUpTo(s)[Below(s, e)], LevelAt(s, e))
         /\ LevelsUpTo(t)[e] = Append(LevelsUpTo(t)[Below(s, e)], LevelAt(s, e))
    BY <2>2, <2>6, <2>7, <2>8, LevelsStep
  <2>12. /\ LevelsUpTo(s)[Below(s, e)] \in Seq(LevelType)
         /\ LevelsUpTo(t)[Below(s, e)] \in Seq(LevelType)
    BY <2>2, <1>1, <1>4, LevelsAreTyped
  <2> QED BY <2>9, <2>10, <2>11, <2>12, <1>14, StoredBelow
<1> DEFINE T == {e \in E : e >= l /\ ~ P(e)}
<1>15. \A e \in E : e >= l => P(e)
  <2> SUFFICES ASSUME T # {} PROVE FALSE
    OBVIOUS
  <2>1. PICK d \in T : \A x \in T : d <= x
    <3>1. \A x \in E : x \in Nat
      BY <1>1 DEF LevelsEndAt
    <3> HIDE DEF P
    <3>2. T \in SUBSET Nat
      BY <3>1, Zenon
    <3> HIDE DEF T
    <3> QED BY <3>2, LeastMember
  <2>2. d \in E /\ d >= l /\ ~ P(d)
    BY <2>1
  <2> HIDE DEF P
  <2>3. d \in Nat /\ d > l /\ d # 0
    <3>1. d \in 0 .. Len(s) /\ d # l
      BY <2>2, <1>1, <1>13 DEF LevelsEndAt
    <3> QED BY <3>1, <2>2, <1>1, <1>2
  <2>4. Below(s, d) \in E /\ Below(s, d) \in 0 .. d - 1
    BY <2>2, <2>3, <1>1, EndIsLevel
  <2>5. Below(s, d) >= l
    <3>1. l <= Below(s, d) \/ l >= d
      BY <2>2, <2>3, <1>1, <1>2 DEF LevelsEndAt
    <3> QED BY <3>1, <2>3, <2>4, <1>2
  <2>6. ~ (d <= Below(s, d))
    BY <2>3, <2>4
  <2>7. P(Below(s, d))
    BY <2>1, <2>4, <2>5, <2>6
  <2> QED BY <2>2, <2>3, <2>7, <1>14
<1>16. P(Len(s))
  <2>1. Len(s) >= l
    BY <1>1, <1>2
  <2> HIDE DEF P
  <2> QED BY <2>1, <1>1, <1>15
<1> QED BY <1>13, <1>16 DEF LevelsOf

\* Levels that differ in their flags, or in one register.
LEMMA FlagsDiffer ==
    ASSUME NEW a \in LevelType, NEW b \in LevelType,
           b.ret = a.ret, b.levels = a.levels, b.regs = a.regs
    PROVE  b = [a EXCEPT !.flags = b.flags]
BY DEF LevelType

LEMMA RegisterDiffers ==
    ASSUME NEW a \in LevelType, NEW b \in LevelType, NEW i \in 1 .. Len(a.regs),
           b.ret = a.ret, b.levels = a.levels, b.flags = a.flags, Len(b.regs) = Len(a.regs),
           \A j \in 1 .. Len(a.regs) : j # i => b.regs[j] = a.regs[j]
    PROVE  b = [a EXCEPT !.regs[i] = b.regs[i]]
<1> DEFINE x == a.regs
           y == b.regs
           z == [x EXCEPT ![i] = y[i]]
<1>1. /\ x \in Seq(Nat) /\ y \in Seq(Nat) /\ Len(y) = Len(x) /\ i \in 1 .. Len(x)
      /\ \A j \in 1 .. Len(x) : j # i => y[j] = x[j]
  BY DEF LevelType
<1>2. [a EXCEPT !.regs[i] = b.regs[i]] = [a EXCEPT !.regs = z]
  BY DEF LevelType
<1> HIDE DEF x, y
<1>3. y[i] \in Nat
  BY <1>1, ElementOfSeq
<1>4. /\ z \in Seq(Nat) /\ Len(z) = Len(x) /\ z[i] = y[i]
      /\ \A j \in 1 .. Len(x) : j # i => z[j] = x[j]
  BY <1>1, <1>3, ExceptSeq
<1> HIDE DEF z
<1>5. \A j \in 1 .. Len(z) : z[j] = y[j]
  BY <1>1, <1>4
<1>6. z = y
  BY <1>1, <1>4, <1>5, SeqEqual
<1>7. b = [a EXCEPT !.regs = y]
  BY DEF LevelType, y
<1> QED BY <1>2, <1>6, <1>7, Zenon

\* The offset from a marker of the first register of its frame.
FirstReg(o) == IF o = 1 THEN 2 ELSE 1

\* What a frame reads as.
LEMMA FrameFields ==
    ASSUME NEW s \in Seq(Nat), NEW e \in 1 .. Len(s), IsLevel(s, e), isLOCAL(s[e])
    PROVE  LET size == LOCAL_LEVELS(s[e])
               o    == FlagOffset(-e, size)
               lv   == LevelAt(s, e)
           IN  /\ lv \in LevelType
               /\ lv.ret = s[e - size] /\ lv.levels = size /\ lv.flags = s[e - o]
               /\ Len(lv.regs) = size - 2
               /\ \A i \in 1 .. size - 2 : lv.regs[i] = s[e - FirstReg(o) - (i - 1)]
<1> DEFINE size == LOCAL_LEVELS(s[e])
           o    == FlagOffset(-e, size)
           lv   == LevelAt(s, e)
           R    == [i \in 1 .. size - 2 |-> s[e - FirstReg(o) - (i - 1)]]
<1>1. lv = [ret |-> s[e - size], levels |-> size, flags |-> s[e - o], regs |-> R]
  BY Zenon DEF LevelAt, FrameAt, FirstReg
<1>2. size \in Nat /\ size >= 2
  BY FrameWords
<1>3. lv \in LevelType
  BY LevelIsTyped
<1> HIDE DEF size, o, lv, R
<1>4. lv.ret = s[e - size] /\ lv.levels = size /\ lv.flags = s[e - o] /\ lv.regs = R
  <2> DEFINE r == s[e - size]
             f == s[e - o]
  <2>1. lv = [ret |-> r, levels |-> size, flags |-> f, regs |-> R]
    BY <1>1
  <2> HIDE DEF r, f
  <2>2. lv.ret = r /\ lv.levels = size /\ lv.flags = f /\ lv.regs = R
    BY <2>1, LevelFields, Zenon
  <2> QED BY <2>2 DEF r, f
<1>5. \A i \in 1 .. size - 2 : lv.regs[i] = s[e - FirstReg(o) - (i - 1)]
  BY <1>4 DEF R
<1>6. Len(lv.regs) = size - 2
  <2> DEFINE r == lv.regs
             k == Len(r)
  <2>1. r \in Seq(Nat) /\ DOMAIN r = 1 .. size - 2
    BY <1>3, <1>4 DEF LevelType, R
  <2>2. DOMAIN r = 1 .. k /\ k \in Nat
    BY <2>1, LenProperties
  <2> HIDE DEF k, r
  <2>3. k = size - 2
    BY <2>1, <2>2, <1>2
  <2> QED BY <2>3 DEF k, r
<1> QED BY <1>3, <1>4, <1>5, <1>6 DEF size, o, lv

\* b is the level a with a frame, but for the flags or one register.
StoredIn(a, b) ==
    /\ a.levels > 0 /\ b.levels = a.levels
    /\ \/ b = [a EXCEPT !.flags = b.flags]
       \/ \E i \in 1 .. Len(a.regs) : b = [a EXCEPT !.regs[i] = b.regs[i]]

\* A store into a frame, behind its marker, changes the flags or one register.
LEMMA StoredFrame ==
    ASSUME NEW s \in Seq(Nat), NEW t \in Seq(Nat), NEW l \in 1 .. Len(s), Len(t) = Len(s),
           IsLevel(s, l), IsLevel(t, l), isLOCAL(s[l]),
           NEW k \in 1 .. LOCAL_LEVELS(s[l]) - 1,
           \A i \in 1 .. Len(s) : i # l - k => t[i] = s[i]
    PROVE  StoredIn(LevelAt(s, l), LevelAt(t, l))
<1> DEFINE size == LOCAL_LEVELS(s[l])
           o    == FlagOffset(-l, size)
           f    == FirstReg(o)
           a    == LevelAt(s, l)
           b    == LevelAt(t, l)
<1>1. /\ size \in Nat /\ size >= 2
      /\ l - size \in 1 .. Len(s)
      /\ o \in 1 .. size - 1
      /\ l - o \in l - size + 1 .. l - 1
      /\ \A i \in 1 .. size - 2 : /\ l - f - (i - 1) \in l - size + 1 .. l - 1
                                  /\ l - f - (i - 1) # l - o
  BY FrameWords DEF FirstReg
<1>2. Len(s) \in Nat /\ k \in 1 .. size - 1 /\ l \in Nat
  BY LenProperties
<1>3. t[l] = s[l]
  <2> HIDE DEF size
  <2>1. l # l - k
    BY <1>1, <1>2
  <2> QED BY <2>1
<1>4. /\ a \in LevelType
      /\ a.ret = s[l - size] /\ a.levels = size /\ a.flags = s[l - o]
      /\ Len(a.regs) = size - 2
      /\ \A i \in 1 .. size - 2 : a.regs[i] = s[l - f - (i - 1)]
  BY FrameFields
<1>5. /\ b \in LevelType
      /\ b.ret = t[l - size] /\ b.levels = size /\ b.flags = t[l - o]
      /\ Len(b.regs) = size - 2
      /\ \A i \in 1 .. size - 2 : b.regs[i] = t[l - f - (i - 1)]
  <2>1. l \in 1 .. Len(t) /\ isLOCAL(t[l]) /\ LOCAL_LEVELS(t[l]) = size
    BY <1>3
  <2> QED BY <2>1, FrameFields
<1>6. o = size - 1 \/ o = 1
  BY DEF FlagOffset
<1>7. f = IF o = 1 THEN 2 ELSE 1
  BY DEF FirstReg
<1> HIDE DEF size, o, f, a, b
<1>8. b.ret = a.ret
  <2>1. l - size \in 1 .. Len(s) /\ l - size # l - k
    BY <1>1, <1>2
  <2> QED BY <2>1, <1>4, <1>5
<1>9. a.levels > 0 /\ b.levels = a.levels /\ Len(b.regs) = Len(a.regs)
  BY <1>1, <1>4, <1>5
<1>10. \A i \in 1 .. size - 2 : l - f - (i - 1) \in 1 .. Len(s)
  BY <1>1, <1>2
<1>11. CASE k = o
  <2>1. ASSUME NEW j \in 1 .. size - 2 PROVE b.regs[j] = a.regs[j]
    <3>1. l - f - (j - 1) # l - k /\ l - f - (j - 1) \in 1 .. Len(s)
      BY <1>1, <1>10, <1>11
    <3>2. t[l - f - (j - 1)] = s[l - f - (j - 1)]
      BY <3>1
    <3> QED BY <3>2, <1>4, <1>5
  <2>2. b.regs = a.regs
    <3>1. a.regs \in Seq(Nat) /\ b.regs \in Seq(Nat)
      BY <1>4, <1>5 DEF LevelType
    <3>2. \A j \in 1 .. Len(a.regs) : a.regs[j] = b.regs[j]
      BY <2>1, <1>4
    <3> QED BY <3>1, <3>2, <1>9, SeqEqual
  <2>3. b = [a EXCEPT !.flags = b.flags]
    BY <2>2, <1>4, <1>5, <1>8, <1>9, FlagsDiffer
  <2>4. StoredIn(a, b)
    BY <2>3, <1>9, Zenon DEF StoredIn
  <2> QED BY <2>4 DEF a, b
<1>12. CASE k # o
  <2> DEFINE i == k - f + 1
  <2>1. i \in 1 .. size - 2 /\ l - f - (i - 1) = l - k /\ f \in Int
    <3>1. CASE o = 1
      <4>1. f = 2
        BY <3>1, <1>7
      <4> QED BY <4>1, <3>1, <1>1, <1>2, <1>12
    <3>2. CASE o # 1
      <4>1. f = 1 /\ o = size - 1
        BY <3>2, <1>6, <1>7
      <4> QED BY <4>1, <1>1, <1>2, <1>12
    <3> QED BY <3>1, <3>2
  <2> HIDE DEF i
  <2>2. ASSUME NEW j \in 1 .. size - 2, j # i PROVE b.regs[j] = a.regs[j]
    <3>1. l - f - (j - 1) # l - k
      BY <2>1, <2>2, <1>1, <1>2
    <3>2. t[l - f - (j - 1)] = s[l - f - (j - 1)]
      BY <3>1, <1>10
    <3> QED BY <3>2, <1>4, <1>5
  <2>3. b.flags = a.flags
    <3>1. l - o \in 1 .. Len(s) /\ l - o # l - k
      BY <1>1, <1>2, <1>12
    <3> QED BY <3>1, <1>4, <1>5
  <2>4. i \in 1 .. Len(a.regs) /\ \A j \in 1 .. Len(a.regs) : j # i => b.regs[j] = a.regs[j]
    BY <2>1, <2>2, <1>4
  <2>5. b = [a EXCEPT !.regs[i] = b.regs[i]]
    BY <2>3, <2>4, <1>4, <1>5, <1>8, <1>9, RegisterDiffers
  <2>6. StoredIn(a, b)
    BY <2>4, <2>5, <1>9, Zenon DEF StoredIn
  <2> QED BY <2>6 DEF a, b
<1> QED BY <1>11, <1>12

\* Frames are even, so that the flag word of a frame that is resized stays where
\* it is looked for.
EvenIn(c) == \A i \in 1 .. Len(c) : c[i].levels % 2 = 0

CallsInv == StackInv /\ EvenIn(LevelsOf(stk))

LEMMA EvenAppend ==
    ASSUME NEW S, NEW x \in Seq(S), NEW m \in S
    PROVE  EvenIn(Append(x, m)) <=> EvenIn(x) /\ m.levels % 2 = 0
<1> DEFINE c == Append(x, m)
           n == Len(x)
<1>1. n \in Nat /\ Len(c) = n + 1 /\ c[n + 1] = m /\ \A i \in 1 .. n : c[i] = x[i]
  BY AppendProperties, LenProperties
<1> HIDE DEF c, n
<1>2. ASSUME \A i \in 1 .. n + 1 : c[i].levels % 2 = 0
      PROVE  m.levels % 2 = 0 /\ \A i \in 1 .. n : x[i].levels % 2 = 0
  <2>1. n + 1 \in 1 .. n + 1 /\ \A i \in 1 .. n : i \in 1 .. n + 1
    BY <1>1
  <2> QED BY <2>1, <1>1, <1>2, Zenon
<1>3. ASSUME m.levels % 2 = 0, \A i \in 1 .. n : x[i].levels % 2 = 0,
             NEW i \in 1 .. n + 1
      PROVE  c[i].levels % 2 = 0
  <2>1. i = n + 1 \/ i \in 1 .. n
    BY <1>1
  <2> QED BY <2>1, <1>1, <1>3, Zenon
<1> QED BY <1>1, <1>2, <1>3, Zenon DEF EvenIn, c, n

\* A level just called has no frame.
LEMMA NewIsEven ==
    ASSUME NEW r
    PROVE  NewLevel(r).levels % 2 = 0 /\ NewLevel(r).levels = 0 /\ NewLevel(r).ret = r
BY DEF NewLevel

LEMMA NoneIsEven == EvenIn(<< >>)
<1>1. Len(<< >>) = 0
  BY EmptySeq
<1> QED BY <1>1 DEF EvenIn

\* Commands that leave the stack alone, and those that clear it.
LEMMA SameStackLevels ==
    ASSUME CallsInv, UNCHANGED stack
    PROVE  LevelsOf(stk)' = LevelsOf(stk) /\ EvenIn(LevelsOf(stk))'
BY DEF CallsInv, stack

LEMMA ClearedStackLevels ==
    ASSUME clrretstk
    PROVE  LevelsOf(stk)' = << >> /\ EvenIn(LevelsOf(stk))'
<1>1. stk' = << >>
  BY DEF clrretstk
<1>2. LevelsOf(stk)' = << >>
  BY <1>1, LevelsOfEmpty
<1> QED BY <1>2, NoneIsEven

\* The levels of the stack there is.
LEMMA StackLevels ==
    ASSUME StackInv
    PROVE  LevelsOf(stk) \in Seq(LevelType)
BY LevelsOfNested DEF StackInv

LEMMA StackTop ==
    ASSUME StackInv, RetStkPtr < 0
    PROVE  LET p  == Below(stk, Len(stk))
               q  == SubSeq(stk, 1, p)
               lv == LevelAt(stk, Len(stk))
           IN  /\ stk \in Seq(Nat) /\ Len(stk) \in Nat /\ Len(stk) > 0
               /\ Len(stk) \in 1 .. Len(stk) /\ IsLevel(stk, Len(stk))
               /\ p \in 0 .. Len(stk) - 1
               /\ q \in Seq(Nat) /\ Len(q) = p /\ \A i \in 1 .. p : q[i] = stk[i]
               /\ LevelsOf(stk) = Append(LevelsOf(q), lv)
               /\ LevelsOf(q) \in Seq(LevelType)
               /\ lv \in LevelType
               /\ lv.ret = stk[p + 1]
<1> DEFINE n == Len(stk)
           p == Below(stk, n)
           q == SubSeq(stk, 1, p)
<1>1. stk \in Seq(Nat) /\ n \in Nat /\ n > 0 /\ \A i \in 1 .. n : stk[i] \in Nat
  BY LenProperties, ElementOfSeq DEF StackInv
<1>2. PICK E : LevelsEndAt(stk, E)
  BY DEF StackInv, Nested
<1>3. n \in 1 .. n /\ IsLevel(stk, n) /\ p \in 0 .. n - 1
  <2>1. n \in E /\ n # 0
    BY <1>1, <1>2 DEF LevelsEndAt
  <2> QED BY <2>1, <1>1, <1>2, EndIsLevel
<1> HIDE DEF p
<1>4. q \in Seq(Nat) /\ Len(q) = p /\ \A i \in 1 .. p : q[i] = stk[i]
  <2>1. \A i \in 1 .. p : stk[i] \in Nat
    BY <1>1, <1>3
  <2>2. p \in Nat
    BY <1>3
  <2> QED BY <2>1, <2>2, SubSeqProperties
<1> HIDE DEF q
<1>5. /\ LevelsOf(stk) = Append(LevelsOf(q), LevelAt(stk, n))
      /\ LevelsOf(q) \in Seq(LevelType)
      /\ LevelAt(stk, n) \in LevelType
  BY <1>1, <1>2, <1>4, TopLevel DEF p
<1>6. LevelAt(stk, n).ret = stk[p + 1]
  <2>1. CASE isLOCAL(stk[n])
    <3>1. LevelAt(stk, n).ret = stk[n - LOCAL_LEVELS(stk[n])]
      BY <2>1, <1>1, <1>3, FrameFields
    <3>2. n - LOCAL_LEVELS(stk[n]) = p + 1
      BY <2>1, <1>1, <1>3, FrameWords DEF p
    <3> QED BY <3>1, <3>2, Zenon
  <2>2. CASE ~ isLOCAL(stk[n])
    <3>1. LevelAt(stk, n).ret = stk[n]
      BY <2>2 DEF LevelAt
    <3>2. p + 1 = n
      BY <2>2, <1>1 DEF p, Below
    <3> QED BY <3>1, <3>2
  <2> QED BY <2>1, <2>2
<1> QED BY <1>1, <1>3, <1>4, <1>5, <1>6 DEF n, p, q

\* Without words there is no level.
LEMMA EmptyLevels ==
    ASSUME NEW s \in Seq(Nat), NEW l, NEW E, Nested(s, l, E)
    PROVE  LevelsOf(s) = << >> <=> Len(s) = 0
<1>1. Len(s) \in Nat /\ LevelsEndAt(s, E)
  BY LenProperties DEF Nested
<1>2. CASE Len(s) = 0
  <2>1. s = << >>
    BY <1>2, EmptySeq
  <2> QED BY <2>1, <1>2, LevelsOfEmpty
<1>3. CASE Len(s) # 0
  <2> DEFINE e == Len(s)
             x == LevelsUpTo(s)[Below(s, e)]
             lv == LevelAt(s, e)
  <2>1. e \in 1 .. Len(s) /\ IsLevel(s, e) /\ Below(s, e) \in E
    <3>1. e \in E
      BY <1>1 DEF LevelsEndAt
    <3> QED BY <3>1, <1>1, <1>3, EndIsLevel
  <2>2. LevelsOf(s) = Append(x, lv) /\ x \in Seq(LevelType) /\ lv \in LevelType
    BY <2>1, <1>1, LevelsStep, LevelsAreTyped, LevelIsTyped DEF LevelsOf
  <2> HIDE DEF x, lv
  <2>3. LevelsOf(s) # << >>
    BY <2>2, AppendedLevel
  <2> QED BY <2>3, <1>3
<1> QED BY <1>2, <1>3

LEMMA EmptyStack ==
    ASSUME StackInv
    PROVE  LevelsOf(stk) = << >> <=> RetStkPtr = 0
<1>1. stk \in Seq(Nat) /\ Len(stk) \in Nat /\ RetStkPtr = -Len(stk)
  BY LenProperties DEF StackInv
<1>2. LevelsOf(stk) = << >> <=> Len(stk) = 0
  BY <1>1, EmptyLevels DEF StackInv
<1> QED BY <1>1, <1>2

\* The innermost level, and those of the callers.
LEMMA CallsTop ==
    ASSUME NEW x \in Seq(LevelType), NEW lv \in LevelType, LevelsOf(stk) = Append(x, lv)
    PROVE  LevelsOf(stk) # << >> /\ Calls!Last = lv /\ Calls!Caller = x
<1> DEFINE c == Append(x, lv)
<1>1. /\ c # << >> /\ c[Len(c)] = lv /\ SubSeq(c, 1, Len(c) - 1) = x
  BY AppendedLevel
<1>2. LevelsOf(stk) = c
  OBVIOUS
<1> HIDE DEF c
<1> QED BY <1>1, <1>2, Zenon DEF Calls!Last, Calls!Caller

\* XEQ calls, and from the keyboard starts.
LEMMA CallRefines ==
    ASSUME CallsInv, NEW by \in Sources, NEW target \in PCs, NEW back \in PCs, Call(by, target, back)
    PROVE  Calls!Next /\ EvenIn(LevelsOf(stk))'
<1>1. CASE by = "key"
  <2>1. /\ Running = FALSE /\ Running' = TRUE /\ pc' = target
        /\ back = pc \/ back = target
    BY <1>1 DEF Call, Executes, At, CallsInv, StackInv
  <2>2. stk' = Append(<< >>, back)
    BY <1>1 DEF Call
  <2>3. /\ LevelsOf(Append(<< >>, back)) = Append(LevelsOf(<< >>), NewLevel(back))
        /\ NewLevel(back) \in LevelType
    BY EmptySeq, EmptyNested, PushedLevels
  <2>4. LevelsOf(stk)' = Append(<< >>, NewLevel(back))
    BY <2>2, <2>3, LevelsOfEmpty
  <2>5. Append(<< >>, NewLevel(back)) = << NewLevel(back) >>
    OBVIOUS
  <2>6. Calls!Call
    BY <2>1, <2>4, <2>5 DEF Calls!Call, Calls!Level, Calls!NoRegs, NewLevel
  <2>7. EvenIn(Append(<< >>, NewLevel(back)))
    BY <2>3, EmptySeq, EvenAppend, NewIsEven, NoneIsEven
  <2> QED BY <2>4, <2>6, <2>7 DEF Calls!Next
<1>2. CASE by # "key"
  <2>1. stk' = Append(stk, back) /\ Running' = Running
    <3>1. stk' = Append(stk, back) /\ (by = "step") = Running /\ Running' = (by # "sst")
      BY <1>2 DEF Call, Executes
    <3> QED BY <3>1, <1>2 DEF Sources, CallsInv, StackInv
  <2>2. PICK E : Nested(stk, -LocalRegs, E)
    BY DEF CallsInv, StackInv
  <2>3. /\ LevelsOf(Append(stk, back)) = Append(LevelsOf(stk), NewLevel(back))
        /\ NewLevel(back) \in LevelType /\ LevelsOf(stk) \in Seq(LevelType)
    BY <2>2, PushedLevels, StackLevels DEF CallsInv, StackInv
  <2>4. LevelsOf(stk)' = Append(LevelsOf(stk), NewLevel(back))
    BY <2>1, <2>3
  <2>5. Calls!Call
    BY <2>1, <2>4 DEF Calls!Call, Calls!Level, Calls!NoRegs, NewLevel
  <2>6. EvenIn(Append(LevelsOf(stk), NewLevel(back)))
    BY <2>3, EvenAppend, NewIsEven DEF CallsInv
  <2> QED BY <2>4, <2>5, <2>6 DEF Calls!Next
<1> QED BY <1>1, <1>2

\* R/S starts a program, with a level of its own when there is none, and stops it.
LEMMA RunStopRefines ==
    ASSUME CallsInv, NEW by \in Sources, RunStop(by)
    PROVE  Calls!Next /\ EvenIn(LevelsOf(stk))'
<1>1. CASE by = "key" /\ RetStkPtr = 0
  <2>1. Running = FALSE /\ Running' = TRUE /\ pc' = pc /\ stk' = << pc >> /\ pc \in PCs
    BY <1>1 DEF RunStop, Executes, At, CallsInv, StackInv
  <2>2. << pc >> = Append(<< >>, pc)
    OBVIOUS
  <2>3. /\ LevelsOf(Append(<< >>, pc)) = Append(LevelsOf(<< >>), NewLevel(pc))
        /\ NewLevel(pc) \in LevelType
    BY <2>1, EmptySeq, EmptyNested, PushedLevels
  <2>4. LevelsOf(stk)' = Append(<< >>, NewLevel(pc))
    BY <2>1, <2>2, <2>3, LevelsOfEmpty
  <2>5. Append(<< >>, NewLevel(pc)) = << NewLevel(pc) >>
    OBVIOUS
  <2>6. LevelsOf(stk) = << >>
    BY <1>1, EmptyStack DEF CallsInv
  <2>7. Calls!Start
    BY <2>1, <2>4, <2>5, <2>6 DEF Calls!Start, Calls!Level, Calls!NoRegs, NewLevel
  <2>8. EvenIn(Append(<< >>, NewLevel(pc)))
    BY <2>3, EmptySeq, EvenAppend, NewIsEven, NoneIsEven
  <2> QED BY <2>4, <2>7, <2>8 DEF Calls!Next
<1>2. CASE by = "key" /\ RetStkPtr # 0
  <2>1. Running = FALSE /\ Running' = TRUE /\ pc' = pc /\ UNCHANGED stack
    BY <1>2 DEF RunStop, Executes, At, CallsInv, StackInv
  <2>2. LevelsOf(stk)' = LevelsOf(stk) /\ EvenIn(LevelsOf(stk))'
    BY <2>1, SameStackLevels
  <2>3. LevelsOf(stk) # << >>
    BY <1>2, EmptyStack DEF CallsInv
  <2>4. Calls!Start
    BY <2>1, <2>2, <2>3 DEF Calls!Start
  <2> QED BY <2>2, <2>4 DEF Calls!Next
<1>3. CASE by # "key"
  <2>1. Running' = FALSE /\ UNCHANGED stack
    BY <1>3 DEF RunStop
  <2>2. LevelsOf(stk)' = LevelsOf(stk) /\ EvenIn(LevelsOf(stk))'
    BY <2>1, SameStackLevels
  <2> QED BY <2>1, <2>2 DEF Calls!Next, Calls!Stop
<1> QED BY <1>1, <1>2, <1>3

\* RTN leaves the innermost level.
LEMMA ReturnRefines ==
    ASSUME CallsInv, NEW by, NEW plus1 \in BOOLEAN, Return(by, plus1)
    PROVE  Calls!Next /\ EvenIn(LevelsOf(stk))'
<1> DEFINE p  == Below(stk, Len(stk))
           q  == SubSeq(stk, 1, p)
           x  == LevelsOf(q)
           lv == LevelAt(stk, Len(stk))
<1>1. StackInv /\ RetStkPtr < 0
  BY DEF CallsInv, Return
<1>2. /\ p \in 0 .. Len(stk) - 1 /\ Len(stk) \in Nat
      /\ q \in Seq(Nat) /\ Len(q) = p
      /\ LevelsOf(stk) = Append(x, lv)
      /\ x \in Seq(LevelType) /\ lv \in LevelType
      /\ lv.ret = stk[p + 1]
  BY <1>1, StackTop
<1>3. UpPtr = -p /\ Word(UpPtr - 1) = stk[p + 1]
  BY <1>1, UpIsBelow
<1>4. x # << >> <=> UpPtr # 0
  <2>1. PICK E : Nested(stk, -LocalRegs, E)
    BY <1>1 DEF StackInv
  <2>2. Len(stk) > 0 /\ FirstMarker(stk, p, -UpLocal) /\ stk \in Seq(Nat)
    BY <1>1, <1>2, UpIsBelow DEF StackInv
  <2>3. \E F : Nested(q, -UpLocal, F)
    BY <2>1, <2>2, PopNested
  <2>4. x = << >> <=> Len(q) = 0
    BY <2>3, <1>2, EmptyLevels
  <2> HIDE DEF p, q, x
  <2>5. UpPtr # 0 <=> p # 0
    BY <1>2, <1>3
  <2> QED BY <2>4, <2>5, <1>2
<1> HIDE DEF p, lv
<1>5. stk' = q
  <2>1. -UpPtr = p
    BY <1>2, <1>3
  <2> QED BY <2>1 DEF Return
<1> HIDE DEF q
<1>6. LevelsOf(stk)' = x
  BY <1>5
<1> HIDE DEF x
<1>7. /\ LevelsOf(stk) # << >>
      /\ Calls!Last = lv /\ Calls!Caller = x
  BY <1>2, CallsTop
<1>8. pc' \in {lv.ret, lv.ret + 1, lv.ret + 2}
  <2>1. UpPtr <= 0
    BY <1>2, <1>3
  <2> QED BY <2>1, <1>2, <1>3 DEF Return, Targets
<1>9. Running' = (Running /\ x # << >>)
  <2>1. Running' = (Running /\ UpPtr # 0)
    BY DEF Return
  <2> QED BY <2>1, <1>4
<1>10. Calls!Return
  BY <1>6, <1>7, <1>8, <1>9, Zenon DEF Calls!Return
<1>11. EvenIn(x)
  BY <1>2, EvenAppend DEF CallsInv
<1> QED BY <1>6, <1>10, <1>11 DEF Calls!Next

\* PopLR gives up the frame of the innermost level.
LEMMA PopLRRefines ==
    ASSUME CallsInv, NEW by, PopLR(by)
    PROVE  Calls!Next /\ EvenIn(LevelsOf(stk))'
<1> DEFINE n  == Len(stk)
           p  == Below(stk, n)
           q  == SubSeq(stk, 1, p)
           t  == SubSeq(stk, 1, p + 1)
           x  == LevelsOf(q)
           lv == LevelAt(stk, n)
<1>1. StackInv /\ RetStkPtr < 0
  BY DEF CallsInv, PopLR
<1>2. /\ stk \in Seq(Nat) /\ n \in Nat /\ n \in 1 .. n /\ IsLevel(stk, n)
      /\ p \in 0 .. n - 1
      /\ q \in Seq(Nat) /\ Len(q) = p /\ \A i \in 1 .. p : q[i] = stk[i]
      /\ LevelsOf(stk) = Append(x, lv)
      /\ x \in Seq(LevelType) /\ lv \in LevelType
      /\ lv.ret = stk[p + 1]
  BY <1>1, StackTop
<1>3. UpPtr = -p /\ stk[p + 1] \in PCs /\ FirstMarker(stk, p, -UpLocal)
  BY <1>1, UpIsBelow
<1>4. PICK E : Nested(stk, -LocalRegs, E)
  BY <1>1 DEF StackInv
<1>5. \E F : Nested(q, -UpLocal, F)
  <2>1. n > 0
    BY <1>2
  <2> QED BY <2>1, <1>2, <1>3, <1>4, PopNested
<1>6. lv.levels > 0
  <2>1. -LocalRegs = n /\ FirstMarker(stk, n, -LocalRegs)
    BY <1>1, <1>2, <1>4 DEF PopLR, StackInv, Nested
  <2>2. isLOCAL(stk[n])
    BY <2>1, <1>2 DEF FirstMarker
  <2> DEFINE size == LOCAL_LEVELS(stk[n])
  <2>3. lv.levels = size /\ size >= 2 /\ size \in Nat
    BY <2>2, <1>2, FrameFields, FrameWords
  <2> HIDE DEF size, lv
  <2> QED BY <2>3
<1> HIDE DEF p, lv
<1>7. stk' = t
  <2>1. 1 - UpPtr = p + 1
    BY <1>2, <1>3
  <2> QED BY <2>1 DEF PopLR
<1>8. t = Append(q, stk[p + 1])
  <2> DEFINE a == Append(q, stk[p + 1])
  <2>0. \A i \in 1 .. n : stk[i] \in Nat
    BY <1>2, ElementOfSeq
  <2> HIDE DEF n
  <2>1. \A i \in 1 .. p + 1 : stk[i] \in Nat
    BY <1>2, <2>0
  <2>2. p + 1 \in Nat /\ p + 1 \in 1 .. p + 1 /\ p \in Nat
    BY <1>2
  <2>3. t \in Seq(Nat) /\ Len(t) = p + 1 /\ \A i \in 1 .. p + 1 : t[i] = stk[i]
    BY <2>1, <2>2, SubSeqProperties
  <2> HIDE DEF q
  <2>4. /\ a \in Seq(Nat) /\ Len(a) = p + 1
        /\ a[p + 1] = stk[p + 1] /\ \A i \in 1 .. p : a[i] = stk[i]
    BY <1>2, <2>1, <2>2, AppendProperties
  <2> HIDE DEF a, t
  <2>5. \A i \in 1 .. p + 1 : i \in 1 .. p \/ i = p + 1
    BY <2>2
  <2>6. \A i \in 1 .. Len(t) : t[i] = a[i]
    BY <2>3, <2>4, <2>5, Zenon
  <2>7. t = a
    BY <2>3, <2>4, <2>6, SeqEqual
  <2> QED BY <2>7 DEF a
<1> HIDE DEF q, t
<1>9. /\ LevelsOf(t) = Append(x, NewLevel(stk[p + 1]))
      /\ NewLevel(stk[p + 1]) \in LevelType
  BY <1>2, <1>3, <1>5, <1>8, PushedLevels
<1>10. LevelsOf(stk)' = Append(x, NewLevel(lv.ret))
  BY <1>2, <1>7, <1>9
<1> HIDE DEF x
<1>11. /\ LevelsOf(stk) # << >>
       /\ Calls!Last = lv /\ Calls!Caller = x
  BY <1>2, CallsTop
<1>12. Running' = Running
  BY DEF PopLR, Done
<1>13. Calls!Drop
  BY <1>6, <1>10, <1>11, <1>12, Zenon DEF Calls!Drop, Calls!Level, Calls!NoRegs, NewLevel
<1>14. EvenIn(x)
  BY <1>2, EvenAppend DEF CallsInv
<1>15. EvenIn(Append(x, NewLevel(lv.ret)))
  BY <1>2, <1>9, <1>14, EvenAppend, NewIsEven
<1> QED BY <1>10, <1>13, <1>15 DEF Calls!Next

\* The level whose frame is seen is the last one with a frame.
LEMMA VisibleIsLast ==
    ASSUME LevelsOf(stk) \in Seq(LevelType),
           NEW y, NEW v \in Nat, NEW a, NEW b, Stored(LevelsOf(stk), y, v, a, b), a.levels > 0
    PROVE  Calls!Visible = v /\ v # 0
<1> DEFINE c == LevelsOf(stk)
           n == Len(c)
           Seen(i) == c[i].levels > 0 /\ \A j \in i + 1 .. n : c[j].levels = 0
<1>1. v \in 1 .. n /\ Seen(v)
  BY DEF Stored
<1>2. ASSUME NEW i \in 1 .. n, Seen(i) PROVE i = v
  <2>1. i \in Int /\ v \in 1 .. n /\ n \in Nat
    BY <1>1, LenProperties
  <2>2. \A j \in i + 1 .. n : ~ (c[j].levels > 0)
    BY <1>2
  <2>3. \A j \in v + 1 .. n : ~ (c[j].levels > 0)
    BY <1>1
  <2>4. ~ (v \in i + 1 .. n)
    BY <1>1, <2>2, Zenon
  <2>5. ~ (i \in v + 1 .. n)
    BY <1>2, <2>3, Zenon
  <2> HIDE DEF n, c
  <2> QED BY <2>1, <2>4, <2>5
<1>3. Calls!Visible = CHOOSE i \in 1 .. n : Seen(i)
  <2> DEFINE m == CHOOSE i \in 1 .. n : Seen(i)
  <2>1. \E i \in 1 .. n : c[i].levels > 0
    BY <1>1, Zenon
  <2>2. Calls!Visible = IF \E i \in 1 .. n : c[i].levels > 0 THEN m ELSE 0
    BY Zenon DEF Calls!Visible
  <2> HIDE DEF m
  <2>3. Calls!Visible = m
    BY <2>1, <2>2, Zenon
  <2> QED BY <2>3 DEF m
<1> HIDE DEF Seen, n
<1>4. (CHOOSE i \in 1 .. n : Seen(i)) = v
  BY <1>1, <1>2
<1>5. v # 0
  BY <1>1
<1> QED BY <1>3, <1>4, <1>5

\* A store changes the visible frame and no other.
LEMMA StoreRefines ==
    ASSUME CallsInv, NEW by, NEW k, NEW w \in DataWords, StoreLocal(by, k, w)
    PROVE  Calls!Next /\ EvenIn(LevelsOf(stk))'
<1> DEFINE l == -LocalRegs
           t == stk'
           c == LevelsOf(stk)
           d == LevelsOf(t)
           a == LevelAt(stk, l)
           b == LevelAt(t, l)
<1>1. /\ l \in 1 .. Len(stk) /\ isLOCAL(stk[l])
      /\ k \in 1 .. LOCAL_LEVELS(stk[l]) - 1
      /\ t \in Seq(Nat) /\ Len(t) = Len(stk)
      /\ \A i \in 1 .. Len(stk) : i # l - k => t[i] = stk[i]
      /\ stk \in Seq(Nat)
  BY StoredWords DEF CallsInv, StackInv
<1>2. PICK E : Nested(stk, l, E)
  BY DEF CallsInv, StackInv
<1> HIDE DEF l, t
<1>3. l > 0
  BY <1>1
<1>4. PICK v \in Nat : Stored(c, d, v, a, b)
  BY <1>1, <1>2, <1>3, StoredLevels
<1>5. IsLevel(stk, l) /\ IsLevel(t, l)
  <2>1. Nested(t, l, E)
    BY <1>1, <1>2, <1>3, StoreNested
  <2>2. LevelsEndAt(stk, E) /\ FirstMarker(stk, Len(stk), l) /\ LevelsEndAt(t, E)
    BY <1>2, <2>1 DEF Nested
  <2>3. Len(stk) \in E
    BY <2>2 DEF LevelsEndAt
  <2>4. l \in E /\ l # 0
    BY <2>2, <2>3, <1>1, <1>3, MarkerEndsLevel
  <2> QED BY <2>2, <2>4, <1>1, EndIsLevel
<1>6. StoredIn(a, b)
  BY <1>1, <1>5, StoredFrame
<1>7. Calls!Visible = v /\ v # 0
  <2>1. c \in Seq(LevelType)
    BY StackLevels DEF CallsInv
  <2> QED BY <2>1, <1>4, <1>6, VisibleIsLast DEF StoredIn
<1>8. LevelsOf(stk)' = d /\ UNCHANGED Running
  BY DEF StoreLocal, Done, t
<1> HIDE DEF d, a, b
<1>9. /\ Len(d) = Len(c) /\ c[v] = a /\ d[v] = b
      /\ \A i \in 1 .. Len(c) : i # v => d[i] = c[i]
  BY <1>4 DEF Stored
<1> HIDE DEF c
<1>10. Calls!Store
  <2>1. LevelsOf(stk) = c
    BY DEF c
  <2> QED BY <2>1, <1>6, <1>7, <1>8, <1>9, Zenon DEF Calls!Store, StoredIn
<1>11. EvenIn(d)
  <2>1. EvenIn(c)
    BY DEF CallsInv, c
  <2>2. \A i \in 1 .. Len(c) : d[i].levels = c[i].levels
    BY <1>6, <1>9, Zenon DEF StoredIn
  <2> QED BY <2>1, <2>2, <1>9, Zenon DEF EvenIn
<1> QED BY <1>8, <1>10, <1>11 DEF Calls!Next

\* Resizing a frame by an even number of words leaves its flag word at the same
\* side.
LEMMA SameSide ==
    ASSUME NEW n \in Nat, NEW old \in Nat, NEW m \in Nat, old % 2 = 0, m % 2 = 0,
           old <= n, old > 2, m > 2
    PROVE  FirstReg(FlagOffset(-n, old)) = FirstReg(FlagOffset(-((n - old) + m), m))
<1>1. (-n) % 2 = (-((n - old) + m)) % 2
  OBVIOUS
<1>2. CASE (-n) % 2 = 1
  <2>1. FlagOffset(-n, old) = old - 1 /\ FlagOffset(-((n - old) + m), m) = m - 1
    BY <1>1, <1>2 DEF FlagOffset
  <2>2. old - 1 # 1 /\ m - 1 # 1
    OBVIOUS
  <2> QED BY <2>1, <2>2 DEF FirstReg
<1>3. CASE (-n) % 2 # 1
  BY <1>1, <1>3 DEF FlagOffset, FirstReg
<1> QED BY <1>2, <1>3

\* The i-th register of the last level of s is that of the frame t on base.
Survives(s, base, t, i) ==
    LET first == FirstReg(FlagOffset(-(Len(base) + Len(t)), Len(t)))
    IN  t[Len(t) - first - (i - 1)] = LevelAt(s, Len(s)).regs[i]

\* The registers i that both the old and the new frame have are taken over.
LEMMA RegistersSurvive ==
    ASSUME NEW s \in Seq(Nat), Len(s) > 0, IsLevel(s, Len(s)), isLOCAL(s[Len(s)]),
           NEW old \in Nat, NEW base, NEW t, Framed(s, old, base, t), old % 2 = 0,
           NEW i \in 1 .. old - 2, i <= Len(t) - 2
    PROVE  Survives(s, base, t, i)
<1> DEFINE n  == Len(s)
           m  == Len(t)
           o  == FlagOffset(-(Len(base) + m), m)
           fi == FirstReg(o)
           oo == FlagOffset(-n, old)
<1>1. /\ n \in Nat /\ m \in Nat /\ m >= 2 /\ m % 2 = 0 /\ n \in 1 .. n
      /\ Len(base) = n - old /\ Len(base) > 0
      /\ old = LOCAL_LEVELS(s[n])
      /\ \A k \in 1 .. m - 1 : k # o /\ k < old => t[m - k] = s[n - k]
  <2>1. /\ Len(base) = n - old /\ Len(base) > 0 /\ m >= 2 /\ m % 2 = 0 /\ t \in Seq(Nat)
        /\ old = LOCAL_LEVELS(s[n])
        /\ \A k \in 1 .. m - 1 : k # o /\ k < old => t[m - k] = s[n - k]
    BY Zenon DEF Framed
  <2> QED BY <2>1, LenProperties
<1>2. LevelAt(s, n).regs[i] = s[n - FirstReg(oo) - (i - 1)]
  <2>1. i \in 1 .. LOCAL_LEVELS(s[n]) - 2
    BY <1>1
  <2> QED BY <2>1, <1>1, FrameFields, Zenon
<1>3. (o = m - 1 \/ o = 1) /\ fi = IF o = 1 THEN 2 ELSE 1
  BY DEF FlagOffset, FirstReg
<1> DEFINE lb == Len(base)
           k  == fi + (i - 1)
<1>4. i <= m - 2 /\ lb = n - old /\ lb > 0 /\ lb \in Nat
  BY <1>1, LenProperties DEF Framed
<1>5. o = FlagOffset(-(lb + m), m) /\ oo = FlagOffset(-n, old) /\ fi = FirstReg(o)
  OBVIOUS
<1> HIDE DEF o, fi, oo, n, m, lb
<1>6. n \in Nat /\ m \in Nat /\ i \in Nat /\ i >= 1 /\ i <= old - 2
  BY <1>1
<1>7. m % 2 = 0
  BY <1>1, Zenon
<1>8. FirstReg(oo) = fi
  <2>1. old > 2 /\ m > 2 /\ old <= n
    BY <1>4, <1>6
  <2>2. FirstReg(FlagOffset(-n, old)) = FirstReg(FlagOffset(-((n - old) + m), m))
    BY <2>1, <1>6, <1>7, SameSide
  <2> QED BY <2>2, <1>4, <1>5, Zenon
<1>9. /\ fi \in Nat /\ k \in 1 .. m - 1 /\ k # o /\ k < old
      /\ m - k = m - fi - (i - 1) /\ n - k = n - fi - (i - 1)
  <2>2. CASE o = 1
    <3>1. fi = 2
      BY <2>2, <1>3
    <3> QED BY <3>1, <2>2, <1>4, <1>6
  <2>3. CASE o # 1
    <3>1. fi = 1 /\ o = m - 1
      BY <2>3, <1>3
    <3> QED BY <3>1, <2>3, <1>4, <1>6
  <2> QED BY <2>2, <2>3
<1> HIDE DEF k
<1>10. t[m - k] = s[n - k]
  BY <1>1, <1>9
<1>11. t[m - fi - (i - 1)] = LevelAt(s, n).regs[i]
  BY <1>2, <1>8, <1>9, <1>10, Zenon
<1> QED BY <1>11 DEF Survives, o, fi, n, m, lb

\* LocR makes or resizes the frame of the innermost level.
LEMMA FrameRefines ==
    ASSUME CallsInv, NEW by, NEW arg \in LocArgs, RetStkPtr < 0, LocR(by, arg),
           LocalRegs' = RetStkPtr'
    PROVE  Calls!Next /\ EvenIn(LevelsOf(stk))'
<1>1. StackInv /\ UNCHANGED Running
  BY DEF CallsInv, LocR, Done
<1>2. PICK old \in Nat : \E base, t : Framed(stk, old, base, t) /\ stk' = base \o t
  BY <1>1, LocRWords
<1>3. PICK base, t : Framed(stk, old, base, t) /\ stk' = base \o t
  BY <1>2
<1> DEFINE n  == Len(stk)
           m  == Len(t)
           u  == base \o t
           fr == LevelAt(u, Len(u))
           lv == LevelAt(stk, n)
           q  == SubSeq(base, 1, Len(base) - 1)
           x  == LevelsOf(q)
           o  == FlagOffset(-(Len(base) + m), m)
<1>4. /\ base \in Seq(Nat) /\ t \in Seq(Nat) /\ Len(base) > 0 /\ ~ isLOCAL(base[Len(base)])
      /\ base = SubSeq(stk, 1, n - old) /\ Len(base) = n - old
      /\ \E l, F : Nested(base, l, F)
      /\ m >= 2 /\ t[m] = LOCAL_MARKER + m /\ m % 2 = 0
      /\ (~ isLOCAL(stk[n]) => old = 0 /\ t[m - o] = 0)
      /\ (isLOCAL(stk[n]) => /\ old = LOCAL_LEVELS(stk[n])
                             /\ t[m - o] = stk[n - FlagOffset(-n, old)])
  BY <1>3, Zenon DEF Framed
<1>5. /\ stk \in Seq(Nat) /\ n \in Nat /\ n > 0 /\ n \in 1 .. n /\ IsLevel(stk, n)
      /\ \A i \in 1 .. n : stk[i] \in Nat
  BY <1>1, StackTop, ElementOfSeq
<1>6. PICK l, F : Nested(base, l, F)
  BY <1>4
<1>7. /\ Len(u) = Len(base) + m /\ Len(base) \in Nat /\ m \in Nat
  BY <1>4, ConcatProperties, LenProperties
<1>8. /\ x \in Seq(LevelType)
      /\ LevelsOf(base) = Append(x, NewLevel(base[Len(base)]))
      /\ NewLevel(base[Len(base)]) \in LevelType
      /\ LevelsOf(u) = Append(x, fr)
      /\ fr \in LevelType
      /\ fr.ret = base[Len(base)]
      /\ fr.levels = m
      /\ fr.flags = t[m - o]
      /\ Len(fr.regs) = m - 2
      /\ \A i \in 1 .. m - 2 : fr.regs[i] = t[m - FirstReg(o) - (i - 1)]
  <2>1. FlagOffset(-Len(u), m) = o
    BY <1>7
  <2> HIDE DEF o
  <2> DEFINE first == FirstReg(o)
  <2>2. first = IF FlagOffset(-Len(u), m) = 1 THEN 2 ELSE 1
    BY <2>1 DEF FirstReg
  <2> HIDE DEF first
  <2>3. /\ LevelsOf(q) \in Seq(LevelType)
        /\ LevelsOf(base) = Append(LevelsOf(q), NewLevel(base[Len(base)]))
        /\ NewLevel(base[Len(base)]) \in LevelType
        /\ LevelsOf(u) = Append(LevelsOf(q), fr)
        /\ fr \in LevelType
        /\ fr.ret = base[Len(base)]
        /\ fr.levels = Len(t)
        /\ fr.flags = t[Len(t) - FlagOffset(-Len(u), Len(t))]
        /\ Len(fr.regs) = Len(t) - 2
        /\ \A i \in 1 .. Len(t) - 2 : fr.regs[i] = t[Len(t) - first - (i - 1)]
    <3>1. q = SubSeq(base, 1, Len(base) - 1) /\ u = base \o t /\ fr = LevelAt(u, Len(u))
      OBVIOUS
    <3>2. /\ base \in Seq(Nat) /\ t \in Seq(Nat) /\ Len(base) > 0 /\ ~ isLOCAL(base[Len(base)])
          /\ Len(t) >= 2 /\ t[Len(t)] = LOCAL_MARKER + Len(t)
      BY <1>4, Zenon
    <3> HIDE DEF q, u, fr
    <3>3. ReadsAsFrame(base, t, q, u, fr, first)
      BY <3>1, <3>2, <1>6, <2>2, FrameLevels
    <3> QED BY <3>3, Zenon DEF ReadsAsFrame
  <2> QED BY <2>1, <2>3, Zenon DEF first
<1>9. LevelsOf(stk)' = Append(x, fr)
  BY <1>3, <1>8
<1>10. \E lw \in LevelType :
         /\ LevelsOf(stk) = Append(x, lw)
         /\ lw.ret = fr.ret /\ lw.flags = fr.flags
         /\ \A i \in 1 .. Len(lw.regs) : i <= m - 2 => fr.regs[i] = lw.regs[i]
  <2>1. CASE ~ isLOCAL(stk[n])
    <3>1. old = 0 /\ n - old = n /\ fr.flags = 0
      BY <2>1, <1>4, <1>5, <1>8
    <3>2. base = stk
      BY <3>1, <1>4, <1>5, SubSeqFull
    <3> DEFINE lw == NewLevel(base[Len(base)])
    <3>3. lw \in LevelType /\ LevelsOf(stk) = Append(x, lw)
      BY <3>2, <1>8
    <3>4. lw.ret = base[Len(base)] /\ lw.flags = 0 /\ Len(lw.regs) = 0
      BY DEF NewLevel
    <3> HIDE DEF lw, fr, x
    <3>5. \A i \in 1 .. Len(lw.regs) : FALSE
      BY <3>4
    <3> QED BY <3>1, <3>3, <3>4, <3>5, <1>8, Zenon
  <2>2. CASE isLOCAL(stk[n])
    <3>1. /\ old = LOCAL_LEVELS(stk[n]) /\ t[m - o] = stk[n - FlagOffset(-n, old)]
      BY <2>2, <1>4
    <3>2. old >= 2 /\ n - old = Below(stk, n) + 1
      BY <2>2, <3>1, <1>5, FrameWords
    <3>3. /\ q \in Seq(Nat) /\ Len(q) = Below(stk, n)
          /\ \A i \in 1 .. Len(q) : q[i] = stk[i]
      <4> DEFINE b == Len(base) - 1
      <4>1. b \in Nat /\ b = Below(stk, n) /\ b + 1 = n - old /\ b + 1 \in 1 .. n
        <5> DEFINE w == Below(stk, n)
                   c == Len(base)
        <5>1. /\ c = n - old /\ c \in Nat /\ c > 0 /\ n \in Nat /\ old \in Nat
              /\ n - old = w + 1 /\ b = c - 1 /\ w \in Nat
          BY <3>2, <1>4, <1>5, <1>7 DEF IsLevel
        <5> HIDE DEF w, c, b, n
        <5>2. b \in Nat /\ b = w /\ b + 1 = n - old /\ b + 1 \in 1 .. n
          <6>1. n - old = c /\ b = c - 1 /\ w = c - 1
            BY <5>1
          <6> QED BY <6>1, <5>1
        <5> QED BY <5>2 DEF w
      <4>2. \A i \in 1 .. b + 1 : stk[i] \in Nat
        BY <4>1, <1>5
      <4>3. base = SubSeq(stk, 1, b + 1)
        BY <4>1, <1>4
      <4>4. \A i \in 1 .. b + 1 : base[i] = stk[i]
        BY <4>1, <4>2, <4>3, SubSeqProperties
      <4> HIDE DEF b
      <4>5. \A i \in 1 .. b : base[i] \in Nat /\ base[i] = stk[i]
        BY <4>1, <4>2, <4>4
      <4>6. q = SubSeq(base, 1, b)
        BY DEF b
      <4> HIDE DEF q
      <4>7. q \in Seq(Nat) /\ Len(q) = b /\ \A i \in 1 .. b : q[i] = base[i]
        BY <4>1, <4>5, <4>6, SubSeqProperties
      <4> QED BY <4>1, <4>5, <4>7
    <3>4. base[Len(base)] = stk[n - old]
      <4>1. Len(base) \in 1 .. Len(base) /\ \A i \in 1 .. Len(base) : stk[i] \in Nat
        BY <1>4, <1>5, <1>7
      <4>2. base = SubSeq(stk, 1, Len(base))
        BY <1>4
      <4>3. \A i \in 1 .. Len(base) : base[i] = stk[i]
        BY <4>1, <4>2, <1>7, SubSeqProperties
      <4> QED BY <4>1, <4>3, <1>4
    <3>5. /\ LevelsOf(stk) = Append(x, lv) /\ lv \in LevelType
      <4>1. PICK E : Nested(stk, -LocalRegs, E)
        BY <1>1 DEF StackInv
      <4> HIDE DEF q, lv, x, n
      <4> QED BY <4>1, <3>3, <1>5, TopLevel DEF Nested, x, lv, n
    <3>6. /\ lv.ret = stk[n - old] /\ lv.levels = old
          /\ lv.flags = stk[n - FlagOffset(-n, old)]
          /\ Len(lv.regs) = old - 2
      BY <2>2, <3>1, <1>5, FrameFields
    <3>7. old % 2 = 0
      <4> HIDE DEF x, lv
      <4>1. EvenIn(Append(x, lv))
        BY <3>5 DEF CallsInv
      <4> QED BY <4>1, <3>5, <3>6, <1>8, EvenAppend
    <3>8. ASSUME NEW i \in 1 .. old - 2, i <= m - 2 PROVE fr.regs[i] = lv.regs[i]
      <4>1. t[m - FirstReg(o) - (i - 1)] = lv.regs[i]
        <5>1. Framed(stk, old, base, t)
          BY <1>3
        <5>2. Survives(stk, base, t, i)
          BY <5>1, <2>2, <3>7, <3>8, <1>5, RegistersSurvive
        <5> QED BY <5>2, Zenon DEF Survives
      <4>2. i \in 1 .. m - 2
        BY <3>8, <1>7
      <4> QED BY <4>1, <4>2, <1>8
    <3> HIDE DEF lv, fr, x, o, n
    <3> QED BY <3>1, <3>4, <3>5, <3>6, <3>8, <1>8, Zenon
  <2> QED BY <2>1, <2>2
<1>11. PICK lw \in LevelType :
         /\ LevelsOf(stk) = Append(x, lw)
         /\ lw.ret = fr.ret /\ lw.flags = fr.flags
         /\ \A i \in 1 .. Len(lw.regs) : i <= m - 2 => fr.regs[i] = lw.regs[i]
  BY <1>10
<1> HIDE DEF x, fr, m
<1>12. LevelsOf(stk) # << >> /\ Calls!Last = lw /\ Calls!Caller = x
  BY <1>8, <1>11, CallsTop
<1> DEFINE c == Append(x, fr)
<1>13. /\ Len(c) = Len(x) + 1 /\ c[Len(c)] = fr /\ SubSeq(c, 1, Len(c) - 1) = x
       /\ Len(LevelsOf(stk)) = Len(x) + 1
  BY <1>8, <1>11, AppendedLevel
<1>14. /\ SubSeq(c, 1, Len(LevelsOf(stk)) - 1) = x /\ c[Len(LevelsOf(stk))] = fr
       /\ Len(c) = Len(LevelsOf(stk))
  <2> HIDE DEF c
  <2>1. Len(c) = Len(LevelsOf(stk))
    BY <1>13, Zenon
  <2> QED BY <2>1, <1>13, Zenon
<1> HIDE DEF c
<1>15. \A i \in 1 .. Calls!Least(Len(lw.regs), Len(fr.regs)) : fr.regs[i] = lw.regs[i]
  <2>1. Len(lw.regs) \in Nat /\ m - 2 \in Nat /\ Len(fr.regs) = m - 2
    <3>1. lw.regs \in Seq(Nat)
      BY DEF LevelType
    <3>2. Len(lw.regs) \in Nat
      BY <3>1, LenProperties
    <3>3. Len(fr.regs) = m - 2
      BY <1>8, Zenon DEF m
    <3>4. m \in Nat /\ m >= 2
      BY <1>4, <1>7, Zenon DEF m
    <3> QED BY <3>2, <3>3, <3>4
  <2>2. ASSUME NEW i \in 1 .. Calls!Least(Len(lw.regs), Len(fr.regs))
        PROVE  i \in 1 .. Len(lw.regs) /\ i <= m - 2
    BY <2>1, <2>2 DEF Calls!Least
  <2> QED BY <2>2, <1>11, Zenon
<1>16. fr.levels = Len(fr.regs) + 2
  BY <1>7, <1>8 DEF m
<1>17. LevelsOf(stk)' = c
  BY <1>9 DEF c
<1>18. Calls!Frame
  BY <1>1, <1>11, <1>12, <1>14, <1>15, <1>16, <1>17, Zenon DEF Calls!Frame
<1>19. EvenIn(c)
  <2>1. EvenIn(x)
    BY <1>8, <1>11, EvenAppend DEF CallsInv
  <2>2. fr.levels % 2 = 0
    BY <1>4, <1>8 DEF m
  <2> QED BY <2>1, <2>2, <1>8, EvenAppend DEF c
<1> QED BY <1>17, <1>18, <1>19 DEF Calls!Next

\* A command that leaves the stack alone and starts nothing, and one that clears
\* the stack and stops.
LEMMA SameStackRefines ==
    ASSUME CallsInv, UNCHANGED stack, Running' \in {FALSE, Running}
    PROVE  Calls!Next /\ EvenIn(LevelsOf(stk))'
<1>1. LevelsOf(stk)' = LevelsOf(stk) /\ EvenIn(LevelsOf(stk))'
  BY SameStackLevels
<1>2. CASE Running' = Running
  BY <1>1, <1>2 DEF Calls!Next, Calls!Step
<1>3. CASE Running' = FALSE
  BY <1>1, <1>3 DEF Calls!Next, Calls!Stop
<1> QED BY <1>1, <1>2, <1>3

LEMMA ClearedStackRefines ==
    ASSUME clrretstk, Running' = FALSE
    PROVE  Calls!Next /\ EvenIn(LevelsOf(stk))'
BY ClearedStackLevels DEF Calls!Next, Calls!Clear

LEMMA LevelsRefine ==
    ASSUME CallsInv, NEW by \in Sources, Levels(by)
    PROVE  Calls!Next /\ EvenIn(LevelsOf(stk))'
<1>1. CASE \E target, back \in PCs : Call(by, target, back)
  BY <1>1, CallRefines
<1>2. CASE \E target \in PCs : Goto(by, target)
  <2>1. UNCHANGED stack /\ Running' = Running
    BY <1>2 DEF Goto
  <2> QED BY <2>1, SameStackRefines
<1>3. CASE \E plus1 \in BOOLEAN : Return(by, plus1)
  BY <1>3, ReturnRefines
<1>4. CASE StrayReturn(by)
  <2>1. clrretstk /\ Running' = FALSE
    BY <1>4 DEF StrayReturn
  <2> QED BY <2>1, ClearedStackRefines
<1>5. CASE RunStop(by)
  BY <1>5, RunStopRefines
<1> QED BY <1>1, <1>2, <1>3, <1>4, <1>5 DEF Levels

LEMMA LocalsRefine ==
    ASSUME CallsInv, NEW by \in Sources, Locals(by)
    PROVE  Calls!Next /\ EvenIn(LevelsOf(stk))'
<1>1. CASE \E n \in LocArgs : RetStkPtr < 0 /\ LocR(by, n) /\ LocalRegs' = RetStkPtr'
  BY <1>1, FrameRefines
<1>2. CASE PopLR(by)
  BY <1>2, PopLRRefines
<1>3. CASE \E k \in 1 .. Len(stk), w \in DataWords : StoreLocal(by, k, w)
  BY <1>3, StoreRefines
<1> QED BY <1>1, <1>2, <1>3 DEF Locals

\* Program commands, executed while nothing runs, clear the stack or leave it.
LEMMA ProgramsRefine ==
    ASSUME CallsInv, Programs
    PROVE  Calls!Next /\ EvenIn(LevelsOf(stk))'
<1>1. ~ Running /\ Running' = Running
  BY DEF Programs, stoprog, delprog, clrprog, clpall, clrall, reset, load_state, recall_program,
         load_program, append_program, Appended, AppendRefused, TooLong
<1>2. UNCHANGED stack \/ clrretstk
  BY DEF Programs, stoprog, delprog, clrprog, clpall, clrall, reset, load_state, recall_program,
         load_program, append_program, Appended, AppendRefused, TooLong, GivenUp
<1>3. Running' = FALSE
  BY <1>1 DEF CallsInv, StackInv
<1> QED BY <1>2, <1>3, SameStackRefines, ClearedStackRefines

\* Every checked command is a step of a program's levels.
LEMMA CallsStep ==
    ASSUME CallsInv, [RetStkPtr <= 0 /\ CheckedNext]_vars
    PROVE  [Calls!Next]_(Calls!vars) /\ CallsInv'
<1>1. StackInv'
  BY StackStep DEF CallsInv
<1>2. CASE CheckedNext
  <2> SUFFICES Calls!Next /\ EvenIn(LevelsOf(stk))'
    BY <1>1 DEF CallsInv
  <2>1. CASE \E by \in Sources : Levels(by)
    BY <2>1, LevelsRefine
  <2>2. CASE \E by \in Sources : Locals(by)
    BY <2>2, LocalsRefine
  <2>3. CASE \E by \in Sources : Registers(by)
    <3>1. UNCHANGED stack /\ Running' = Running
      BY <2>3 DEF Registers, cmdregs, op_double, Precision, SetIntMode, cmdrestm,
                  sigmaAllocate, sigmaDeallocate, stack, Done
    <3> QED BY <3>1, SameStackRefines
  <2>4. CASE \E by \in Sources : Fail(by)
    <3>1. UNCHANGED stack /\ Running' = FALSE
      BY <2>4 DEF Fail
    <3> QED BY <3>1, SameStackRefines
  <2>5. CASE Programs
    BY <2>5, ProgramsRefine
  <2>6. CASE CallRefused
    <3>1. (clrretstk \/ UNCHANGED stack) /\ Running' = FALSE
      BY <2>6 DEF CallRefused, GivenUp, CallsInv, StackInv
    <3> QED BY <3>1, SameStackRefines, ClearedStackRefines
  <2>7. CASE \E c \in {"stop", "other"} : KeyWhileRunning(c)
    <3>1. UNCHANGED stack /\ Running' \in {FALSE, Running}
      BY <2>7 DEF KeyWhileRunning, CallsInv, StackInv
    <3> QED BY <3>1, SameStackRefines
  <2> QED BY <1>2, <2>1, <2>2, <2>3, <2>4, <2>5, <2>6, <2>7 DEF CheckedNext
<1>3. CASE UNCHANGED vars
  <2>1. UNCHANGED stack /\ UNCHANGED <<pc, Running>>
    BY <1>3 DEF vars
  <2>2. LevelsOf(stk)' = LevelsOf(stk) /\ EvenIn(LevelsOf(stk))'
    BY <2>1, SameStackLevels
  <2> QED BY <2>1, <2>2, <1>1 DEF CallsInv, Calls!vars
<1> QED BY <1>2, <1>3

LEMMA CallsInit ==
    ASSUME Init
    PROVE  Calls!Init /\ CallsInv
<1>1. stk = << >> /\ pc = 1 /\ Running = FALSE /\ StackInv
  BY StackInit DEF Init
<1>2. LevelsOf(stk) = << >>
  BY <1>1, LevelsOfEmpty
<1> QED BY <1>1, <1>2, NoneIsEven DEF Calls!Init, CallsInv

\* Whatever retstk_up, gsbgto, cmdlocr and cmdlpop do to RetStkPtr, LocalRegs and the
\* words of RetStk, a program sees properly nested levels: calls return to where they
\* were made, a frame belongs to one level, resizing keeps its flags and registers, and
\* stores reach the innermost frame only.
THEOREM CallsAreNested == CheckedSpec => CallsNest
<1>1. CallsInv /\ [RetStkPtr <= 0 /\ CheckedNext]_vars => [Calls!Next]_(Calls!vars) /\ CallsInv'
  BY CallsStep
<1>2. Init => Calls!Init /\ CallsInv
  BY CallsInit
<1> QED BY <1>1, <1>2, PTL DEF CheckedSpec, CallsNest, Calls!Spec
=============================================================================
