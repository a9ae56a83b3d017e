--------------------------- MODULE Program_proofs ---------------------------
(***************************************************************************)
(* Program memory, for memories, programs and return stacks of any size:     *)
(* whichever command is given, the programs stay whole, the program counter   *)
(* stays on a step, the bounds are those of its program, and return addresses *)
(* lead to steps. First words and steps: what entering, removing and appending *)
(* keep of a list of words, and where the program counter comes when it goes   *)
(* from step to step, looks for the ends of its program or for a step.  Last, *)
(* program memory implements the listing: whatever a command does to the      *)
(* words, it enters, deletes, removes or appends whole steps.                 *)
(***************************************************************************)
EXTENDS ProgramListing, SequenceTheorems, FiniteSetTheorems, WellFoundedInduction, TLAPS

-----------------------------------------------------------------------------
(* Words that consist of whole steps *)

\* Whole steps, with any step for the last one, or none at all.
Aligned(s) ==
    /\ s \in Seq(Words)
    /\ \A o \in 1 .. Len(s) :
          IF o > 1 /\ isDBL(s[o - 1]) THEN s[o] \in Seconds
          ELSE s[o] \in Singles \cup Doubles
    /\ Len(s) > 0 => ~ isDBL(s[Len(s)])

\* A step may end with the n-th word, or none comes before.
Boundary(s, n) == n \in 0 .. Len(s) /\ (n > 0 => ~ isDBL(s[n]))

LEMMA KindsOfWords ==
    /\ \A w \in Singles \cup Seconds : ~ isDBL(w)
    /\ END \in Singles /\ LBL \in Singles /\ END # LBL
    /\ Singles \subseteq Words /\ Doubles \subseteq Words /\ Seconds \subseteq Words
BY ProgramWords, Zenon DEF isDBL, Words

LEMMA WholeAligned ==
    ASSUME NEW s \in Seq(Words)
    PROVE  Whole(s) <=> /\ Aligned(s) /\ Len(s) > 0
                        /\ s[Len(s)] = END /\ IsStep(s, Len(s))
<1>1. Len(s) \in Nat
  BY LenProperties
<1>2. ~ isDBL(END)
  BY KindsOfWords
<1> QED BY <1>1, <1>2 DEF Whole, Aligned, IsStep

\* The words of a step lie together, and a step follows.
LEMMA StepAhead ==
    ASSUME NEW s, Aligned(s), NEW o, IsStep(s, o)
    PROVE  /\ o \in 1 .. Len(s) /\ s[o] \in Singles \cup Doubles
           /\ isDBL(s[o]) => /\ o + 1 \in 1 .. Len(s) /\ s[o + 1] \in Seconds
                             /\ o + 2 <= Len(s) => IsStep(s, o + 2)
           /\ ~ isDBL(s[o]) /\ o < Len(s) => IsStep(s, o + 1)
<1>1. Len(s) \in Nat /\ o \in 1 .. Len(s)
  BY LenProperties DEF Aligned, IsStep
<1>2. s[o] \in Singles \cup Doubles
  BY <1>1 DEF Aligned, IsStep
<1>3. ASSUME isDBL(s[o])
      PROVE  /\ o + 1 \in 1 .. Len(s) /\ s[o + 1] \in Seconds
             /\ o + 2 <= Len(s) => IsStep(s, o + 2)
  <2>1. o < Len(s)
    BY <1>1, <1>3 DEF Aligned
  <2>2. s[o + 1] \in Seconds
    <3>1. o + 1 \in 1 .. Len(s) /\ o + 1 > 1 /\ (o + 1) - 1 = o
      BY <1>1, <2>1
    <3> QED BY <1>3, <3>1 DEF Aligned
  <2>3. ~ isDBL(s[o + 1])
    BY <2>2, KindsOfWords
  <2>4. o + 2 <= Len(s) => o + 2 \in 1 .. Len(s) /\ (o + 2) - 1 = o + 1
    BY <1>1
  <2> QED BY <1>1, <2>1, <2>2, <2>3, <2>4 DEF IsStep
<1>4. ASSUME ~ isDBL(s[o]), o < Len(s)
      PROVE  IsStep(s, o + 1)
  <2>1. o + 1 \in 1 .. Len(s) /\ (o + 1) - 1 = o
    BY <1>1, <1>4
  <2> QED BY <1>4, <2>1 DEF IsStep
<1> QED BY <1>1, <1>2, <1>3, <1>4

\* Every word belongs to a step: its own, or that of the word before.
LEMMA StepAround ==
    ASSUME NEW s, Aligned(s), NEW q \in 1 .. Len(s)
    PROVE  IF q > 1 /\ isDBL(s[q - 1]) THEN IsStep(s, q - 1) ELSE IsStep(s, q)
<1>1. Len(s) \in Nat
  BY LenProperties DEF Aligned
<1>2. CASE q > 1 /\ isDBL(s[q - 1])
  <2>1. q - 1 \in 1 .. Len(s) /\ q - 1 \in Nat
    BY <1>1, <1>2
  <2>2. CASE q - 1 = 1
    BY <1>2, <2>1, <2>2 DEF IsStep
  <2>3. CASE q - 1 > 1
    <3>1. ~ isDBL(s[(q - 1) - 1])
      <4> SUFFICES ASSUME isDBL(s[(q - 1) - 1]) PROVE FALSE
        OBVIOUS
      <4>1. s[q - 1] \in Seconds
        BY <2>1, <2>3 DEF Aligned
      <4> QED BY <4>1, <1>2, KindsOfWords
    <3> QED BY <3>1, <2>1, <1>2 DEF IsStep
  <2> QED BY <2>1, <2>2, <2>3
<1>3. CASE ~ (q > 1 /\ isDBL(s[q - 1]))
  BY <1>1, <1>3 DEF IsStep
<1> QED BY <1>2, <1>3

LEMMA AlignedSegment ==
    ASSUME NEW s, Aligned(s), NEW m, NEW n, Boundary(s, m), Boundary(s, n)
    PROVE  Aligned(SubSeq(s, m + 1, n))
<1> DEFINE t == SubSeq(s, m + 1, n)
<1>1. Len(s) \in Nat /\ m \in 0 .. Len(s) /\ n \in 0 .. Len(s)
  BY LenProperties DEF Aligned, Boundary
<1>2. \A i \in 1 .. Len(s) : s[i] \in Words
  BY ElementOfSeq DEF Aligned
<1>3. /\ t \in Seq(Words) /\ Len(t) = (IF m + 1 <= n THEN n - m ELSE 0)
      /\ \A i \in 1 .. n - m : t[i] = s[m + i]
  <2>1. \A i \in m + 1 .. n : s[i] \in Words
    BY <1>1, <1>2
  <2>2. /\ t \in Seq(Words)
        /\ Len(t) = (IF m + 1 <= n THEN n - (m + 1) + 1 ELSE 0)
        /\ \A i \in 1 .. n - (m + 1) + 1 : t[i] = s[(m + 1) + i - 1]
    BY <1>1, <2>1, SubSeqProperties
  <2>3. n - (m + 1) + 1 = n - m /\ \A i \in 1 .. n - m : (m + 1) + i - 1 = m + i
    BY <1>1
  <2> QED BY <2>2, <2>3
<1> HIDE DEF t
<1>4. ASSUME NEW o \in 1 .. Len(t)
      PROVE  IF o > 1 /\ isDBL(t[o - 1]) THEN t[o] \in Seconds
             ELSE t[o] \in Singles \cup Doubles
  <2>1. m < n /\ o \in 1 .. n - m /\ t[o] = s[m + o] /\ m + o \in 1 .. Len(s)
    BY <1>1, <1>3
  <2>2. CASE o > 1
    <3>1. o - 1 \in 1 .. n - m /\ m + (o - 1) = (m + o) - 1 /\ m + o > 1
      BY <1>1, <2>1, <2>2
    <3>2. t[o - 1] = s[(m + o) - 1]
      BY <1>3, <3>1
    <3> QED BY <2>1, <2>2, <3>1, <3>2 DEF Aligned
  <2>3. CASE o = 1
    <3>1. ~ (m + o > 1 /\ isDBL(s[(m + o) - 1]))
      <4>1. m > 0 => (m + o) - 1 = m
        BY <1>1, <2>3
      <4> QED BY <1>1, <2>3, <4>1 DEF Boundary
    <3> QED BY <2>1, <2>3, <3>1 DEF Aligned
  <2> QED BY <2>1, <2>2, <2>3
<1>5. Len(t) > 0 => ~ isDBL(t[Len(t)])
  <2> SUFFICES ASSUME Len(t) > 0 PROVE ~ isDBL(t[Len(t)])
    OBVIOUS
  <2>1. Len(t) = n - m /\ Len(t) \in 1 .. n - m /\ m + Len(t) = n /\ n > 0
    BY <1>1, <1>3
  <2>2. t[Len(t)] = s[n]
    BY <1>3, <2>1
  <2> QED BY <2>1, <2>2 DEF Boundary
<1> QED BY <1>3, <1>4, <1>5 DEF Aligned, t

LEMMA AlignedConcat ==
    ASSUME NEW s, NEW t, Aligned(s), Aligned(t)
    PROVE  Aligned(s \o t)
<1> DEFINE u == s \o t
<1>1. /\ s \in Seq(Words) /\ t \in Seq(Words) /\ Len(s) \in Nat /\ Len(t) \in Nat
  BY LenProperties DEF Aligned
<1>2. /\ u \in Seq(Words) /\ Len(u) = Len(s) + Len(t)
      /\ \A i \in 1 .. Len(s) + Len(t) :
            u[i] = IF i <= Len(s) THEN s[i] ELSE t[i - Len(s)]
  BY <1>1, ConcatProperties
<1> HIDE DEF u
<1>3. ASSUME NEW o \in 1 .. Len(u)
      PROVE  IF o > 1 /\ isDBL(u[o - 1]) THEN u[o] \in Seconds
             ELSE u[o] \in Singles \cup Doubles
  <2>1. CASE o <= Len(s)
    <3>1. o \in 1 .. Len(s) /\ u[o] = s[o] /\ (o > 1 => u[o - 1] = s[o - 1])
      BY <1>1, <1>2, <2>1
    <3> QED BY <3>1 DEF Aligned
  <2>2. CASE o = Len(s) + 1
    <3>1. o - Len(s) = 1 /\ Len(t) >= 1 /\ u[o] = t[1]
      BY <1>1, <1>2, <2>2
    <3>2. o > 1 => u[o - 1] = s[Len(s)] /\ Len(s) > 0
      BY <1>1, <1>2, <2>2
    <3>3. t[1] \in Singles \cup Doubles
      BY <1>1, <3>1 DEF Aligned
    <3> QED BY <3>1, <3>2, <3>3 DEF Aligned
  <2>3. CASE o > Len(s) + 1
    <3>1. /\ o - Len(s) \in 1 .. Len(t) /\ o - Len(s) > 1 /\ o > 1
          /\ u[o] = t[o - Len(s)] /\ u[o - 1] = t[(o - Len(s)) - 1]
      <4>1. o \in Nat /\ o - 1 \in 1 .. Len(s) + Len(t) /\ ~ (o - 1 <= Len(s)) /\ ~ (o <= Len(s))
        BY <1>1, <1>2, <2>3
      <4>2. (o - 1) - Len(s) = (o - Len(s)) - 1 /\ o - Len(s) \in 1 .. Len(t)
        BY <1>1, <1>2, <2>3
      <4> QED BY <1>1, <1>2, <2>3, <4>1, <4>2
    <3> QED BY <3>1 DEF Aligned
  <2> QED BY <1>1, <1>2, <2>1, <2>2, <2>3
<1>4. Len(u) > 0 => ~ isDBL(u[Len(u)])
  <2>1. CASE Len(t) = 0
    BY <1>1, <1>2, <2>1 DEF Aligned
  <2>2. CASE Len(t) > 0
    <3>1. u[Len(u)] = t[Len(t)]
      BY <1>1, <1>2, <2>2
    <3> QED BY <2>2, <3>1 DEF Aligned
  <2> QED BY <1>1, <2>1, <2>2
<1> QED BY <1>2, <1>3, <1>4 DEF Aligned, u
-----------------------------------------------------------------------------
(* Addresses: a place lies offset(p) words behind its region's word 0. *)

\* A memory between two commands.
Readable(m) ==
    /\ m \in [ram : Seq(Words), lib : Seq(Words), runmode : {0, 1}]
    /\ Whole(m.ram) /\ Len(m.ram) <= NUMPROG_LIMIT
    /\ m.lib = << >> \/ Whole(m.lib)
    /\ Len(m.lib) <= NUMPROG_FLASH_MAX

Origin(p)    == IF isRAM(p) THEN 0 ELSE LIB
Final(m, p)  == Origin(p) + Len(Region(m, p))
InStep(m, p) == p \in Nat /\ IsStep(Region(m, p), offset(p))
Ending(m, p) == InStep(m, p) /\ getprog(m, p) = <<END>>

LEMMA SizesAre ==
    /\ NUMPROG_LIMIT \in Nat /\ NUMPROG_LIMIT > 0 /\ NUMPROG_FLASH_MAX \in Nat
    /\ LIB \in Nat /\ LIB > NUMPROG_LIMIT + 1
    /\ MAX_RETURNS \in Nat /\ MAX_RETURNS > 0 /\ MAX_ARG \in Nat
    /\ Withheld \subseteq Nat
BY ProgramSizes

LEMMA RegionAligned ==
    ASSUME NEW m, Readable(m), NEW p \in Nat
    PROVE  /\ Aligned(Region(m, p)) /\ Len(Region(m, p)) \in Nat
           /\ Region(m, p) # << >> => Whole(Region(m, p)) /\ Len(Region(m, p)) > 0
           /\ isRAM(p) => Len(Region(m, p)) \in 1 .. NUMPROG_LIMIT
           /\ ~ isRAM(p) => Len(Region(m, p)) \in 0 .. NUMPROG_FLASH_MAX
           /\ p = Origin(p) + offset(p) /\ offset(p) \in Nat /\ Origin(p) \in Nat
<1>1. /\ m.ram \in Seq(Words) /\ m.lib \in Seq(Words)
      /\ Len(m.ram) \in Nat /\ Len(m.lib) \in Nat
  BY LenProperties DEF Readable
<1>2. Aligned(m.ram) /\ Len(m.ram) > 0
  BY <1>1, WholeAligned DEF Readable
<1>3. Aligned(<< >>) /\ Len(<< >>) = 0
  BY EmptySeq DEF Aligned
<1>4. Aligned(m.lib) /\ (m.lib # << >> => Len(m.lib) > 0)
  BY <1>1, <1>3, WholeAligned DEF Readable
<1>5. p = Origin(p) + offset(p) /\ offset(p) \in Nat /\ Origin(p) \in Nat
  BY SizesAre DEF Origin, offset, isRAM
<1> QED BY <1>1, <1>2, <1>3, <1>4, <1>5, SizesAre DEF Region, Readable

\* The words of a region have its addresses.
LEMMA SameRegion ==
    ASSUME NEW m, Readable(m), NEW p \in Nat, NEW k \in 0 .. Len(Region(m, p)) + 1
    PROVE  LET q == Origin(p) + k
           IN  /\ q \in Nat /\ (isRAM(q) <=> isRAM(p)) /\ Origin(q) = Origin(p)
               /\ Region(m, q) = Region(m, p) /\ offset(q) = k
<1>1. CASE isRAM(p)
  <2>1. k \in 0 .. NUMPROG_LIMIT + 1 /\ Origin(p) = 0
    BY <1>1, RegionAligned, SizesAre DEF Origin
  <2>2. k \in Nat /\ k < LIB /\ 0 + k = k
    BY <2>1, SizesAre
  <2> QED BY <1>1, <2>1, <2>2 DEF Origin, Region, offset, isRAM
<1>2. CASE ~ isRAM(p)
  <2>1. Origin(p) = LIB /\ k \in Nat
    BY <1>2, RegionAligned DEF Origin
  <2>2. LIB + k \in Nat /\ ~ (LIB + k < LIB) /\ (LIB + k) - LIB = k
    BY <2>1, SizesAre
  <2> QED BY <1>2, <2>1, <2>2 DEF Origin, Region, offset, isRAM
<1> QED BY <1>1, <1>2

LEMMA GetprogIs ==
    ASSUME NEW m, Readable(m), NEW p \in Nat
    PROVE  LET s == Region(m, p)  o == offset(p)
           IN  /\ Len(getprog(m, p)) = IF o \in 1 .. Len(s) /\ isDBL(s[o]) THEN 2 ELSE 1
               /\ getprog(m, p)[1] = IF o \in 1 .. Len(s) THEN s[o] ELSE END
               /\ getprog(m, p) = <<END>> <=> (o \in 1 .. Len(s) => s[o] = END)
               /\ \A a, b : getprog(m, p) = <<a, b>> <=>
                     o \in 1 .. Len(s) /\ isDBL(s[o]) /\ a = s[o] /\ b = s[o + 1]
<1> DEFINE s == Region(m, p)
           o == offset(p)
           g == getprog(m, p)
<1>1. Aligned(s) /\ Len(s) \in Nat /\ o \in Nat /\ s \in Seq(Words)
  BY RegionAligned DEF Aligned
<1>2. ~ isDBL(END)
  BY KindsOfWords
<1>3. g = IF o \in 1 .. Len(s)
          THEN IF isDBL(s[o]) THEN SubSeq(s, o, o + 1) ELSE <<s[o]>>
          ELSE <<END>>
  BY DEF getprog
<1> HIDE DEF s, o, g
<1>4. CASE o \in 1 .. Len(s) /\ isDBL(s[o])
  <2>1. o + 1 \in 1 .. Len(s)
    BY <1>1, <1>4 DEF Aligned
  <2>2. \A i \in o .. o + 1 : s[i] \in Words
    <3>1. \A i \in o .. o + 1 : i \in 1 .. Len(s)
      BY <1>1, <1>4, <2>1
    <3> QED BY <1>1, <3>1, ElementOfSeq
  <2>3. g = SubSeq(s, o, o + 1)
    BY <1>3, <1>4
  <2>4. /\ g \in Seq(Words)
        /\ Len(g) = (IF o <= o + 1 THEN (o + 1) - o + 1 ELSE 0)
        /\ \A i \in 1 .. (o + 1) - o + 1 : g[i] = s[o + i - 1]
    BY <1>1, <2>2, <2>3, SubSeqProperties
  <2>5. /\ (o + 1) - o + 1 = 2 /\ o <= o + 1 /\ o + 1 - 1 = o /\ o + 2 - 1 = o + 1
        /\ 1 \in 1 .. 2 /\ 2 \in 1 .. 2
    BY <1>1
  <2>6. Len(g) = 2 /\ g[1] = s[o] /\ g[2] = s[o + 1]
    BY <2>4, <2>5
  <2>7. g # <<END>>
    BY <2>6
  <2>8. s[o] # END
    BY <1>2, <1>4
  <2>9. \A a, b : g = <<a, b>> <=> a = s[o] /\ b = s[o + 1]
    <3>1. \A a, b : g = <<a, b>> => a = g[1] /\ b = g[2]
      OBVIOUS
    <3>2. <<s[o], s[o + 1]>> \in Seq(Words) /\ Len(<<s[o], s[o + 1]>>) = 2
      BY <2>1, <1>4, <1>1, ElementOfSeq
    <3>3. \A i \in 1 .. Len(g) : g[i] = <<s[o], s[o + 1]>>[i]
      <4> TAKE i \in 1 .. Len(g)
      <4>1. i = 1 \/ i = 2
        BY <2>6
      <4> QED BY <4>1, <2>6
    <3>4. g = <<s[o], s[o + 1]>>
      BY <2>4, <2>6, <3>2, <3>3, SeqEqual
    <3> QED BY <3>1, <3>4, <2>6
  <2> QED BY <1>4, <2>6, <2>7, <2>8, <2>9 DEF s, o, g
<1>5. CASE o \in 1 .. Len(s) /\ ~ isDBL(s[o])
  <2>1. g = <<s[o]>>
    BY <1>3, <1>5
  <2>2. Len(g) = 1 /\ g[1] = s[o] /\ (g = <<END>> <=> s[o] = END) /\ \A a, b : g # <<a, b>>
    BY <2>1
  <2> QED BY <1>5, <2>2 DEF s, o, g
<1>6. CASE o \notin 1 .. Len(s)
  <2>1. g = <<END>>
    BY <1>3, <1>6
  <2>2. Len(g) = 1 /\ g[1] = END /\ \A a, b : g # <<a, b>>
    BY <2>1
  <2> QED BY <1>6, <2>1, <2>2 DEF s, o, g
<1> QED BY <1>4, <1>5, <1>6

\* From a step on: its words, and the next step.
LEMMA StepFacts ==
    ASSUME NEW m, Readable(m), NEW p, InStep(m, p)
    PROVE  LET n == Len(getprog(m, p))
           IN  /\ p \in Nat /\ offset(p) \in 1 .. Len(Region(m, p))
               /\ n \in {1, 2} /\ p > Origin(p) /\ p + n - 1 <= Final(m, p)
               /\ Final(m, p) \in Nat /\ Origin(p) \in Nat
               /\ p + n <= Final(m, p) => /\ InStep(m, p + n) /\ Origin(p + n) = Origin(p)
                                          /\ Region(m, p + n) = Region(m, p)
               /\ n = 2 => ~ InStep(m, p + 1)
               /\ getprog(m, p) # <<END>> => p + n <= Final(m, p)
<1> DEFINE s == Region(m, p)
           o == offset(p)
           n == Len(getprog(m, p))
           b == Origin(p)
<1>1. p \in Nat /\ IsStep(s, o)
  BY DEF InStep
<1>2. /\ Aligned(s) /\ Len(s) \in Nat /\ o \in Nat /\ b \in Nat /\ p = b + o
      /\ s # << >> => Whole(s)
  BY <1>1, RegionAligned
<1>3. /\ o \in 1 .. Len(s)
      /\ isDBL(s[o]) => /\ o + 1 \in 1 .. Len(s) /\ s[o + 1] \in Seconds
                        /\ o + 2 <= Len(s) => IsStep(s, o + 2)
      /\ ~ isDBL(s[o]) /\ o < Len(s) => IsStep(s, o + 1)
  BY <1>1, <1>2, StepAhead
<1>4. /\ n = (IF isDBL(s[o]) THEN 2 ELSE 1)
      /\ getprog(m, p) = <<END>> <=> s[o] = END
  BY <1>1, <1>3, GetprogIs
<1>5. \A k \in 0 .. Len(s) + 1 : /\ Origin(b + k) = b /\ Region(m, b + k) = s
                                 /\ offset(b + k) = k /\ b + k \in Nat
  BY <1>1, SameRegion
<1>6. Final(m, p) = b + Len(s)
  BY DEF Final
<1>7. IsStep(s, Len(s)) /\ s[Len(s)] = END
  <2>1. s # << >>
    BY <1>3, EmptySeq
  <2> QED BY <1>2, <2>1, WholeAligned DEF Aligned
<1> HIDE DEF s, o, n, b
<1>8. n \in {1, 2} /\ p > b /\ p + n - 1 <= Final(m, p) /\ Final(m, p) \in Nat
  BY <1>2, <1>3, <1>4, <1>6
<1>9. ASSUME p + n <= Final(m, p)
      PROVE  InStep(m, p + n) /\ Origin(p + n) = b /\ Region(m, p + n) = s
  <2>1. o + n <= Len(s) /\ p + n = b + (o + n) /\ o + n \in 0 .. Len(s) + 1
    BY <1>2, <1>6, <1>8, <1>9
  <2>2. IsStep(s, o + n)
    BY <1>2, <1>3, <1>4, <2>1
  <2> QED BY <1>5, <2>1, <2>2 DEF InStep
<1>10. ASSUME n = 2 PROVE ~ InStep(m, p + 1)
  <2>1. p + 1 = b + (o + 1) /\ o + 1 \in 0 .. Len(s) + 1 /\ isDBL(s[o]) /\ o + 1 # 1
        /\ (o + 1) - 1 = o
    BY <1>2, <1>3, <1>4, <1>10
  <2>2. Region(m, p + 1) = s /\ offset(p + 1) = o + 1
    BY <1>5, <2>1
  <2>3. ~ IsStep(s, o + 1)
    BY <2>1 DEF IsStep
  <2> QED BY <2>2, <2>3 DEF InStep
<1>11. ASSUME getprog(m, p) # <<END>> PROVE p + n <= Final(m, p)
  <2>1. o # Len(s) /\ o < Len(s)
    BY <1>2, <1>3, <1>4, <1>7, <1>11
  <2>2. ~ isDBL(s[Len(s) - 1])
    BY <1>2, <1>3, <1>7, <2>1 DEF IsStep
  <2>3. isDBL(s[o]) => o + 2 <= Len(s)
    <3>1. isDBL(s[o]) => o # Len(s) - 1
      BY <2>2
    <3> QED BY <1>2, <1>3, <2>1, <3>1
  <2> QED BY <1>2, <1>3, <1>4, <1>6, <2>1, <2>3
<1> QED BY <1>1, <1>3, <1>8, <1>9, <1>10, <1>11, <1>2 DEF s, o, n, b

\* A region begins with a step and ends with an END.
LEMMA RegionEnds ==
    ASSUME NEW m, Readable(m), NEW p \in Nat, Region(m, p) # << >>
    PROVE  /\ InStep(m, Origin(p) + 1) /\ Origin(Origin(p) + 1) = Origin(p)
           /\ Ending(m, Final(m, p)) /\ Origin(Final(m, p)) = Origin(p)
           /\ Region(m, Final(m, p)) = Region(m, p)
           /\ Region(m, Origin(p) + 1) = Region(m, p)
           /\ Final(m, p) > Origin(p)
<1> DEFINE s == Region(m, p)
<1>1. Aligned(s) /\ Len(s) \in Nat /\ Len(s) > 0 /\ Whole(s) /\ Origin(p) \in Nat
  BY RegionAligned
<1>2. \A k \in 0 .. Len(s) + 1 : LET q == Origin(p) + k
           IN  q \in Nat /\ Origin(q) = Origin(p) /\ Region(m, q) = s /\ offset(q) = k
  BY SameRegion
<1>3. IsStep(s, 1) /\ IsStep(s, Len(s)) /\ s[Len(s)] = END
  <2>1. IsStep(s, 1)
    BY <1>1 DEF IsStep
  <2> QED BY <1>1, <2>1, WholeAligned DEF Aligned
<1>4. InStep(m, Origin(p) + 1)
  BY <1>1, <1>2, <1>3 DEF InStep
<1>5. Ending(m, Final(m, p))
  <2>1. InStep(m, Final(m, p)) /\ offset(Final(m, p)) = Len(s) /\ Region(m, Final(m, p)) = s
    BY <1>1, <1>2, <1>3 DEF InStep, Final
  <2>2. getprog(m, Final(m, p)) = <<END>>
    BY <1>3, <2>1, GetprogIs DEF InStep
  <2> QED BY <2>1, <2>2 DEF Ending
<1> QED BY <1>1, <1>2, <1>4, <1>5 DEF Final

\* Steps do not overlap.
LEMMA StepsApart ==
    ASSUME NEW m, Readable(m), NEW p, InStep(m, p), NEW q, InStep(m, q), p < q
    PROVE  p + Len(getprog(m, p)) <= q
<1> DEFINE n == Len(getprog(m, p))
<1>1. p \in Nat /\ q \in Nat /\ n \in {1, 2} /\ (n = 2 => q # p + 1)
  BY StepFacts
<1> HIDE DEF n
<1>2. p + n <= q
  BY <1>1
<1> QED BY <1>2 DEF n

\* The step that holds the word q, if top is not above it.
LEMMA StepOfIs ==
    ASSUME NEW m, Readable(m), NEW q \in Nat, offset(q) \in 1 .. Len(Region(m, q)),
           NEW top \in Nat, top <= q, top = Origin(q) \/ InStep(m, top)
    PROVE  LET r == StepOf(m, top, q)
           IN  /\ InStep(m, r) /\ r \in top .. q /\ Origin(r) = Origin(q)
               /\ r + Len(getprog(m, r)) > q /\ Region(m, r) = Region(m, q)
<1> DEFINE s == Region(m, q)
           o == offset(q)
           b == Origin(q)
           r == StepOf(m, top, q)
<1>1. Aligned(s) /\ Len(s) \in Nat /\ b \in Nat /\ q = b + o /\ o \in 1 .. Len(s)
  BY RegionAligned
<1>2. \A k \in 0 .. Len(s) + 1 : /\ Origin(b + k) = b /\ Region(m, b + k) = s
                                 /\ offset(b + k) = k /\ b + k \in Nat
  BY SameRegion
<1>3. r = IF q > top /\ isDBL(getprog(m, q - 1)[1]) THEN q - 1 ELSE q
  BY DEF StepOf
<1>4. o - 1 \in 0 .. Len(s) + 1 /\ q - 1 = b + (o - 1)
  BY <1>1
<1>5. q - 1 \in Nat /\ Region(m, q - 1) = s /\ offset(q - 1) = o - 1 /\ Origin(q - 1) = b
  BY <1>2, <1>4
<1>6. getprog(m, q - 1)[1] = IF o - 1 \in 1 .. Len(s) THEN s[o - 1] ELSE END
  BY <1>5, GetprogIs
<1>7. ~ isDBL(END)
  BY KindsOfWords
<1>8. IF o > 1 /\ isDBL(s[o - 1]) THEN IsStep(s, o - 1) ELSE IsStep(s, o)
  BY <1>1, StepAround
<1>9. Len(getprog(m, q - 1)) = (IF o - 1 \in 1 .. Len(s) /\ isDBL(s[o - 1]) THEN 2 ELSE 1)
  BY <1>5, GetprogIs
<1>10. Len(getprog(m, q)) \in {1, 2}
  BY GetprogIs
<1> HIDE DEF s, o, b, r
<1>11. CASE q > top /\ isDBL(getprog(m, q - 1)[1])
  <2>1. o - 1 \in 1 .. Len(s) /\ isDBL(s[o - 1]) /\ o > 1
    BY <1>1, <1>4, <1>6, <1>7, <1>11
  <2>2. r = q - 1 /\ IsStep(s, o - 1) /\ Len(getprog(m, r)) = 2
    BY <1>3, <1>8, <1>9, <1>11, <2>1
  <2>3. InStep(m, r) /\ Origin(r) = b /\ Region(m, r) = s
    BY <1>5, <2>2 DEF InStep
  <2>4. r \in top .. q /\ r + 2 > q
    BY <1>5, <1>11, <2>2
  <2> QED BY <2>2, <2>3, <2>4 DEF r, b, s
<1>12. CASE ~ (q > top /\ isDBL(getprog(m, q - 1)[1]))
  <2>1. r = q
    BY <1>3, <1>12
  <2>2. InStep(m, q)
    <3>1. CASE q = top
      <4>1. top # Origin(q)
        BY <1>1, <3>1 DEF b
      <4> QED BY <3>1, <4>1
    <3>2. CASE q > top
      <4>1. ~ (o > 1 /\ isDBL(s[o - 1]))
        <5>1. o > 1 => o - 1 \in 1 .. Len(s)
          BY <1>1
        <5> QED BY <1>6, <1>12, <3>2, <5>1
      <4> QED BY <1>8, <4>1 DEF InStep, s, o
    <3> QED BY <3>1, <3>2
  <2>3. q + Len(getprog(m, q)) > q
    BY <1>10
  <2> QED BY <2>1, <2>2, <2>3 DEF r, s, b
<1> QED BY <1>11, <1>12 DEF r, s, b

-----------------------------------------------------------------------------
(* The program around a step *)

\* One turn of the loops of update_program_bounds.
StepBehind(m, q) == do_inc(m, Nowhere, q, FALSE).pc
StepBefore(m, q) == do_dec(m, Nowhere, q, FALSE).pc
LastStep(m, q)   == getprog(m, q) = <<END>> \/ do_inc(m, Nowhere, q, FALSE).wrapped
FirstStep(m, q)  == \/ do_dec(m, Nowhere, q, FALSE).wrapped
                    \/ getprog(m, StepBefore(m, q)) = <<END>>
Endings(m)       == LET last[q \in Addresses] ==
                            IF LastStep(m, q) THEN q ELSE last[StepBehind(m, q)]
                    IN  last
Beginnings(m)    == LET first[q \in Addresses] ==
                            IF FirstStep(m, q) THEN q ELSE first[StepBefore(m, q)]
                    IN  first

EndsProgram(m, q, e) ==
    /\ e \in Nat /\ e >= q /\ Origin(e) = Origin(q) /\ Ending(m, e)
    /\ \A x \in q .. e - 1 : ~ Ending(m, x)
BeginsProgram(m, q, b) ==
    /\ b \in Nat /\ b <= q /\ Origin(b) = Origin(q) /\ InStep(m, b)
    /\ b = Origin(b) + 1 \/ Ending(m, b - 1)
    /\ \A x \in b .. q - 1 : ~ Ending(m, x)

\* A nonempty set of naturals has a least member.
LEMMA LeastMember ==
    ASSUME NEW T \in SUBSET Nat, T # {}
    PROVE  \E x \in T : \A y \in T : x <= y
<1> DEFINE R == OpToRel(<, Nat)
<1>1. IsWellFoundedOn(R, Nat)
  BY NatLessThanWellFounded
<1>2. \A x, y \in Nat : y < x => << y, x >> \in R
  BY DEF OpToRel
<1> HIDE DEF R
<1>3. PICK x \in T : \A y \in T : << y, x >> \notin R
  BY <1>1, WFMin
<1>4. ASSUME NEW y \in T PROVE x <= y
  <2>1. x \in Nat /\ y \in Nat
    OBVIOUS
  <2>2. ~ (y < x)
    BY <2>1, <1>2, <1>3, Zenon
  <2> QED BY <2>1, <2>2
<1> QED BY <1>4

LEMMA StepAddress ==
    ASSUME NEW m, Readable(m), NEW q, InStep(m, q)
    PROVE  q \in Addresses
<1>1. q \in Nat /\ offset(q) \in 1 .. Len(Region(m, q))
  BY StepFacts
<1>2. /\ isRAM(q) => Len(Region(m, q)) \in 1 .. NUMPROG_LIMIT
      /\ ~ isRAM(q) => Len(Region(m, q)) \in 0 .. NUMPROG_FLASH_MAX
      /\ q = Origin(q) + offset(q)
  BY <1>1, RegionAligned
<1>3. LIB + NUMPROG_FLASH_MAX + 2 \in Nat /\ q <= LIB + NUMPROG_FLASH_MAX + 2
  <2>1. CASE isRAM(q)
    BY <1>1, <2>1, SizesAre DEF isRAM
  <2>2. CASE ~ isRAM(q)
    <3>1. offset(q) \in 0 .. NUMPROG_FLASH_MAX /\ q = LIB + offset(q)
      BY <1>1, <1>2, <2>2, SizesAre DEF Origin
    <3> QED BY <3>1, SizesAre
  <2> QED BY <2>1, <2>2
<1> QED BY <1>1, <1>3 DEF Addresses

\* The whole section of a place.
LEMMA SectionIs ==
    ASSUME NEW m, Readable(m), NEW w, NEW p \in Nat
    PROVE  LET s == Section(m, w, p, FALSE)
           IN  /\ s.bottom = Final(m, p) /\ s.bottom \in Nat /\ s.top \in Nat
               /\ s.top = (IF isRAM(p) THEN m.runmode ELSE LIB + 1)
               /\ s.top \in {Origin(p), Origin(p) + 1}
               /\ s.top = Origin(p) => isRAM(p) /\ s.top = 0
<1>1. m.runmode \in {0, 1}
  BY DEF Readable
<1>2. Len(Region(m, p)) \in Nat
  BY RegionAligned
<1>3. CASE isRAM(p)
  BY <1>1, <1>2, <1>3 DEF Section, Origin, Final, Region
<1>4. CASE ~ isRAM(p)
  BY <1>2, <1>4, SizesAre DEF Section, Origin, Final, Region
<1> QED BY <1>3, <1>4

LEMMA IncIs ==
    ASSUME NEW m, Readable(m), NEW w, NEW q, InStep(m, q)
    PROVE  LET n    == Len(getprog(m, q))
               next == do_inc(m, w, q, FALSE)
               s    == Section(m, w, q, FALSE)
           IN  IF q + n <= Final(m, q) THEN next = [pc |-> q + n, wrapped |-> FALSE]
               ELSE next = [pc |-> s.top, wrapped |-> TRUE]
<1> DEFINE n == Len(getprog(m, q))
           f == Final(m, q)
<1>1. q \in Nat /\ n \in {1, 2} /\ f \in Nat
  BY StepFacts
<1>2. Section(m, w, q, FALSE).bottom = f
  BY <1>1, SectionIs
<1>3. do_inc(m, w, q, FALSE) = Forward(Section(m, w, q, FALSE), q + n)
  BY DEF do_inc
<1> HIDE DEF n, f
<1>4. q + n <= f \/ q + n > f
  BY <1>1
<1>5. ~ (q + n <= f /\ q + n > f)
  BY <1>1
<1> QED BY <1>2, <1>3, <1>4, <1>5 DEF Forward, n, f

\* The step before another one, in a section that begins no further than that.
LEMMA DecIs ==
    ASSUME NEW m, Readable(m), NEW q, InStep(m, q),
           NEW top \in Nat, top < q, top = Origin(q) \/ InStep(m, top), q - 1 > Origin(q)
    PROVE  LET r == StepOf(m, top, q - 1)
           IN  /\ InStep(m, r) /\ top <= r /\ r < q /\ Origin(r) = Origin(q)
               /\ r + Len(getprog(m, r)) = q /\ Region(m, r) = Region(m, q)
<1> DEFINE o == offset(q)
           r == StepOf(m, top, q - 1)
           n == Len(getprog(m, r))
<1>1. q \in Nat /\ o \in 1 .. Len(Region(m, q)) /\ q = Origin(q) + o /\ Origin(q) \in Nat
      /\ Len(Region(m, q)) \in Nat
  BY StepFacts, RegionAligned
<1>2. o - 1 \in 1 .. Len(Region(m, q)) /\ q - 1 = Origin(q) + (o - 1)
  BY <1>1
<1>3. o - 1 \in 0 .. Len(Region(m, q)) + 1
  BY <1>1
<1>4. /\ q - 1 \in Nat /\ Origin(q - 1) = Origin(q)
      /\ Region(m, q - 1) = Region(m, q) /\ offset(q - 1) = o - 1
  BY <1>1, <1>2, <1>3, SameRegion
<1>5. top <= q - 1
  BY <1>1
<1>6. /\ InStep(m, r) /\ r \in top .. q - 1 /\ Origin(r) = Origin(q)
      /\ r + n > q - 1 /\ Region(m, r) = Region(m, q)
  BY <1>2, <1>4, <1>5, StepOfIs
<1>7. r \in Nat /\ n \in {1, 2}
  BY <1>6, StepFacts
<1>8. r < q
  BY <1>1, <1>6
<1>9. r + n <= q
  BY <1>6, <1>8, StepsApart
<1> HIDE DEF r, n, o
<1>10. top <= r /\ r + n = q
  BY <1>1, <1>6, <1>7, <1>9
<1> QED BY <1>6, <1>8, <1>10 DEF r, n

LEMMA LoopsTurn ==
    ASSUME NEW m
    PROVE  /\ ProgEnd(m) = [q \in Addresses |->
                  IF LastStep(m, q) THEN q ELSE ProgEnd(m)[StepBehind(m, q)]]
           /\ ProgBegin(m) = [q \in Addresses |->
                  IF FirstStep(m, q) THEN q ELSE ProgBegin(m)[StepBefore(m, q)]]
<1>1. Endings(m) = [q \in Addresses |->
          IF LastStep(m, q) THEN q ELSE Endings(m)[StepBehind(m, q)]]
  BY DEF Endings
<1>2. Beginnings(m) = [q \in Addresses |->
          IF FirstStep(m, q) THEN q ELSE Beginnings(m)[StepBefore(m, q)]]
  BY DEF Beginnings
<1>3. ProgEnd(m) = Endings(m)
  BY Zenon DEF ProgEnd, Endings, LastStep, StepBehind
<1>4. ProgBegin(m) = Beginnings(m)
  BY Zenon DEF ProgBegin, Beginnings, FirstStep, StepBefore
<1> QED BY <1>1, <1>2, <1>3, <1>4

LEMMA ProgEndIs ==
    ASSUME NEW m, Readable(m), NEW p, InStep(m, p)
    PROVE  EndsProgram(m, p, ProgEnd(m)[p])
<1> DEFINE E == ProgEnd(m)
           T == {d \in Nat : \E x \in Nat : /\ InStep(m, x) /\ Final(m, x) = x + d
                                            /\ ~ EndsProgram(m, x, E[x])}
<1>1. E = [q \in Addresses |-> IF LastStep(m, q) THEN q ELSE E[StepBehind(m, q)]]
  BY LoopsTurn
<1> HIDE DEF E
<1>2. T = {}
  <2> SUFFICES ASSUME T # {} PROVE FALSE
    OBVIOUS
  <2>1. PICK d \in T : \A c \in T : d <= c
    <3>1. T \in SUBSET Nat
      OBVIOUS
    <3> HIDE DEF T
    <3> QED BY <3>1, LeastMember
  <2>2. PICK x \in Nat : InStep(m, x) /\ Final(m, x) = x + d /\ ~ EndsProgram(m, x, E[x])
    BY <2>1
  <2> DEFINE n == Len(getprog(m, x))
             next == do_inc(m, Nowhere, x, FALSE)
             y == x + n
  <2>3. /\ n \in {1, 2} /\ Final(m, x) \in Nat
        /\ y <= Final(m, x) => /\ InStep(m, y) /\ Origin(y) = Origin(x)
                               /\ Region(m, y) = Region(m, x)
        /\ n = 2 => ~ InStep(m, x + 1)
        /\ getprog(m, x) # <<END>> => y <= Final(m, x)
    BY <2>2, StepFacts
  <2>4. E[x] = IF getprog(m, x) = <<END>> \/ next.wrapped THEN x ELSE E[next.pc]
    BY <1>1, <2>2, StepAddress DEF LastStep, StepBehind
  <2>5. y <= Final(m, x) => next = [pc |-> y, wrapped |-> FALSE]
    BY <2>2, IncIs
  <2> HIDE DEF next, n, y
  <2>6. getprog(m, x) # <<END>>
    <3> SUFFICES ASSUME getprog(m, x) = <<END>> PROVE EndsProgram(m, x, E[x])
      BY <2>2
    <3>1. E[x] = x /\ Ending(m, x)
      BY <2>2, <2>4 DEF Ending
    <3>2. x >= x /\ x .. x - 1 = {}
      BY <2>2
    <3> QED BY <2>2, <3>1, <3>2 DEF EndsProgram
  <2>7. E[x] = E[y] /\ InStep(m, y) /\ Origin(y) = Origin(x) /\ Region(m, y) = Region(m, x)
        /\ y <= Final(m, x)
    BY <2>3, <2>4, <2>5, <2>6
  <2>8. y \in Nat /\ y > x
    BY <2>3 DEF y
  <2>9. EndsProgram(m, y, E[y])
    <3> SUFFICES ASSUME ~ EndsProgram(m, y, E[y]) PROVE FALSE
      OBVIOUS
    <3>1. Final(m, y) = Final(m, x)
      BY <2>7 DEF Final
    <3>2. d - (y - x) \in Nat /\ Final(m, y) = y + (d - (y - x)) /\ d - (y - x) < d
      BY <2>1, <2>2, <2>7, <2>8, <3>1
    <3>3. d - (y - x) \in T
      BY <2>7, <2>8, <3>2
    <3> QED BY <2>1, <3>2, <3>3
  <2>10. EndsProgram(m, x, E[y])
    <3>1. E[y] \in Nat /\ E[y] >= y /\ Origin(E[y]) = Origin(y) /\ Ending(m, E[y])
          /\ \A z \in y .. E[y] - 1 : ~ Ending(m, z)
      BY <2>9 DEF EndsProgram
    <3>2. ASSUME NEW z \in x .. E[y] - 1 PROVE ~ Ending(m, z)
      <4>1. z = x \/ (z = x + 1 /\ n = 2) \/ z \in y .. E[y] - 1
        BY <2>3, <3>1 DEF y
      <4> QED BY <2>3, <2>6, <3>1, <4>1 DEF Ending
    <3> QED BY <2>7, <2>8, <3>1, <3>2 DEF EndsProgram
  <2> QED BY <2>2, <2>7, <2>10
<1>3. p \in Nat /\ Final(m, p) - p \in Nat /\ Final(m, p) = p + (Final(m, p) - p)
  <2>1. p \in Nat /\ Final(m, p) \in Nat /\ p <= Final(m, p)
    <3> DEFINE n == Len(getprog(m, p))
    <3>1. p \in Nat /\ Final(m, p) \in Nat /\ n \in {1, 2} /\ p + n - 1 <= Final(m, p)
      BY StepFacts
    <3> HIDE DEF n
    <3> QED BY <3>1
  <2> QED BY <2>1
<1> QED BY <1>2, <1>3 DEF E

LEMMA ProgBeginIs ==
    ASSUME NEW m, Readable(m), NEW p, InStep(m, p)
    PROVE  BeginsProgram(m, p, ProgBegin(m)[p])
<1> DEFINE B == ProgBegin(m)
           T == {x \in Nat : InStep(m, x) /\ ~ BeginsProgram(m, x, B[x])}
<1>1. B = [q \in Addresses |-> IF FirstStep(m, q) THEN q ELSE B[StepBefore(m, q)]]
  BY LoopsTurn
<1> HIDE DEF B
<1>2. T = {}
  <2> SUFFICES ASSUME T # {} PROVE FALSE
    OBVIOUS
  <2>1. PICK x \in T : \A y \in T : x <= y
    <3>1. T \in SUBSET Nat
      OBVIOUS
    <3> HIDE DEF T
    <3> QED BY <3>1, LeastMember
  <2>2. x \in Nat /\ InStep(m, x) /\ ~ BeginsProgram(m, x, B[x])
    BY <2>1
  <2> DEFINE s == Section(m, Nowhere, x, FALSE)
             r == StepBefore(m, x)
             back == do_dec(m, Nowhere, x, FALSE)
             n == Len(getprog(m, r))
  <2>3. x > Origin(x) /\ Origin(x) \in Nat
    BY <2>2, StepFacts
  <2>4. /\ s.top \in Nat /\ s.top \in {Origin(x), Origin(x) + 1}
        /\ s.top = Origin(x) => isRAM(x) /\ s.top = 0
    BY <2>2, SectionIs
  <2>5. B[x] = IF FirstStep(m, x) THEN x ELSE B[r]
    BY <1>1, <2>2, StepAddress
  <2>6. back = Backward(m, s, x)
    BY DEF do_dec
  <2>7. FirstStep(m, x) <=> back.wrapped \/ getprog(m, r) = <<END>>
    BY DEF FirstStep
  <2>8. r = back.pc
    BY DEF StepBefore
  <2> HIDE DEF s, r, back, n
  <2>9. back.wrapped <=> x <= s.top
    BY <2>6 DEF Backward
  <2>10. ~ (x <= s.top) => r = StepOf(m, s.top, x - 1)
    BY <2>6, <2>8 DEF Backward
  <2>11. ASSUME x = Origin(x) + 1 \/ Ending(m, x - 1)
         PROVE  BeginsProgram(m, x, x)
    <3>1. x <= x /\ x .. x - 1 = {}
      BY <2>2
    <3> QED BY <2>2, <2>11, <3>1 DEF BeginsProgram
  <2>12. CASE x <= s.top
    <3>1. x = Origin(x) + 1
      BY <2>2, <2>3, <2>4, <2>12
    <3> QED BY <2>2, <2>5, <2>7, <2>9, <2>11, <2>12, <3>1
  <2>13. CASE x > s.top /\ x - 1 = Origin(x)
    <3>1. s.top = 0 /\ isRAM(x) /\ Origin(x) = 0 /\ x = 1
      <4>1. s.top = Origin(x)
        BY <2>2, <2>3, <2>4, <2>13
      <4> QED BY <2>2, <2>4, <2>13, <4>1
    <3>2. r = StepOf(m, 0, 0) /\ r = 0
      <4>1. r = StepOf(m, 0, 1 - 1) /\ 1 - 1 = 0
        BY <2>4, <2>10, <2>13, <3>1
      <4>2. StepOf(m, 0, 0) = 0
        BY DEF StepOf
      <4> QED BY <4>1, <4>2
    <3>3. getprog(m, 0) = <<END>>
      <4>1. offset(0) = 0 /\ 0 \notin 1 .. Len(Region(m, 0))
        <5>1. isRAM(0)
          BY SizesAre DEF isRAM
        <5> QED BY <5>1 DEF offset
      <4> QED BY <4>1, GetprogIs
    <3> QED BY <2>2, <2>3, <2>5, <2>7, <2>11, <3>1, <3>2, <3>3
  <2>14. CASE x > s.top /\ x - 1 # Origin(x)
    <3>1. x - 1 > Origin(x) /\ s.top < x
      BY <2>2, <2>3, <2>4, <2>14
    <3>2. s.top = Origin(x) \/ InStep(m, s.top)
      <4>1. s.top = Origin(x) + 1 => InStep(m, s.top)
        <5>1. Region(m, x) # << >>
          BY <2>2, StepFacts, EmptySeq
        <5> QED BY <2>2, <5>1, RegionEnds
      <4> QED BY <2>4, <4>1
    <3>3. /\ InStep(m, r) /\ s.top <= r /\ r < x /\ Origin(r) = Origin(x) /\ r + n = x
      BY <2>2, <2>4, <2>10, <2>14, <3>1, <3>2, DecIs DEF n
    <3>4. n \in {1, 2} /\ r \in Nat /\ (n = 2 => ~ InStep(m, r + 1))
      BY <3>3, StepFacts DEF n
    <3>5. CASE getprog(m, r) = <<END>>
      <4>1. n = 1
        BY <3>5 DEF n
      <4>2. x - 1 = r
        BY <3>3, <3>4, <4>1
      <4> QED BY <2>2, <2>5, <2>7, <2>11, <3>3, <3>5, <4>2 DEF Ending
    <3>6. CASE getprog(m, r) # <<END>>
      <4>1. ~ (x <= s.top)
        BY <2>2, <2>4, <2>14
      <4>2. B[x] = B[r]
        BY <2>5, <2>7, <2>9, <3>6, <4>1
      <4>3. BeginsProgram(m, r, B[r])
        <5>1. ~ (x <= r)
          BY <2>2, <3>3, <3>4
        <5> QED BY <2>1, <3>3, <3>4, <5>1
      <4> DEFINE b == B[r]
      <4>4. /\ b \in Nat /\ b <= r /\ Origin(b) = Origin(r) /\ InStep(m, b)
            /\ b = Origin(b) + 1 \/ Ending(m, b - 1)
            /\ \A z \in b .. r - 1 : ~ Ending(m, z)
        BY <4>3 DEF BeginsProgram
      <4> HIDE DEF b
      <4>5. \A z \in b .. x - 1 : ~ Ending(m, z)
        <5> TAKE z \in b .. x - 1
        <5>1. z \in b .. r - 1 \/ z = r \/ (z = r + 1 /\ n = 2)
          BY <3>3, <3>4, <4>4
        <5> QED BY <3>4, <3>6, <4>4, <5>1 DEF Ending
      <4>6. b <= x
        BY <2>2, <3>3, <3>4, <4>4
      <4> QED BY <2>2, <3>3, <4>2, <4>4, <4>5, <4>6 DEF BeginsProgram, b
    <3> QED BY <3>5, <3>6
  <2> QED BY <2>2, <2>3, <2>4, <2>12, <2>13, <2>14
<1>3. p \in Nat
  BY StepFacts
<1> QED BY <1>2, <1>3 DEF B

\* The places the program counter may be at, and its program there.
AtHead(m, p) == p = LIB \/ (p = LIB + 1 /\ m.lib = << >>)
Place(m, p)  == (p = 0 /\ m.runmode = 0) \/ AtHead(m, p) \/ InStep(m, p)
Delimited(m, w) ==
    IF AtHead(m, w.pc) THEN w.begin = w.pc /\ w.end = w.pc
    ELSE InStep(m, w.pc) /\ BeginsProgram(m, w.pc, w.begin) /\ EndsProgram(m, w.pc, w.end)
Located(m, w) ==
    /\ w \in [pc : Nat, begin : Nat, end : Nat]
    /\ Place(m, w.pc)
    /\ m.runmode = 1 => Delimited(m, w)

LEMMA MaxIs == \A x \in Nat : Max({1, x}) = IF x = 0 THEN 1 ELSE x
<1> TAKE x \in Nat
<1> DEFINE y == IF x = 0 THEN 1 ELSE x
<1>1. y \in {1, x} /\ \A z \in {1, x} : y >= z
  OBVIOUS
<1>2. \A u \in {1, x} : (\A z \in {1, x} : u >= z) => u = y
  OBVIOUS
<1> HIDE DEF y
<1>3. Max({1, x}) = CHOOSE u \in {1, x} : \A z \in {1, x} : u >= z
  BY DEF Max
<1>4. Max({1, x}) = y
  BY <1>1, <1>2, <1>3
<1> QED BY <1>4 DEF y

LEMMA Heads ==
    ASSUME NEW m, Readable(m)
    PROVE  /\ \A p : AtHead(m, p) => /\ p \in Nat /\ p \in Addresses /\ p # 0 /\ ~ isRAM(p)
                                     /\ ~ InStep(m, p) /\ getprog(m, p) = <<END>>
                                     /\ offset(p) \notin 1 .. Len(Region(m, p))
           /\ 0 \in Nat /\ 0 \in Addresses /\ isRAM(0) /\ Origin(0) = 0 /\ offset(0) = 0
           /\ ~ InStep(m, 0) /\ getprog(m, 0) = <<END>>
           /\ InStep(m, 1) /\ isRAM(1) /\ m.runmode \in {0, 1}
<1>1. LIB + NUMPROG_FLASH_MAX + 2 \in Nat /\ LIB \in Nat /\ LIB + 1 \in Nat /\ 0 < LIB /\ 1 < LIB
  BY SizesAre
<1>2. isRAM(0) /\ isRAM(1) /\ Origin(0) = 0 /\ offset(0) = 0 /\ ~ isRAM(LIB) /\ ~ isRAM(LIB + 1)
  BY <1>1 DEF isRAM, Origin, offset
<1>3. ASSUME NEW p, AtHead(m, p)
      PROVE  /\ p \in Nat /\ p \in Addresses /\ p # 0 /\ ~ isRAM(p)
             /\ ~ InStep(m, p) /\ getprog(m, p) = <<END>>
             /\ offset(p) \notin 1 .. Len(Region(m, p))
  <2>1. p \in Nat /\ p \in Addresses /\ p # 0 /\ ~ isRAM(p)
    BY <1>1, <1>2, <1>3, SizesAre DEF AtHead, Addresses
  <2>2. offset(p) \notin 1 .. Len(Region(m, p))
    <3>1. CASE p = LIB
      <4>1. offset(p) = 0
        BY <1>1, <2>1, <3>1 DEF offset
      <4> QED BY <4>1
    <3>2. CASE p = LIB + 1 /\ m.lib = << >>
      <4>1. Len(Region(m, p)) = 0
        BY <2>1, <3>2 DEF Region
      <4> QED BY <4>1
    <3> QED BY <1>3, <3>1, <3>2 DEF AtHead
  <2>3. ~ InStep(m, p)
    BY <2>2 DEF InStep, IsStep
  <2>4. getprog(m, p) = <<END>>
    BY <2>1, <2>2, GetprogIs
  <2> QED BY <2>1, <2>2, <2>3, <2>4
<1>4. 0 \in Addresses
  BY <1>1 DEF Addresses
<1>5. ~ InStep(m, 0) /\ getprog(m, 0) = <<END>>
  BY <1>2, GetprogIs DEF InStep, IsStep
<1>6. InStep(m, 1)
  <2>1. Region(m, 0) = m.ram /\ m.ram # << >>
    BY <1>2, EmptySeq DEF Region, Readable, Whole, IsStep
  <2>2. InStep(m, Origin(0) + 1)
    BY <2>1, RegionEnds
  <2> QED BY <1>2, <2>2
<1> QED BY <1>2, <1>3, <1>4, <1>5, <1>6 DEF Readable

\* No step comes before the heads.
LEMMA HeadsBegin ==
    ASSUME NEW m, Readable(m), NEW p, AtHead(m, p) \/ p = 0
    PROVE  do_dec(m, Nowhere, p, FALSE).wrapped
<1> DEFINE s == Section(m, Nowhere, p, FALSE)
<1>1. p \in Nat
  BY Heads
<1>2. s.top = (IF isRAM(p) THEN m.runmode ELSE LIB + 1) /\ s.top \in Nat
  BY <1>1, SectionIs
<1>3. do_dec(m, Nowhere, p, FALSE).wrapped = (p <= s.top)
  BY Zenon DEF do_dec, Backward
<1> HIDE DEF s
<1>4. p <= s.top
  <2>1. CASE p = 0
    BY <1>2, <2>1, Heads
  <2>2. CASE AtHead(m, p)
    <3>1. p = LIB \/ p = LIB + 1
      BY <2>2 DEF AtHead
    <3>2. s.top = LIB + 1
      BY <1>2, <2>2, Heads
    <3> QED BY <3>1, <3>2, SizesAre
  <2> QED BY <2>1, <2>2
<1> QED BY <1>3, <1>4

\* update_program_bounds finds the program the counter is in.
LEMMA BoundsIs ==
    ASSUME NEW m, Readable(m), NEW p, p = 0 \/ Place(m, p)
    PROVE  /\ Bounds(m, p) \in [pc : Nat, begin : Nat, end : Nat]
           /\ Bounds(m, p).pc = (IF p = 0 /\ m.runmode = 1 THEN 1 ELSE p)
           /\ Place(m, Bounds(m, p).pc)
           /\ p # 0 \/ m.runmode = 1 => Delimited(m, Bounds(m, p))
           /\ p = 0 /\ m.runmode = 0 => Bounds(m, p) = [pc |-> 0, begin |-> 1, end |-> 0]
<1> DEFINE h == IF p = 0 /\ m.runmode = 1 THEN 1 ELSE p
           w == Bounds(m, p)
           b == ProgBegin(m)[h]
           e == ProgEnd(m)[h]
<1>1. w = [pc |-> h, begin |-> Max({1, b}), end |-> e]
  BY DEF Bounds
<1>2. Place(m, h) /\ (h = 0 <=> p = 0 /\ m.runmode = 0)
  BY Heads DEF Place
<1>3. CASE InStep(m, h)
  <2>1. BeginsProgram(m, h, b) /\ EndsProgram(m, h, e)
    BY <1>3, ProgBeginIs, ProgEndIs
  <2>2. b \in Nat /\ e \in Nat /\ h \in Nat /\ b # 0 /\ h # 0
    BY <1>3, <2>1, Heads DEF BeginsProgram, EndsProgram, InStep
  <2>3. ~ AtHead(m, h)
    BY <1>3, Heads
  <2> HIDE DEF w, b, e, h
  <2>4. w = [pc |-> h, begin |-> b, end |-> e]
    BY <1>1, <2>2, MaxIs
  <2>5. Delimited(m, w)
    BY <1>3, <2>1, <2>3, <2>4 DEF Delimited
  <2>6. w \in [pc : Nat, begin : Nat, end : Nat] /\ w.pc = h
    BY <2>2, <2>4
  <2> QED BY <1>2, <2>2, <2>5, <2>6 DEF w, h
<1>4. CASE AtHead(m, h) \/ h = 0
  <2>1. h \in Nat /\ h \in Addresses /\ getprog(m, h) = <<END>>
    BY <1>4, Heads
  <2>2. do_dec(m, Nowhere, h, FALSE).wrapped
    BY <1>4, HeadsBegin
  <2>3. LastStep(m, h) /\ FirstStep(m, h)
    BY <2>1, <2>2 DEF LastStep, FirstStep
  <2>4. b = h /\ e = h
    BY <2>1, <2>3, LoopsTurn
  <2> HIDE DEF w, b, e, h
  <2>5. w = [pc |-> h, begin |-> IF h = 0 THEN 1 ELSE h, end |-> h]
    BY <1>1, <2>1, <2>4, MaxIs
  <2>6. w \in [pc : Nat, begin : Nat, end : Nat] /\ w.pc = h
    BY <2>1, <2>5
  <2>7. AtHead(m, h) => Delimited(m, w)
    BY <2>5, <2>6, Heads DEF Delimited
  <2>8. h = 0 => w = [pc |-> 0, begin |-> 1, end |-> 0]
    BY <2>5
  <2> QED BY <1>2, <1>4, <2>6, <2>7, <2>8 DEF w, h
<1> QED BY <1>2, <1>3, <1>4 DEF Place

-----------------------------------------------------------------------------
(* Going from place to place *)

\* set_pc takes any address to a place.
LEMMA SaneIs ==
    ASSUME NEW m, Readable(m), NEW p \in Nat
    PROVE  LET q == Sane(m, p)
           IN  (q = 0 \/ Place(m, q)) /\ (isRAM(q) <=> isRAM(p)) /\ (p > 0 => q > 0)
<1> DEFINE s    == Region(m, p)
           last == Origin(p) + Len(s)
           x    == IF p > last THEN last ELSE p
           top  == Origin(p) + 1
<1>1. Sane(m, p) = StepOf(m, top, x)
  <2>1. CASE isRAM(p)
    <3>1. Origin(p) = 0 /\ s = m.ram
      BY <2>1 DEF Origin, Region
    <3>2. Len(m.ram) = 0 + Len(m.ram) /\ 1 = 0 + 1
      BY LenProperties DEF Readable
    <3> QED BY <2>1, <3>1, <3>2, Zenon DEF Sane
  <2>2. CASE ~ isRAM(p)
    <3>1. Origin(p) = LIB /\ s = m.lib
      BY <2>2 DEF Origin, Region
    <3> QED BY <2>2, <3>1, Zenon DEF Sane
  <2> QED BY <2>1, <2>2
<1>2. /\ Len(s) \in Nat /\ p = Origin(p) + offset(p) /\ offset(p) \in Nat /\ Origin(p) \in Nat
      /\ s # << >> => Len(s) > 0
      /\ isRAM(p) => Len(s) > 0
  BY RegionAligned
<1>3. p >= Origin(p) /\ x \in Origin(p) .. last /\ last \in Nat /\ x \in Nat /\ top \in Nat
  BY <1>2
<1>4. x - Origin(p) \in 0 .. Len(s) + 1
  BY <1>2, <1>3
<1>5. Origin(p) + (x - Origin(p)) = x
  BY <1>2, <1>3
<1>6. /\ x \in Nat /\ (isRAM(x) <=> isRAM(p)) /\ Origin(x) = Origin(p)
      /\ Region(m, x) = s /\ offset(x) = x - Origin(p)
  BY <1>4, <1>5, SameRegion
<1>7. p > 0 /\ isRAM(p) => x > 0
  BY <1>2
<1>8. ~ isRAM(p) => Origin(p) = LIB
  BY DEF Origin
<1>9. isRAM(p) => Origin(p) = 0
  BY DEF Origin
<1>10. CASE x = Origin(p)
  <2>1. ~ (x > top)
    BY <1>2, <1>10
  <2>2. Sane(m, p) = x
    BY <1>1, <2>1 DEF StepOf
  <2>3. x = 0 \/ AtHead(m, x)
    BY <1>8, <1>9, <1>10 DEF AtHead
  <2>4. p > 0 => x > 0
    BY <1>7, <1>8, <1>10, SizesAre
  <2> HIDE DEF x
  <2> QED BY <1>6, <2>2, <2>3, <2>4 DEF Place
<1>11. CASE x # Origin(p)
  <2> HIDE DEF x
  <2>1. x >= top /\ s # << >>
    <3>1. x > Origin(p)
      BY <1>2, <1>3, <1>11
    <3>2. Len(s) > 0
      BY <1>2, <1>3, <3>1
    <3>3. s # << >>
      BY <3>2, EmptySeq
    <3> QED BY <1>2, <1>3, <3>1, <3>3
  <2>2. InStep(m, top) /\ Origin(top) = Origin(p)
    BY <2>1, RegionEnds
  <2>3. offset(x) \in 1 .. Len(Region(m, x))
    <3>1. x - Origin(p) # 0
      BY <1>2, <1>3, <1>11
    <3>2. x - Origin(p) <= Len(s)
      BY <1>2, <1>3
    <3> QED BY <1>2, <1>4, <1>6, <3>1, <3>2
  <2> HIDE DEF top, s
  <2>4. InStep(m, StepOf(m, top, x)) /\ StepOf(m, top, x) \in top .. x
        /\ Origin(StepOf(m, top, x)) = Origin(x)
    BY <1>6, <1>3, <2>1, <2>2, <2>3, StepOfIs
  <2>5. Origin(StepOf(m, top, x)) = Origin(p)
    BY <1>6, <2>4
  <2>6. Origin(StepOf(m, top, x)) = Origin(p) => (isRAM(StepOf(m, top, x)) <=> isRAM(p))
    BY SizesAre DEF Origin
  <2>7. StepOf(m, top, x) > 0
    BY <1>2, <2>4 DEF top
  <2> QED BY <1>1, <2>4, <2>5, <2>6, <2>7 DEF Place
<1> QED BY <1>10, <1>11

\* The bounds hold for every place in them.
LEMMA Reseat ==
    ASSUME NEW m, Readable(m), NEW w \in [pc : Nat, begin : Nat, end : Nat], Delimited(m, w),
           NEW q, Place(m, q), q # 0, q \in w.begin .. w.end
    PROVE  /\ Delimited(m, [w EXCEPT !.pc = q])
           /\ AtHead(m, w.pc) => q = w.pc
           /\ ~ AtHead(m, w.pc) => InStep(m, q) /\ Origin(q) = Origin(w.pc)
<1> DEFINE v == [w EXCEPT !.pc = q]
<1>1. v.pc = q /\ v.begin = w.begin /\ v.end = w.end
  OBVIOUS
<1>2. CASE AtHead(m, w.pc)
  <2>1. q = w.pc
    BY <1>2 DEF Delimited
  <2> QED BY <1>1, <1>2, <2>1 DEF Delimited
<1>3. CASE ~ AtHead(m, w.pc)
  <2>1. /\ InStep(m, w.pc) /\ BeginsProgram(m, w.pc, w.begin) /\ EndsProgram(m, w.pc, w.end)
    BY <1>3 DEF Delimited
  <2>2. /\ w.begin \in Nat /\ w.begin <= w.pc /\ InStep(m, w.begin)
        /\ Origin(w.begin) = Origin(w.pc)
        /\ w.begin = Origin(w.begin) + 1 \/ Ending(m, w.begin - 1)
        /\ \A x \in w.begin .. w.pc - 1 : ~ Ending(m, x)
    BY <2>1 DEF BeginsProgram
  <2>3. /\ w.end \in Nat /\ w.end >= w.pc /\ Ending(m, w.end)
        /\ Origin(w.end) = Origin(w.pc) /\ InStep(m, w.end)
        /\ \A x \in w.pc .. w.end - 1 : ~ Ending(m, x)
    BY <2>1 DEF EndsProgram, Ending
  <2>4. w.begin > Origin(w.pc) /\ Origin(w.pc) \in Nat
    BY <2>2, StepFacts
  <2>5. q \in Nat /\ q >= w.begin /\ q <= w.end
    BY <2>2, <2>3
  <2>6. Origin(q) = Origin(w.pc)
    <3>1. CASE isRAM(w.end)
      <4>1. isRAM(q)
        BY <2>3, <2>5, <3>1, SizesAre DEF isRAM
      <4> QED BY <2>3, <3>1, <4>1 DEF Origin
    <3>2. CASE ~ isRAM(w.end)
      <4>1. Origin(w.pc) = LIB
        BY <2>3, <3>2 DEF Origin
      <4>2. ~ isRAM(q)
        BY <2>4, <2>5, <4>1, SizesAre DEF isRAM
      <4> QED BY <4>1, <4>2 DEF Origin
    <3> QED BY <3>1, <3>2
  <2>7. ~ AtHead(m, q)
    <3> SUFFICES ASSUME AtHead(m, q) PROVE FALSE
      OBVIOUS
    <3>1. q # LIB
      <4>1. q = LIB => Origin(q) = LIB
        BY SizesAre DEF Origin, isRAM
      <4> QED BY <2>4, <2>5, <2>6, <4>1
    <3>2. q = LIB + 1 /\ m.lib = << >>
      BY <3>1 DEF AtHead
    <3>3. ~ isRAM(w.pc)
      <4>1. Origin(q) = LIB /\ LIB > 0
        BY <3>2, SizesAre DEF Origin, isRAM
      <4> QED BY <2>6, <4>1 DEF Origin
    <3>4. Region(m, w.pc) = << >>
      BY <3>2, <3>3 DEF Region
    <3>5. Len(Region(m, w.pc)) \in Nat /\ offset(w.pc) \in 1 .. Len(Region(m, w.pc))
      BY <2>1, StepFacts, RegionAligned
    <3>6. Len(Region(m, w.pc)) = 0
      BY <3>4, EmptySeq
    <3> QED BY <3>5, <3>6
  <2>8. InStep(m, q)
    BY <2>7 DEF Place
  <2>9. \A x \in w.begin .. q - 1 : ~ Ending(m, x)
    <3> TAKE x \in w.begin .. q - 1
    <3>1. x \in w.begin .. w.pc - 1 \/ x \in w.pc .. w.end - 1
      BY <2>2, <2>3, <2>5
    <3> QED BY <2>2, <2>3, <3>1
  <2>10. \A x \in q .. w.end - 1 : ~ Ending(m, x)
    <3> TAKE x \in q .. w.end - 1
    <3>1. x \in w.begin .. w.pc - 1 \/ x \in w.pc .. w.end - 1
      BY <2>2, <2>3, <2>5
    <3> QED BY <2>2, <2>3, <3>1
  <2>11. BeginsProgram(m, q, w.begin)
    BY <2>2, <2>5, <2>6, <2>9 DEF BeginsProgram
  <2>12. EndsProgram(m, q, w.end)
    BY <2>3, <2>5, <2>6, <2>10 DEF EndsProgram
  <2> QED BY <1>1, <1>3, <2>6, <2>7, <2>8, <2>11, <2>12 DEF Delimited
<1> QED BY <1>2, <1>3

\* Where the code goes lies in the program, once the bounds are renewed.
LEMMA RawSetPcIs ==
    ASSUME NEW m, Readable(m), NEW w \in [pc : Nat, begin : Nat, end : Nat],
           NEW p, p = 0 \/ Place(m, p)
    PROVE  /\ raw_set_pc(m, w, p) \in [pc : Nat, begin : Nat, end : Nat]
           /\ raw_set_pc(m, w, p).pc = (IF p = 0 /\ m.runmode = 1 THEN 1 ELSE p)
           /\ Place(m, raw_set_pc(m, w, p).pc)
           /\ m.runmode = 1 => raw_set_pc(m, w, p).pc # 0
           /\ (m.runmode = 1 => Delimited(m, w)) => Located(m, raw_set_pc(m, w, p))
           /\ p # 0 /\ p \in w.begin .. w.end => raw_set_pc(m, w, p) = [w EXCEPT !.pc = p]
<1> DEFINE h == IF p = 0 /\ m.runmode = 1 THEN 1 ELSE p
           v == raw_set_pc(m, w, p)
<1>1. v = IF h \in w.begin .. w.end THEN [w EXCEPT !.pc = h] ELSE Bounds(m, h)
  BY DEF raw_set_pc
<1>2. Place(m, h) /\ h \in Nat /\ (m.runmode = 1 => h # 0)
  BY Heads, StepFacts DEF Place
<1>3. p # 0 => h = p
  OBVIOUS
<1> HIDE DEF v, h
<1>4. CASE h \in w.begin .. w.end
  <2>1. v = [w EXCEPT !.pc = h]
    BY <1>1, <1>4
  <2>2. v \in [pc : Nat, begin : Nat, end : Nat] /\ v.pc = h
    BY <1>2, <2>1
  <2>3. m.runmode = 1 /\ Delimited(m, w) => Delimited(m, v)
    BY <1>2, <1>4, <2>1, Reseat
  <2> QED BY <1>2, <1>3, <2>1, <2>2, <2>3 DEF h, v, Located
<1>5. CASE h \notin w.begin .. w.end
  <2>1. v = Bounds(m, h)
    BY <1>1, <1>5
  <2>2. /\ v \in [pc : Nat, begin : Nat, end : Nat]
        /\ v.pc = (IF h = 0 /\ m.runmode = 1 THEN 1 ELSE h) /\ Place(m, v.pc)
        /\ h # 0 \/ m.runmode = 1 => Delimited(m, v)
    BY <1>2, <2>1, BoundsIs
  <2>3. v.pc = h
    BY <1>2, <2>2
  <2> QED BY <1>2, <1>3, <1>5, <2>2, <2>3 DEF h, v, Located
<1> QED BY <1>4, <1>5

LEMMA SetPcIs ==
    ASSUME NEW m, Readable(m), NEW w \in [pc : Nat, begin : Nat, end : Nat], NEW p \in Nat
    PROVE  /\ set_pc(m, w, p) \in [pc : Nat, begin : Nat, end : Nat]
           /\ Place(m, set_pc(m, w, p).pc)
           /\ m.runmode = 1 => set_pc(m, w, p).pc # 0
           /\ (m.runmode = 1 => Delimited(m, w)) => Located(m, set_pc(m, w, p))
<1>1. Sane(m, p) = 0 \/ Place(m, Sane(m, p))
  BY SaneIs
<1> QED BY <1>1, RawSetPcIs DEF set_pc

\* One step forwards through the memory.
LEMMA IncPlace ==
    ASSUME NEW m, Readable(m), NEW w, NEW p, p = 0 \/ Place(m, p),
           NEW endp \in BOOLEAN, ~ (endp /\ m.runmode = 1)
    PROVE  LET q == do_inc(m, w, p, endp).pc
           IN  (q = 0 \/ Place(m, q)) /\ q \in Nat /\ (isRAM(q) <=> isRAM(p))
<1> DEFINE s == Section(m, w, p, FALSE)
           n == Len(getprog(m, p))
           q == do_inc(m, w, p, endp).pc
<1>1. Section(m, w, p, endp) = s
  BY DEF Section
<1>2. do_inc(m, w, p, endp) = do_inc(m, w, p, FALSE)
  BY <1>1 DEF do_inc
<1>3. do_inc(m, w, p, FALSE).pc = IF p + n > s.bottom THEN s.top ELSE p + n
  BY DEF do_inc, Forward
<1>4. p \in Nat /\ m.runmode \in {0, 1}
  BY Heads, StepFacts DEF Place
<1>5. /\ s.bottom = Final(m, p) /\ s.bottom \in Nat /\ s.top \in Nat
      /\ s.top = (IF isRAM(p) THEN m.runmode ELSE LIB + 1)
  BY <1>4, SectionIs
<1>6. (s.top = 0 \/ Place(m, s.top)) /\ (isRAM(s.top) <=> isRAM(p))
  <2>1. CASE isRAM(p)
    <3>1. s.top \in {0, 1}
      BY <1>4, <1>5, <2>1
    <3> QED BY <2>1, <3>1, Heads DEF Place
  <2>2. CASE ~ isRAM(p)
    <3>1. s.top = LIB + 1
      BY <1>5, <2>2
    <3>4. ~ isRAM(LIB + 1)
      BY SizesAre DEF isRAM
    <3>2. Region(m, p) = m.lib /\ Origin(p) = LIB
      BY <2>2 DEF Region, Origin
    <3>3. m.lib # << >> => InStep(m, LIB + 1)
      BY <1>4, <3>2, RegionEnds
    <3> QED BY <2>2, <3>1, <3>3, <3>4 DEF Place, AtHead
  <2> QED BY <2>1, <2>2
<1> HIDE DEF s
<1>7. CASE InStep(m, p)
  <2>1. n \in {1, 2} /\ Final(m, p) \in Nat
        /\ (p + n <= Final(m, p) => InStep(m, p + n) /\ Origin(p + n) = Origin(p))
    BY <1>7, StepFacts
  <2> HIDE DEF n
  <2>2. CASE p + n <= Final(m, p)
    <3>3. p + n \in Nat /\ ~ (p + n > s.bottom)
      BY <1>4, <1>5, <2>1, <2>2
    <3>1. q = p + n
      BY <1>2, <1>3, <3>3
    <3>2. Origin(q) = Origin(p) => (isRAM(q) <=> isRAM(p))
      BY SizesAre DEF Origin
    <3> QED BY <2>1, <2>2, <3>1, <3>2, <3>3 DEF Place
  <2>3. CASE p + n > Final(m, p)
    <3>1. q = s.top
      BY <1>2, <1>3, <1>5, <2>3
    <3> QED BY <1>5, <1>6, <3>1
  <2>4. p + n \in Nat
    BY <1>4, <2>1
  <2> QED BY <2>1, <2>2, <2>3, <2>4
<1>8. CASE p = 0 \/ AtHead(m, p)
  <2>1. getprog(m, p) = <<END>>
    BY <1>8, Heads
  <2>2. n = 1
    BY <2>1
  <2>3. q = IF p + 1 > Final(m, p) THEN s.top ELSE p + 1
    BY <1>2, <1>3, <1>5, <2>2
  <2>4. ASSUME p + 1 <= Final(m, p)
        PROVE  InStep(m, p + 1) /\ Origin(p + 1) = Origin(p)
    <3>1. p = Origin(p)
      <4>1. CASE p = 0
        BY <4>1, Heads
      <4>2. CASE p = LIB
        BY <4>2, SizesAre DEF Origin, isRAM
      <4>3. CASE p = LIB + 1 /\ m.lib = << >>
        <5>1. Final(m, p) = LIB
          BY <4>3, EmptySeq, SizesAre DEF Final, Region, Origin, isRAM
        <5> QED BY <2>4, <4>3, <5>1, SizesAre
      <4> QED BY <1>8, <4>1, <4>2, <4>3 DEF AtHead
    <3>2. Region(m, p) # << >>
      <4>1. Len(Region(m, p)) \in Nat
        BY <1>4, RegionAligned
      <4>2. Len(Region(m, p)) > 0
        BY <1>4, <2>4, <3>1, <4>1 DEF Final
      <4> QED BY <4>2, EmptySeq
    <3>3. InStep(m, Origin(p) + 1) /\ Origin(Origin(p) + 1) = Origin(p)
      BY <1>4, <3>2, RegionEnds
    <3> QED BY <3>1, <3>3
  <2>5. CASE p + 1 <= Final(m, p)
    <3>1. q = p + 1
      BY <1>4, <1>5, <2>3, <2>5
    <3>2. Origin(q) = Origin(p) => (isRAM(q) <=> isRAM(p))
      BY SizesAre DEF Origin
    <3> QED BY <1>4, <2>4, <2>5, <3>1, <3>2 DEF Place
  <2>6. CASE p + 1 > Final(m, p)
    BY <1>5, <1>6, <2>3, <2>6
  <2> QED BY <1>4, <1>5, <2>5, <2>6
<1> QED BY <1>7, <1>8 DEF Place

\* One step backwards through the memory.
LEMMA DecPlace ==
    ASSUME NEW m, Readable(m), NEW w, NEW p, p = 0 \/ Place(m, p),
           NEW endp \in BOOLEAN, ~ (endp /\ m.runmode = 1)
    PROVE  LET q == do_dec(m, w, p, endp).pc
           IN  (q = 0 \/ Place(m, q)) /\ q \in Nat
<1> DEFINE s == Section(m, w, p, FALSE)
           x == IF p <= s.top THEN s.bottom ELSE p - 1
           q == do_dec(m, w, p, endp).pc
<1>1. Section(m, w, p, endp) = s
  BY DEF Section
<1>2. q = StepOf(m, s.top, x)
  BY <1>1 DEF do_dec, Backward
<1>3. p \in Nat /\ m.runmode \in {0, 1}
  BY Heads, StepFacts DEF Place
<1>4. /\ s.bottom = Final(m, p) /\ s.bottom \in Nat /\ s.top \in Nat
      /\ s.top = (IF isRAM(p) THEN m.runmode ELSE LIB + 1)
      /\ s.top \in {Origin(p), Origin(p) + 1}
      /\ (s.top = Origin(p) => isRAM(p) /\ s.top = 0)
  <2>1. /\ s.bottom = Final(m, p) /\ s.bottom \in Nat /\ s.top \in Nat
        /\ s.top = (IF isRAM(p) THEN m.runmode ELSE LIB + 1)
    BY <1>3, SectionIs
  <2>2. s.top \in {Origin(p), Origin(p) + 1}
    BY <1>3, SectionIs
  <2> HIDE DEF s
  <2>3. s.top = Origin(p) => isRAM(p) /\ s.top = 0
    BY <2>1, SizesAre DEF Origin
  <2> QED BY <2>1, <2>2, <2>3
<1>5. /\ Len(Region(m, p)) \in Nat /\ p = Origin(p) + offset(p)
      /\ offset(p) \in Nat /\ Origin(p) \in Nat
      /\ Final(m, p) = Origin(p) + Len(Region(m, p))
  BY <1>3, RegionAligned DEF Final
<1> HIDE DEF s
<1>6. CASE Region(m, p) = << >>
  <2>1. ~ isRAM(p) /\ Len(Region(m, p)) = 0
    BY <1>3, <1>6, RegionAligned, EmptySeq
  <2>2. Origin(p) = LIB /\ m.lib = << >> /\ s.top = LIB + 1 /\ s.bottom = LIB
    BY <1>4, <1>5, <1>6, <2>1, SizesAre DEF Origin, Region
  <2>3. p = LIB \/ p = LIB + 1
    <3>1. ~ InStep(m, p)
      BY <2>1, StepFacts
    <3>2. p # 0
      BY <2>1, Heads
    <3> QED BY <3>1, <3>2 DEF Place, AtHead
  <2>4. x = LIB
    BY <2>2, <2>3, SizesAre
  <2>5. q = LIB
    BY <1>2, <2>2, <2>4, SizesAre DEF StepOf
  <2> QED BY <2>5, SizesAre DEF Place, AtHead
<1>7. CASE Region(m, p) # << >>
  <2>1. /\ InStep(m, Origin(p) + 1) /\ Final(m, p) > Origin(p)
        /\ InStep(m, Final(m, p)) /\ Origin(Final(m, p)) = Origin(p)
        /\ Origin(Origin(p) + 1) = Origin(p)
    BY <1>3, <1>7, RegionEnds DEF Ending
  <2>2. CASE p <= s.top
    <3>1. x = s.bottom
      BY <2>2
    <3>2. offset(s.bottom) \in 1 .. Len(Region(m, s.bottom))
      BY <1>4, <2>1, StepFacts
    <3>3. s.top <= s.bottom /\ (s.top = Origin(s.bottom) \/ InStep(m, s.top))
      BY <1>4, <1>5, <2>1
    <3>4. InStep(m, StepOf(m, s.top, s.bottom))
      BY <1>4, <3>2, <3>3, StepOfIs
    <3> QED BY <1>2, <3>1, <3>4, StepFacts DEF Place
  <2>3. CASE p > s.top
    <3>1. x = p - 1
      BY <1>3, <1>4, <2>3
    <3>2. InStep(m, p)
      <4>1. p # 0
        BY <1>4, <2>3
      <4>2. p # LIB
        <5>1. p = LIB => s.top = LIB + 1
          BY <1>4, SizesAre DEF isRAM
        <5> QED BY <2>3, <5>1, SizesAre
      <4>3. ~ (p = LIB + 1 /\ m.lib = << >>)
        <5>1. p = LIB + 1 => Region(m, p) = m.lib
          BY SizesAre DEF Region, isRAM
        <5> QED BY <1>7, <5>1
      <4> QED BY <4>1, <4>2, <4>3 DEF Place, AtHead
    <3>3. CASE p - 1 > Origin(p)
      <4>1. InStep(m, StepOf(m, s.top, p - 1))
        <5>1. s.top = Origin(p) \/ InStep(m, s.top)
          BY <1>4, <2>1
        <5> QED BY <1>4, <2>3, <3>2, <3>3, <5>1, DecIs
      <4> QED BY <1>2, <3>1, <4>1, StepFacts DEF Place
    <3>4. CASE ~ (p - 1 > Origin(p))
      <4>1. s.top = 0 /\ p = 1
        <5>1. p > Origin(p)
          BY <3>2, StepFacts
        <5>2. s.top = Origin(p) /\ p = Origin(p) + 1
          BY <1>3, <1>4, <1>5, <2>3, <3>4, <5>1
        <5> QED BY <1>4, <5>2
      <4>2. q = 0
        BY <1>2, <3>1, <4>1 DEF StepOf
      <4> QED BY <4>2
    <3> QED BY <3>3, <3>4
  <2>4. p <= s.top \/ p > s.top
    BY <1>3, <1>4
  <2> QED BY <2>2, <2>3, <2>4
<1> QED BY <1>6, <1>7

\* A step of the program, and those before and behind it.
Within(m, w, p) == Place(m, p) /\ p # 0 /\ p \in w.begin .. w.end

LEMMA WithinIs ==
    ASSUME NEW m, Readable(m), NEW w \in [pc : Nat, begin : Nat, end : Nat], Delimited(m, w)
    PROVE  /\ w.begin > 0 /\ Within(m, w, w.pc) /\ Within(m, w, w.begin) /\ Within(m, w, w.end)
           /\ AtHead(m, w.pc) => w.begin = w.pc /\ w.end = w.pc /\ getprog(m, w.pc) = <<END>>
           /\ ~ AtHead(m, w.pc) =>
                 /\ InStep(m, w.begin) /\ Ending(m, w.end)
                 /\ Origin(w.begin) = Origin(w.pc) /\ Origin(w.end) = Origin(w.pc)
                 /\ \A x \in w.begin .. w.end - 1 : ~ Ending(m, x)
<1>1. CASE AtHead(m, w.pc)
  <2>1. w.pc \in Nat /\ w.pc # 0 /\ w.begin = w.pc /\ w.end = w.pc
        /\ getprog(m, w.pc) = <<END>>
    BY <1>1, Heads DEF Delimited
  <2> QED BY <1>1, <2>1 DEF Within, Place
<1>2. CASE ~ AtHead(m, w.pc)
  <2>1. InStep(m, w.pc) /\ BeginsProgram(m, w.pc, w.begin) /\ EndsProgram(m, w.pc, w.end)
    BY <1>2 DEF Delimited
  <2>2. /\ w.begin <= w.pc /\ InStep(m, w.begin) /\ Origin(w.begin) = Origin(w.pc)
        /\ \A x \in w.begin .. w.pc - 1 : ~ Ending(m, x)
    BY <2>1 DEF BeginsProgram
  <2>3. /\ w.end >= w.pc /\ InStep(m, w.end) /\ Ending(m, w.end)
        /\ Origin(w.end) = Origin(w.pc)
        /\ \A x \in w.pc .. w.end - 1 : ~ Ending(m, x)
    BY <2>1 DEF EndsProgram, Ending
  <2>4. w.begin > 0 /\ w.pc \in Nat /\ w.begin \in Nat /\ w.end \in Nat
    BY <2>1, <2>2, StepFacts
  <2>5. \A x \in w.begin .. w.end - 1 : ~ Ending(m, x)
    <3> TAKE x \in w.begin .. w.end - 1
    <3>1. x \in w.begin .. w.pc - 1 \/ x \in w.pc .. w.end - 1
      BY <2>4
    <3> QED BY <2>2, <2>3, <3>1
  <2> QED BY <1>2, <2>1, <2>2, <2>3, <2>4, <2>5 DEF Within, Place
<1> QED BY <1>1, <1>2

LEMMA IncWithin ==
    ASSUME NEW m, Readable(m), m.runmode = 1,
           NEW w \in [pc : Nat, begin : Nat, end : Nat], Delimited(m, w),
           NEW p, Within(m, w, p)
    PROVE  LET n    == Len(getprog(m, p))
               next == do_inc(m, w, p, TRUE)
           IN  /\ p = w.end => next = [pc |-> w.begin, wrapped |-> TRUE]
               /\ p # w.end => /\ next = [pc |-> p + n, wrapped |-> FALSE]
                               /\ InStep(m, p) /\ InStep(m, p + n)
                               /\ p + n > p /\ getprog(m, p) # <<END>>
               /\ Within(m, w, next.pc)
<1> DEFINE n    == Len(getprog(m, p))
           next == do_inc(m, w, p, TRUE)
<1>1. w.begin > 0 /\ w.begin # 0 /\ Within(m, w, w.begin) /\ p \in Nat
  BY WithinIs DEF Within
<1> DEFINE s == Section(m, w, p, TRUE)
<1>2. s.top = w.begin /\ s.bottom = w.end
  BY <1>1 DEF Section
<1>3. next = IF p + n > w.end THEN [pc |-> w.begin, wrapped |-> TRUE]
             ELSE [pc |-> p + n, wrapped |-> FALSE]
  <2>1. next = IF p + n > s.bottom THEN [pc |-> s.top, wrapped |-> TRUE]
               ELSE [pc |-> p + n, wrapped |-> FALSE]
    BY Zenon DEF do_inc, Forward
  <2> HIDE DEF s, next, n
  <2> QED BY <1>2, <2>1
<1> HIDE DEF next
<1> DEFINE Going ==
        /\ p = w.end => next = [pc |-> w.begin, wrapped |-> TRUE]
        /\ p # w.end => /\ next = [pc |-> p + n, wrapped |-> FALSE]
                        /\ InStep(m, p) /\ InStep(m, p + n)
                        /\ p + n > p /\ getprog(m, p) # <<END>>
        /\ Within(m, w, next.pc)
<1>4. ASSUME p = w.end PROVE Going
  <2>1. getprog(m, p) = <<END>>
    BY <1>4, WithinIs DEF Ending
  <2>2. n = 1
    BY <2>1
  <2> HIDE DEF n
  <2>3. p + n > w.end
    BY <1>1, <1>4, <2>2
  <2>4. next = [pc |-> w.begin, wrapped |-> TRUE]
    BY <1>3, <2>3
  <2> QED BY <1>1, <1>4, <2>4
<1>5. ASSUME p # w.end PROVE Going
  <2>1. ~ AtHead(m, w.pc)
    <3>1. AtHead(m, w.pc) => p = w.pc /\ w.end = w.pc
      BY Reseat, WithinIs DEF Within
    <3> QED BY <1>5, <3>1
  <2>2. InStep(m, p) /\ Origin(p) = Origin(w.pc)
    BY <2>1, Reseat DEF Within
  <2>3. p < w.end /\ InStep(m, w.end) /\ w.end \in Nat /\ Origin(w.end) = Origin(w.pc)
        /\ ~ Ending(m, p) /\ w.begin <= p
    BY <1>1, <1>5, <2>1, WithinIs DEF Within, Ending
  <2>4. n \in {1, 2} /\ p + n <= w.end
    BY <2>2, <2>3, StepFacts, StepsApart
  <2>5. p + n <= Final(m, p)
    <3>1. getprog(m, p) # <<END>>
      BY <2>2, <2>3 DEF Ending
    <3> QED BY <2>2, <3>1, StepFacts
  <2>6. InStep(m, p + n)
    BY <2>2, <2>5, StepFacts
  <2>7. getprog(m, p) # <<END>>
    BY <2>2, <2>3 DEF Ending
  <2> HIDE DEF n
  <2>8. p + n \in Nat /\ p + n > p /\ ~ (p + n > w.end) /\ p + n \in w.begin .. w.end /\ p + n # 0
    BY <1>1, <2>3, <2>4
  <2>9. next = [pc |-> p + n, wrapped |-> FALSE]
    BY <1>3, <2>8
  <2>10. Within(m, w, p + n)
    BY <2>6, <2>8 DEF Within, Place
  <2> QED BY <1>5, <2>2, <2>6, <2>7, <2>8, <2>9, <2>10
<1> QED BY <1>4, <1>5 DEF next

LEMMA DecWithin ==
    ASSUME NEW m, Readable(m), m.runmode = 1,
           NEW w \in [pc : Nat, begin : Nat, end : Nat], Delimited(m, w),
           NEW p, Within(m, w, p)
    PROVE  LET back == do_dec(m, w, p, TRUE)
           IN  /\ p = w.begin => back.pc = w.end /\ back.wrapped
               /\ p # w.begin => /\ back.pc + Len(getprog(m, back.pc)) = p /\ ~ back.wrapped
                                 /\ InStep(m, back.pc) /\ InStep(m, p) /\ back.pc < p
               /\ Within(m, w, back.pc)
<1> DEFINE back == do_dec(m, w, p, TRUE)
<1>1. /\ w.begin > 0 /\ w.begin # 0 /\ Within(m, w, w.end) /\ p \in Nat
      /\ p \in w.begin .. w.end
  BY WithinIs DEF Within
<1> DEFINE s == Section(m, w, p, TRUE)
<1>2. s.top = w.begin /\ s.bottom = w.end
  BY <1>1 DEF Section
<1>3. back.pc = StepOf(m, w.begin, IF p <= w.begin THEN w.end ELSE p - 1)
  <2>1. back.pc = StepOf(m, s.top, IF p <= s.top THEN s.bottom ELSE p - 1)
    BY Zenon DEF do_dec, Backward
  <2> HIDE DEF s, back
  <2> QED BY <1>2, <2>1
<1>4. back.wrapped = (p <= w.begin)
  <2>1. back.wrapped = (p <= s.top)
    BY Zenon DEF do_dec, Backward
  <2> HIDE DEF s, back
  <2> QED BY <1>2, <2>1
<1> HIDE DEF back
<1>5. CASE p = w.begin
  <2>1. back.pc = StepOf(m, w.begin, w.end) /\ back.wrapped
    <3>1. p <= w.begin
      BY <1>1, <1>5
    <3> QED BY <1>3, <1>4, <3>1
  <2>2. CASE AtHead(m, w.pc)
    <3>1. w.end = w.begin
      BY <2>2, WithinIs
    <3>2. back.pc = w.end
      BY <2>1, <3>1 DEF StepOf
    <3> QED BY <1>1, <1>5, <2>1, <3>2 DEF back
  <2>3. CASE ~ AtHead(m, w.pc)
    <3>1. InStep(m, w.begin) /\ InStep(m, w.end) /\ w.end \in Nat /\ w.begin <= w.end
      BY <1>1, <2>3, WithinIs DEF Ending
    <3>2. offset(w.end) \in 1 .. Len(Region(m, w.end))
      BY <3>1, StepFacts
    <3> DEFINE r == StepOf(m, w.begin, w.end)
    <3>3. InStep(m, r) /\ r \in w.begin .. w.end /\ r + Len(getprog(m, r)) > w.end
      BY <3>1, <3>2, StepOfIs
    <3>4. ~ (r < w.end)
      <4> DEFINE n == Len(getprog(m, r))
      <4>1. r \in Nat /\ n \in {1, 2} /\ r + n > w.end
        BY <3>3, StepFacts
      <4>2. r < w.end => r + n <= w.end
        BY <3>1, <3>3, StepsApart
      <4> HIDE DEF n, r
      <4> QED BY <3>1, <4>1, <4>2
    <3>5. r = w.end
      BY <3>1, <3>3, <3>4
    <3> QED BY <1>1, <1>5, <2>1, <3>5 DEF back
  <2> QED BY <2>2, <2>3
<1>6. CASE p # w.begin
  <2>1. ~ AtHead(m, w.pc)
    <3>1. AtHead(m, w.pc) => p = w.pc /\ w.begin = w.pc
      BY Reseat, WithinIs DEF Within
    <3> QED BY <1>6, <3>1
  <2>2. InStep(m, p) /\ Origin(p) = Origin(w.pc)
    BY <2>1, Reseat DEF Within
  <2>3. p > w.begin /\ InStep(m, w.begin) /\ Origin(w.begin) = Origin(w.pc) /\ w.end \in Nat
    BY <1>1, <1>6, <2>1, WithinIs
  <2>4. w.begin > Origin(p) /\ Origin(p) \in Nat
    BY <2>2, <2>3, StepFacts
  <2>5. p - 1 > Origin(p)
    BY <1>1, <2>3, <2>4
  <2> DEFINE r == StepOf(m, w.begin, p - 1)
  <2>6. /\ InStep(m, r) /\ w.begin <= r /\ r < p /\ r + Len(getprog(m, r)) = p
    BY <2>2, <2>3, <2>5, DecIs
  <2>7. ~ (p <= w.begin) /\ r \in Nat
    BY <1>1, <2>3, <2>6, StepFacts
  <2>8. back.pc = r /\ ~ back.wrapped
    BY <1>3, <1>4, <2>7
  <2> HIDE DEF r
  <2>9. r \in w.begin .. w.end /\ r # 0
    BY <1>1, <2>3, <2>6, <2>7
  <2>10. Within(m, w, r)
    BY <2>6, <2>9 DEF Within, Place
  <2> QED BY <1>6, <2>2, <2>6, <2>8, <2>10 DEF back
<1> QED BY <1>5, <1>6 DEF back

\* Going on in the program, or through the memory.
Reached(m, w, endp, p) ==
    IF endp /\ m.runmode = 1 THEN Within(m, w, p) ELSE p = 0 \/ Place(m, p)

LEMMA ReachedOn ==
    ASSUME NEW m, Readable(m), NEW w \in [pc : Nat, begin : Nat, end : Nat],
           m.runmode = 1 => Delimited(m, w),
           NEW endp \in BOOLEAN, NEW p, Reached(m, w, endp, p)
    PROVE  /\ Reached(m, w, endp, do_inc(m, w, p, endp).pc)
           /\ Reached(m, w, endp, do_dec(m, w, p, endp).pc)
           /\ p \in Nat /\ (p = 0 \/ Place(m, p))
           /\ ~ (endp /\ m.runmode = 1) => (isRAM(do_inc(m, w, p, endp).pc) <=> isRAM(p))
<1>1. CASE endp /\ m.runmode = 1
  <2>1. Within(m, w, p) /\ endp = TRUE /\ Delimited(m, w) /\ m.runmode = 1
    BY <1>1 DEF Reached
  <2>2. Within(m, w, do_inc(m, w, p, TRUE).pc)
    BY <2>1, IncWithin
  <2>3. Within(m, w, do_dec(m, w, p, TRUE).pc)
    BY <2>1, DecWithin
  <2>4. p \in Nat
    BY <2>1, Heads, StepFacts DEF Within, Place
  <2> QED BY <1>1, <2>1, <2>2, <2>3, <2>4 DEF Reached, Within
<1>2. CASE ~ (endp /\ m.runmode = 1)
  <2>1. p = 0 \/ Place(m, p)
    BY <1>2 DEF Reached
  <2>2. p \in Nat
    BY <2>1, Heads, StepFacts DEF Place
  <2>3. /\ do_inc(m, w, p, endp).pc = 0 \/ Place(m, do_inc(m, w, p, endp).pc)
        /\ isRAM(do_inc(m, w, p, endp).pc) <=> isRAM(p)
    BY <1>2, <2>1, IncPlace
  <2>4. do_dec(m, w, p, endp).pc = 0 \/ Place(m, do_dec(m, w, p, endp).pc)
    BY <1>2, <2>1, DecPlace
  <2> QED BY <1>2, <2>1, <2>2, <2>3, <2>4 DEF Reached
<1> QED BY <1>1, <1>2

\* The search comes to places only, and finds op or nothing.
LEMMA SearchTurns ==
    ASSUME NEW m, NEW w, NEW p, NEW op, NEW endp
    PROVE  /\ Search(m, w, p, op, endp)[0] = p
           /\ \A k \in Nat \ {0} : Search(m, w, p, op, endp)[k] =
                 Probe(m, w, op, endp, Search(m, w, p, op, endp)[k - 1])
<1> DEFINE S == Search(m, w, p, op, endp)
<1>1. S = [k \in Nat |-> IF k = 0 THEN p ELSE Probe(m, w, op, endp, S[k - 1])]
  BY DEF Search
<1> HIDE DEF S
<1> QED BY <1>1 DEF S

LEMMA SearchReaches ==
    ASSUME NEW m, Readable(m), NEW w \in [pc : Nat, begin : Nat, end : Nat],
           m.runmode = 1 => Delimited(m, w),
           NEW endp \in BOOLEAN, NEW p, Reached(m, w, endp, p), NEW op, NEW k \in Nat
    PROVE  LET q == Search(m, w, p, op, endp)[k]
           IN  /\ Reached(m, w, endp, q)
               /\ ~ (endp /\ m.runmode = 1) => (isRAM(q) <=> isRAM(p))
<1> DEFINE S == Search(m, w, p, op, endp)
           Good(q) == /\ Reached(m, w, endp, q)
                      /\ ~ (endp /\ m.runmode = 1) => (isRAM(q) <=> isRAM(p))
           T == {i \in Nat : ~ Good(S[i])}
<1>1. S[0] = p /\ \A i \in Nat \ {0} : S[i] = Probe(m, w, op, endp, S[i - 1])
  BY SearchTurns
<1> HIDE DEF S
<1>2. T = {}
  <2> SUFFICES ASSUME T # {} PROVE FALSE
    OBVIOUS
  <2>1. T \in SUBSET Nat
    OBVIOUS
  <2> HIDE DEF T
  <2>2. PICK i \in T : \A j \in T : i <= j
    BY <2>1, LeastMember
  <2>3. i \in Nat /\ ~ Good(S[i])
    BY <2>2 DEF T
  <2>4. i # 0
    BY <1>1, <2>3
  <2>5. i - 1 \in Nat /\ ~ (i <= i - 1)
    BY <2>3, <2>4
  <2>6. Good(S[i - 1])
    BY <2>2, <2>5 DEF T
  <2>7. S[i] = Probe(m, w, op, endp, S[i - 1])
    BY <1>1, <2>3, <2>4
  <2>8. S[i] = S[i - 1] \/ S[i] = do_inc(m, w, S[i - 1], endp).pc
    BY <2>7 DEF Probe
  <2>9. Good(do_inc(m, w, S[i - 1], endp).pc)
    BY <2>6, ReachedOn
  <2> HIDE DEF Good
  <2> QED BY <2>3, <2>6, <2>8, <2>9
<1> QED BY <1>2 DEF S

LEMMA FindOpcodeIs ==
    ASSUME NEW m, Readable(m), NEW w \in [pc : Nat, begin : Nat, end : Nat],
           m.runmode = 1 => Delimited(m, w),
           NEW endp \in BOOLEAN, NEW p, Reached(m, w, endp, p), NEW op
    PROVE  LET q == find_opcode_from(m, w, p, op, endp)
           IN  q # 0 => /\ Reached(m, w, endp, q) /\ Place(m, q) /\ q \in Nat
                        /\ getprog(m, q) = op
                        /\ ~ (endp /\ m.runmode = 1) => (isRAM(q) <=> isRAM(p))
<1> DEFINE s == Section(m, w, p, endp)
           k == s.bottom - s.top
           q == find_opcode_from(m, w, p, op, endp)
<1>1. s.bottom \in Nat /\ s.top \in Nat
  <2>1. CASE endp /\ m.runmode = 1
    BY <2>1 DEF Section
  <2>2. CASE ~ (endp /\ m.runmode = 1)
    <3>1. s = Section(m, w, p, FALSE)
      BY <2>2 DEF Section
    <3>2. p \in Nat
      BY ReachedOn
    <3>3. Section(m, w, p, FALSE).bottom \in Nat /\ Section(m, w, p, FALSE).top \in Nat
      BY <3>2, SectionIs
    <3> QED BY <3>1, <3>3
  <2> QED BY <2>1, <2>2
<1>2. q = LET probe == Search(m, w, p, op, endp)[k]
          IN  IF s.bottom >= s.top /\ getprog(m, probe) = op THEN probe ELSE 0
  BY Zenon DEF find_opcode_from
<1> HIDE DEF s, q
<1> SUFFICES ASSUME q # 0
             PROVE  /\ Reached(m, w, endp, q) /\ Place(m, q) /\ q \in Nat
                    /\ getprog(m, q) = op
                    /\ ~ (endp /\ m.runmode = 1) => (isRAM(q) <=> isRAM(p))
  BY DEF q
<1>3. s.bottom >= s.top /\ q = Search(m, w, p, op, endp)[k] /\ getprog(m, q) = op
  BY <1>2
<1>4. k \in Nat
  BY <1>1, <1>3
<1> HIDE DEF k
<1>5. Reached(m, w, endp, q) /\ (~ (endp /\ m.runmode = 1) => (isRAM(q) <=> isRAM(p)))
  BY <1>3, <1>4, SearchReaches
<1>6. q \in Nat /\ (q = 0 \/ Place(m, q))
  BY <1>5, ReachedOn
<1> QED BY <1>3, <1>5, <1>6

-----------------------------------------------------------------------------
(* The program counter's own steps, and those of SKIP and BACK *)

LEMMA ReachedHere ==
    ASSUME NEW m, Readable(m), NEW w, Located(m, w)
    PROVE  /\ w \in [pc : Nat, begin : Nat, end : Nat] /\ Place(m, w.pc)
           /\ m.runmode = 1 => Delimited(m, w) /\ Within(m, w, w.pc)
           /\ Reached(m, w, TRUE, w.pc) /\ Reached(m, w, FALSE, w.pc)
<1>1. w \in [pc : Nat, begin : Nat, end : Nat] /\ Place(m, w.pc)
      /\ (m.runmode = 1 => Delimited(m, w))
  BY DEF Located
<1>2. m.runmode = 1 => Within(m, w, w.pc)
  BY <1>1, WithinIs
<1> QED BY <1>1, <1>2 DEF Reached

\* Where a step of the counter leads, the bounds being those of the same program.
LEMMA RawSetPcWithin ==
    ASSUME NEW m, Readable(m), m.runmode = 1, NEW w, Located(m, w), NEW p, Within(m, w, p)
    PROVE  /\ raw_set_pc(m, w, p) = [w EXCEPT !.pc = p]
           /\ Located(m, raw_set_pc(m, w, p))
<1>1. w \in [pc : Nat, begin : Nat, end : Nat] /\ Delimited(m, w)
  BY ReachedHere
<1>2. Place(m, p) /\ p # 0 /\ p \in w.begin .. w.end
  BY DEF Within
<1>3. raw_set_pc(m, w, p) = [w EXCEPT !.pc = p]
  BY <1>2 DEF raw_set_pc
<1>4. Located(m, raw_set_pc(m, w, p))
  BY <1>1, <1>2, RawSetPcIs
<1> QED BY <1>3, <1>4

LEMMA PcMoves ==
    ASSUME NEW m, Readable(m), NEW w, Located(m, w)
    PROVE  /\ Located(m, incpc(m, w)) /\ Located(m, decpc(m, w))
           /\ m.runmode = 1 =>
                 /\ Within(m, w, do_inc(m, w, w.pc, TRUE).pc)
                 /\ Within(m, w, do_dec(m, w, w.pc, TRUE).pc)
                 /\ incpc(m, w) = [w EXCEPT !.pc = do_inc(m, w, w.pc, TRUE).pc]
                 /\ decpc(m, w) = [w EXCEPT !.pc = do_dec(m, w, w.pc, TRUE).pc]
<1> DEFINE p == do_inc(m, w, w.pc, TRUE).pc
           q == do_dec(m, w, w.pc, TRUE).pc
<1>1. w \in [pc : Nat, begin : Nat, end : Nat] /\ (m.runmode = 1 => Delimited(m, w))
      /\ Reached(m, w, TRUE, w.pc)
  BY ReachedHere
<1>2. Reached(m, w, TRUE, p) /\ Reached(m, w, TRUE, q)
  BY <1>1, ReachedOn
<1>3. (p = 0 \/ Place(m, p)) /\ (q = 0 \/ Place(m, q))
  BY <1>1, <1>2, ReachedOn
<1>4. incpc(m, w) = raw_set_pc(m, w, p) /\ decpc(m, w) = raw_set_pc(m, w, q)
  BY DEF incpc, decpc
<1> HIDE DEF p, q
<1>5. Located(m, incpc(m, w)) /\ Located(m, decpc(m, w))
  BY <1>1, <1>3, <1>4, RawSetPcIs
<1>6. ASSUME m.runmode = 1
      PROVE  /\ Within(m, w, p) /\ incpc(m, w) = [w EXCEPT !.pc = p]
             /\ Within(m, w, q) /\ decpc(m, w) = [w EXCEPT !.pc = q]
  <2>1. Within(m, w, p) /\ Within(m, w, q)
    BY <1>2, <1>6 DEF Reached
  <2> QED BY <1>4, <1>6, <2>1, RawSetPcWithin
<1> QED BY <1>5, <1>6 DEF p, q

\* v is a place of the program w is in.
Home(m, w, v) == Located(m, v) /\ v.begin = w.begin /\ v.end = w.end

LEMMA HomeMoves ==
    ASSUME NEW m, Readable(m), m.runmode = 1, NEW w, Located(m, w)
    PROVE  /\ Home(m, w, w)
           /\ \A v : Home(m, w, v) => Home(m, w, incpc(m, v)) /\ Home(m, w, decpc(m, v))
           /\ \A v : Home(m, w, v) => Within(m, w, v.pc) /\ v.pc # 0
<1>1. Home(m, w, w)
  BY DEF Home
<1>2. ASSUME NEW v, Home(m, w, v)
      PROVE  /\ Home(m, w, incpc(m, v)) /\ Home(m, w, decpc(m, v))
             /\ Within(m, w, v.pc) /\ v.pc # 0
  <2>1. Located(m, v) /\ v.begin = w.begin /\ v.end = w.end
    BY <1>2 DEF Home
  <2>2. v \in [pc : Nat, begin : Nat, end : Nat] /\ Within(m, v, v.pc)
    BY <2>1, ReachedHere
  <2>3. Located(m, incpc(m, v)) /\ Located(m, decpc(m, v))
    BY <2>1, PcMoves
  <2>4. /\ incpc(m, v) = [v EXCEPT !.pc = do_inc(m, v, v.pc, TRUE).pc]
        /\ decpc(m, v) = [v EXCEPT !.pc = do_dec(m, v, v.pc, TRUE).pc]
    BY <2>1, PcMoves
  <2>5. /\ incpc(m, v).begin = v.begin /\ incpc(m, v).end = v.end
        /\ decpc(m, v).begin = v.begin /\ decpc(m, v).end = v.end
    BY <2>2, <2>4
  <2> QED BY <2>1, <2>2, <2>3, <2>5 DEF Home, Within
<1> QED BY <1>1, <1>2

LEMMA IncUnlessLastHome ==
    ASSUME NEW m, Readable(m), m.runmode = 1, NEW w, Located(m, w)
    PROVE  Home(m, w, IncUnlessLast(m, w))
BY HomeMoves, Zenon DEF IncUnlessLast

LEMMA AheadHome ==
    ASSUME Readable(M), runmode = 1, NEW w, Located(M, w), NEW n \in Nat
    PROVE  Home(M, w, Ahead(w, n).at)
<1> DEFINE G == StepsAhead(w)
           T == {i \in Nat : ~ Home(M, w, G[i].at)}
<1>1. G = [k \in Nat |-> IF k = 0 THEN Unmoved(w) ELSE OneOn(G[k - 1])]
  BY DEF StepsAhead
<1>2. M.runmode = 1
  BY DEF M
<1> HIDE DEF G
<1>3. T = {}
  <2> SUFFICES ASSUME T # {} PROVE FALSE
    OBVIOUS
  <2>1. T \in SUBSET Nat
    OBVIOUS
  <2> HIDE DEF T
  <2>2. PICK i \in T : \A j \in T : i <= j
    BY <2>1, LeastMember
  <2>3. i \in Nat /\ ~ Home(M, w, G[i].at)
    BY <2>2 DEF T
  <2>4. i # 0
    <3>1. G[0] = Unmoved(w)
      BY <1>1
    <3>2. G[0].at = w
      BY <3>1 DEF Unmoved
    <3> QED BY <1>2, <2>3, <3>2, HomeMoves
  <2>5. i - 1 \in Nat /\ ~ (i <= i - 1)
    BY <2>3, <2>4
  <2>6. Home(M, w, G[i - 1].at)
    BY <2>2, <2>5 DEF T
  <2>7. G[i] = OneOn(G[i - 1])
    BY <1>1, <2>3, <2>4
  <2>8. G[i].at = G[i - 1].at \/ G[i].at = incpc(M, G[i - 1].at)
    BY <2>7 DEF OneOn
  <2> QED BY <1>2, <2>3, <2>6, <2>8, HomeMoves
<1> QED BY <1>3 DEF G, Ahead

LEMMA StepsBackWithin ==
    ASSUME Readable(M), runmode = 1, NEW w, Located(M, w), NEW by, NEW n \in Nat
    PROVE  Within(M, w, StepsBack(by, w)[n].pc)
<1> DEFINE G == StepsBack(by, w)
           T == {i \in Nat : ~ Within(M, w, G[i].pc)}
<1>1. G = [k \in Nat |-> IF k = 0 THEN OwnStep(by, w) ELSE OneBack(w, G[k - 1])]
  BY DEF StepsBack
<1>2. M.runmode = 1
  BY DEF M
<1> HIDE DEF G
<1>3. Within(M, w, w.pc) /\ Within(M, w, do_dec(M, w, w.pc, TRUE).pc)
      /\ w \in [pc : Nat, begin : Nat, end : Nat] /\ Delimited(M, w)
  BY <1>2, ReachedHere, PcMoves
<1>4. T = {}
  <2> SUFFICES ASSUME T # {} PROVE FALSE
    OBVIOUS
  <2>1. T \in SUBSET Nat
    OBVIOUS
  <2> HIDE DEF T
  <2>2. PICK i \in T : \A j \in T : i <= j
    BY <2>1, LeastMember
  <2>3. i \in Nat /\ ~ Within(M, w, G[i].pc)
    BY <2>2 DEF T
  <2>4. i # 0
    <3>1. G[0] = OwnStep(by, w)
      BY <1>1
    <3>2. G[0].pc = IF by = "key" THEN w.pc ELSE do_dec(M, w, w.pc, TRUE).pc
      BY <3>1 DEF OwnStep
    <3> QED BY <1>3, <2>3, <3>2
  <2>5. i - 1 \in Nat /\ ~ (i <= i - 1)
    BY <2>3, <2>4
  <2>6. Within(M, w, G[i - 1].pc)
    BY <2>2, <2>5 DEF T
  <2>7. G[i] = OneBack(w, G[i - 1])
    BY <1>1, <2>3, <2>4
  <2>8. G[i].pc = G[i - 1].pc \/ G[i].pc = do_dec(M, w, G[i - 1].pc, TRUE).pc
    BY <2>7 DEF OneBack
  <2> QED BY <1>2, <1>3, <2>3, <2>6, <2>8, DecWithin
<1> QED BY <1>4 DEF G

-----------------------------------------------------------------------------
(* The inductive invariant: between two commands the memory consists of whole   *)
(* programs, the counter is at a place of it with its program's bounds, and the  *)
(* return addresses are places.                                                  *)

Returning(m, r) ==
    /\ r \in Seq(Nat) /\ Len(r) <= MAX_RETURNS
    /\ \A i \in 1 .. Len(r) : r[i] > 0 /\ Place(m, r[i])

IInv ==
    /\ Readable(M)
    /\ Located(M, at)
    /\ Running \in BOOLEAN /\ (Running => runmode = 1)
    /\ Returning(M, rets)

LEMMA Returns ==
    ASSUME NEW m, NEW p \in Nat, p > 0, Place(m, p)
    PROVE  /\ Returning(m, << >>) /\ Returning(m, <<p>>)
           /\ \A r : Returning(m, r) /\ Len(r) < MAX_RETURNS => Returning(m, Append(r, p))
<1>1. Returning(m, << >>)
  BY SizesAre, EmptySeq DEF Returning
<1>2. Returning(m, <<p>>)
  <2>1. Len(<<p>>) = 1 /\ <<p>>[1] = p /\ <<p>> \in Seq(Nat)
    OBVIOUS
  <2> QED BY <2>1, SizesAre DEF Returning
<1>3. ASSUME NEW r, Returning(m, r), Len(r) < MAX_RETURNS
      PROVE  Returning(m, Append(r, p))
  <2>1. r \in Seq(Nat) /\ Len(r) \in Nat /\ \A i \in 1 .. Len(r) : r[i] > 0 /\ Place(m, r[i])
    BY <1>3, LenProperties DEF Returning
  <2>2. /\ Append(r, p) \in Seq(Nat) /\ Len(Append(r, p)) = Len(r) + 1
        /\ \A i \in 1 .. Len(r) : Append(r, p)[i] = r[i]
        /\ Append(r, p)[Len(r) + 1] = p
    BY <2>1, AppendProperties
  <2>3. Len(Append(r, p)) <= MAX_RETURNS
    BY <1>3, <2>1, <2>2, SizesAre
  <2>4. \A i \in 1 .. Len(Append(r, p)) : i \in 1 .. Len(r) \/ i = Len(r) + 1
    BY <2>1, <2>2
  <2> QED BY <2>1, <2>2, <2>3, <2>4 DEF Returning
<1> QED BY <1>1, <1>2, <1>3

LEMMA ReturnsFront ==
    ASSUME NEW m, NEW r, Returning(m, r), r # << >>
    PROVE  /\ Returning(m, Front(r)) /\ Last(r) \in Nat /\ Last(r) > 0 /\ Place(m, Last(r))
           /\ Len(r) > 0
<1>1. r \in Seq(Nat) /\ Len(r) \in Nat /\ \A i \in 1 .. Len(r) : r[i] > 0 /\ Place(m, r[i])
  BY LenProperties DEF Returning
<1>2. Len(r) > 0
  BY <1>1, EmptySeq
<1>3. Last(r) = r[Len(r)] /\ Len(r) \in 1 .. Len(r)
  BY <1>1, <1>2 DEF Last
<1>4. r[Len(r)] \in Nat
  BY <1>1, <1>3, ElementOfSeq
<1>5. /\ Front(r) \in Seq(Nat) /\ Len(Front(r)) = Len(r) - 1
      /\ \A i \in 1 .. Len(r) - 1 : Front(r)[i] = r[i]
  <2>1. Front(r) = SubSeq(r, 1, Len(r) - 1)
    BY DEF Front
  <2>2. \A i \in 1 .. Len(r) - 1 : r[i] \in Nat
    BY <1>1, ElementOfSeq
  <2>3. /\ SubSeq(r, 1, Len(r) - 1) \in Seq(Nat)
        /\ Len(SubSeq(r, 1, Len(r) - 1)) = (IF 1 <= Len(r) - 1 THEN (Len(r) - 1) - 1 + 1 ELSE 0)
        /\ \A i \in 1 .. (Len(r) - 1) - 1 + 1 : SubSeq(r, 1, Len(r) - 1)[i] = r[1 + i - 1]
    BY <1>1, <2>2, SubSeqProperties
  <2>4. \A i \in 1 .. Len(r) - 1 : i \in 1 .. (Len(r) - 1) - 1 + 1 /\ 1 + i - 1 = i
    BY <1>1
  <2>5. Len(SubSeq(r, 1, Len(r) - 1)) = Len(r) - 1
    <3> DEFINE n == Len(r)
               k == Len(SubSeq(r, 1, Len(r) - 1))
    <3>1. n \in Nat /\ n > 0 /\ k = IF 1 <= n - 1 THEN (n - 1) - 1 + 1 ELSE 0
      BY <1>1, <1>2, <2>3
    <3> HIDE DEF n, k
    <3>2. k = n - 1
      BY <3>1
    <3> QED BY <3>2 DEF n, k
  <2>6. \A i \in 1 .. Len(r) - 1 : SubSeq(r, 1, Len(r) - 1)[i] = r[i]
    <3> TAKE i \in 1 .. Len(r) - 1
    <3> QED BY <2>3, <2>4
  <2> QED BY <2>1, <2>3, <2>5, <2>6
<1>6. Len(Front(r)) <= MAX_RETURNS
  BY <1>1, <1>5, SizesAre DEF Returning
<1> QED BY SMTT(30), <1>1, <1>2, <1>3, <1>4, <1>5, <1>6 DEF Returning

\* What IInv says while programs are executed.
LEMMA Executing ==
    ASSUME IInv, NEW by, Executes(by)
    PROVE  /\ Readable(M) /\ M.runmode = 1 /\ runmode = 1 /\ Located(M, at) /\ M' = M
           /\ Located(M, Behind(by)) /\ Home(M, at, Behind(by))
           /\ Behind(by).pc \in Nat /\ Behind(by).pc > 0 /\ Place(M, Behind(by).pc)
           /\ at.pc \in Nat /\ at.pc > 0 /\ Place(M, at.pc)
           /\ Behind(by) \in [pc : Nat, begin : Nat, end : Nat] /\ Delimited(M, Behind(by))
<1>1. Readable(M) /\ Located(M, at) /\ runmode = 1 /\ UNCHANGED <<ram, lib, runmode>>
  BY DEF IInv, Executes
<1>2. M.runmode = 1 /\ M' = M
  BY <1>1 DEF M
<1>3. Home(M, at, Behind(by))
  BY <1>1, <1>2, HomeMoves DEF Behind
<1>4. Located(M, Behind(by))
  BY <1>3 DEF Home
<1>5. ASSUME NEW v, Located(M, v)
      PROVE  /\ v.pc \in Nat /\ v.pc > 0 /\ Place(M, v.pc)
             /\ v \in [pc : Nat, begin : Nat, end : Nat] /\ Delimited(M, v)
  <2>1. v \in [pc : Nat, begin : Nat, end : Nat] /\ Within(M, v, v.pc) /\ Delimited(M, v)
    BY <1>1, <1>2, <1>5, ReachedHere
  <2>2. v.pc \in Nat /\ v.pc # 0
    BY <2>1 DEF Within
  <2> QED BY <2>1, <2>2 DEF Within
<1> QED BY <1>1, <1>2, <1>3, <1>4, <1>5

\* A jump to a place.
LEMMA JumpIs ==
    ASSUME IInv, NEW by, Executes(by), NEW gsb \in BOOLEAN,
           NEW w1, Located(M, w1), Jump(by, gsb, Behind(by), w1)
    PROVE  Located(M, at') /\ Running' \in BOOLEAN /\ Returning(M, rets')
<1>1. at' = w1 /\ Running' \in BOOLEAN
  BY DEF Jump
<1>2. CASE ~ gsb
  BY <1>1, <1>2 DEF Jump, IInv
<1>3. CASE gsb
  <2>1. rets' = Pushed(by, Behind(by), w1) /\ (by # "key" => Len(rets) < MAX_RETURNS)
    BY <1>3 DEF Jump
  <2>2. Behind(by).pc \in Nat /\ Behind(by).pc > 0 /\ Place(M, Behind(by).pc)
        /\ Readable(M) /\ M.runmode = 1
    BY Executing
  <2>3. Home(M, w1, w1)
    BY <2>2, HomeMoves
  <2>4. w1.pc \in Nat /\ w1.pc > 0 /\ Place(M, w1.pc)
    <3>1. w1.pc \in Nat /\ Place(M, w1.pc)
      BY DEF Located
    <3>2. w1.pc # 0
      BY <2>2, <2>3, HomeMoves
    <3> QED BY <3>1, <3>2
  <2>5. Returning(M, rets)
    BY DEF IInv
  <2>6. CASE by = "key"
    <3>1. rets' = <<w1.pc>> \/ rets' = <<Behind(by).pc>>
      BY <2>1, <2>6 DEF Pushed
    <3> QED BY <1>1, <2>2, <2>4, <3>1, Returns
  <2>7. CASE by # "key"
    <3>1. rets' = Append(rets, Behind(by).pc) /\ Len(rets) < MAX_RETURNS
      BY <2>1, <2>7 DEF Pushed
    <3> QED BY <1>1, <2>2, <2>5, <3>1, Returns
  <2> QED BY <2>6, <2>7
<1> QED BY <1>2, <1>3

LEMMA GsbgtoIs ==
    ASSUME IInv, NEW by, Executes(by), NEW gsb \in BOOLEAN, NEW p, p = 0 \/ Place(M, p),
           gsbgto(by, gsb, p)
    PROVE  Located(M, at') /\ Running' \in BOOLEAN /\ Returning(M, rets')
<1>1. Readable(M) /\ Behind(by) \in [pc : Nat, begin : Nat, end : Nat] /\ Delimited(M, Behind(by))
  BY Executing
<1>2. Located(M, raw_set_pc(M, Behind(by), p))
  BY <1>1, RawSetPcIs
<1> QED BY <1>2, JumpIs DEF gsbgto

LEMMA LabelsReached ==
    ASSUME IInv, NEW by, Executes(by), NEW label
    PROVE  LET q == findmultilbl(M, Behind(by), label) IN q # 0 => Place(M, q)
<1> DEFINE w == Behind(by)
           a == find_opcode_from(M, w, 0, label, FALSE)
           b == find_opcode_from(M, w, LIB, label, FALSE)
<1>1. Readable(M) /\ w \in [pc : Nat, begin : Nat, end : Nat] /\ Delimited(M, w)
  BY Executing
<1>2. Reached(M, w, FALSE, 0) /\ Reached(M, w, FALSE, LIB)
  BY DEF Reached, Place, AtHead
<1>3. a # 0 => Place(M, a)
  BY <1>1, <1>2, FindOpcodeIs
<1>4. b # 0 => Place(M, b)
  BY <1>1, <1>2, FindOpcodeIs
<1>5. findmultilbl(M, w, label) = IF a # 0 THEN a ELSE b
  BY DEF findmultilbl
<1> QED BY <1>3, <1>4, <1>5

LEMMA SkipIs ==
    ASSUME IInv, NEW by, Executes(by), NEW gsb \in BOOLEAN, NEW n \in Nat, cmdskip(by, gsb, n)
    PROVE  Located(M, at') /\ Running' \in BOOLEAN /\ Returning(M, rets')
<1> DEFINE w    == Behind(by)
           dest == Ahead(w, n)
<1>1. SkipTo(by, gsb, n, w, dest)
  BY DEF cmdskip
<1>2. Readable(M) /\ M.runmode = 1 /\ runmode = 1 /\ Located(M, w)
      /\ w.pc \in Nat /\ w.pc > 0 /\ Place(M, w.pc)
  BY Executing
<1>3. Home(M, w, dest.at)
  BY <1>2, AheadHome
<1>4. Located(M, dest.at) /\ Place(M, dest.at.pc)
  BY <1>3 DEF Home, Located
<1> HIDE DEF dest
<1>5. CASE ~ dest.wrapped /\ gsbgto(by, gsb, dest.at.pc)
  BY <1>4, <1>5, GsbgtoIs
<1>6. CASE ~ (~ dest.wrapped /\ gsbgto(by, gsb, dest.at.pc))
  <2>1. /\ gsb /\ by # "key" => Len(rets) < MAX_RETURNS
        /\ at' = ErrorAt(IF gsb THEN "run" ELSE by, w)
        /\ rets' = IF gsb THEN Pushed(by, w, w) ELSE rets
        /\ Running' = FALSE
    BY <1>1, <1>6 DEF SkipTo
  <2>2. at' = w \/ at' = decpc(M, w)
    BY <2>1 DEF ErrorAt
  <2>3. Located(M, at')
    <3>1. Located(M, decpc(M, w))
      BY <1>2, PcMoves
    <3> QED BY <1>2, <2>2, <3>1
  <2>4. Returning(M, rets)
    BY DEF IInv
  <2>5. CASE gsb
    <3>1. CASE by = "key"
      <4>1. rets' = <<w.pc>>
        BY <2>1, <2>5, <3>1 DEF Pushed
      <4> QED BY <1>2, <2>1, <2>3, <4>1, Returns
    <3>2. CASE by # "key"
      <4>1. rets' = Append(rets, w.pc) /\ Len(rets) < MAX_RETURNS
        BY <2>1, <2>5, <3>2 DEF Pushed
      <4> QED BY <1>2, <2>1, <2>3, <2>4, <4>1, Returns
    <3> QED BY <3>1, <3>2
  <2>6. CASE ~ gsb
    BY <2>1, <2>3, <2>4, <2>6
  <2> QED BY <2>5, <2>6
<1> QED BY <1>5, <1>6

LEMMA BackIs ==
    ASSUME IInv, NEW by, Executes(by), NEW gsb \in BOOLEAN, NEW n \in Nat, cmdback(by, gsb, n)
    PROVE  Located(M, at') /\ Running' \in BOOLEAN /\ Returning(M, rets')
<1> DEFINE w == Behind(by)
<1>1. Readable(M) /\ M.runmode = 1 /\ runmode = 1 /\ Located(M, w) /\ Place(M, w.pc)
  BY Executing
<1>2. CASE n = 0
  <2>1. gsbgto(by, gsb, w.pc)
    BY <1>2 DEF cmdback
  <2> QED BY <1>1, <2>1, GsbgtoIs
<1>3. CASE n # 0
  <2>1. gsbgto(by, gsb, StepsBack(by, w)[n].pc)
    BY <1>3 DEF cmdback, BackTo
  <2>2. Place(M, StepsBack(by, w)[n].pc)
    BY <1>1, StepsBackWithin DEF Within
  <2> QED BY <2>1, <2>2, GsbgtoIs
<1> QED BY <1>2, <1>3

LEMMA RtnIs ==
    ASSUME IInv, NEW by, Executes(by), NEW plus1 \in BOOLEAN, do_rtn(by, plus1)
    PROVE  Located(M, at') /\ Running' \in BOOLEAN /\ Returning(M, rets')
<1> DEFINE w == Behind(by)
<1>1. /\ Readable(M) /\ M.runmode = 1 /\ Located(M, w) /\ Delimited(M, w)
      /\ w \in [pc : Nat, begin : Nat, end : Nat]
  BY Executing
<1>2. Returning(M, rets)
  BY DEF IInv
<1>3. CASE rets = << >>
  <2>1. at' = raw_set_pc(M, w, w.begin) /\ Running' = FALSE /\ rets' = rets
    BY <1>3 DEF do_rtn
  <2>2. Place(M, w.begin)
    BY <1>1, WithinIs DEF Within
  <2>3. Located(M, at')
    BY <1>1, <2>1, <2>2, RawSetPcIs
  <2> QED BY <1>2, <2>1, <2>3
<1>4. CASE rets # << >>
  <2> DEFINE back == raw_set_pc(M, w, Last(rets))
  <2>1. /\ at' = (IF plus1 THEN IncUnlessLast(M, back) ELSE back)
        /\ rets' = Front(rets) /\ Running' = (by = "run" /\ Len(rets) > 1)
    BY <1>4 DEF do_rtn
  <2>2. Returning(M, Front(rets)) /\ Place(M, Last(rets))
    BY <1>2, <1>4, ReturnsFront
  <2>3. Located(M, back)
    BY <1>1, <2>2, RawSetPcIs
  <2>4. Located(M, IncUnlessLast(M, back))
    BY <1>1, <2>3, IncUnlessLastHome DEF Home
  <2> HIDE DEF back
  <2>5. Located(M, at')
    BY <2>1, <2>3, <2>4
  <2> QED BY <2>1, <2>2, <2>5
<1> QED BY <1>3, <1>4

LEMMA CommandIs ==
    ASSUME IInv, NEW by, Executes(by), Command(by)
    PROVE  Located(M, at') /\ Running' \in BOOLEAN /\ Returning(M, rets')
<1> DEFINE w == Behind(by)
<1>1. /\ Readable(M) /\ M.runmode = 1 /\ Located(M, w) /\ Delimited(M, w)
      /\ w \in [pc : Nat, begin : Nat, end : Nat]
      /\ at.pc \in Nat /\ at.pc > 0 /\ Place(M, at.pc)
  BY Executing
<1>2. Returning(M, rets)
  BY DEF IInv
<1>3. CASE Plain(by)
  BY <1>1, <1>2, <1>3 DEF Plain
<1>4. CASE fin_tst(by)
  <2>1. at' = IncUnlessLast(M, w) /\ Running' \in BOOLEAN /\ rets' = rets
    BY <1>4 DEF fin_tst
  <2> QED BY <1>1, <1>2, <2>1, IncUnlessLastHome DEF Home
<1>5. CASE Fail(by)
  <2>1. (at' = w \/ at' = decpc(M, w)) /\ Running' \in BOOLEAN /\ rets' = rets
    BY <1>5 DEF Fail, ErrorAt
  <2>2. Located(M, decpc(M, w))
    BY <1>1, PcMoves
  <2> QED BY <1>1, <1>2, <2>1, <2>2
<1>6. CASE op_rs(by)
  <2>1. at' = w /\ Running' \in BOOLEAN /\ (rets' = rets \/ rets' = <<at.pc>>)
    BY <1>6 DEF op_rs
  <2> QED BY <1>1, <1>2, <2>1, Returns
<1>7. ASSUME NEW gsb \in BOOLEAN, cmdgto(by, gsb)
      PROVE  Located(M, at') /\ Running' \in BOOLEAN /\ Returning(M, rets')
  <2> DEFINE q == find_opcode_from(M, w, w.pc, <<LBL>>, TRUE)
  <2>1. q # 0 /\ gsbgto(by, gsb, q)
    BY <1>7 DEF cmdgto, Reach
  <2>2. Reached(M, w, TRUE, w.pc)
    BY <1>1, ReachedHere
  <2>3. Place(M, q)
    BY <1>1, <2>1, <2>2, FindOpcodeIs
  <2> HIDE DEF q
  <2> QED BY <2>1, <2>3, GsbgtoIs
<1>8. ASSUME NEW gsb \in BOOLEAN, NEW label \in Labels, cmdmultigto(by, gsb, label)
      PROVE  Located(M, at') /\ Running' \in BOOLEAN /\ Returning(M, rets')
  <2> DEFINE q == findmultilbl(M, w, label)
  <2>1. q # 0 /\ gsbgto(by, gsb, q)
    BY <1>8 DEF cmdmultigto, Reach
  <2>2. Place(M, q)
    BY <2>1, LabelsReached
  <2> HIDE DEF q
  <2> QED BY <2>1, <2>2, GsbgtoIs
<1>9. ASSUME NEW gsb \in BOOLEAN, NEW n \in 0 .. MAX_ARG, cmdskip(by, gsb, n) \/ cmdback(by, gsb, n)
      PROVE  Located(M, at') /\ Running' \in BOOLEAN /\ Returning(M, rets')
  <2>1. n \in Nat
    BY SizesAre
  <2> QED BY <1>9, <2>1, SkipIs, BackIs
<1>10. CASE RtnKey
  <2>1. at' = Bounds(M, 0) /\ rets' = << >> /\ Running' = FALSE
    BY <1>10 DEF RtnKey
  <2>2. Located(M, Bounds(M, 0))
    BY <1>1, BoundsIs DEF Located
  <2> QED BY <1>1, <2>1, <2>2, Returns
<1>11. ASSUME NEW plus1 \in BOOLEAN, do_rtn(by, plus1)
       PROVE  Located(M, at') /\ Running' \in BOOLEAN /\ Returning(M, rets')
  BY <1>11, RtnIs
<1> QED BY <1>3, <1>4, <1>5, <1>6, <1>7, <1>8, <1>9, <1>10, <1>11 DEF Command

\* The steps a program executes, and commands executed from the keyboard.
LEMMA RunIs ==
    ASSUME IInv, Run
    PROVE  IInv'
<1>1. ASSUME NEW by, Executes(by),
             Located(M, at') /\ Running' \in BOOLEAN /\ Returning(M, rets')
      PROVE  IInv'
  <2>1. Readable(M) /\ M' = M /\ runmode = 1
    BY <1>1, Executing
  <2>2. runmode' = 1
    BY <1>1, <2>1 DEF Executes
  <2> QED BY <1>1, <2>1, <2>2 DEF IInv
<1>2. ASSUME NEW by, xeq_single(by)
      PROVE  IInv'
  <2>1. Executes(by)
    BY <1>2 DEF xeq_single
  <2>2. do_rtn(by, FALSE) \/ Plain(by) \/ Command(by)
    BY <1>2 DEF xeq_single
  <2>3. CASE do_rtn(by, FALSE)
    BY <1>1, <2>1, <2>3, RtnIs
  <2>4. CASE Plain(by) \/ Command(by)
    <3>1. Command(by)
      BY <2>4 DEF Command
    <3> QED BY <1>1, <2>1, <3>1, CommandIs
  <2> QED BY <2>2, <2>3, <2>4
<1>3. CASE xeq_key
  <2>1. Executes("key")
    BY <1>3 DEF xeq_key
  <2>2. CASE Command("key")
    BY <1>1, <2>1, <2>2, CommandIs
  <2>3. ASSUME NEW p \in Browsed, gsbgto("key", TRUE, p)
        PROVE  IInv'
    <3>1. Place(M, p)
      <4>1. p \in Nat
        BY SizesAre, LenProperties DEF Browsed, IInv, Readable, M, ProgSize
      <4>2. InStep(M, p) \/ AtHead(M, p)
        BY <4>1 DEF Browsed, InStep, AtHead, M
      <4> QED BY <4>2 DEF Place
    <3>2. Located(M, at') /\ Running' \in BOOLEAN /\ Returning(M, rets')
      BY <2>1, <2>3, <3>1, GsbgtoIs
    <3> QED BY <1>1, <2>1, <3>2
  <2> QED BY <1>3, <2>2, <2>3 DEF xeq_key
<1>4. CASE KeyStop
  <2>1. M' = M /\ at' = at /\ rets' = rets /\ Running' = FALSE /\ runmode' = runmode
    BY <1>4 DEF KeyStop, M
  <2> QED BY <2>1 DEF IInv
<1> QED BY <1>2, <1>3, <1>4 DEF Run

-----------------------------------------------------------------------------
(* Moving about *)

\* Places are the same in either mode, but for the one before the first step.
LEMMA EitherMode ==
    ASSUME NEW m, Readable(m), NEW r \in {0, 1}
    PROVE  LET m2 == [m EXCEPT !.runmode = r]
           IN  /\ Readable(m2) /\ m2.runmode = r
               /\ \A p : p # 0 => (Place(m2, p) <=> Place(m, p))
               /\ \A s : Returning(m, s) => Returning(m2, s)
<1> DEFINE m2 == [m EXCEPT !.runmode = r]
<1>1. m \in [ram : Seq(Words), lib : Seq(Words), runmode : {0, 1}]
  BY DEF Readable
<1>2. m2 \in [ram : Seq(Words), lib : Seq(Words), runmode : {0, 1}]
      /\ m2.ram = m.ram /\ m2.lib = m.lib /\ m2.runmode = r
  BY <1>1
<1> HIDE DEF m2
<1>3. Readable(m2)
  BY <1>2 DEF Readable
<1>4. \A p : Region(m2, p) = Region(m, p)
  BY <1>2 DEF Region
<1>5. \A p : p # 0 => (Place(m2, p) <=> Place(m, p))
  BY <1>2, <1>4 DEF Place, InStep, AtHead
<1>6. \A s : Returning(m, s) => Returning(m2, s)
  <2> SUFFICES ASSUME NEW s, Returning(m, s) PROVE Returning(m2, s)
    OBVIOUS
  <2>1. \A i \in 1 .. Len(s) : s[i] # 0
    <3> TAKE i \in 1 .. Len(s)
    <3>1. s[i] > 0
      BY DEF Returning
    <3>2. s \in Seq(Nat)
      BY DEF Returning
    <3>3. s[i] \in Nat
      BY <3>2, ElementOfSeq
    <3> QED BY <3>1, <3>3
  <2> QED BY <1>5, <2>1 DEF Returning
<1> QED BY <1>2, <1>3, <1>5, <1>6 DEF m2

LEMMA WalkReaches ==
    ASSUME NEW m, Readable(m), NEW base, base = 0 \/ Place(m, base), NEW n \in Nat
    PROVE  Walk(m, base)[n] \in Nat /\ (Walk(m, base)[n] = 0 \/ Place(m, Walk(m, base)[n]))
<1> DEFINE S == Walk(m, base)
           Good(q) == q \in Nat /\ (q = 0 \/ Place(m, q))
           T == {i \in Nat : ~ Good(S[i])}
<1>1. S = [k \in Nat |-> IF k = 0 THEN base ELSE NextOf(m, S[k - 1])]
  BY DEF Walk
<1> HIDE DEF S
<1>2. T = {}
  <2> SUFFICES ASSUME T # {} PROVE FALSE
    OBVIOUS
  <2>1. T \in SUBSET Nat
    OBVIOUS
  <2> HIDE DEF T
  <2>2. PICK i \in T : \A j \in T : i <= j
    BY <2>1, LeastMember
  <2>3. i \in Nat /\ ~ Good(S[i])
    BY <2>2 DEF T
  <2>4. i # 0
    <3>1. S[0] = base
      BY <1>1
    <3>2. base \in Nat
      BY Heads, StepFacts DEF Place
    <3> QED BY <2>3, <3>1, <3>2
  <2>5. i - 1 \in Nat /\ ~ (i <= i - 1)
    BY <2>3, <2>4
  <2>6. Good(S[i - 1])
    BY <2>2, <2>5 DEF T
  <2>7. S[i] = NextOf(m, S[i - 1])
    BY <1>1, <2>3, <2>4
  <2>8. S[i] = S[i - 1] \/ S[i] = do_inc(m, Nowhere, S[i - 1], FALSE).pc
    BY <2>7 DEF NextOf
  <2>9. Good(do_inc(m, Nowhere, S[i - 1], FALSE).pc)
    BY <2>6, IncPlace
  <2> HIDE DEF Good
  <2> QED BY <2>3, <2>6, <2>8, <2>9
<1> QED BY <1>2 DEF S

LEMMA BrowsedPlaces ==
    ASSUME Readable(M), NEW p \in Browsed
    PROVE  p \in Nat /\ p # 0 /\ Place(M, p)
<1>1. p \in Nat /\ p # 0
  BY SizesAre, LenProperties DEF Browsed, Readable, M, ProgSize
<1>2. InStep(M, p) \/ AtHead(M, p)
  BY <1>1 DEF Browsed, InStep, AtHead, M
<1> QED BY <1>1, <1>2 DEF Place

LEMMA MoveIs ==
    ASSUME IInv, NEW w, Located(M, w), Move(w)
    PROVE  IInv'
<1>1. at' = w /\ M' = M /\ Running' = Running /\ rets' = rets /\ runmode' = runmode
  BY DEF Move, M
<1> QED BY <1>1 DEF IInv

\* Where the commands take the bounds of p first, they have them.
LEMMA BoundsLocated ==
    ASSUME NEW m, Readable(m), NEW p, p = 0 \/ Place(m, p)
    PROVE  Located(m, Bounds(m, p)) /\ (m.runmode = 1 => Delimited(m, Bounds(m, p)))
BY BoundsIs DEF Located

LEMMA NavigateIs ==
    ASSUME IInv, Navigate
    PROVE  IInv'
<1>1. /\ Readable(M) /\ Located(M, at) /\ Returning(M, rets) /\ M.runmode = runmode
      /\ Running \in BOOLEAN /\ (Running => runmode = 1) /\ runmode \in {0, 1}
  <2>1. Readable(M) /\ M.runmode = runmode
    BY DEF IInv, M
  <2>2. runmode \in {0, 1}
    BY <2>1, Heads
  <2> QED BY <2>1, <2>2 DEF IInv
<1>2. /\ at \in [pc : Nat, begin : Nat, end : Nat] /\ Place(M, at.pc)
      /\ (runmode = 1 => Delimited(M, at))
  BY <1>1, ReachedHere
<1>3. ASSUME NEW p \in Nat, Move(set_pc(M, at, p))
      PROVE  IInv'
  <2>1. Located(M, set_pc(M, at, p))
    BY <1>1, <1>2, SetPcIs
  <2> QED BY <1>3, <2>1, MoveIs
\* A change of mode, at a place with its bounds.
<1>4. ASSUME NEW r \in {0, 1}, runmode' = r, ram' = ram, lib' = lib,
             Located([M EXCEPT !.runmode = r], at'), Running' = Running, ~ Running,
             rets' = rets \/ rets' = << >>
      PROVE  IInv'
  <2>1. M' = [M EXCEPT !.runmode = r]
    BY <1>4 DEF M
  <2>2. Readable(M') /\ Returning(M', rets)
    BY <1>1, <2>1, EitherMode
  <2>3. Returning(M', << >>)
    BY EmptySeq, SizesAre DEF Returning
  <2>4. Located(M', at') /\ Running' \in BOOLEAN /\ ~ Running' /\ Returning(M', rets')
    BY <1>1, <1>4, <2>1, <2>2, <2>3
  <2> QED BY <2>2, <2>4 DEF IInv
<1>5. ASSUME NEW r \in {0, 1}
      PROVE  /\ Readable([M EXCEPT !.runmode = r])
             /\ at.pc = 0 \/ Place([M EXCEPT !.runmode = r], at.pc)
             /\ [M EXCEPT !.runmode = r].runmode = r
  BY <1>1, <1>2, EitherMode
<1>6. CASE toggle
  <2> DEFINE r == 1 - runmode
             m == [M EXCEPT !.runmode = r]
             w == Bounds(m, at.pc)
  <2>1. /\ ~ Running /\ runmode' = r /\ ram' = ram /\ lib' = lib /\ Running' = Running
        /\ rets' = rets
        /\ at' = IF runmode' = 0 /\ w.pc = 1 /\ w.end = 1 THEN set_pc(m, w, 0) ELSE w
    BY <1>6 DEF toggle
  <2>2. r \in {0, 1}
    BY <1>1
  <2>3. Readable(m) /\ (at.pc = 0 \/ Place(m, at.pc)) /\ m.runmode = r
    BY <1>5, <2>2
  <2> HIDE DEF m
  <2>4. Located(m, w) /\ (r = 1 => Delimited(m, w))
    BY <2>3, BoundsLocated
  <2>5. Located(m, set_pc(m, w, 0))
    <3>1. w \in [pc : Nat, begin : Nat, end : Nat]
      BY <2>4 DEF Located
    <3> QED BY <2>3, <2>4, <3>1, SetPcIs
  <2> HIDE DEF w
  <2>6. Located(m, at')
    BY <2>1, <2>4, <2>5
  <2> HIDE DEF r
  <2> QED BY <1>4, <2>1, <2>2, <2>6 DEF m
<1>7. ASSUME NEW soft \in BOOLEAN, soft_init_state(soft)
      PROVE  IInv'
  <2> DEFINE r == IF soft THEN runmode ELSE 1
             m == [M EXCEPT !.runmode = r]
             m1 == [M EXCEPT !.runmode = 1]
  <2>1. /\ ~ Running /\ runmode' = r /\ ram' = ram /\ lib' = lib /\ Running' = Running
        /\ rets' = rets /\ at' = Bounds(m1, at.pc)
    BY <1>7 DEF soft_init_state
  <2>2. Readable(m1) /\ (at.pc = 0 \/ Place(m1, at.pc)) /\ m1.runmode = 1
    BY <1>5
  <2>3. Located(m1, at') /\ Delimited(m1, at')
    BY <2>1, <2>2, BoundsLocated
  <2>4. at'.pc # 0 /\ Place(m1, at'.pc) /\ at' \in [pc : Nat, begin : Nat, end : Nat]
    <3>1. Within(m1, at', at'.pc)
      BY <2>2, <2>3, ReachedHere
    <3> QED BY <2>3, <3>1 DEF Within, Located
  <2>5. r \in {0, 1}
    BY <1>1
  <2>6. Place(M, at'.pc)
    BY <1>1, <2>4, EitherMode
  <2>7. Place(m, at'.pc)
    BY <1>1, <2>4, <2>5, <2>6, EitherMode
  <2>8. Located(m, at')
    <3>1. CASE r = 1
      BY <2>3, <3>1
    <3>2. CASE r = 0
      <4>1. m.runmode = 0
        BY <1>5, <2>5, <3>2
      <4> QED BY <2>4, <2>7, <4>1 DEF Located
    <3> QED BY <2>5, <3>1, <3>2
  <2> HIDE DEF r, m1
  <2> QED BY <1>4, <2>1, <2>5, <2>8
<1>8. CASE load_state
  <2> DEFINE m == [M EXCEPT !.runmode = 1]
  <2>1. /\ ~ Running /\ runmode' = 1 /\ ram' = ram /\ lib' = lib /\ Running' = Running
        /\ rets' = << >> /\ at' = Bounds(m, 0)
    BY <1>8 DEF load_state
  <2>2. Readable(m) /\ m.runmode = 1
    BY <1>5
  <2>3. Located(m, at')
    BY <2>1, <2>2, BoundsLocated
  <2> QED BY <1>4, <2>1, <2>3
<1>9. CASE xeq_bst \/ xeq_sst
  <2>1. Located(M, incpc(M, at)) /\ Located(M, decpc(M, at))
    BY <1>1, PcMoves
  <2> QED BY <1>9, <2>1, MoveIs DEF xeq_bst, xeq_sst
<1>10. ASSUME NEW n \in 0 .. NUMPROG_LIMIT + 1, gtodot(n)
       PROVE  IInv'
  <2>1. n \in Nat /\ (n # 0 => n - 1 \in Nat)
    BY SizesAre
  <2>2. Place(M, LIB + 1)
    <3>1. CASE lib = << >>
      BY <3>1 DEF Place, AtHead, M
    <3>2. CASE lib # << >>
      <4>1. LIB \in Nat /\ Region(M, LIB) # << >> /\ Origin(LIB) = LIB
        BY <3>2, SizesAre DEF Region, M, Origin, isRAM
      <4>2. InStep(M, LIB + 1)
        BY <1>1, <4>1, RegionEnds
      <4> QED BY <4>2 DEF Place
    <3> QED BY <3>1, <3>2
  <2>3. Walk(M, 0)[n] \in Nat
    BY <1>1, <2>1, WalkReaches
  <2>4. \A k \in Nat : Walk(M, LIB + 1)[k] \in Nat
    BY <1>1, <2>2, WalkReaches
  <2>5. find_user_pc(M, at.pc, n) \in Nat
    <3>1. (IF n = 0 THEN 0 ELSE n - 1) \in Nat
      BY <2>1
    <3> QED BY <2>3, <2>4, <3>1, Zenon DEF find_user_pc
  <2> QED BY <1>3, <1>10, <2>5 DEF gtodot
<1>11. CASE gtodot_end
  <2>1. ProgSize \in Nat
    BY <1>1, LenProperties DEF ProgSize, Readable, M
  <2> QED BY <1>3, <1>11, <2>1 DEF gtodot_end
<1>12. CASE gtodot_fkey
  <2> DEFINE q == find_opcode_from(M, at, at.pc, <<LBL>>, TRUE)
  <2>1. Move(set_pc(M, at, IF q > 0 THEN q ELSE at.pc))
    BY <1>12 DEF gtodot_fkey
  <2>2. Reached(M, at, TRUE, at.pc)
    BY <1>1, ReachedHere
  <2>3. q # 0 => q \in Nat
    BY <1>1, <1>2, <2>2, FindOpcodeIs
  <2> HIDE DEF q
  <2>4. (IF q > 0 THEN q ELSE at.pc) \in Nat
    BY <1>2, <2>3
  <2> QED BY <1>3, <2>1, <2>4
<1>13. CASE gtodot_up
  <2> DEFINE p    == do_dec(M, at, IF at.pc = 1 THEN 0 ELSE at.pc, FALSE).pc
             back == set_pc(M, at, p)
             w    == Bounds(M, back.pc)
  <2>1. Move(set_pc(M, w, w.begin))
    BY <1>13 DEF gtodot_up
  <2>2. p \in Nat
    BY <1>1, <1>2, DecPlace
  <2>3. Place(M, back.pc)
    BY <1>1, <1>2, <2>2, SetPcIs
  <2> HIDE DEF back
  <2>4. Located(M, w) /\ (runmode = 1 => Delimited(M, w))
    BY <1>1, <2>3, BoundsLocated
  <2>5. w \in [pc : Nat, begin : Nat, end : Nat]
    BY <2>4 DEF Located
  <2> HIDE DEF w
  <2>6. Located(M, set_pc(M, w, w.begin))
    BY <1>1, <2>4, <2>5, SetPcIs
  <2> QED BY <2>1, <2>6, MoveIs
<1>14. CASE gtodot_down
  <2> DEFINE w    == Bounds(M, at.pc)
             next == do_inc(M, w, w.end, FALSE).pc
             q    == IF next = 0 /\ ProgSize > 0 THEN 1 ELSE next
  <2>1. Move(set_pc(M, w, q))
    BY <1>14 DEF gtodot_down
  <2>2. Located(M, w) /\ (runmode = 1 => Delimited(M, w))
    BY <1>1, <1>2, BoundsLocated
  <2>3. w \in [pc : Nat, begin : Nat, end : Nat]
    BY <2>2 DEF Located
  <2>4. w.end = 0 \/ Place(M, w.end)
    <3>1. CASE at.pc # 0 \/ runmode = 1
      <4>1. Delimited(M, w)
        BY <1>1, <1>2, <3>1, BoundsIs
      <4> HIDE DEF w
      <4> QED BY <1>1, <2>3, <4>1, WithinIs DEF Within
    <3>2. CASE at.pc = 0 /\ runmode = 0
      <4>1. w = [pc |-> 0, begin |-> 1, end |-> 0]
        BY <1>1, <3>2, BoundsIs
      <4> QED BY <4>1
    <3> QED BY <1>1, <3>1, <3>2
  <2> HIDE DEF w
  <2>5. next \in Nat
    BY <1>1, <2>4, IncPlace
  <2>6. q \in Nat
    BY <2>5
  <2> HIDE DEF q
  <2>7. Located(M, set_pc(M, w, q))
    BY <1>1, <2>2, <2>3, <2>6, SetPcIs
  <2> QED BY <2>1, <2>7, MoveIs
<1>15. ASSUME NEW p \in Browsed, NEW enter \in BOOLEAN, process_labellist(p, enter)
       PROVE  IInv'
  <2> DEFINE r == IF enter THEN runmode ELSE 0
             m == [M EXCEPT !.runmode = r]
  <2>1. /\ ~ Running /\ runmode' = m.runmode /\ at' = set_pc(m, at, p)
        /\ ram' = ram /\ lib' = lib /\ Running' = Running /\ rets' = rets
    BY <1>15 DEF process_labellist
  <2>2. r \in {0, 1}
    BY <1>1
  <2>3. Readable(m) /\ m.runmode = r
    BY <1>5, <2>2
  <2>4. p \in Nat
    BY <1>1, BrowsedPlaces
  <2>5. r = 1 => Delimited(m, at)
    <3> SUFFICES ASSUME r = 1 PROVE Delimited(m, at)
      OBVIOUS
    <3>1. runmode = 1
      OBVIOUS
    <3>2. m = M
      BY <3>1 DEF M
    <3> QED BY <1>2, <3>1, <3>2
  <2> HIDE DEF m
  <2>6. Located(m, at')
    BY <1>2, <2>1, <2>3, <2>4, <2>5, SetPcIs
  <2> HIDE DEF r
  <2> QED BY <1>4, <2>1, <2>2, <2>3, <2>6 DEF m
<1> QED BY <1>6, <1>7, <1>8, <1>9, <1>10, <1>11, <1>12, <1>13, <1>14, <1>15 DEF Navigate

-----------------------------------------------------------------------------
(* Words that are entered, taken away and put together *)

LEMMA Segment ==
    ASSUME NEW s, Aligned(s), NEW a \in Nat, a > 0, Boundary(s, a - 1), NEW n, Boundary(s, n)
    PROVE  /\ Aligned(SubSeq(s, a, n))
           /\ Len(SubSeq(s, a, n)) = (IF a <= n THEN n - a + 1 ELSE 0)
           /\ \A i \in 1 .. Len(SubSeq(s, a, n)) : SubSeq(s, a, n)[i] = s[a + i - 1]
<1> DEFINE t == SubSeq(s, a, n)
<1>1. Len(s) \in Nat /\ s \in Seq(Words) /\ n \in 0 .. Len(s)
  BY LenProperties DEF Aligned, Boundary
<1>2. (a - 1) + 1 = a
  OBVIOUS
<1>3. Aligned(t)
  BY <1>2, AlignedSegment
<1>4. \A i \in a .. n : s[i] \in Words
  <2> TAKE i \in a .. n
  <2>1. i \in 1 .. Len(s)
    BY <1>1
  <2> QED BY <1>1, <2>1, ElementOfSeq
<1>5. /\ Len(t) = (IF a <= n THEN n - a + 1 ELSE 0)
      /\ \A i \in 1 .. n - a + 1 : t[i] = s[a + i - 1]
  BY <1>1, <1>4, SubSeqProperties
<1> HIDE DEF t
<1>6. \A i \in 1 .. Len(t) : i \in 1 .. n - a + 1
  BY <1>1, <1>5
<1> QED BY <1>3, <1>5, <1>6 DEF t

\* The words from a boundary to an END are programs.
LEMMA WholeSegment ==
    ASSUME NEW s, Aligned(s), NEW a \in Nat, a > 0, Boundary(s, a - 1),
           NEW n, IsStep(s, n), s[n] = END, a <= n
    PROVE  LET t == SubSeq(s, a, n)
           IN  t \in Seq(Words) /\ Whole(t) /\ Aligned(t) /\ Len(t) = n - a + 1
<1> DEFINE t == SubSeq(s, a, n)
           k == n - a + 1
<1>1. Len(s) \in Nat /\ n \in 1 .. Len(s) /\ (n = 1 \/ ~ isDBL(s[n - 1]))
  BY LenProperties DEF Aligned, IsStep
<1>2. Boundary(s, n)
  BY <1>1, KindsOfWords DEF Boundary
<1>3. Aligned(t) /\ Len(t) = (IF a <= n THEN n - a + 1 ELSE 0)
      /\ \A i \in 1 .. Len(t) : t[i] = s[a + i - 1]
  BY <1>2, Segment
<1> HIDE DEF t
<1>4. Len(t) = k /\ k \in Nat /\ k > 0
  BY <1>1, <1>3
<1>5. t[k] = END
  <2>1. k \in 1 .. Len(t) /\ a + k - 1 = n
    BY <1>1, <1>4
  <2> QED BY <1>3, <2>1
<1>6. k > 1 => t[k - 1] = s[n - 1]
  <2> SUFFICES ASSUME k > 1 PROVE t[k - 1] = s[n - 1]
    OBVIOUS
  <2>1. k - 1 \in 1 .. Len(t) /\ a + (k - 1) - 1 = n - 1
    BY <1>1, <1>4
  <2> QED BY <1>3, <2>1
<1>7. IsStep(t, k)
  <2>1. k \in 1 .. Len(t)
    BY <1>4
  <2>2. k > 1 => n # 1
    BY <1>1
  <2>3. k = 1 \/ k > 1
    BY <1>4
  <2> QED BY <1>1, <1>6, <2>1, <2>2, <2>3 DEF IsStep
<1> HIDE DEF k
<1>8. t \in Seq(Words)
  BY <1>3 DEF Aligned
<1>9. Whole(t)
  BY <1>3, <1>4, <1>5, <1>7, <1>8, WholeAligned
<1> QED BY <1>3, <1>4, <1>8, <1>9 DEF t, k

\* Whole steps followed by programs are programs.
LEMMA WholeConcat ==
    ASSUME NEW s, Aligned(s), NEW t \in Seq(Words), Whole(t)
    PROVE  /\ s \o t \in Seq(Words) /\ Whole(s \o t) /\ Len(s \o t) = Len(s) + Len(t)
           /\ \A i \in 1 .. Len(s \o t) :
                 (s \o t)[i] = IF i <= Len(s) THEN s[i] ELSE t[i - Len(s)]
<1> DEFINE u == s \o t
           k == Len(s)
           n == Len(t)
<1>1. s \in Seq(Words) /\ k \in Nat /\ n \in Nat
  BY LenProperties DEF Aligned
<1>2. Aligned(t) /\ n > 0 /\ t[n] = END /\ IsStep(t, n)
  BY WholeAligned
<1>3. Aligned(u)
  BY <1>2, AlignedConcat
<1>4. /\ u \in Seq(Words) /\ Len(u) = k + n
      /\ \A i \in 1 .. k + n : u[i] = IF i <= k THEN s[i] ELSE t[i - k]
  BY <1>1, ConcatProperties
<1> HIDE DEF u, k, n
<1>5. u[k + n] = END
  <2>1. k + n \in 1 .. k + n /\ ~ (k + n <= k) /\ (k + n) - k = n
    BY <1>1, <1>2
  <2> QED BY <1>2, <1>4, <2>1
<1>6. IsStep(u, k + n)
  <2>1. k + n \in 1 .. Len(u)
    BY <1>1, <1>2, <1>4
  <2>2. CASE n > 1
    <3>1. (k + n) - 1 \in 1 .. k + n /\ ~ ((k + n) - 1 <= k) /\ ((k + n) - 1) - k = n - 1
      BY <1>1, <2>2
    <3>2. u[(k + n) - 1] = t[n - 1]
      BY <1>4, <3>1
    <3>3. n # 1
      BY <1>1, <2>2
    <3> QED BY <1>2, <2>1, <3>2, <3>3 DEF IsStep
  <2>3. CASE n = 1 /\ k > 0
    <3>1. (k + n) - 1 = k /\ k \in 1 .. k + n /\ k <= k
      BY <1>1, <2>3
    <3>2. u[(k + n) - 1] = s[k]
      BY <1>4, <3>1
    <3>3. ~ isDBL(s[k])
      BY <2>3 DEF Aligned, k
    <3> QED BY <2>1, <3>2, <3>3 DEF IsStep
  <2>4. CASE n = 1 /\ k = 0
    BY <2>1, <2>4 DEF IsStep
  <2> QED BY <1>1, <1>2, <2>2, <2>3, <2>4
<1>7. k + n > 0
  BY <1>1, <1>2
<1>8. Whole(u)
  BY <1>3, <1>4, <1>5, <1>6, <1>7, WholeAligned
<1> QED BY <1>4, <1>8 DEF u, k, n

LEMMA EmptyAligned == Aligned(<< >>) /\ Len(<< >>) = 0
BY EmptySeq DEF Aligned

LEMMA LoneEnd ==
    <<END>> \in Seq(Words) /\ Whole(<<END>>) /\ Aligned(<<END>>) /\ Len(<<END>>) = 1
<1>1. <<END>> \in Seq(Words) /\ Len(<<END>>) = 1 /\ <<END>>[1] = END
  BY KindsOfWords
<1>2. END \in Singles
  BY KindsOfWords
<1>3. Whole(<<END>>)
  BY <1>1, <1>2 DEF Whole, IsStep
<1> QED BY <1>1, <1>3, WholeAligned

\* One step alone.
LEMMA OpcodeAligned ==
    ASSUME NEW c \in Opcodes
    PROVE  Aligned(c) /\ Len(c) \in {1, 2} /\ Len(c) > 0 /\ Len(c) \in Nat
<1>1. ASSUME NEW x \in Singles, c = <<x>>
      PROVE  Aligned(c) /\ Len(c) = 1 /\ Len(c) > 0
  <2>1. c \in Seq(Words) /\ Len(c) = 1 /\ c[1] = x
    BY <1>1, KindsOfWords
  <2>2. ~ isDBL(x)
    BY KindsOfWords
  <2> QED BY <2>1, <2>2 DEF Aligned
<1>2. ASSUME NEW d \in Doubles, NEW x \in Seconds, c = <<d, x>>
      PROVE  Aligned(c) /\ Len(c) = 2 /\ Len(c) > 0
  <2>1. c \in Seq(Words) /\ Len(c) = 2 /\ c[1] = d /\ c[2] = x
    BY <1>2, KindsOfWords
  <2>2. ~ isDBL(x) /\ isDBL(d)
    BY KindsOfWords DEF isDBL
  <2>3. \A o \in 1 .. Len(c) : o = 1 \/ (o = 2 /\ o - 1 = 1)
    BY <2>1
  <2> QED BY <2>1, <2>2, <2>3 DEF Aligned
<1>3. (\E x \in Singles : c = <<x>>) \/ (\E d \in Doubles, x \in Seconds : c = <<d, x>>)
  BY DEF Opcodes
<1> HIDE DEF Opcodes
<1> DEFINE l == Len(c)
<1>4. Aligned(c) /\ l \in {1, 2} /\ l > 0
  BY <1>1, <1>2, <1>3
<1> HIDE DEF l
<1>5. l \in Nat
  BY <1>4
<1> QED BY <1>4, <1>5 DEF l

\* Taking whole programs away.
LEMMA CutIs ==
    ASSUME NEW s \in Seq(Words), Whole(s), NEW b \in Nat, b > 0, Boundary(s, b - 1),
           b = 1 \/ (s[b - 1] = END /\ IsStep(s, b - 1)),
           NEW e, IsStep(s, e), s[e] = END, b <= e
    PROVE  LET r == Cut(s, b, e)
           IN  /\ r \in Seq(Words) /\ Aligned(r) /\ Len(r) = Len(s) - (e - b + 1)
               /\ r = << >> \/ Whole(r)
               /\ b - 1 <= Len(r) /\ \A i \in 1 .. b - 1 : r[i] = s[i]
<1> DEFINE x == SubSeq(s, 1, b - 1)
           y == SubSeq(s, e + 1, Len(s))
<1>1. Len(s) \in Nat /\ Aligned(s) /\ e \in 1 .. Len(s) /\ Len(s) > 0
      /\ s[Len(s)] = END /\ IsStep(s, Len(s))
  BY LenProperties, WholeAligned DEF IsStep
<1>2. ~ isDBL(END)
  BY KindsOfWords
<1>3. Boundary(s, e) /\ Boundary(s, Len(s)) /\ Boundary(s, 0)
  BY <1>1, <1>2 DEF Boundary
<1>4. 1 - 1 = 0 /\ (e + 1) - 1 = e /\ e + 1 \in Nat /\ e + 1 > 0 /\ 1 \in Nat /\ 1 > 0
      /\ b - 1 \in Nat
  BY <1>1
<1>5. Aligned(x) /\ Len(x) = b - 1
  <2>1. Aligned(x) /\ Len(x) = IF 1 <= b - 1 THEN (b - 1) - 1 + 1 ELSE 0
    BY <1>1, <1>3, <1>4, Segment
  <2> DEFINE k == Len(x)
  <2> HIDE DEF x, k
  <2>2. k = b - 1
    BY <1>4, <2>1 DEF k
  <2> QED BY <2>1, <2>2 DEF k
<1>6. Aligned(y) /\ Len(y) = Len(s) - e
  <2>1. Aligned(y) /\ Len(y) = IF e + 1 <= Len(s) THEN Len(s) - (e + 1) + 1 ELSE 0
    BY <1>1, <1>3, <1>4, Segment
  <2> DEFINE k == Len(y)
  <2> HIDE DEF y, k
  <2>2. k = Len(s) - e
    BY <1>1, <2>1 DEF k
  <2> QED BY <2>1, <2>2 DEF k
<1>7. Cut(s, b, e) = x \o y
  BY DEF Cut
<1>8. x \in Seq(Words) /\ y \in Seq(Words)
  BY <1>5, <1>6 DEF Aligned
<1>9. x \o y \in Seq(Words) /\ Len(x \o y) = Len(x) + Len(y) /\ Aligned(x \o y)
  BY <1>5, <1>6, <1>8, ConcatProperties, AlignedConcat
<1>10. e < Len(s) => Whole(y)
  <2> SUFFICES ASSUME e < Len(s) PROVE Whole(y)
    OBVIOUS
  <2>1. e + 1 <= Len(s)
    BY <1>1
  <2> QED BY <1>1, <1>3, <1>4, <2>1, WholeSegment
<1>11. b > 1 => Whole(x)
  <2> SUFFICES ASSUME b > 1 PROVE Whole(x)
    OBVIOUS
  <2>1. 1 <= b - 1 /\ b # 1
    OBVIOUS
  <2> QED BY <1>1, <1>3, <1>4, <2>1, WholeSegment
<1> HIDE DEF x, y
<1>12. x \o y = << >> \/ Whole(x \o y)
  <2>1. CASE e < Len(s)
    BY <1>5, <1>8, <1>10, <2>1, WholeConcat
  <2>2. CASE e = Len(s)
    <3>1. Len(y) = 0
      BY <1>1, <1>6, <2>2
    <3>2. y = << >>
      BY <1>8, <3>1, EmptySeq
    <3>3. x \o y = x
      BY <1>8, <3>2, ConcatEmptySeq
    <3>4. CASE b = 1
      <4>1. Len(x) = 0
        BY <1>5, <3>4
      <4> QED BY <1>8, <3>3, <4>1, EmptySeq
    <3>5. CASE b > 1
      BY <1>11, <3>3, <3>5
    <3> QED BY <3>4, <3>5
  <2> QED BY <1>1, <2>1, <2>2
<1>13. b - 1 <= Len(x \o y)
  BY <1>1, <1>5, <1>6, <1>9
<1>14. \A i \in 1 .. b - 1 : (x \o y)[i] = s[i]
  <2>1. \A i \in 1 .. b - 1 : x[i] = s[i]
    <3>1. \A i \in 1 .. Len(x) : x[i] = s[1 + i - 1]
      BY <1>1, <1>3, <1>4, Segment DEF x
    <3>2. \A i \in 1 .. b - 1 : 1 + i - 1 = i
      OBVIOUS
    <3> QED BY <1>5, <3>1, <3>2
  <2> TAKE i \in 1 .. b - 1
  <2>2. i \in 1 .. Len(x) + Len(y) /\ i <= Len(x)
    BY <1>1, <1>5, <1>6
  <2>3. (x \o y)[i] = x[i]
    BY <1>8, <2>2, ConcatProperties
  <2> QED BY <2>1, <2>3
<1> QED BY <1>1, <1>5, <1>6, <1>7, <1>9, <1>12, <1>13, <1>14

\* Whole steps put between two steps, or an END behind the last one.
LEMMA InsertWords ==
    ASSUME NEW s \in Seq(Words), Whole(s), NEW k \in 0 .. Len(s), Boundary(s, k),
           NEW c, Aligned(c), Len(c) > 0, k < Len(s) \/ c = <<END>>
    PROVE  LET r == SubSeq(s, 1, k) \o c \o SubSeq(s, k + 1, Len(s))
           IN  /\ r \in Seq(Words) /\ Whole(r) /\ Len(r) = Len(s) + Len(c)
               /\ \A i \in 1 .. k : r[i] = s[i]
               /\ IsStep(r, k + 1)
<1> DEFINE x == SubSeq(s, 1, k)
           y == SubSeq(s, k + 1, Len(s))
           r == x \o c \o y
<1>1. Len(s) \in Nat /\ Len(c) \in Nat /\ c \in Seq(Words) /\ Aligned(s) /\ Len(s) > 0
      /\ s[Len(s)] = END /\ IsStep(s, Len(s)) /\ k \in Nat
  BY LenProperties, WholeAligned DEF Aligned
<1>2. Boundary(s, 0) /\ Boundary(s, Len(s))
  BY <1>1, KindsOfWords DEF Boundary
<1>3. 1 - 1 = 0 /\ (k + 1) - 1 = k /\ k + 1 \in Nat /\ k + 1 > 0 /\ 1 \in Nat /\ 1 > 0
  BY <1>1
<1>4. Aligned(x) /\ Len(x) = k /\ \A i \in 1 .. k : x[i] = s[i]
  <2>1. Aligned(x) /\ Len(x) = IF 1 <= k THEN k - 1 + 1 ELSE 0
    BY <1>1, <1>2, <1>3, Segment
  <2>4. \A i \in 1 .. Len(x) : x[i] = s[1 + i - 1]
    BY <1>1, <1>2, <1>3, Segment
  <2> DEFINE l == Len(x)
  <2> HIDE DEF x, l
  <2>2. l = k
    BY <1>1, <2>1 DEF l
  <2>3. \A i \in 1 .. k : 1 + i - 1 = i
    BY <1>1
  <2> QED BY <2>1, <2>2, <2>3, <2>4 DEF l
<1>5. Aligned(y) /\ Len(y) = Len(s) - k /\ (k < Len(s) => Whole(y))
  <2>1. Aligned(y) /\ Len(y) = IF k + 1 <= Len(s) THEN Len(s) - (k + 1) + 1 ELSE 0
    BY <1>1, <1>2, <1>3, Segment
  <2>2. k < Len(s) => Whole(y)
    <3> SUFFICES ASSUME k < Len(s) PROVE Whole(y)
      OBVIOUS
    <3>1. k + 1 <= Len(s)
      BY <1>1
    <3> QED BY <1>1, <1>3, <3>1, WholeSegment
  <2> DEFINE l == Len(y)
  <2> HIDE DEF y, l
  <2>3. l = Len(s) - k
    BY <1>1, <2>1 DEF l
  <2> QED BY <2>1, <2>2, <2>3 DEF l
<1>6. x \in Seq(Words) /\ y \in Seq(Words)
  BY <1>4, <1>5 DEF Aligned
<1> HIDE DEF x, y
<1> DEFINE v == x \o c
<1>7. /\ v \in Seq(Words) /\ Len(v) = k + Len(c) /\ Aligned(v)
      /\ \A i \in 1 .. k + Len(c) : v[i] = IF i <= k THEN x[i] ELSE c[i - k]
  BY <1>1, <1>4, <1>6, ConcatProperties, AlignedConcat
<1>8. k = Len(s) => Whole(v)
  <2> SUFFICES ASSUME k = Len(s) PROVE Whole(v)
    OBVIOUS
  <2>1. c = <<END>>
    BY <1>1
  <2> QED BY <1>4, <2>1, LoneEnd, WholeConcat
<1> HIDE DEF v
<1>9. /\ v \o y \in Seq(Words) /\ Len(v \o y) = Len(v) + Len(y)
      /\ \A i \in 1 .. Len(v) + Len(y) : (v \o y)[i] = IF i <= Len(v) THEN v[i] ELSE y[i - Len(v)]
  BY <1>6, <1>7, ConcatProperties
<1>10. Whole(v \o y)
  <2>1. CASE k < Len(s)
    BY <1>5, <1>6, <1>7, <2>1, WholeConcat
  <2>2. CASE k = Len(s)
    <3>1. Len(y) = 0
      BY <1>1, <1>5, <2>2
    <3>2. y = << >>
      BY <1>6, <3>1, EmptySeq
    <3>3. v \o y = v
      BY <1>7, <3>2, ConcatEmptySeq
    <3> QED BY <1>8, <2>2, <3>3
  <2> QED BY <1>1, <2>1, <2>2
<1>11. r = v \o y
  BY DEF v
<1> HIDE DEF r
<1>12. Len(r) = Len(s) + Len(c)
  BY <1>1, <1>5, <1>7, <1>9, <1>11
<1>13. \A i \in 1 .. k : r[i] = s[i]
  <2> TAKE i \in 1 .. k
  <2>1. i \in 1 .. k + Len(c) /\ i <= k /\ i \in 1 .. Len(v) + Len(y) /\ i <= Len(v)
    BY <1>1, <1>5, <1>7
  <2> QED BY <1>4, <1>7, <1>9, <1>11, <2>1
<1>14. IsStep(r, k + 1)
  <2>1. k + 1 \in 1 .. Len(r)
    BY <1>1, <1>12
  <2>2. k > 0 => k \in 1 .. k /\ r[k] = s[k]
    BY <1>1, <1>13
  <2>3. k > 0 => ~ isDBL(s[k])
    BY DEF Boundary
  <2>4. (k + 1) - 1 = k /\ (k = 0 => k + 1 = 1) /\ (k = 0 \/ k > 0)
    BY <1>1
  <2> QED BY <2>1, <2>2, <2>3, <2>4 DEF IsStep
<1> QED BY <1>9, <1>10, <1>11, <1>12, <1>13, <1>14 DEF r, x, y

\* The words of RAM's step at p.
LEMMA RamStep ==
    ASSUME NEW m, Readable(m), NEW p \in Nat, IsStep(m.ram, p)
    PROVE  LET n == Len(getprog(m, p))
               s == m.ram
           IN  /\ InStep(m, p) /\ p \in 1 .. Len(s)
               /\ n = (IF isDBL(s[p]) THEN 2 ELSE 1) /\ n \in {1, 2}
               /\ p + n - 1 \in 1 .. Len(s) /\ Boundary(s, p + n - 1)
               /\ p + n - 1 = Len(s) => p = Len(s) /\ getprog(m, p) = <<END>>
<1> DEFINE n == Len(getprog(m, p))
           s == m.ram
<1>1. Len(s) \in Nat /\ s \in Seq(Words) /\ Len(s) <= NUMPROG_LIMIT /\ Whole(s)
  BY LenProperties DEF Readable
<1>2. p \in 1 .. Len(s) /\ isRAM(p)
  BY <1>1, SizesAre DEF IsStep, isRAM
<1>3. Region(m, p) = s /\ offset(p) = p /\ Origin(p) = 0
  BY <1>2 DEF Region, offset, Origin
<1>4. InStep(m, p) /\ Final(m, p) = Len(s)
  BY <1>1, <1>3 DEF InStep, Final
<1>5. n = (IF isDBL(s[p]) THEN 2 ELSE 1)
  BY <1>2, <1>3, GetprogIs
<1>6. /\ p + n - 1 <= Len(s) /\ n \in {1, 2}
      /\ p + n <= Len(s) => InStep(m, p + n) /\ Region(m, p + n) = s /\ Origin(p + n) = 0
      /\ getprog(m, p) # <<END>> => p + n <= Len(s)
  BY <1>3, <1>4, StepFacts
<1> DEFINE k == p + n - 1
<1> HIDE DEF n, s
<1>7. k \in 1 .. Len(s)
  BY <1>2, <1>6
<1>8. Boundary(s, k)
  <2>1. CASE p + n <= Len(s)
    <3>1. offset(p + n) = p + n
      BY <1>1, <1>6, <2>1, SizesAre DEF offset, Origin
    <3>2. p + n # 1
      BY <1>2, <1>6
    <3>3. ~ isDBL(s[p + n - 1])
      BY <1>6, <2>1, <3>1, <3>2 DEF InStep, IsStep
    <3> QED BY <1>7, <3>3 DEF Boundary
  <2>2. CASE p + n > Len(s)
    <3>1. k = Len(s)
      BY <1>1, <1>2, <1>6, <2>2
    <3>2. s[Len(s)] = END /\ ~ isDBL(END)
      BY <1>1, KindsOfWords, WholeAligned
    <3> QED BY <1>7, <3>1, <3>2 DEF Boundary
  <2>3. p + n \in Nat
    BY <1>2, <1>6
  <2> QED BY <1>1, <2>1, <2>2, <2>3
<1>9. k = Len(s) => p = Len(s) /\ getprog(m, p) = <<END>>
  <2> SUFFICES ASSUME k = Len(s) PROVE p = Len(s) /\ getprog(m, p) = <<END>>
    OBVIOUS
  <2>1. ~ (p + n <= Len(s))
    BY <1>1, <1>2, <1>6
  <2>2. getprog(m, p) = <<END>>
    BY <1>6, <2>1
  <2>3. n = 1
    BY <2>2 DEF n
  <2> QED BY <1>1, <1>2, <2>2, <2>3
<1> QED BY <1>2, <1>4, <1>5, <1>6, <1>7, <1>8, <1>9 DEF n, s

\* RAM with other programs.
LEMMA NewRam ==
    ASSUME NEW m, Readable(m), NEW s \in Seq(Words), Whole(s), Len(s) <= NUMPROG_LIMIT
    PROVE  /\ Readable([m EXCEPT !.ram = s]) /\ [m EXCEPT !.ram = s].ram = s
           /\ [m EXCEPT !.ram = s].lib = m.lib /\ [m EXCEPT !.ram = s].runmode = m.runmode
           /\ \A p : isRAM(p) /\ IsStep(s, p) => Place([m EXCEPT !.ram = s], p)
<1> DEFINE m2 == [m EXCEPT !.ram = s]
<1>1. m \in [ram : Seq(Words), lib : Seq(Words), runmode : {0, 1}]
  BY DEF Readable
<1>2. /\ m2 \in [ram : Seq(Words), lib : Seq(Words), runmode : {0, 1}]
      /\ m2.ram = s /\ m2.lib = m.lib /\ m2.runmode = m.runmode
  BY <1>1
<1> HIDE DEF m2
<1>3. Readable(m2)
  BY <1>2 DEF Readable
<1>4. ASSUME NEW p, isRAM(p), IsStep(s, p)
      PROVE  Place(m2, p)
  <2>1. p \in Nat
    BY <1>4 DEF IsStep
  <2>2. Region(m2, p) = s /\ offset(p) = p
    BY <1>2, <1>4 DEF Region, offset
  <2> QED BY <1>4, <2>1, <2>2 DEF Place, InStep
<1> QED BY <1>2, <1>3, <1>4 DEF m2

\* The last word of the step at p.
LastWord(m, p) == IF p = 0 THEN 0 ELSE p + Len(getprog(m, p)) - 1

\* A step entered behind that at p, or before the first one.
LEMMA InsertedIs ==
    ASSUME IInv, NEW s \in Seq(Words), Whole(s), Len(s) <= NUMPROG_LIMIT,
           NEW p \in Nat, p = 0 \/ IsStep(s, p), NEW c \in Opcodes, p # Len(s) \/ c = <<END>>
    PROVE  LET r == Inserted(s, p, c)
               k == LastWord([M EXCEPT !.ram = s], p)
           IN  /\ r \in Seq(Words) /\ Whole(r) /\ Len(r) = Len(s) + Len(c)
               /\ k \in Nat /\ \A i \in 1 .. k : r[i] = s[i]
               /\ IsStep(r, k + 1)
<1> DEFINE m == [M EXCEPT !.ram = s]
           k == LastWord(m, p)
<1>1. Readable(m) /\ m.ram = s
  BY NewRam DEF IInv
<1>2. Aligned(c) /\ Len(c) > 0
  BY OpcodeAligned
<1>3. Len(s) \in Nat /\ Len(s) > 0
  BY LenProperties, WholeAligned
<1>4. Inserted(s, p, c) = SubSeq(s, 1, k) \o c \o SubSeq(s, k + 1, Len(s))
  BY Zenon DEF Inserted, LastWord
<1> HIDE DEF m
<1>5. k \in 0 .. Len(s) /\ Boundary(s, k) /\ (k = Len(s) => p = Len(s))
  <2>1. CASE p = 0
    BY <1>3, <2>1 DEF Boundary, LastWord
  <2>2. CASE p # 0
    <3>1. IsStep(m.ram, p)
      BY <1>1, <2>2
    <3>2. /\ p + Len(getprog(m, p)) - 1 \in 1 .. Len(s)
          /\ Boundary(s, p + Len(getprog(m, p)) - 1)
          /\ p + Len(getprog(m, p)) - 1 = Len(s) => p = Len(s)
      BY <1>1, <3>1, RamStep
    <3>3. k = p + Len(getprog(m, p)) - 1
      BY <2>2 DEF LastWord
    <3> HIDE DEF k
    <3> QED BY <1>3, <3>2, <3>3
  <2> QED BY <2>1, <2>2
<1> HIDE DEF k
<1>6. k < Len(s) \/ c = <<END>>
  BY <1>3, <1>5
<1>7. k \in Nat
  BY <1>3, <1>5
<1> DEFINE r == SubSeq(s, 1, k) \o c \o SubSeq(s, k + 1, Len(s))
<1>8. /\ r \in Seq(Words) /\ Whole(r) /\ Len(r) = Len(s) + Len(c)
      /\ \A i \in 1 .. k : r[i] = s[i]
      /\ IsStep(r, k + 1)
  BY <1>2, <1>5, <1>6, InsertWords
<1> HIDE DEF r
<1>9. Inserted(s, p, c) = r
  BY <1>4 DEF r
<1> QED BY <1>7, <1>8, <1>9 DEF k, m

LEMMA RamIs ==
    ASSUME Readable(M)
    PROVE  /\ M.ram = ram /\ M.lib = lib /\ M.runmode = runmode /\ runmode \in {0, 1}
           /\ ram \in Seq(Words) /\ Whole(ram) /\ ProgSize = Len(ram) /\ Aligned(ram)
           /\ ProgSize \in Nat /\ ProgSize > 0 /\ ProgSize <= NUMPROG_LIMIT
           /\ lib \in Seq(Words) /\ Len(lib) \in Nat /\ Len(lib) <= NUMPROG_FLASH_MAX
           /\ lib = << >> \/ Whole(lib)
           /\ IsStep(ram, ProgSize) /\ ram[ProgSize] = END
<1>1. M.ram = ram /\ M.lib = lib /\ M.runmode = runmode
  BY DEF M
<1>2. runmode \in {0, 1}
  BY <1>1, Heads
<1>3. /\ ram \in Seq(Words) /\ Whole(ram) /\ Len(ram) <= NUMPROG_LIMIT
      /\ lib \in Seq(Words) /\ Len(lib) <= NUMPROG_FLASH_MAX
      /\ lib = << >> \/ Whole(lib)
  BY <1>1 DEF Readable
<1>4. Len(ram) \in Nat /\ Len(lib) \in Nat
  BY <1>3, LenProperties
<1>5. Len(ram) > 0 /\ Aligned(ram) /\ IsStep(ram, Len(ram)) /\ ram[Len(ram)] = END
  BY <1>3, WholeAligned
<1> QED BY <1>1, <1>2, <1>3, <1>4, <1>5 DEF ProgSize

\* A place of RAM is a step, or the one before the first.
LEMMA RamPlace ==
    ASSUME Readable(M), NEW p \in Nat, Place(M, p), isRAM(p)
    PROVE  p = 0 \/ IsStep(ram, p)
<1>1. ~ AtHead(M, p)
  BY Heads
<1>2. Region(M, p) = ram /\ offset(p) = p
  BY RamIs DEF Region, offset
<1> QED BY <1>1, <1>2 DEF Place, InStep

\* The program counter at the step behind, after entering one.
LEMMA EnteredIs ==
    ASSUME IInv, NEW c \in Opcodes, NEW free \in Nat, stoprog(c, free)
    PROVE  IInv'
<1> DEFINE pc     == at.pc
           begins == pc = ProgSize /\ c # <<END>>
           ended  == IF begins /\ free > 0 THEN Inserted(ram, pc, <<END>>) ELSE ram
           left   == IF begins /\ free > 0 THEN free - 1 ELSE free
           fits   == left >= Len(c)
           grown  == IF fits THEN Inserted(ended, pc, c) ELSE ended
           moved  == IF fits \/ (begins /\ free > 0)
                     THEN IF pc = 0 THEN 1 ELSE pc + Len(getprog(M, pc)) ELSE pc
           k      == LastWord(M, pc)
<1>1. /\ runmode = 0 /\ ~ Running /\ isRAM(pc) /\ pc <= ProgSize
      /\ free <= NUMPROG_LIMIT - ProgSize
      /\ ram' = grown /\ rets' = << >>
      /\ at' = [at EXCEPT !.pc = moved, !.end = @ + Len(grown) - ProgSize]
      /\ lib' = lib /\ runmode' = runmode /\ Running' = Running
  BY Zenon DEF stoprog
<1>2. Readable(M) /\ Located(M, at) /\ at \in [pc : Nat, begin : Nat, end : Nat]
      /\ Place(M, at.pc)
  BY DEF IInv, Located
<1>3. /\ ram \in Seq(Words) /\ Whole(ram) /\ ProgSize = Len(ram) /\ ProgSize \in Nat
      /\ ProgSize > 0 /\ ProgSize <= NUMPROG_LIMIT /\ M.ram = ram /\ M.runmode = runmode
      /\ IsStep(ram, ProgSize)
  BY <1>2, RamIs
<1>4. pc \in Nat /\ (pc = 0 \/ IsStep(ram, pc))
  BY <1>1, <1>2, RamPlace
<1>5. Len(c) > 0 /\ Len(c) \in Nat /\ Aligned(c)
  BY OpcodeAligned
<1>6. <<END>> \in Opcodes /\ Len(<<END>>) = 1
  BY KindsOfWords DEF Opcodes
<1>7. [M EXCEPT !.ram = ram] = M
  BY DEF M
<1>8. pc # 0 => /\ Len(getprog(M, pc)) \in {1, 2}
                /\ pc = ProgSize => getprog(M, pc) = <<END>>
  <2> SUFFICES ASSUME pc # 0
               PROVE  /\ Len(getprog(M, pc)) \in {1, 2}
                      /\ pc = ProgSize => getprog(M, pc) = <<END>>
    OBVIOUS
  <2>1. IsStep(M.ram, pc)
    BY <1>3, <1>4
  <2>2. Len(getprog(M, pc)) \in {1, 2} /\ pc + Len(getprog(M, pc)) - 1 \in 1 .. Len(ram)
        /\ (pc + Len(getprog(M, pc)) - 1 = Len(ram) => getprog(M, pc) = <<END>>)
    BY <1>2, <1>3, <1>4, <2>1, RamStep
  <2> DEFINE n == Len(getprog(M, pc))
  <2>3. n \in {1, 2} /\ pc + n - 1 \in 1 .. Len(ram)
        /\ (pc + n - 1 = Len(ram) => getprog(M, pc) = <<END>>)
    BY <2>2
  <2> HIDE DEF n
  <2>4. pc = ProgSize => pc + n - 1 = Len(ram)
    BY <1>3, <1>4, <2>3
  <2> QED BY <2>3, <2>4 DEF n
<1>9. k \in Nat /\ k + 1 = (IF pc = 0 THEN 1 ELSE pc + Len(getprog(M, pc)))
  <2> DEFINE n == Len(getprog(M, pc))
  <2>1. k = (IF pc = 0 THEN 0 ELSE pc + n - 1) /\ (pc # 0 => n \in {1, 2})
    BY <1>8 DEF LastWord
  <2>2. pc \in Nat
    BY <1>4
  <2> HIDE DEF n, k, pc
  <2>3. k \in Nat /\ k + 1 = (IF pc = 0 THEN 1 ELSE pc + n)
    BY <2>1, <2>2
  <2> QED BY <2>3 DEF n, pc
\* What the words and the counter become.
<1> DEFINE Good(s, p) == /\ s \in Seq(Words) /\ Whole(s) /\ Len(s) <= NUMPROG_LIMIT
                         /\ Len(s) >= ProgSize /\ p \in Nat /\ (p = 0 \/ IsStep(s, p))
<1>10. Good(grown, moved)
  <2>1. CASE begins /\ free > 0
    <3>1. pc = ProgSize /\ c # <<END>> /\ pc # 0 /\ IsStep(ram, pc)
      BY <1>3, <2>1
    <3>2. getprog(M, pc) = <<END>>
      BY <1>8, <3>1
    <3>3. k = ProgSize /\ moved = ProgSize + 1
      <4>1. Len(getprog(M, pc)) = 1
        BY <3>2
      <4>2. k = pc + 1 - 1 /\ moved = pc + 1
        BY <2>1, <3>1, <4>1 DEF LastWord
      <4> HIDE DEF k, moved, pc
      <4> QED BY <1>3, <3>1, <4>2
    <3> DEFINE s == Inserted(ram, pc, <<END>>)
    <3>4. /\ s \in Seq(Words) /\ Whole(s) /\ Len(s) = Len(ram) + 1
          /\ \A i \in 1 .. k : s[i] = ram[i]
          /\ IsStep(s, k + 1)
      <4> DEFINE e == <<END>>
      <4>1. e \in Opcodes /\ e = <<END>> /\ Len(e) = 1 /\ s = Inserted(ram, pc, e)
        BY <1>6
      <4> HIDE DEF e, s
      <4>2. /\ s \in Seq(Words) /\ Whole(s) /\ Len(s) = Len(ram) + Len(e)
            /\ IsStep(s, k + 1)
        BY ZenonT(60), <1>3, <1>4, <1>7, <4>1, InsertedIs
      <4>3. \A i \in 1 .. k : s[i] = ram[i]
        BY <1>3, <1>4, <1>7, <4>1, InsertedIs
      <4> QED BY <4>1, <4>2, <4>3
    <3>5. ended = s /\ left = free - 1
      BY <2>1
    <3>6. Len(s) <= NUMPROG_LIMIT /\ Len(s) = ProgSize + 1
      BY <1>1, <1>3, <2>1, <3>4, SizesAre
    <3> HIDE DEF s, k, moved
    <3>7. CASE fits
      <4>1. grown = Inserted(s, pc, c)
        BY <3>5, <3>7
      <4>2. IsStep(s, pc)
        <5>1. pc \in 1 .. ProgSize /\ pc \in 1 .. Len(s)
          BY <1>3, <3>1, <3>6
        <5>2. pc > 1 => pc - 1 \in 1 .. k
          BY <1>3, <3>1, <3>3
        <5>3. pc > 1 => s[pc - 1] = ram[pc - 1]
          BY <3>4, <5>2
        <5>4. pc = 1 \/ pc > 1
          BY <5>1
        <5> QED BY <3>1, <5>1, <5>3, <5>4 DEF IsStep
      <4> DEFINE r == Inserted(s, pc, c)
                 m == [M EXCEPT !.ram = s]
                 j == LastWord(m, pc)
      <4>3. /\ r \in Seq(Words) /\ Whole(r) /\ Len(r) = Len(s) + Len(c)
            /\ IsStep(r, j + 1)
        <5>1. pc # Len(s)
          BY <1>3, <3>1, <3>6
        <5> QED BY <1>4, <3>4, <3>6, <4>2, <5>1, InsertedIs
      <4>4. j + 1 = ProgSize + 1
        <5>1. Readable(m) /\ m.ram = s
          BY <1>2, <3>4, <3>6, NewRam
        <5>2. Len(getprog(m, pc)) = IF isDBL(s[pc]) THEN 2 ELSE 1
          <6> HIDE DEF m
          <6>1. IsStep(m.ram, pc)
            BY <4>2, <5>1
          <6> QED BY <1>4, <5>1, <6>1, RamStep
        <5>3. s[pc] = ram[pc] /\ ram[pc] = END
          <6>1. pc \in 1 .. k
            BY <1>3, <3>1, <3>3
          <6>2. ram[ProgSize] = END
            BY <1>2, RamIs
          <6> QED BY <3>1, <3>4, <6>1, <6>2
        <5>4. ~ isDBL(s[pc])
          BY <5>3, KindsOfWords
        <5>5. Len(getprog(m, pc)) = 1
          BY <5>2, <5>4
        <5>6. j = pc + 1 - 1
          BY <3>1, <5>5 DEF LastWord
        <5> HIDE DEF j
        <5> QED BY <1>3, <3>1, <5>6
      <4> HIDE DEF r, j
      <4>5. Len(r) <= NUMPROG_LIMIT /\ Len(r) >= ProgSize
        <5>1. free - 1 >= Len(c)
          BY <3>5, <3>7
        <5> QED BY <1>1, <1>3, <1>5, <3>6, <4>3, <5>1, SizesAre
      <4>6. IsStep(r, ProgSize + 1) /\ ProgSize + 1 \in Nat
        BY <1>3, <4>3, <4>4
      <4> QED BY <3>3, <4>1, <4>3, <4>5, <4>6 DEF r
    <3>8. CASE ~ fits
      <4>1. grown = s
        BY <3>5, <3>8
      <4>2. IsStep(s, ProgSize + 1) /\ ProgSize + 1 \in Nat /\ Len(s) >= ProgSize
        BY <1>3, <3>3, <3>4, <3>6
      <4> QED BY <3>3, <3>4, <3>6, <4>1, <4>2
    <3> QED BY <3>7, <3>8
  <2>2. CASE ~ (begins /\ free > 0)
    <3>1. ended = ram /\ left = free
      BY <2>2
    <3>2. CASE fits
      <4>1. free >= Len(c)
        BY <3>1, <3>2
      <4>2. pc # Len(ram) \/ c = <<END>>
        BY <1>3, <1>5, <2>2, <4>1
      <4> DEFINE r == Inserted(ram, pc, c)
      <4>3. /\ r \in Seq(Words) /\ Whole(r) /\ Len(r) = Len(ram) + Len(c)
            /\ IsStep(r, k + 1)
        BY <1>3, <1>4, <1>7, <4>2, InsertedIs
      <4>4. grown = r
        BY <3>1, <3>2
      <4>5. moved = k + 1
        BY <1>9, <3>2
      <4> HIDE DEF r, k, moved, grown
      <4>6. Len(r) <= NUMPROG_LIMIT /\ Len(r) >= ProgSize
        BY <1>1, <1>3, <1>5, <4>1, <4>3, SizesAre
      <4> QED BY <1>9, <4>3, <4>4, <4>5, <4>6
    <3>3. CASE ~ fits
      <4>1. grown = ram /\ moved = pc
        BY <2>2, <3>1, <3>3
      <4> HIDE DEF grown, moved
      <4>2. Len(ram) >= ProgSize
        BY <1>3
      <4> QED BY <1>3, <1>4, <4>1, <4>2
    <3> QED BY <3>2, <3>3
  <2> QED BY <2>1, <2>2
<1> HIDE DEF grown, moved
<1>11. Readable([M EXCEPT !.ram = grown]) /\ M' = [M EXCEPT !.ram = grown]
  BY <1>1, <1>2, <1>10, NewRam DEF M
<1>12. Located(M', at')
  <2>1. Len(grown) \in Nat
    BY <1>10, LenProperties
  <2>2. at.end + Len(grown) - ProgSize \in Nat
    BY <1>2, <1>3, <1>10, <2>1
  <2>3. at' \in [pc : Nat, begin : Nat, end : Nat] /\ at'.pc = moved
    BY <1>1, <1>2, <1>10, <2>2
  <2>4. isRAM(moved)
    <3>1. moved <= Len(grown)
      BY <1>10, <2>1 DEF IsStep
    <3> QED BY <1>10, <2>1, <3>1, SizesAre DEF isRAM
  <2>5. M'.runmode = 0
    BY <1>1, <1>3, <1>11, <1>10, <1>2, NewRam
  <2>6. Place(M', moved)
    <3>1. CASE moved = 0
      BY <2>5, <3>1 DEF Place
    <3>2. CASE moved # 0
      BY <1>2, <1>10, <1>11, <2>4, <3>2, NewRam
    <3> QED BY <3>1, <3>2
  <2> QED BY <2>3, <2>5, <2>6 DEF Located
<1>13. Returning(M', << >>)
  BY EmptySeq, SizesAre DEF Returning
<1> QED BY <1>1, <1>11, <1>12, <1>13 DEF IInv

\* A step deleted; it is not the last END.
LEMMA WithoutIs ==
    ASSUME Readable(M), NEW p \in Nat, IsStep(ram, p),
           ~ (p = ProgSize /\ getprog(M, p) = <<END>>)
    PROVE  LET r == Without(ram, p)
               n == Len(getprog(M, p))
           IN  /\ r \in Seq(Words) /\ Whole(r) /\ Len(r) = Len(ram) - n /\ n \in {1, 2}
               /\ IsStep(r, p) /\ \A i \in 1 .. p - 1 : r[i] = ram[i]
<1> DEFINE s == ram
           r == Without(s, p)
           n == Len(getprog(M, p))
           x == SubSeq(s, 1, p - 1)
           y == SubSeq(s, p + n, Len(s))
<1>1. /\ s \in Seq(Words) /\ Aligned(s) /\ ProgSize = Len(s) /\ Len(s) \in Nat /\ Len(s) > 0
      /\ Len(s) <= NUMPROG_LIMIT /\ IsStep(s, Len(s)) /\ s[Len(s)] = END /\ M.ram = s
  BY RamIs
<1>2. p \in 1 .. Len(s) /\ n = (IF isDBL(s[p]) THEN 2 ELSE 1) /\ n \in {1, 2}
      /\ p + n - 1 \in 1 .. Len(s) /\ Boundary(s, p + n - 1)
      /\ (p + n - 1 = Len(s) => p = Len(s) /\ getprog(M, p) = <<END>>)
  BY <1>1, RamStep
<1>3. r = x \o y
  <2>1. Without(s, p) = SubSeq(s, 1, p - 1) \o SubSeq(s, p + n, Len(s))
    BY <1>2, Zenon DEF Without
  <2> QED BY <2>1
<1> HIDE DEF s, r, n
<1>4. p + n <= Len(s) /\ p + n \in Nat /\ p + n > 0 /\ (p + n) - 1 = p + n - 1
  BY <1>1, <1>2
<1>5. Boundary(s, p - 1) /\ Boundary(s, 1 - 1)
  BY <1>1, <1>2 DEF IsStep, Boundary, s
<1>6. Aligned(x) /\ Len(x) = p - 1 /\ \A i \in 1 .. p - 1 : x[i] = s[i]
  <2>1. Aligned(x) /\ Len(x) = (IF 1 <= p - 1 THEN p - 1 - 1 + 1 ELSE 0)
    BY <1>1, <1>5, Segment
  <2>2. \A i \in 1 .. Len(x) : x[i] = s[1 + i - 1]
    BY <1>1, <1>5, Segment
  <2> HIDE DEF x
  <2>3. Len(x) = p - 1
    BY <1>2, <2>1
  <2>4. \A i \in 1 .. p - 1 : 1 + i - 1 = i
    BY <1>2
  <2> QED BY <2>1, <2>2, <2>3, <2>4
<1>7. y \in Seq(Words) /\ Whole(y) /\ Len(y) = Len(s) - (p + n) + 1
  <2> DEFINE a == p + n
  <2>1. /\ a \in Nat /\ a > 0 /\ Boundary(s, a - 1) /\ a <= Len(s) /\ Aligned(s)
        /\ IsStep(s, Len(s)) /\ s[Len(s)] = END
    BY <1>1, <1>2, <1>4
  <2> HIDE DEF a
  <2>2. /\ SubSeq(s, a, Len(s)) \in Seq(Words) /\ Whole(SubSeq(s, a, Len(s)))
        /\ Len(SubSeq(s, a, Len(s))) = Len(s) - a + 1
    BY <2>1, WholeSegment
  <2> QED BY <2>2 DEF a
<1> HIDE DEF x, y
<1>8. /\ x \o y \in Seq(Words) /\ Whole(x \o y) /\ Len(x \o y) = Len(x) + Len(y)
      /\ \A i \in 1 .. Len(x \o y) : (x \o y)[i] = IF i <= Len(x) THEN x[i] ELSE y[i - Len(x)]
  BY <1>6, <1>7, WholeConcat
<1>9. Len(r) = Len(s) - n
  <2>1. Len(r) = Len(x) + Len(y)
    BY <1>3, <1>8
  <2>2. Len(x) = p - 1 /\ Len(y) = Len(s) - (p + n) + 1 /\ Len(s) \in Nat /\ n \in {1, 2}
    BY <1>1, <1>2, <1>6, <1>7
  <2> QED BY <2>1, <2>2
<1>10. IsStep(r, p)
  <2>1. p \in 1 .. Len(r)
    BY <1>1, <1>2, <1>4, <1>9
  <2>2. p > 1 => p - 1 \in 1 .. Len(r) /\ p - 1 <= Len(x) /\ p - 1 \in 1 .. p - 1
    BY <1>2, <1>6, <2>1
  <2>3. p > 1 => r[p - 1] = s[p - 1]
    BY <1>3, <1>6, <1>8, <2>2
  <2>4. p = 1 \/ p > 1
    BY <1>2
  <2>5. p = 1 \/ ~ isDBL(s[p - 1])
    BY DEF IsStep, s
  <2> QED BY <2>1, <2>3, <2>4, <2>5 DEF IsStep
<1>11. \A i \in 1 .. p - 1 : r[i] = s[i]
  <2> TAKE i \in 1 .. p - 1
  <2>1. i \in 1 .. Len(x) /\ i <= Len(x) /\ i \in 1 .. Len(x \o y)
    BY <1>2, <1>6, <1>7, <1>8, LenProperties
  <2> QED BY <1>3, <1>6, <1>8, <2>1
<1> QED BY <1>2, <1>3, <1>8, <1>9, <1>10, <1>11 DEF s, r, n

\* Stepping back while programs are entered, where the end is not counted on.
LEMMA EntryMoves ==
    ASSUME NEW m, Readable(m), m.runmode = 0,
           NEW w \in [pc : Nat, begin : Nat, end : Int], NEW p, p = 0 \/ Place(m, p)
    PROVE  Located(m, raw_set_pc(m, w, p))
<1>1. p \in Nat /\ Place(m, p)
  BY Heads DEF Place, InStep
<1>2. raw_set_pc(m, w, p) = IF p \in w.begin .. w.end THEN [w EXCEPT !.pc = p] ELSE Bounds(m, p)
  BY DEF raw_set_pc
<1>3. CASE p \in w.begin .. w.end
  <2>1. w.end \in Nat
    BY <1>1, <1>3
  <2>2. [w EXCEPT !.pc = p] \in [pc : Nat, begin : Nat, end : Nat] /\ [w EXCEPT !.pc = p].pc = p
    BY <1>1, <2>1
  <2> QED BY <1>1, <1>2, <1>3, <2>2 DEF Located
<1>4. CASE p \notin w.begin .. w.end
  BY <1>2, <1>4, BoundsLocated
<1> QED BY <1>3, <1>4

LEMMA DeletedIs ==
    ASSUME IInv, delprog, ~ ReturnsMoved
    PROVE  IInv'
<1> DEFINE p    == at.pc
           n    == Len(getprog(M, at.pc))
           less == Without(ram, at.pc)
           m    == [M EXCEPT !.ram = less]
           w    == [at EXCEPT !.end = @ - n]
           q    == do_dec(m, w, w.pc, TRUE).pc
<1>1. /\ runmode = 0 /\ ~ Running /\ Deletable(p) /\ p \in 1 .. ProgSize
      /\ ram' = less /\ at' = decpc(m, w) /\ lib' = lib /\ runmode' = runmode
      /\ Running' = Running /\ rets' = rets
  BY Zenon DEF delprog
<1>2. Readable(M) /\ at \in [pc : Nat, begin : Nat, end : Nat] /\ Place(M, p) /\ Returning(M, rets)
  BY DEF IInv, Located
<1>3. /\ M.ram = ram /\ M.runmode = runmode /\ ram \in Seq(Words) /\ ProgSize = Len(ram)
      /\ ProgSize \in Nat /\ ProgSize <= NUMPROG_LIMIT /\ ProgSize > 0
  BY <1>2, RamIs
<1>4. isRAM(p) /\ p \in Nat /\ IsStep(ram, p) /\ ~ (p = ProgSize /\ getprog(M, p) = <<END>>)
  BY <1>1, <1>2, <1>3, RamPlace DEF Deletable
<1>5. less \in Seq(Words) /\ Whole(less) /\ Len(less) = Len(ram) - n /\ n \in {1, 2}
      /\ IsStep(less, p) /\ \A i \in 1 .. p - 1 : less[i] = ram[i]
  BY <1>2, <1>4, WithoutIs
<1> HIDE DEF less, n
<1>6. Len(less) <= NUMPROG_LIMIT /\ less # ram
  BY <1>3, <1>5, SizesAre
<1>7. Readable(m) /\ m.ram = less /\ m.runmode = 0 /\ m = M' /\ Place(m, p)
  BY <1>1, <1>2, <1>3, <1>4, <1>5, <1>6, NewRam DEF M
<1>8. w \in [pc : Nat, begin : Nat, end : Int] /\ w.begin \in Nat /\ w.end \in Int /\ w.pc = p
  BY <1>2, <1>5
<1> HIDE DEF m, w
<1>9. q = 0 \/ Place(m, q)
  <2>1. ~ (TRUE /\ m.runmode = 1) /\ q = do_dec(m, w, p, TRUE).pc
    BY <1>7, <1>8
  <2> HIDE DEF q, p
  <2>2. do_dec(m, w, p, TRUE).pc = 0 \/ Place(m, do_dec(m, w, p, TRUE).pc)
    BY <1>7, <2>1, DecPlace
  <2> QED BY <2>1, <2>2
<1>10. at' = raw_set_pc(m, w, q)
  BY <1>1 DEF decpc
<1> HIDE DEF q
<1>11. Located(M', at')
  BY <1>7, <1>8, <1>9, <1>10, EntryMoves
<1>12. ASSUME NEW i \in 1 .. Len(rets)
       PROVE  Place(m, rets[i])
  <2>1. rets[i] \in Nat /\ rets[i] > 0 /\ Place(M, rets[i])
    BY <1>2 DEF Returning
  <2>2. rets[i] <= p
    <3>1. ~ (rets[i] >= p + 1)
      BY <1>1, <1>6 DEF ReturnsMoved, LeadsFrom
    <3> HIDE DEF p
    <3> QED BY <1>4, <2>1, <3>1
  <2>3. isRAM(rets[i])
    <3> HIDE DEF p
    <3> QED BY <1>4, <2>1, <2>2, SizesAre DEF isRAM
  <2>4. IsStep(ram, rets[i])
    BY <1>2, <2>1, <2>3, RamPlace
  <2>5. IsStep(less, rets[i])
    <3> HIDE DEF p
    <3>1. CASE rets[i] = p
      BY <1>5, <3>1
    <3>2. CASE rets[i] # p
      <4>1. rets[i] \in 1 .. Len(less) /\ (rets[i] = 1 \/ rets[i] - 1 \in 1 .. p - 1)
        BY <1>4, <1>5, <2>1, <2>2, <3>2, LenProperties DEF IsStep
      <4> QED BY <1>5, <2>4, <4>1 DEF IsStep
    <3> QED BY <3>1, <3>2
  <2> QED BY <1>2, <1>3, <1>5, <1>6, <2>3, <2>5, NewRam DEF m
<1>13. Returning(M', rets')
  BY <1>1, <1>2, <1>7, <1>12 DEF Returning
<1> QED BY <1>1, <1>7, <1>11, <1>13 DEF IInv

-----------------------------------------------------------------------------
(* Whole programs *)

\* The current program, as words of its region.
LEMMA ProgramAt ==
    ASSUME NEW m, Readable(m), NEW w \in [pc : Nat, begin : Nat, end : Nat], Delimited(m, w),
           ~ AtHead(m, w.pc)
    PROVE  LET s == Region(m, w.begin)
               b == offset(w.begin)
               e == offset(w.end)
           IN  /\ s \in Seq(Words) /\ Whole(s) /\ Aligned(s) /\ b \in Nat /\ b > 0
               /\ Boundary(s, b - 1) /\ (b = 1 \/ (s[b - 1] = END /\ IsStep(s, b - 1)))
               /\ IsStep(s, e) /\ s[e] = END /\ b <= e /\ e \in Nat
               /\ e - b = w.end - w.begin /\ (isRAM(w.begin) <=> isRAM(w.pc))
<1> DEFINE s == Region(m, w.begin)
           b == offset(w.begin)
           e == offset(w.end)
           o == Origin(w.begin)
<1>1. /\ InStep(m, w.begin) /\ Ending(m, w.end) /\ w.begin > 0
      /\ Origin(w.begin) = Origin(w.pc) /\ Origin(w.end) = Origin(w.pc)
      /\ w.begin \in Nat /\ w.end \in Nat /\ w.pc \in Nat
  BY WithinIs
<1>2. /\ BeginsProgram(m, w.pc, w.begin) /\ EndsProgram(m, w.pc, w.end)
  BY DEF Delimited
<1>3. w.begin <= w.end
  BY <1>1, <1>2 DEF BeginsProgram, EndsProgram
<1>4. (isRAM(w.begin) <=> isRAM(w.pc)) /\ (isRAM(w.end) <=> isRAM(w.begin))
  BY <1>1, SizesAre DEF Origin
<1>5. Region(m, w.end) = s
  BY <1>4 DEF Region
<1>6. /\ Aligned(s) /\ (s # << >> => Whole(s)) /\ w.begin = o + b /\ b \in Nat /\ o \in Nat
  BY <1>1, RegionAligned
<1>7. w.end = o + e /\ e \in Nat
  <2>1. w.end = Origin(w.end) + offset(w.end) /\ offset(w.end) \in Nat
    BY <1>1, RegionAligned
  <2> QED BY <1>1, <2>1
<1>8. IsStep(s, b) /\ IsStep(s, e)
  BY <1>1, <1>5 DEF InStep, Ending
<1>9. s[e] = END
  <2>1. offset(w.end) \in 1 .. Len(Region(m, w.end)) => Region(m, w.end)[offset(w.end)] = END
    BY <1>1, GetprogIs DEF Ending
  <2> QED BY <1>5, <1>8, <2>1 DEF IsStep
<1>10. s \in Seq(Words) /\ Len(s) \in Nat
  BY <1>6, LenProperties DEF Aligned
<1>11. b > 0 /\ b <= Len(s)
  BY <1>8, <1>10 DEF IsStep
<1>12. s # << >>
  <2> HIDE DEF s, b
  <2>1. Len(s) > 0
    BY <1>6, <1>10, <1>11
  <2> QED BY <2>1, EmptySeq
<1>13. Boundary(s, b - 1)
  BY <1>6, <1>8, <1>10, <1>11 DEF Boundary, IsStep
<1>14. b = 1 \/ (s[b - 1] = END /\ IsStep(s, b - 1))
  <2> SUFFICES ASSUME b # 1 PROVE s[b - 1] = END /\ IsStep(s, b - 1)
    OBVIOUS
  <2>1. Ending(m, w.begin - 1)
    BY <1>2, <1>6 DEF BeginsProgram
  <2> DEFINE q == w.begin - 1
  <2>2. q = o + (b - 1) /\ b - 1 \in 0 .. Len(s) + 1
    BY <1>6, <1>10, <1>11
  <2>3. Region(m, q) = s /\ offset(q) = b - 1 /\ q \in Nat
    <3> DEFINE k == b - 1
    <3>1. k \in 0 .. Len(Region(m, w.begin)) + 1 /\ q = Origin(w.begin) + k
      BY <2>2
    <3> HIDE DEF k, q
    <3>2. Region(m, q) = Region(m, w.begin) /\ offset(q) = k /\ q \in Nat
      BY <1>1, <3>1, SameRegion
    <3> QED BY <3>2 DEF k
  <2>4. InStep(m, q) /\ getprog(m, q) = <<END>>
    BY <2>1 DEF Ending
  <2> HIDE DEF q
  <2>5. offset(q) \in 1 .. Len(Region(m, q)) => Region(m, q)[offset(q)] = END
    BY <2>3, <2>4, GetprogIs
  <2>6. IsStep(s, b - 1)
    BY <2>3, <2>4 DEF InStep
  <2> QED BY <2>3, <2>5, <2>6 DEF IsStep
<1> HIDE DEF s, b, e, o
<1>15. b <= e /\ e - b = w.end - w.begin
  BY <1>1, <1>3, <1>6, <1>7
<1> QED BY <1>4, <1>6, <1>7, <1>8, <1>9, <1>10, <1>11, <1>12, <1>13, <1>14, <1>15 DEF s, b, e

\* Words t that begin with the words s.
Prolongs(s, t) == Len(s) <= Len(t) /\ \A i \in 1 .. Len(s) : t[i] = s[i]

\* Words that follow leave the steps alone.
LEMMA StepsKept ==
    ASSUME NEW m, Readable(m), NEW m2, Readable(m2), NEW p \in Nat,
           Prolongs(Region(m, p), Region(m2, p))
    PROVE  /\ InStep(m, p) => InStep(m2, p)
           /\ InStep(m2, p) /\ p <= Final(m, p) => InStep(m, p)
           /\ InStep(m, p) => (Ending(m2, p) <=> Ending(m, p))
<1> DEFINE s == Region(m, p)
           t == Region(m2, p)
           o == offset(p)
<1>1. Len(s) \in Nat /\ Len(t) \in Nat /\ o \in Nat /\ p = Origin(p) + o /\ Origin(p) \in Nat
  BY RegionAligned
<1>2. Len(s) <= Len(t) /\ \A i \in 1 .. Len(s) : t[i] = s[i]
  BY DEF Prolongs
<1>3. getprog(m, p) = <<END>> <=> (o \in 1 .. Len(s) => s[o] = END)
  BY GetprogIs
<1>4. getprog(m2, p) = <<END>> <=> (o \in 1 .. Len(t) => t[o] = END)
  BY GetprogIs
<1>5. InStep(m, p) <=> IsStep(s, o)
  BY DEF InStep
<1>6. InStep(m2, p) <=> IsStep(t, o)
  BY DEF InStep
<1>7. Final(m, p) = Origin(p) + Len(s)
  BY DEF Final
<1> HIDE DEF s, t, o
<1>8. o <= Len(s) => (IsStep(t, o) <=> IsStep(s, o))
  BY <1>1, <1>2 DEF IsStep
<1>9. IsStep(s, o) => o \in 1 .. Len(s) /\ o \in 1 .. Len(t) /\ o <= Len(s)
  BY <1>1, <1>2 DEF IsStep
<1>10. p <= Final(m, p) => o <= Len(s)
  BY <1>1, <1>7
<1> QED BY <1>2, <1>3, <1>4, <1>5, <1>6, <1>8, <1>9, <1>10 DEF Ending

\* So the bounds of a program stay.
LEMMA DelimitedKept ==
    ASSUME NEW m, Readable(m), NEW m2, Readable(m2),
           NEW w \in [pc : Nat, begin : Nat, end : Nat], Delimited(m, w), ~ AtHead(m, w.pc),
           Prolongs(Region(m, w.pc), Region(m2, w.pc))
    PROVE  Delimited(m2, w)
<1>1. /\ InStep(m, w.pc) /\ BeginsProgram(m, w.pc, w.begin) /\ EndsProgram(m, w.pc, w.end)
      /\ w.pc \in Nat /\ w.begin \in Nat /\ w.end \in Nat
  BY DEF Delimited
<1>2. /\ w.begin <= w.pc /\ w.pc <= w.end /\ InStep(m, w.begin) /\ Ending(m, w.end)
      /\ Origin(w.begin) = Origin(w.pc) /\ Origin(w.end) = Origin(w.pc)
  BY <1>1 DEF BeginsProgram, EndsProgram
<1>3. ASSUME NEW x \in Nat, Origin(x) = Origin(w.pc)
      PROVE  Prolongs(Region(m, x), Region(m2, x))
  <2>1. isRAM(x) <=> isRAM(w.pc)
    BY <1>3, SizesAre DEF Origin
  <2>2. Region(m, x) = Region(m, w.pc) /\ Region(m2, x) = Region(m2, w.pc)
    BY <2>1 DEF Region
  <2> QED BY <2>2
<1>4. InStep(m2, w.pc) /\ InStep(m2, w.begin) /\ Ending(m2, w.end)
  <2>1. InStep(m2, w.pc)
    BY <1>1, StepsKept
  <2>2. InStep(m2, w.begin)
    BY <1>1, <1>2, <1>3, StepsKept
  <2>3. InStep(m, w.end)
    BY <1>2 DEF Ending
  <2>4. Ending(m2, w.end)
    BY <1>1, <1>2, <1>3, <2>3, StepsKept
  <2> QED BY <2>1, <2>2, <2>4
<1>5. ~ AtHead(m2, w.pc)
  BY <1>4, Heads
<1>6. ASSUME NEW x \in w.begin .. w.end, Ending(m2, x)
      PROVE  Ending(m, x)
  <2>1. x \in Nat /\ x <= w.end
    BY <1>1
  <2>2. Origin(x) = Origin(w.pc)
    BY <1>1, <1>2, <2>1, SizesAre DEF Origin, isRAM
  <2>3. Prolongs(Region(m, x), Region(m2, x))
    BY <1>3, <2>1, <2>2
  <2>4. x <= Final(m, x)
    <3>1. Region(m, x) = Region(m, w.end)
      BY <1>2, <2>2, SizesAre DEF Origin, Region
    <3>2. w.end <= Final(m, w.end) /\ Final(m, w.end) \in Nat
      <4>1. InStep(m, w.end)
        BY <1>2 DEF Ending
      <4> DEFINE n == Len(getprog(m, w.end))
                 f == Final(m, w.end)
      <4>2. n \in {1, 2} /\ w.end + n - 1 <= f /\ f \in Nat
        BY <4>1, StepFacts
      <4> HIDE DEF n, f
      <4>3. w.end <= f
        BY <1>1, <4>2
      <4> QED BY <4>2, <4>3 DEF f
    <3>3. Final(m, x) = Final(m, w.end)
      BY <1>2, <2>2, <3>1 DEF Final
    <3> QED BY <1>1, <2>1, <3>2, <3>3
  <2>5. InStep(m2, x)
    BY <1>6 DEF Ending
  <2>6. InStep(m, x)
    BY <2>1, <2>3, <2>4, <2>5, StepsKept
  <2> QED BY <1>6, <2>1, <2>3, <2>6, StepsKept
<1>7. ASSUME NEW x \in Nat, Ending(m, x), Origin(x) = Origin(w.pc)
      PROVE  Ending(m2, x)
  <2>1. InStep(m, x)
    BY <1>7 DEF Ending
  <2> QED BY <1>3, <1>7, <2>1, StepsKept
<1>8. BeginsProgram(m2, w.pc, w.begin)
  <2>1. w.begin = Origin(w.begin) + 1 \/ Ending(m2, w.begin - 1)
    <3> SUFFICES ASSUME w.begin # Origin(w.begin) + 1
                 PROVE  Ending(m2, w.begin - 1)
      OBVIOUS
    <3>1. Ending(m, w.begin - 1)
      BY <1>1 DEF BeginsProgram
    <3> DEFINE x == w.begin - 1
    <3>2. InStep(m, x) /\ x \in Nat
      BY <3>1 DEF Ending, InStep
    <3>3. w.begin > Origin(w.begin) /\ Origin(w.begin) \in Nat
      BY <1>2, StepFacts
    <3>4. Origin(x) = Origin(w.begin)
      BY <1>1, <3>2, <3>3, SizesAre DEF Origin, isRAM
    <3> QED BY <1>2, <1>7, <3>1, <3>2, <3>4
  <2>2. \A x \in w.begin .. w.pc - 1 : ~ Ending(m2, x)
    <3> TAKE x \in w.begin .. w.pc - 1
    <3>1. x \in w.begin .. w.end
      BY <1>1, <1>2
    <3>2. ~ Ending(m, x)
      BY <1>1 DEF BeginsProgram
    <3> QED BY <1>6, <3>1, <3>2
  <2> QED BY <1>1, <1>2, <1>4, <2>1, <2>2 DEF BeginsProgram
<1>9. EndsProgram(m2, w.pc, w.end)
  <2>1. \A x \in w.pc .. w.end - 1 : ~ Ending(m2, x)
    <3> TAKE x \in w.pc .. w.end - 1
    <3>1. x \in w.begin .. w.end
      BY <1>1, <1>2
    <3>2. ~ Ending(m, x)
      BY <1>1 DEF EndsProgram
    <3> QED BY <1>6, <3>1, <3>2
  <2> QED BY <1>1, <1>2, <1>4, <2>1 DEF EndsProgram
<1> QED BY <1>4, <1>5, <1>8, <1>9 DEF Delimited

\* Words that are added leave the places alone, and the returns to them.
LEMMA PlacesKept ==
    ASSUME NEW m, Readable(m), NEW m2, Readable(m2), m2.runmode = m.runmode,
           Prolongs(m.ram, m2.ram), Prolongs(m.lib, m2.lib)
    PROVE  /\ \A p : Place(m, p) => Place(m2, p)
           /\ \A r : Returning(m, r) => Returning(m2, r)
<1>1. ASSUME NEW p, Place(m, p)
      PROVE  Place(m2, p)
  <2>1. CASE p = 0 /\ m.runmode = 0
    BY <2>1 DEF Place
  <2>2. CASE AtHead(m, p)
    <3>1. CASE p = LIB \/ m2.lib = << >>
      BY <2>2, <3>1 DEF AtHead, Place
    <3>2. CASE p # LIB /\ m2.lib # << >>
      <4>1. p = LIB + 1
        BY <2>2, <3>2 DEF AtHead
      <4>2. ~ isRAM(LIB) /\ LIB \in Nat /\ Origin(LIB) = LIB
        BY SizesAre DEF isRAM, Origin
      <4>3. Region(m2, LIB) = m2.lib
        BY <4>2 DEF Region
      <4>4. InStep(m2, Origin(LIB) + 1)
        BY <3>2, <4>2, <4>3, RegionEnds
      <4> QED BY <4>1, <4>2, <4>4 DEF Place
    <3> QED BY <3>1, <3>2
  <2>3. CASE InStep(m, p)
    <3>1. p \in Nat
      BY <2>3 DEF InStep
    <3>2. Prolongs(Region(m, p), Region(m2, p))
      BY DEF Region
    <3> QED BY <2>3, <3>1, <3>2, StepsKept DEF Place
  <2> QED BY <1>1, <2>1, <2>2, <2>3 DEF Place
<1>2. ASSUME NEW r, Returning(m, r)
      PROVE  Returning(m2, r)
  BY <1>1, <1>2 DEF Returning
<1> QED BY <1>1, <1>2

\* Returns to steps in front of word b of the library, where the words stay.
LEMMA ReturnsBefore ==
    ASSUME NEW m, Readable(m), NEW m2, Readable(m2), m2.runmode = m.runmode,
           m2.ram = m.ram, NEW b \in Nat, b > 0, b - 1 <= Len(m2.lib),
           \A i \in 1 .. b - 1 : m2.lib[i] = m.lib[i],
           NEW r, Returning(m, r), \A i \in 1 .. Len(r) : r[i] < LIB + b
    PROVE  Returning(m2, r)
<1>1. Len(m2.lib) \in Nat /\ LIB \in Nat
  BY LenProperties, SizesAre DEF Readable
<1>2. ASSUME NEW p \in Nat, Place(m, p), p < LIB + b
      PROVE  Place(m2, p)
  <2>1. CASE p = 0 /\ m.runmode = 0
    BY <2>1 DEF Place
  <2>2. CASE p = LIB
    BY <2>2 DEF Place, AtHead
  <2>3. CASE p # LIB /\ ~ isRAM(p) /\ (AtHead(m, p) \/ InStep(m, p))
    <3>1. offset(p) = p - LIB /\ Region(m, p) = m.lib /\ Region(m2, p) = m2.lib
      BY <2>3 DEF offset, Region
    <3>2. p - LIB \in 1 .. b - 1 /\ p - LIB \in 1 .. Len(m2.lib)
      <4>1. p >= LIB /\ p # LIB
        BY <1>1, <1>2, <2>3 DEF isRAM
      <4> QED BY <1>1, <1>2, <4>1
    <3>3. CASE p - LIB = 1
      BY <3>1, <3>2, <3>3 DEF Place, InStep, IsStep
    <3>4. CASE p - LIB # 1
      <4>1. InStep(m, p)
        BY <1>1, <2>3, <3>4 DEF AtHead
      <4>2. ~ isDBL(m.lib[p - LIB - 1])
        BY <3>1, <3>4, <4>1 DEF InStep, IsStep
      <4>3. p - LIB - 1 \in 1 .. b - 1
        BY <1>1, <3>2, <3>4
      <4> QED BY <3>1, <3>2, <4>2, <4>3 DEF Place, InStep, IsStep
    <3> QED BY <3>3, <3>4
  <2>4. CASE isRAM(p) /\ (AtHead(m, p) \/ InStep(m, p))
    <3>1. InStep(m, p)
      BY <2>4, Heads
    <3>2. Region(m2, p) = Region(m, p)
      BY <2>4 DEF Region
    <3> QED BY <3>1, <3>2 DEF Place, InStep
  <2> QED BY <1>2, <2>1, <2>2, <2>3, <2>4 DEF Place
<1> QED BY <1>2 DEF Returning

\* Bounds renewed after the counter was moved.
LEMMA RenewedIs ==
    ASSUME NEW m, Readable(m), NEW w \in [pc : Nat, begin : Nat, end : Nat],
           Place(m, w.pc), m.runmode = 1 => w = Bounds(m, w.pc)
    PROVE  Located(m, w)
<1>1. CASE m.runmode = 1
  BY <1>1, BoundsLocated
<1>2. CASE m.runmode # 1
  BY <1>2 DEF Located
<1> QED BY <1>1, <1>2

\* CLPALL, LOADP and RESET.
LEMMA ReplacedIs ==
    ASSUME IInv, Replace, ~ LosesEnd, BoundsRenewed'
    PROVE  IInv'
<1>1. Readable(M) /\ Located(M, at) /\ Returning(M, rets) /\ Running \in BOOLEAN
  BY DEF IInv
<1>2. M.ram = ram /\ M.lib = lib /\ M.runmode = runmode /\ runmode \in {0, 1}
  BY <1>1, RamIs
<1>3. Returning(M', << >>)
  BY EmptySeq, SizesAre DEF Returning
<1>4. /\ Bounds(M, 0) \in [pc : Nat, begin : Nat, end : Nat]
      /\ Bounds(M, 0).pc = (IF runmode = 1 THEN 1 ELSE 0)
      /\ runmode = 1 => Delimited(M, Bounds(M, 0))
  BY <1>1, <1>2, BoundsIs
<1>5. ASSUME NEW s \in Seq(Words), Whole(s), Len(s) <= NUMPROG_LIMIT, ram' = s, lib' = lib,
             runmode' = runmode, Running' = Running, ~ Running, rets' = << >>,
             at' \in [pc : Nat, begin : Nat, end : Nat], Place([M EXCEPT !.ram = s], at'.pc)
      PROVE  IInv'
  <2>1. Readable([M EXCEPT !.ram = s]) /\ M' = [M EXCEPT !.ram = s]
    BY <1>1, <1>2, <1>5, NewRam DEF M
  <2>2. M'.runmode = runmode'
    BY DEF M
  <2>3. runmode' = 1 => at' = Bounds(M', at'.pc)
    BY DEF BoundsRenewed
  <2>4. Located(M', at')
    BY <1>5, <2>1, <2>2, <2>3, RenewedIs
  <2> QED BY <1>1, <1>3, <1>5, <2>1, <2>4 DEF IInv
<1>6. CASE clpall
  <2>1. /\ ~ Running /\ ram' = <<END>> /\ rets' = << >> /\ at' = Bounds(M, 0)
        /\ lib' = lib /\ runmode' = runmode /\ Running' = Running
    BY <1>6 DEF clpall
  <2>2. <<END>> \in Seq(Words) /\ Whole(<<END>>) /\ Len(<<END>>) <= NUMPROG_LIMIT
    BY LoneEnd, SizesAre
  <2> DEFINE s == <<END>>
             m == [M EXCEPT !.ram = s]
  <2>3. Readable(m) /\ m.runmode = runmode
    BY <1>1, <1>2, <2>2, NewRam
  <2>4. Place(m, at'.pc)
    <3> HIDE DEF m
    <3>1. at'.pc = IF runmode = 1 THEN 1 ELSE 0
      BY <1>4, <2>1
    <3>2. InStep(m, 1)
      BY <2>3, Heads
    <3> QED BY <1>2, <2>3, <3>1, <3>2 DEF Place
  <2> HIDE DEF s
  <2> QED BY <1>4, <1>5, <2>1, <2>2, <2>4 DEF s
<1>7. ASSUME NEW p \in Backups, NEW ok \in BOOLEAN, load_program(p, ok)
      PROVE  IInv'
  <2> DEFINE m0 == [M EXCEPT !.ram = <<END>>]
             w  == Bounds(M, 0)
             m1 == [m0 EXCEPT !.ram = Kept(m0.ram) \o p]
  <2>1. /\ ~ Running /\ lib' = lib /\ runmode' = runmode /\ Running' = Running
        /\ ok => append_program(m0, w, p)
        /\ ~ ok => ram' = Kept(m0.ram)
    BY <1>7, Zenon DEF load_program, append_fails
  <2>2. p \in Seq(Words) /\ Whole(p) /\ Len(p) \in Nat
    BY BackupsWhole, LenProperties
  <2>3. m0.ram = <<END>> /\ Kept(m0.ram) = << >> /\ Len(Kept(m0.ram)) = 0
    <3>1. m0.ram = <<END>> /\ Len(<<END>>) = 1
      BY <1>2 DEF M
    <3> HIDE DEF m0
    <3> QED BY <3>1 DEF Kept
  <2>4. ok
    BY <2>1, <2>3 DEF LosesEnd
  <2>5. /\ ~ TooLong(m0, p) /\ ram' = m1.ram /\ rets' = << >>
        /\ at' = set_pc(m1, w, Len(Kept(m0.ram)) + 1)
    BY <2>1, <2>4 DEF append_program, Appended
  <2>6. m1 = [M EXCEPT !.ram = p] /\ m1.ram = p
    <3>1. << >> \o p = p
      BY <2>2, ConcatEmptySeq
    <3> QED BY <2>3, <3>1 DEF M
  <2>7. Len(p) <= NUMPROG_LIMIT
    BY <2>2, <2>3, <2>5, SizesAre DEF TooLong
  <2>8. Readable(m1)
    BY <1>1, <2>2, <2>6, <2>7, NewRam
  <2> HIDE DEF m0, m1
  <2>9. at' \in [pc : Nat, begin : Nat, end : Nat] /\ Place(m1, at'.pc)
    <3>1. Len(Kept(m0.ram)) + 1 \in Nat
      BY <2>3
    <3> QED BY <1>4, <2>5, <2>8, <3>1, SetPcIs
  <2> QED BY <1>5, <2>1, <2>2, <2>5, <2>6, <2>7, <2>9
<1> QED BY <1>6, <1>7 DEF Replace

\* CLP.
LEMMA ClearedIs ==
    ASSUME IInv, clrprog, ~ BeforeLibrary, ~ ReturnsMoved
    PROVE  IInv'
<1> DEFINE w   == Bounds(M, at.pc)
           inLib == ~ isRAM(w.begin)
           m   == IF inLib THEN [M EXCEPT !.lib = ClearedLib(w)]
                  ELSE [M EXCEPT !.ram = ClearedRam(w)]
           b   == offset(w.begin)
           e   == offset(w.end)
<1>1. Readable(M) /\ Located(M, at) /\ Returning(M, rets) /\ Running \in BOOLEAN
  BY DEF IInv
<1>2. /\ M.ram = ram /\ M.lib = lib /\ M.runmode = runmode /\ runmode \in {0, 1}
      /\ ram \in Seq(Words) /\ Whole(ram) /\ Len(ram) \in Nat /\ Len(ram) <= NUMPROG_LIMIT
      /\ Len(ram) > 0 /\ lib \in Seq(Words) /\ Len(lib) \in Nat /\ Len(lib) <= NUMPROG_FLASH_MAX
  BY <1>1, RamIs DEF ProgSize
<1>3. at.pc \in Nat /\ Place(M, at.pc) /\ (runmode = 1 => at.pc # 0)
  <2>1. at.pc \in Nat /\ Place(M, at.pc)
    BY <1>1 DEF Located
  <2>2. ~ InStep(M, 0) /\ ~ AtHead(M, 0)
    BY <1>1, Heads
  <2> QED BY <1>2, <2>1, <2>2 DEF Place
<1>4. /\ ~ Running /\ e <= Len(Region(M, w.begin)) /\ (inLib => lib # << >>)
      /\ runmode' = runmode /\ Running' = Running
      /\ IF inLib \/ Deletable(w.begin)
         THEN /\ ram' = m.ram /\ lib' = m.lib
              /\ rets' = IF inLib THEN rets ELSE << >>
              /\ at' = Bounds(m, set_pc(m, w, w.begin - 1).pc)
         ELSE at' = w /\ ram' = ram /\ lib' = lib /\ rets' = rets
  BY Zenon DEF clrprog
<1>5. /\ w \in [pc : Nat, begin : Nat, end : Nat] /\ Place(M, w.pc)
      /\ at.pc # 0 => w.pc = at.pc /\ Delimited(M, w)
      /\ at.pc = 0 => w = [pc |-> 0, begin |-> 1, end |-> 0]
  BY <1>1, <1>2, <1>3, BoundsIs
<1> HIDE DEF w
<1>6. Returning(M', << >>)
  BY EmptySeq, SizesAre DEF Returning
<1>7. ASSUME Readable(m), M' = m, Returning(M', rets'), w.begin > 0, inLib \/ Deletable(w.begin)
      PROVE  IInv'
  <2>1. w.begin - 1 \in Nat
    BY <1>5, <1>7
  <2> HIDE DEF m, inLib
  <2>2. Place(m, set_pc(m, w, w.begin - 1).pc)
    BY <1>5, <1>7, <2>1, SetPcIs
  <2>3. Located(m, at')
    BY <1>4, <1>7, <2>2, BoundsLocated
  <2> QED BY <1>1, <1>4, <1>7, <2>3 DEF IInv
<1>8. CASE ~ (inLib \/ Deletable(w.begin))
  <2>1. M' = M /\ at' = w /\ rets' = rets
    BY <1>4, <1>8 DEF M
  <2>2. Located(M, w)
    BY <1>1, <1>3, BoundsLocated DEF w
  <2> QED BY <1>1, <1>4, <2>1, <2>2 DEF IInv
<1>9. CASE (inLib \/ Deletable(w.begin)) /\ at.pc = 0
  <2>1. w.begin = 1 /\ w.end = 0 /\ ~ inLib
    BY <1>5, <1>9, SizesAre DEF isRAM
  <2>2. ClearedRam(w) = ram
    <3>1. SubSeq(ram, 1, 1 - 1) = << >>
      BY <1>2, SubSeqEmpty
    <3>2. SubSeq(ram, 0 + 1, Len(ram)) = ram
      BY <1>2, SubSeqFull
    <3>3. << >> \o ram = ram
      BY <1>2, ConcatEmptySeq
    <3>4. Cut(ram, 1, 0) = ram
      BY <3>1, <3>2, <3>3 DEF Cut
    <3>5. ram # << >>
      BY <1>2, EmptySeq
    <3> QED BY <2>1, <3>4, <3>5 DEF ClearedRam
  <2>3. m = M
    BY <2>1, <2>2 DEF M
  <2>4. M' = m /\ rets' = << >>
    <3>1. m.ram = ram /\ m.lib = lib
      BY <1>2, <2>3
    <3> HIDE DEF m, inLib
    <3> QED BY <1>4, <1>9, <2>1, <2>3, <3>1 DEF M
  <2> HIDE DEF m
  <2> QED BY <1>1, <1>6, <1>7, <1>9, <2>1, <2>3, <2>4
<1>10. CASE (inLib \/ Deletable(w.begin)) /\ at.pc # 0
  <2>1. w.pc = at.pc /\ Delimited(M, w)
    BY <1>5, <1>10
  <2>2. ~ AtHead(M, w.pc)
    <3> SUFFICES ASSUME AtHead(M, w.pc) PROVE FALSE
      OBVIOUS
    <3>1. w.pc # LIB
      BY <2>1 DEF BeforeLibrary
    <3>2. w.pc = LIB + 1 /\ lib = << >>
      BY <1>2, <3>1 DEF AtHead
    <3>3. w.begin = w.pc
      BY <1>1, <1>5, <2>1, WithinIs
    <3>4. inLib
      BY <3>2, <3>3, SizesAre DEF isRAM
    <3> QED BY <1>4, <3>2, <3>4
  <2> DEFINE s == Region(M, w.begin)
  <2>3. /\ s \in Seq(Words) /\ Whole(s) /\ Aligned(s) /\ b \in Nat /\ b > 0
        /\ Boundary(s, b - 1) /\ (b = 1 \/ (s[b - 1] = END /\ IsStep(s, b - 1)))
        /\ IsStep(s, e) /\ s[e] = END /\ b <= e /\ e \in Nat
    BY <1>1, <1>5, <2>1, <2>2, ProgramAt
  <2>4. isRAM(w.begin) <=> isRAM(w.pc)
    BY <1>1, <1>5, <2>1, <2>2, ProgramAt
  <2>5. w.begin > 0 /\ w.begin \in Nat
    BY <1>1, <1>5, <2>1, WithinIs
  <2> DEFINE r == Cut(s, b, e)
  <2> HIDE DEF s, b, e
  <2>6. /\ r \in Seq(Words) /\ Len(r) = Len(s) - (e - b + 1) /\ (r = << >> \/ Whole(r))
        /\ b - 1 <= Len(r) /\ \A i \in 1 .. b - 1 : r[i] = s[i]
    BY <2>3, CutIs
  <2>7. Len(s) \in Nat /\ Len(r) \in Nat /\ Len(r) < Len(s)
    <3>1. Len(s) \in Nat /\ Len(r) \in Nat
      BY <2>3, <2>6, LenProperties
    <3> HIDE DEF r
    <3> QED BY <2>3, <2>6, <3>1
  <2> HIDE DEF r
  <2>8. CASE inLib
    <3>1. s = lib /\ b = w.begin - LIB
      BY <1>2, <2>8 DEF s, b, Region, offset
    <3>2. e = w.end - LIB
      <4>1. isRAM(w.end) <=> isRAM(w.begin)
        BY <1>1, <1>5, <2>1, <2>2, WithinIs, SizesAre DEF Origin
      <4> QED BY <2>8, <4>1 DEF e, offset
    <3>3. w.begin # LIB
      BY <2>3, <2>5, <3>1, SizesAre
    <3>4. ClearedLib(w) = r
      BY <3>1, <3>2, <3>3 DEF ClearedLib, r
    <3>5. m = [M EXCEPT !.lib = r]
      BY <2>8, <3>4
    <3>6. m.ram = ram /\ m.lib = r /\ m.runmode = runmode
      BY <3>5 DEF M
    <3> HIDE DEF m, inLib
    <3>7. ram' = ram /\ lib' = r /\ rets' = rets
      BY <1>4, <2>8, <3>6
    <3>8. M' = m
      BY <1>4, <3>5, <3>7 DEF M
    <3>9. Len(r) <= NUMPROG_FLASH_MAX
      BY <1>2, <2>7, <3>1, SizesAre
    <3>10. Readable(m)
      <4>1. m \in [ram : Seq(Words), lib : Seq(Words), runmode : {0, 1}]
        BY <1>2, <2>6, <3>5 DEF M
      <4> QED BY <1>2, <2>6, <3>6, <3>9, <4>1 DEF Readable
    <3>11. \A i \in 1 .. Len(rets) : rets[i] < LIB + b
      <4>1. lib' # lib
        BY <2>7, <3>1, <3>7
      <4>2. ~ isRAM(at.pc)
        BY <2>1, <2>8, <2>4 DEF inLib
      <4>3. ~ LeadsFrom(w.begin)
        BY <1>10, <3>7, <4>1, <4>2 DEF ReturnsMoved, w
      <4> TAKE i \in 1 .. Len(rets)
      <4>4. rets[i] \in Nat /\ ~ (rets[i] >= w.begin)
        BY <1>1, <4>3 DEF LeadsFrom, Returning
      <4> QED BY <2>5, <3>1, <4>4, SizesAre
    <3>12. Returning(M', rets')
      BY <1>1, <1>2, <2>3, <2>6, <3>1, <3>6, <3>7, <3>8, <3>10, <3>11, ReturnsBefore
    <3> QED BY <1>7, <1>10, <2>5, <3>8, <3>10, <3>12 DEF m
  <2>9. CASE ~ inLib
    <3>1. s = ram /\ b = w.begin
      BY <1>2, <2>9 DEF s, b, Region, offset
    <3>2. e = w.end
      <4>1. isRAM(w.end) <=> isRAM(w.begin)
        BY <1>1, <1>5, <2>1, <2>2, WithinIs, SizesAre DEF Origin
      <4> QED BY <2>9, <4>1 DEF e, offset
    <3> DEFINE t == IF r = << >> THEN <<END>> ELSE r
    <3>3. ClearedRam(w) = t
      BY <3>1, <3>2 DEF ClearedRam, r
    <3>4. t \in Seq(Words) /\ Whole(t) /\ Len(t) <= NUMPROG_LIMIT
      <4>1. CASE r = << >>
        BY <4>1, LoneEnd, SizesAre
      <4>2. CASE r # << >>
        BY <1>2, <2>6, <2>7, <3>1, <4>2, SizesAre
      <4> QED BY <4>1, <4>2
    <3> HIDE DEF t
    <3>5. m = [M EXCEPT !.ram = t]
      BY <2>9, <3>3
    <3>6. m.ram = t /\ m.lib = lib /\ m.runmode = runmode
      BY <3>5 DEF M
    <3> HIDE DEF m, inLib
    <3>7. ram' = t /\ lib' = lib /\ rets' = << >>
      BY <1>4, <1>10, <2>9, <3>6
    <3>8. M' = m
      BY <1>4, <3>5, <3>7 DEF M
    <3>9. Readable(m)
      BY <1>1, <3>4, <3>5, NewRam
    <3> QED BY <1>6, <1>7, <1>10, <2>5, <3>7, <3>8, <3>9 DEF m
  <2> QED BY <2>8, <2>9
<1> QED BY <1>8, <1>9, <1>10

LEMMA TakenAwayIs ==
    ASSUME IInv, TakeAway, ~ BeforeLibrary, ~ ReturnsMoved
    PROVE  IInv'
BY ClearedIs, DeletedIs DEF TakeAway

\* The current program is whole.
LEMMA CurrentIs ==
    ASSUME Readable(M), NEW w \in [pc : Nat, begin : Nat, end : Nat], Delimited(M, w),
           ~ AtHead(M, w.pc)
    PROVE  LET p == CurrentProgram(w)
           IN  /\ p \in Seq(Words) /\ Whole(p) /\ Len(p) = w.end - w.begin + 1 /\ Len(p) \in Nat
<1> DEFINE s == Region(M, w.begin)
           b == offset(w.begin)
           e == offset(w.end)
<1>1. /\ Aligned(s) /\ b \in Nat /\ b > 0 /\ Boundary(s, b - 1)
      /\ IsStep(s, e) /\ s[e] = END /\ b <= e /\ e \in Nat /\ e - b = w.end - w.begin
  BY ProgramAt
<1>2. CurrentProgram(w) = SubSeq(s, b, e)
  BY DEF CurrentProgram
<1> HIDE DEF s, b, e
<1>3. SubSeq(s, b, e) \in Seq(Words) /\ Whole(SubSeq(s, b, e)) /\ Len(SubSeq(s, b, e)) = e - b + 1
  BY <1>1, WholeSegment
<1>4. e - b + 1 = w.end - w.begin + 1 /\ e - b + 1 \in Nat
  BY <1>1
<1> QED BY <1>2, <1>3, <1>4

\* The library with another program in it, perhaps in the place of one.
LEMMA NewLib ==
    ASSUME NEW m, Readable(m), NEW s \in Seq(Words), Whole(s), Len(s) <= NUMPROG_FLASH_MAX
    PROVE  /\ Readable([m EXCEPT !.lib = s])
           /\ [m EXCEPT !.lib = s].lib = s /\ [m EXCEPT !.lib = s].ram = m.ram
           /\ [m EXCEPT !.lib = s].runmode = m.runmode
<1> DEFINE m2 == [m EXCEPT !.lib = s]
<1>1. m \in [ram : Seq(Words), lib : Seq(Words), runmode : {0, 1}]
  BY DEF Readable
<1>2. /\ m2 \in [ram : Seq(Words), lib : Seq(Words), runmode : {0, 1}]
      /\ m2.lib = s /\ m2.ram = m.ram /\ m2.runmode = m.runmode
  BY <1>1
<1> HIDE DEF m2
<1>3. Readable(m2)
  BY <1>2 DEF Readable
<1> QED BY <1>2, <1>3 DEF m2

\* PSTO.
LEMMA StoredIs ==
    ASSUME IInv, store_program, ~ StoresNothing, ~ ReturnsMoved
    PROVE  IInv'
<1> DEFINE w      == Bounds(M, at.pc)
           label  == getprog(M, w.begin)
           dup    == find_opcode_from(M, w, LIB, label, FALSE)
           old    == Bounds(M, dup)
           needed == 1 + w.end - w.begin - (IF dup = 0 THEN 0 ELSE 1 + old.end - old.begin)
           p      == CurrentProgram(w)
           kept   == IF dup = 0 THEN lib ELSE ClearedLib(old)
<1>1. Readable(M) /\ Located(M, at) /\ Returning(M, rets) /\ Running \in BOOLEAN
  BY DEF IInv
<1>2. /\ M.ram = ram /\ M.lib = lib /\ M.runmode = runmode /\ runmode \in {0, 1}
      /\ ram \in Seq(Words) /\ lib \in Seq(Words) /\ Len(lib) \in Nat
      /\ Len(lib) <= NUMPROG_FLASH_MAX /\ (lib = << >> \/ Whole(lib))
  BY <1>1, RamIs
<1>3. /\ ~ Running /\ isRAM(at.pc) /\ at' = w
      /\ lib' = IF label \in Labels /\ needed <= NUMPROG_FLASH_MAX - Len(lib)
                THEN kept \o p ELSE lib
      /\ ram' = ram /\ runmode' = runmode /\ Running' = Running /\ rets' = rets
  BY Zenon DEF store_program, Duplicate
<1>4. at.pc \in Nat /\ Place(M, at.pc) /\ at.pc # 0
  <2>1. at.pc \in Nat /\ Place(M, at.pc)
    BY <1>1 DEF Located
  <2>2. ~ InStep(M, 0) /\ ~ AtHead(M, 0)
    BY <1>1, Heads
  <2> QED BY <1>2, <2>1, <2>2 DEF Place, StoresNothing
<1>5. /\ w \in [pc : Nat, begin : Nat, end : Nat] /\ Delimited(M, w) /\ w.pc = at.pc
      /\ Located(M, w)
  BY <1>1, <1>2, <1>4, BoundsIs, BoundsLocated
<1> HIDE DEF w
<1>6. ~ AtHead(M, w.pc)
  BY <1>1, <1>3, <1>5, Heads
<1>7. p \in Seq(Words) /\ Whole(p) /\ Len(p) = w.end - w.begin + 1 /\ Len(p) \in Nat
  BY <1>1, <1>5, <1>6, CurrentIs
<1> HIDE DEF label, p
<1>8. CASE ~ (label \in Labels /\ needed <= NUMPROG_FLASH_MAX - Len(lib))
  <2>1. lib' = lib
    BY <1>3, <1>8
  <2>2. M' = M
    BY <1>3, <2>1 DEF M
  <2> QED BY <1>1, <1>3, <1>5, <2>2 DEF IInv
<1>9. CASE label \in Labels /\ needed <= NUMPROG_FLASH_MAX - Len(lib)
  <2>1. /\ kept \in Seq(Words) /\ Aligned(kept) /\ Len(kept) \in Nat
        /\ Len(kept) + Len(p) <= NUMPROG_FLASH_MAX
        /\ dup # 0 => \E b \in Nat : /\ b > 0 /\ b - 1 <= Len(kept) /\ old.begin = LIB + b
                                     /\ \A i \in 1 .. b - 1 : kept[i] = lib[i]
    <3>1. CASE dup = 0
      <4>1. kept = lib
        BY <3>1
      <4>2. needed = 1 + w.end - w.begin
        BY <3>1, <1>5
      <4> HIDE DEF needed, kept
      <4>3. Aligned(lib)
        BY <1>2, EmptyAligned, WholeAligned
      <4>4. Len(lib) + Len(p) <= NUMPROG_FLASH_MAX
        BY <1>2, <1>5, <1>7, <1>9, <4>2, SizesAre
      <4> QED BY <1>2, <3>1, <4>1, <4>3, <4>4
    <3>2. CASE dup # 0
      <4>1. LIB \in Nat /\ Place(M, LIB) /\ Reached(M, w, FALSE, LIB) /\ ~ isRAM(LIB)
        BY SizesAre DEF Place, AtHead, Reached, isRAM
      <4>2. /\ Place(M, dup) /\ dup \in Nat /\ getprog(M, dup) = label /\ ~ isRAM(dup)
        <5>1. runmode = 1 => Delimited(M, w)
          BY <1>5
        <5> DEFINE f == FALSE
        <5>2. /\ f \in BOOLEAN /\ ~ (f /\ M.runmode = 1) /\ Reached(M, w, f, LIB)
              /\ (M.runmode = 1 => Delimited(M, w)) /\ dup = find_opcode_from(M, w, LIB, label, f)
          BY <1>2, <4>1, <5>1
        <5> HIDE DEF dup, f
        <5>3. Place(M, dup) /\ dup \in Nat /\ getprog(M, dup) = label
          BY <1>1, <1>5, <3>2, <4>1, <5>2, FindOpcodeIs
        <5>4. isRAM(dup) <=> isRAM(LIB)
          BY <1>1, <1>5, <3>2, <4>1, <5>2, FindOpcodeIs
        <5> QED BY <4>1, <5>3, <5>4
      <4> HIDE DEF dup
      <4>3. /\ old \in [pc : Nat, begin : Nat, end : Nat] /\ old.pc = dup /\ Delimited(M, old)
        BY <1>1, <3>2, <4>2, BoundsIs
      <4>4. ~ AtHead(M, old.pc)
        <5>1. label # <<END>>
          <6>1. PICK d \in LabelWords, x \in Seconds : label = <<d, x>>
            BY <1>9 DEF Labels
          <6>2. Len(<<d, x>>) = 2 /\ Len(<<END>>) = 1
            OBVIOUS
          <6> QED BY <6>1, <6>2
        <5> QED BY <1>1, <4>2, <4>3, <5>1, Heads
      <4> HIDE DEF old
      <4> DEFINE b == offset(old.begin)
                 e == offset(old.end)
                 s == Region(M, old.begin)
      <4>5. /\ s \in Seq(Words) /\ Whole(s) /\ Aligned(s) /\ b \in Nat /\ b > 0
            /\ Boundary(s, b - 1) /\ (b = 1 \/ (s[b - 1] = END /\ IsStep(s, b - 1)))
            /\ IsStep(s, e) /\ s[e] = END /\ b <= e /\ e \in Nat
            /\ e - b = old.end - old.begin /\ ~ isRAM(old.begin)
        BY <1>1, <4>2, <4>3, <4>4, ProgramAt
      <4>6. ~ isRAM(old.end)
        BY <1>1, <4>2, <4>3, <4>4, <4>5, WithinIs, SizesAre DEF Origin
      <4>7. s = lib /\ b = old.begin - LIB /\ e = old.end - LIB
        BY <1>2, <4>5, <4>6 DEF Region, offset
      <4>8. old.begin # LIB
        BY <4>3, <4>5, <4>7, SizesAre
      <4> DEFINE r == Cut(s, b, e)
      <4>9. kept = r
        BY <3>2, <4>7, <4>8 DEF ClearedLib
      <4>10. needed = 1 + w.end - w.begin - (1 + old.end - old.begin)
        BY <3>2
      <4> HIDE DEF s, b, e, needed, kept
      <4>11. /\ r \in Seq(Words) /\ Aligned(r) /\ Len(r) = Len(s) - (e - b + 1)
             /\ b - 1 <= Len(r) /\ \A i \in 1 .. b - 1 : r[i] = s[i]
        BY <4>5, CutIs
      <4>12. Len(r) \in Nat
        BY <4>11, LenProperties
      <4> HIDE DEF r
      <4>13. Len(r) + Len(p) <= NUMPROG_FLASH_MAX
        <5>1. Len(r) = Len(lib) - (old.end - old.begin + 1) /\ needed <= NUMPROG_FLASH_MAX - Len(lib)
          BY <1>9, <4>5, <4>7, <4>11
        <5>2. /\ w.end \in Nat /\ w.begin \in Nat /\ old.end \in Nat /\ old.begin \in Nat
              /\ Len(p) = w.end - w.begin + 1 /\ Len(lib) \in Nat
          BY <1>2, <1>5, <1>7, <4>3
        <5> DEFINE x == w.end - w.begin + 1
                   y == old.end - old.begin + 1
                   l == Len(lib)
        <5>3. /\ x \in Int /\ y \in Int /\ l \in Int /\ Len(p) = x /\ Len(r) = l - y
              /\ needed = x - y
          BY SMTT(30), <4>10, <5>1, <5>2
        <5>4. needed <= NUMPROG_FLASH_MAX - l
          BY <5>1
        <5> HIDE DEF x, y, l
        <5> QED BY <5>3, <5>4, SizesAre
      <4>14. old.begin = LIB + b
        BY <4>3, <4>5, <4>7, SizesAre
      <4>15. b > 0 /\ b - 1 <= Len(kept) /\ \A i \in 1 .. b - 1 : kept[i] = lib[i]
        BY <4>5, <4>7, <4>9, <4>11
      <4>16. b \in Nat
        BY <4>5
      <4> HIDE DEF p
      <4> QED BY <4>9, <4>11, <4>12, <4>13, <4>14, <4>15, <4>16
    <3> QED BY <3>1, <3>2
  <2> DEFINE new == kept \o p
  <2>2. lib' = new
    BY <1>3, <1>9
  <2> HIDE DEF kept, needed
  <2>3. new \in Seq(Words) /\ Whole(new) /\ Len(new) = Len(kept) + Len(p)
    BY <1>7, <2>1, WholeConcat
  <2> HIDE DEF new
  <2> DEFINE m == [M EXCEPT !.lib = new]
  <2>4. Readable(m) /\ m.lib = new /\ m.ram = ram /\ m.runmode = runmode /\ M' = m
    <3>1. M' = m
      <4>1. ram' = ram /\ lib' = new /\ runmode' = runmode
        BY <1>3, <2>2
      <4> QED BY <4>1 DEF M
    <3>2. Len(new) <= NUMPROG_FLASH_MAX
      BY <2>1, <2>3
    <3> QED BY <1>1, <1>2, <2>3, <3>1, <3>2, NewLib
  <2> HIDE DEF m
  <2>5. Delimited(m, w)
    <3>1. Region(M, w.pc) = ram /\ Region(m, w.pc) = ram
      BY <1>2, <1>3, <1>5, <2>4 DEF Region
    <3>2. Prolongs(Region(M, w.pc), Region(m, w.pc))
      BY <1>2, <3>1, LenProperties DEF Prolongs
    <3> QED BY <1>1, <1>5, <1>6, <2>4, <3>2, DelimitedKept
  <2>6. Located(M', at')
    <3>1. InStep(m, w.pc)
      <4>1. ~ AtHead(m, w.pc)
        BY <1>3, <1>5, <2>4, Heads
      <4> QED BY <2>5, <4>1 DEF Delimited
    <3> QED BY <1>3, <1>5, <2>4, <2>5, <3>1 DEF Located, Place
  <2>7. Returning(M', rets')
    <3>1. CASE new = lib
      <4>1. M' = M
        BY <1>3, <2>2, <3>1 DEF M
      <4> QED BY <1>1, <1>3, <4>1
    <3>2. CASE dup = 0
      <4>1. new = lib \o p
        BY <3>2 DEF new, kept
      <4>2. Prolongs(M.lib, m.lib)
        BY <1>2, <1>7, <2>4, <4>1, ConcatProperties DEF Prolongs
      <4>3. Prolongs(M.ram, m.ram)
        BY <1>2, <2>4, LenProperties DEF Prolongs
      <4> QED BY <1>1, <1>2, <1>3, <2>4, <4>2, <4>3, PlacesKept
    <3>3. CASE new # lib /\ dup # 0
      <4>1. ~ LeadsFrom(old.begin)
        BY <1>3, <2>2, <3>3 DEF ReturnsMoved, Duplicate, w, label
      <4> HIDE DEF old, dup
      <4>2. PICK b \in Nat : /\ b > 0 /\ b - 1 <= Len(kept) /\ old.begin = LIB + b
                             /\ \A i \in 1 .. b - 1 : kept[i] = lib[i]
        BY <2>1, <3>3
      <4>3. \A i \in 1 .. Len(rets) : rets[i] < LIB + b
        BY <1>1, <4>1, <4>2, SizesAre DEF LeadsFrom, Returning
      <4>4. b - 1 <= Len(new)
        BY <1>7, <2>1, <2>3, <4>2
      <4>5. \A i \in 1 .. b - 1 : new[i] = lib[i]
        <5> TAKE i \in 1 .. b - 1
        <5>1. i \in 1 .. Len(kept) + Len(p) /\ i <= Len(kept)
          BY <1>7, <2>1, <4>2
        <5>2. (kept \o p)[i] = kept[i]
          BY <1>7, <2>1, <5>1, ConcatProperties
        <5> QED BY <4>2, <5>2 DEF new
      <4> QED BY <1>1, <1>2, <1>3, <2>4, <4>2, <4>3, <4>4, <4>5, ReturnsBefore
    <3> QED BY <3>1, <3>2, <3>3
  <2> QED BY <1>1, <1>3, <2>4, <2>6, <2>7 DEF IInv
<1> QED BY <1>8, <1>9

\* PRCL.
LEMMA RecalledIs ==
    ASSUME IInv, NEW ok \in BOOLEAN, recall_program(ok), ~ LosesEnd
    PROVE  IInv'
<1> DEFINE w    == Bounds(M, IF at.pc = 0 THEN 1 ELSE at.pc)
           less == [M EXCEPT !.ram = Kept(ram)]
           p    == CurrentProgram(w)
           kept == Kept(ram)
           more == [M EXCEPT !.ram = Kept(M.ram) \o p]
<1>1. Readable(M) /\ Located(M, at) /\ Returning(M, rets) /\ Running \in BOOLEAN
  BY DEF IInv
<1>2. /\ M.ram = ram /\ M.lib = lib /\ M.runmode = runmode /\ runmode \in {0, 1}
      /\ ram \in Seq(Words) /\ Whole(ram) /\ Aligned(ram) /\ Len(ram) \in Nat /\ Len(ram) > 0
      /\ Len(ram) <= NUMPROG_LIMIT
  BY <1>1, RamIs DEF ProgSize
<1>3. /\ ~ Running /\ offset(w.begin) > 0 /\ offset(w.end) <= Len(Region(M, w.begin))
      /\ ok => append_program(M, w, p)
      /\ ~ ok => \E single \in BOOLEAN :
                   /\ append_fails(M, raw_set_pc(less, IF single THEN at ELSE w, at.pc), p)
                   /\ rets' = IF single \/ TooLong(M, p) THEN rets ELSE << >>
      /\ lib' = lib /\ runmode' = runmode /\ Running' = Running
  BY Zenon DEF recall_program
<1>4. at.pc \in Nat /\ Place(M, at.pc) /\ at \in [pc : Nat, begin : Nat, end : Nat]
      /\ (runmode = 1 => Delimited(M, at))
  BY <1>1, <1>2 DEF Located
<1>5. /\ w \in [pc : Nat, begin : Nat, end : Nat] /\ Delimited(M, w)
  <2> DEFINE q == IF at.pc = 0 THEN 1 ELSE at.pc
  <2>1. q # 0 /\ Place(M, q)
    BY <1>1, <1>4, Heads DEF Place
  <2> HIDE DEF q
  <2>2. Bounds(M, q) \in [pc : Nat, begin : Nat, end : Nat] /\ Delimited(M, Bounds(M, q))
    BY <1>1, <2>1, BoundsIs
  <2> QED BY <2>2 DEF q
<1> HIDE DEF w
<1>6. ~ AtHead(M, w.pc)
  <2> SUFFICES ASSUME AtHead(M, w.pc) PROVE FALSE
    OBVIOUS
  <2>1. w.begin = w.pc /\ w.end = w.pc
    BY <1>1, <1>5, WithinIs
  <2>2. ~ isRAM(w.pc) /\ offset(w.pc) \notin 1 .. Len(Region(M, w.pc)) /\ w.pc \in Nat
    BY <1>1, Heads
  <2>3. offset(w.pc) \in Nat /\ Len(Region(M, w.pc)) \in Nat
    BY <1>1, <2>2, RegionAligned
  <2> QED BY <1>3, <2>1, <2>2, <2>3
<1>7. p \in Seq(Words) /\ Whole(p) /\ Len(p) = w.end - w.begin + 1 /\ Len(p) \in Nat
  BY <1>1, <1>5, <1>6, CurrentIs
<1>8. Returning(M', << >>)
  BY EmptySeq, SizesAre DEF Returning
<1>9. CASE ~ ok
  <2>1. PICK single \in BOOLEAN :
          /\ ram' = Kept(ram) /\ at' = raw_set_pc(less, IF single THEN at ELSE w, at.pc)
          /\ rets' = IF single \/ TooLong(M, p) THEN rets ELSE << >>
    BY <1>2, <1>3, <1>9 DEF append_fails
  <2>2. Kept(ram) = ram
    BY <2>1 DEF Kept, LosesEnd
  <2>3. less = M
    BY <2>2 DEF M
  <2>4. M' = M
    BY <1>3, <2>1, <2>2 DEF M
  <2> DEFINE v == IF single THEN at ELSE w
  <2>5. v \in [pc : Nat, begin : Nat, end : Nat] /\ (M.runmode = 1 => Delimited(M, v))
    BY <1>2, <1>4, <1>5
  <2>6. at' = raw_set_pc(M, v, at.pc)
    BY <2>1, <2>3
  <2> HIDE DEF v
  <2>7. Located(M, at')
    BY <1>1, <1>4, <2>5, <2>6, RawSetPcIs
  <2>8. Returning(M, rets')
    BY <1>1, <1>8, <2>1, <2>4
  <2> QED BY <1>1, <1>3, <2>4, <2>7, <2>8 DEF IInv
<1>10. CASE ok
  <2> HIDE DEF p
  <2>1. /\ ~ TooLong(M, p) /\ ram' = more.ram /\ rets' = << >>
        /\ at' = set_pc(more, w, Len(Kept(M.ram)) + 1)
    BY <1>3, <1>10 DEF append_program, Appended
  <2>2. kept \in Seq(Words) /\ Aligned(kept) /\ Len(kept) \in Nat
        /\ (kept = ram \/ (kept = << >> /\ Len(ram) = 1))
    <3>1. CASE Len(ram) = 1
      BY <3>1, EmptyAligned DEF Kept, Aligned
    <3>2. CASE Len(ram) # 1
      BY <1>2, <3>2 DEF Kept
    <3> QED BY <3>1, <3>2
  <2> DEFINE new == kept \o p
  <2> HIDE DEF kept
  <2>3. new \in Seq(Words) /\ Whole(new) /\ Len(new) = Len(kept) + Len(p)
        /\ \A i \in 1 .. Len(new) : new[i] = IF i <= Len(kept) THEN kept[i] ELSE p[i - Len(kept)]
    BY <1>7, <2>2, WholeConcat
  <2> HIDE DEF new
  <2>4. Len(new) <= NUMPROG_LIMIT
    <3>1. ~ (Len(p) > NUMPROG_LIMIT - Len(kept))
      BY <1>2, <2>1 DEF TooLong, kept
    <3> QED BY <1>7, <2>2, <2>3, <3>1, SizesAre
  <2>5. more = [M EXCEPT !.ram = new]
    BY <1>2 DEF new, kept
  <2>6. Readable(more) /\ more.ram = new /\ more.lib = lib /\ more.runmode = runmode
    <3> HIDE DEF more
    <3>1. Readable([M EXCEPT !.ram = new]) /\ [M EXCEPT !.ram = new].ram = new
      BY <1>1, <2>3, <2>4, NewRam
    <3>2. [M EXCEPT !.ram = new].lib = M.lib /\ [M EXCEPT !.ram = new].runmode = M.runmode
      BY <1>1, <2>3, <2>4, NewRam
    <3> QED BY <1>2, <2>5, <3>1, <3>2
  <2>7. M' = more
    <3>1. ram' = new /\ lib' = lib /\ runmode' = runmode
      BY <1>3, <2>1, <2>6
    <3> QED BY <2>5, <3>1 DEF M
  <2> HIDE DEF more
  <2>8. Prolongs(Region(M, w.pc), Region(more, w.pc))
    <3>1. CASE ~ isRAM(w.pc)
      <4>1. Region(M, w.pc) = lib /\ Region(more, w.pc) = lib /\ Len(lib) \in Nat
        BY <1>1, <1>2, <2>6, <3>1, RamIs DEF Region
      <4> QED BY <4>1 DEF Prolongs
    <3>2. CASE isRAM(w.pc)
      <4>1. Region(M, w.pc) = ram /\ Region(more, w.pc) = new
        BY <1>2, <2>6, <3>2 DEF Region
      <4>2. CASE kept = ram
        <5>1. Len(new) = Len(ram) + Len(p) /\ Len(ram) <= Len(new)
          BY <1>2, <1>7, <2>3, <4>2
        <5>2. ASSUME NEW i \in 1 .. Len(ram) PROVE new[i] = ram[i]
          <6>1. i \in 1 .. Len(new) /\ i <= Len(kept)
            BY <1>2, <1>7, <4>2, <5>1
          <6> QED BY <2>3, <4>2, <6>1
        <5> QED BY <4>1, <5>1, <5>2 DEF Prolongs
      <4>3. CASE kept = << >> /\ Len(ram) = 1
        <5>1. Len(kept) = 0 /\ Len(new) = Len(p)
          BY <1>7, <2>3, <4>3
        <5> DEFINE s == Region(M, w.begin)
                   b == offset(w.begin)
                   e == offset(w.end)
        <5>2. /\ b \in Nat /\ b > 0 /\ b <= e /\ e \in Nat /\ IsStep(s, e)
              /\ e - b = w.end - w.begin /\ (isRAM(w.begin) <=> isRAM(w.pc))
          BY <1>1, <1>5, <1>6, ProgramAt
        <5>3. s = ram
          BY <1>2, <3>2, <5>2 DEF Region
        <5>4. p = SubSeq(s, b, e)
          BY DEF p, CurrentProgram
        <5> HIDE DEF s, b, e
        <5>5. e \in 1 .. 1
          BY <4>3, <5>2, <5>3 DEF IsStep
        <5>6. b = 1 /\ e = 1
          BY <5>2, <5>5
        <5>7. p = ram
          <6>1. SubSeq(ram, 1, Len(ram)) = ram
            BY <1>2, SubSeqFull
          <6> QED BY <4>3, <5>3, <5>4, <5>6, <6>1
        <5>8. new = p
          <6>1. << >> \o p = p
            BY <1>7, ConcatEmptySeq
          <6> QED BY <4>3, <6>1 DEF new
        <5> QED BY <1>2, <4>1, <5>7, <5>8 DEF Prolongs
      <4> QED BY <2>2, <4>2, <4>3
    <3> QED BY <3>1, <3>2
  <2>9. Delimited(more, w)
    BY <1>1, <1>5, <1>6, <2>6, <2>8, DelimitedKept
  <2>10. Located(more, at')
    <3>1. at' = set_pc(more, w, Len(kept) + 1) /\ Len(kept) + 1 \in Nat
      BY <1>2, <2>1, <2>2 DEF kept
    <3> QED BY <1>5, <2>6, <2>9, <3>1, SetPcIs
  <2> QED BY <1>1, <1>3, <1>8, <2>1, <2>6, <2>7, <2>10 DEF IInv
<1> QED BY <1>9, <1>10

LEMMA EditedIs ==
    ASSUME IInv, Edit, ~ LosesEnd
    PROVE  IInv'
<1>1. CASE reset
  <2> DEFINE m == [ram |-> <<END>>, lib |-> lib, runmode |-> 1]
  <2>1. /\ ~ Running /\ ram' = <<END>> /\ runmode' = 1 /\ at' = Bounds(m, 0) /\ rets' = << >>
        /\ lib' = lib /\ Running' = Running
    BY <1>1 DEF reset
  <2>2. /\ lib \in Seq(Words) /\ Len(lib) <= NUMPROG_FLASH_MAX /\ (lib = << >> \/ Whole(lib))
    BY RamIs DEF IInv
  <2>3. Readable(m)
    <3>1. /\ m.ram = <<END>> /\ m.lib = lib /\ m.runmode = 1
          /\ m \in [ram : Seq(Words), lib : Seq(Words), runmode : {0, 1}]
      BY <2>2, LoneEnd
    <3> HIDE DEF m
    <3> QED BY <2>2, <3>1, LoneEnd, SizesAre DEF Readable
  <2>4. M' = m
    BY <2>1 DEF M
  <2> HIDE DEF m
  <2>5. Located(M', at')
    BY <2>1, <2>3, <2>4, BoundsLocated
  <2>6. Returning(M', rets')
    BY <2>1, EmptySeq, SizesAre DEF Returning
  <2> QED BY <2>1, <2>3, <2>4, <2>5, <2>6 DEF IInv
<1>2. ASSUME NEW c \in Opcodes, NEW free \in 0 .. 3, stoprog(c, free)
      PROVE  IInv'
  BY <1>2, EnteredIs
<1>3. ASSUME NEW ok \in BOOLEAN, recall_program(ok)
      PROVE  IInv'
  BY <1>3, RecalledIs
<1> QED BY <1>1, <1>2, <1>3 DEF Edit
-----------------------------------------------------------------------------
(* The invariant *)

LEMMA InitIs == Init => IInv
<1> SUFFICES ASSUME Init PROVE IInv
  OBVIOUS
<1>1. /\ ram = <<END>> /\ lib = << >> /\ runmode = 1 /\ at = [pc |-> 1, begin |-> 1, end |-> 1]
      /\ Running = FALSE /\ rets = << >>
  BY DEF Init
<1>2. M.ram = <<END>> /\ M.lib = << >> /\ M.runmode = 1
      /\ M \in [ram : Seq(Words), lib : Seq(Words), runmode : {0, 1}]
  BY <1>1, LoneEnd DEF M
<1>3. Readable(M)
  BY <1>2, LoneEnd, SizesAre, EmptySeq DEF Readable
<1>4. /\ InStep(M, 1) /\ isRAM(1) /\ Ending(M, 1) /\ ~ AtHead(M, 1)
  <2>1. InStep(M, 1) /\ isRAM(1)
    BY <1>3, Heads
  <2>2. ~ AtHead(M, 1)
    BY <1>3, <2>1, Heads
  <2>3. Region(M, 1) = <<END>> /\ offset(1) = 1
    BY <1>2, <2>1 DEF Region, offset
  <2>4. getprog(M, 1) = <<END>>
    BY <1>3, <2>3, GetprogIs
  <2> QED BY <2>1, <2>2, <2>4 DEF Ending
<1>5. Origin(1) = 0
  BY <1>4 DEF Origin
<1>6. BeginsProgram(M, 1, 1) /\ EndsProgram(M, 1, 1)
  BY <1>4, <1>5 DEF BeginsProgram, EndsProgram
<1>7. Located(M, at)
  BY <1>1, <1>4, <1>6 DEF Located, Delimited, Place
<1>8. Returning(M, rets)
  BY <1>1, EmptySeq, SizesAre DEF Returning
<1> QED BY <1>1, <1>3, <1>7, <1>8 DEF IInv

LEMMA NextKeeps == IInv /\ [CheckedNext]_vars => IInv'
<1> SUFFICES ASSUME IInv, [CheckedNext]_vars PROVE IInv'
  OBVIOUS
<1>1. CASE UNCHANGED vars
  BY <1>1 DEF vars, IInv, M
<1>2. CASE Navigate
  BY <1>2, NavigateIs
<1>3. CASE Run
  BY <1>3, RunIs
<1>4. CASE Edit /\ ~ LosesEnd
  BY <1>4, EditedIs
<1>5. CASE Replace /\ ~ LosesEnd /\ BoundsRenewed'
  BY <1>5, ReplacedIs
<1>6. CASE TakeAway /\ ~ BeforeLibrary /\ ~ ReturnsMoved
  BY <1>6, TakenAwayIs
<1>7. CASE store_program /\ ~ StoresNothing /\ ~ ReturnsMoved
  BY <1>7, StoredIs
<1> QED BY <1>1, <1>2, <1>3, <1>4, <1>5, <1>6, <1>7 DEF CheckedNext

\* The inductive invariant holds: whatever command is given, by key, by single step
\* or by a running program, the programs stay whole, the counter is at a place of
\* them with its program's bounds, and every return address is a step.
THEOREM ProgramIsSound == CheckedSpec => []IInv
<1>1. Init => IInv
  BY InitIs
<1>2. IInv /\ [CheckedNext]_vars => IInv'
  BY NextKeeps
<1> QED BY <1>1, <1>2, PTL DEF CheckedSpec

\* Every variable of the program memory has its type, and programs and return
\* addresses stay within their space, whichever command is given.
THEOREM Types == CheckedSpec => []TypeOK
<1>1. IInv => TypeOK
  <2> SUFFICES ASSUME IInv PROVE TypeOK
    OBVIOUS
  <2>1. Readable(M) /\ Located(M, at) /\ Returning(M, rets)
        /\ Running \in BOOLEAN /\ (Running => runmode = 1)
    BY DEF IInv
  <2>2. /\ ram \in Seq(Words) /\ ProgSize <= NUMPROG_LIMIT /\ runmode \in {0, 1}
        /\ lib \in Seq(Words) /\ Len(lib) <= NUMPROG_FLASH_MAX
    BY <2>1, RamIs
  <2>3. at \in [pc : Nat, begin : Nat, end : Nat] /\ rets \in Seq(Nat) /\ Len(rets) <= MAX_RETURNS
    BY <2>1 DEF Located, Returning
  <2> QED BY <2>1, <2>2, <2>3 DEF TypeOK
<1> QED BY <1>1, ProgramIsSound, PTL

\* Entering, deleting, removing, appending, storing and replacing programs never
\* take a step apart, and RAM never loses its last END (stoprog, delprog, clrprog,
\* append_program, store_program).
THEOREM ProgramsStayWhole == CheckedSpec => []ProgramsWhole
<1>1. IInv => ProgramsWhole
  BY RamIs DEF IInv, ProgramsWhole, RamWhole, LibWhole
<1> QED BY <1>1, ProgramIsSound, PTL

LEMMA PlaceIsAtPlace ==
    ASSUME Readable(M), NEW p, Place(M, p)
    PROVE  AtPlace(p)
BY RamIs DEF Place, AtPlace, AtHead, InStep

\* The program counter is at a step of two words' first one, or at a place before
\* the first step, whichever way it was moved (set_pc, raw_set_pc, incpc, decpc).
THEOREM PcStaysAtStep == CheckedSpec => []PcAtStep
<1>1. IInv => PcAtStep
  BY PlaceIsAtPlace DEF IInv, Located, PcAtStep
<1> QED BY <1>1, ProgramIsSound, PTL

\* A return leads to a step, by the commands of CheckedSpec: calls and returns,
\* commands that clear the stack, and those that keep it where what they take away
\* lies behind the returns.  Deletion in front of a return is not among them.
THEOREM ReturnsStayAtStep == CheckedSpec => []ReturnsAtStep
<1>1. IInv => ReturnsAtStep
  BY PlaceIsAtPlace DEF IInv, Returning, ReturnsAtStep
<1> QED BY <1>1, ProgramIsSound, PTL

\* While programs are executed, ProgBegin and ProgEnd are those of the program the
\* counter is in: the cached bounds are never stale (raw_set_pc renews them only
\* when the counter leaves them).
THEOREM BoundsStayExact == CheckedSpec => []BoundsExact
<1>1. IInv => BoundsExact
  <2> SUFFICES ASSUME IInv, runmode = 1 PROVE Exact
    BY DEF BoundsExact
  <2>1. /\ Readable(M) /\ at \in [pc : Nat, begin : Nat, end : Nat] /\ Delimited(M, at)
        /\ M.lib = lib
    BY RamIs DEF IInv, Located, M
  <2>2. CASE AtHead(M, at.pc)
    <3>1. at.pc = LIB \/ (at.pc = LIB + 1 /\ lib = << >>)
      BY <2>1, <2>2 DEF AtHead
    <3> QED BY <2>1, <2>2, <3>1, WithinIs DEF Exact
  <2>3. CASE ~ AtHead(M, at.pc)
    <3>1. ~ (at.pc = LIB \/ (at.pc = LIB + 1 /\ lib = << >>))
      BY <2>1, <2>3 DEF AtHead
    <3>2. /\ Ending(M, at.end) /\ at.pc \in at.begin .. at.end
          /\ \A x \in at.begin .. at.end - 1 : ~ Ending(M, x)
      BY <2>1, <2>3, WithinIs DEF Within
    <3>3. BeginsProgram(M, at.pc, at.begin)
      BY <2>1, <2>3 DEF Delimited
    <3>4. \A x \in Nat : EndsAt(x) <=> Ending(M, x)
      BY DEF EndsAt, Ending, InStep
    <3>5. EndsAt(at.end) /\ \A x \in at.begin .. at.end - 1 : ~ EndsAt(x)
      BY <2>1, <3>2, <3>4
    <3>6. offset(at.begin) = 1 \/ EndsAt(at.begin - 1)
      <4>1. CASE at.begin = Origin(at.begin) + 1
        <5>1. at.begin = Origin(at.begin) + offset(at.begin) /\ offset(at.begin) \in Nat
              /\ Origin(at.begin) \in Nat
          BY <2>1, RegionAligned
        <5> QED BY <4>1, <5>1
      <4>2. CASE Ending(M, at.begin - 1)
        <5>1. at.begin - 1 \in Nat
          BY <4>2 DEF Ending, InStep
        <5> QED BY <3>4, <4>2, <5>1
      <4> QED BY <3>3, <4>1, <4>2 DEF BeginsProgram
    <3> QED BY <3>1, <3>2, <3>5, <3>6 DEF Exact
  <2> QED BY <2>2, <2>3
<1> QED BY <1>1, ProgramIsSound, PTL
-----------------------------------------------------------------------------
(* Stepping there and back *)

\* The places in the results of do_inc.
LEMMA Ways ==
    ASSUME NEW a, NEW b
    PROVE  [pc |-> a, wrapped |-> b].pc = a /\ [pc |-> a, wrapped |-> b].wrapped = b
OBVIOUS

LEMMA WayIs ==
    ASSUME NEW x, NEW a, NEW b, x = [pc |-> a, wrapped |-> b]
    PROVE  x.pc = a /\ x.wrapped = b
BY Ways

\* Two steps that share a word are the same.
LEMMA SameStep ==
    ASSUME NEW m, Readable(m), NEW p, InStep(m, p), NEW q, InStep(m, q),
           p < q + Len(getprog(m, q)), q < p + Len(getprog(m, p))
    PROVE  p = q
<1> DEFINE a == Len(getprog(m, p))
           b == Len(getprog(m, q))
<1>1. p \in Nat /\ q \in Nat /\ a \in {1, 2} /\ b \in {1, 2}
  BY StepFacts
<1>2. (p < q => p + a <= q) /\ (q < p => q + b <= p)
  BY StepsApart
<1>3. p < q + b /\ q < p + a
  OBVIOUS
<1> HIDE DEF a, b
<1> QED BY <1>1, <1>2, <1>3

\* Forwards and back within the program.
LEMMA InvertWithin ==
    ASSUME NEW m, Readable(m), m.runmode = 1,
           NEW w \in [pc : Nat, begin : Nat, end : Nat], Delimited(m, w),
           NEW p, Within(m, w, p)
    PROVE  do_dec(m, w, do_inc(m, w, p, TRUE).pc, TRUE).pc = p
<1> DEFINE q == do_inc(m, w, p, TRUE).pc
           r == do_dec(m, w, q, TRUE).pc
           n == Len(getprog(m, p))
<1>1. Within(m, w, q) /\ p \in w.begin .. w.end
  BY IncWithin DEF Within
<1>2. CASE p = w.end
  <2>1. q = w.begin
    <3>1. do_inc(m, w, p, TRUE) = [pc |-> w.begin, wrapped |-> TRUE]
      BY <1>2, IncWithin
    <3> QED BY <3>1, WayIs
  <2> HIDE DEF q
  <2> QED BY ZenonT(60), <1>1, <1>2, <2>1, DecWithin DEF q
<1>3. CASE p # w.end
  <2>1. q = p + n /\ InStep(m, p) /\ p + n > p
    <3>1. do_inc(m, w, p, TRUE) = [pc |-> p + n, wrapped |-> FALSE]
      BY <1>3, IncWithin
    <3>2. InStep(m, p) /\ p + n > p
      BY <1>3, IncWithin
    <3>3. q = p + n
      BY <3>1, WayIs
    <3> QED BY <3>2, <3>3
  <2> HIDE DEF q
  <2>2. q # w.begin
    <3>1. n \in {1, 2} /\ p \in Nat
      BY <2>1, StepFacts
    <3> HIDE DEF n
    <3> QED BY <1>1, <2>1, <3>1
  <2>3. r + Len(getprog(m, r)) = q /\ InStep(m, r) /\ r < q
    BY <1>1, <2>2, DecWithin
  <2>4. r < p + n
    BY <2>1, <2>3
  <2>5. p < r + Len(getprog(m, r))
    BY <2>1, <2>3
  <2> HIDE DEF r
  <2> QED BY <2>1, <2>3, <2>4, <2>5, SameStep DEF r, q
<1> QED BY <1>2, <1>3

\* Forwards and back in the whole memory.
LEMMA InvertMemory ==
    ASSUME NEW m, Readable(m), NEW w, NEW p, InStep(m, p)
    PROVE  do_dec(m, w, do_inc(m, w, p, FALSE).pc, FALSE).pc = p
<1> DEFINE n == Len(getprog(m, p))
           q == do_inc(m, w, p, FALSE).pc
           s == Section(m, w, p, FALSE)
           f == Final(m, p)
<1>1. /\ p \in Nat /\ n \in {1, 2} /\ p > Origin(p) /\ p + n - 1 <= f /\ f \in Nat
      /\ Origin(p) \in Nat /\ Region(m, p) # << >>
  BY StepFacts DEF InStep, IsStep
<1>2. /\ s.bottom = f /\ s.top \in Nat /\ s.top \in {Origin(p), Origin(p) + 1}
      /\ s.top = (IF isRAM(p) THEN m.runmode ELSE LIB + 1)
  BY <1>1, SectionIs
<1>3. /\ p + n <= f => q = p + n /\ InStep(m, p + n) /\ Origin(p + n) = Origin(p)
                       /\ Region(m, p + n) = Region(m, p)
      /\ ~ (p + n <= f) => q = s.top
  <2>1. p + n <= f => InStep(m, p + n) /\ Origin(p + n) = Origin(p)
                       /\ Region(m, p + n) = Region(m, p)
    BY StepFacts
  <2>2. IF p + n <= f THEN do_inc(m, w, p, FALSE) = [pc |-> p + n, wrapped |-> FALSE]
        ELSE do_inc(m, w, p, FALSE) = [pc |-> s.top, wrapped |-> TRUE]
    BY IncIs
  <2>3. (p + n <= f => q = p + n) /\ (~ (p + n <= f) => q = s.top)
    BY <2>2, WayIs
  <2> QED BY <2>1, <2>3
<1>4. /\ InStep(m, Origin(p) + 1) /\ InStep(m, f) /\ Origin(f) = Origin(p)
      /\ Region(m, f) = Region(m, p) /\ f > Origin(p)
  BY <1>1, RegionEnds DEF Ending
<1>5. s.top = Origin(p) \/ InStep(m, s.top)
  BY <1>2, <1>4
<1>6. ASSUME NEW x \in Nat, isRAM(x) <=> isRAM(p)
      PROVE  /\ x <= s.top => do_dec(m, w, x, FALSE).pc = StepOf(m, s.top, f)
             /\ x > s.top => do_dec(m, w, x, FALSE).pc = StepOf(m, s.top, x - 1)
  <2> DEFINE v == Section(m, w, x, FALSE)
  <2>1. v = s
    BY <1>6 DEF Section
  <2>2. do_dec(m, w, x, FALSE).pc = StepOf(m, v.top, IF x <= v.top THEN v.bottom ELSE x - 1)
    BY Zenon DEF do_dec, Backward
  <2> DEFINE top == s.top
  <2>3. top \in Nat
    BY <1>2
  <2> HIDE DEF v, s, f, top
  <2>4. x > top => ~ (x <= top)
    BY <2>3
  <2>5. x > s.top => ~ (x <= s.top)
    BY <2>4 DEF top
  <2> QED BY <1>2, <2>1, <2>2, <2>5
<1> HIDE DEF n, s, f, q
<1>7. CASE p + n <= f
  <2> DEFINE r == StepOf(m, s.top, (p + n) - 1)
  <2>1. p + n \in Nat /\ s.top < p + n /\ (p + n) - 1 > Origin(p)
    BY <1>1, <1>2
  <2>2. isRAM(p + n) <=> isRAM(p)
    BY <1>3, <1>7, SizesAre DEF Origin
  <2>3. /\ InStep(m, r) /\ r < p + n /\ r + Len(getprog(m, r)) = p + n
    <3> DEFINE y == p + n
    <3>1. /\ InStep(m, y) /\ s.top \in Nat /\ s.top < y /\ (s.top = Origin(y) \/ InStep(m, s.top))
          /\ y - 1 > Origin(y)
      BY <1>2, <1>3, <1>5, <1>7, <2>1
    <3> HIDE DEF y
    <3>2. /\ InStep(m, StepOf(m, s.top, y - 1)) /\ StepOf(m, s.top, y - 1) < y
          /\ StepOf(m, s.top, y - 1) + Len(getprog(m, StepOf(m, s.top, y - 1))) = y
      BY <3>1, DecIs
    <3> QED BY <3>2 DEF y
  <2>4. do_dec(m, w, q, FALSE).pc = r
    BY <1>3, <1>6, <1>7, <2>1, <2>2
  <2> HIDE DEF r
  <2>5. p < r + Len(getprog(m, r)) /\ r < p + Len(getprog(m, p))
    <3>1. p < p + n
      BY <1>1
    <3> QED BY <2>3, <3>1 DEF n
  <2>6. r = p
    BY <2>3, <2>5, SameStep
  <2> QED BY <2>4, <2>6 DEF q
<1>8. CASE ~ (p + n <= f)
  <2>1. q = s.top
    BY <1>3, <1>8
  <2>2. isRAM(s.top) <=> isRAM(p)
    BY <1>2, Heads, SizesAre DEF isRAM
  <2> DEFINE r == StepOf(m, s.top, f)
  <2>3. do_dec(m, w, q, FALSE).pc = r
    <3>1. s.top <= s.top
      BY <1>2
    <3> QED BY <1>2, <1>6, <2>1, <2>2, <3>1
  <2>4. InStep(m, r) /\ r + Len(getprog(m, r)) > f /\ r \in Nat /\ r <= f
    <3>1. offset(f) \in 1 .. Len(Region(m, f))
      BY <1>4, StepFacts
    <3>2. s.top <= f
      BY <1>1, <1>2, <1>4
    <3>3. InStep(m, r) /\ r \in s.top .. f /\ r + Len(getprog(m, r)) > f
      BY <1>1, <1>2, <1>4, <1>5, <3>1, <3>2, StepOfIs
    <3> QED BY <1>1, <1>2, <3>3
  <2> HIDE DEF r
  <2>5. r = p
    <3> DEFINE k == Len(getprog(m, r))
    <3>1. k \in {1, 2} /\ r + k > f
      BY <2>4, StepFacts
    <3> HIDE DEF k
    <3>2. p < r + k /\ r < p + n
      BY <1>1, <1>8, <2>4, <3>1
    <3> QED BY <2>4, <3>2, SameStep DEF k, n
  <2> QED BY <2>3, <2>5 DEF q
<1> QED BY <1>7, <1>8

\* Outside the bounds of the current program a step is one through the memory.
LEMMA WholeSection ==
    ASSUME NEW m, NEW w, NEW p, NEW endp \in BOOLEAN, ~ (endp /\ m.runmode = 1)
    PROVE  do_inc(m, w, p, endp) = do_inc(m, w, p, FALSE)
           /\ do_dec(m, w, p, endp) = do_dec(m, w, p, FALSE)
<1>1. Section(m, w, p, endp) = Section(m, w, p, FALSE)
  BY DEF Section
<1> QED BY <1>1, Zenon DEF do_inc, do_dec

LEMMA StepsAreSteps ==
    ASSUME Readable(M), NEW p \in Steps
    PROVE  InStep(M, p)
<1>1. p \in Nat
  BY RamIs, SizesAre DEF Steps
<1> QED BY <1>1 DEF Steps, InStep

\* One step forwards and one back, over the ends of the section or not, lead to
\* where one was (do_inc, do_dec).
THEOREM SteppingInverts == CheckedSpec => []StepsInvert
<1>1. IInv => StepsInvert
  <2> SUFFICES ASSUME IInv, NEW p \in Steps, NEW endp \in BOOLEAN,
                      endp /\ runmode = 1 => p \in at.begin .. at.end
               PROVE  do_dec(M, at, do_inc(M, at, p, endp).pc, endp).pc = p
    BY DEF StepsInvert
  <2>1. Readable(M) /\ M.runmode = runmode /\ InStep(M, p)
    BY RamIs, StepsAreSteps DEF IInv
  <2>2. CASE endp /\ runmode = 1
    <3>1. at \in [pc : Nat, begin : Nat, end : Nat] /\ Delimited(M, at)
      BY <2>1, <2>2 DEF IInv, Located
    <3>2. p # 0 /\ Place(M, p)
      BY <2>1, Heads DEF Place
    <3>3. Within(M, at, p) /\ endp = TRUE
      BY <2>2, <3>2 DEF Within
    <3> QED BY <2>1, <2>2, <3>1, <3>3, InvertWithin
  <2>3. CASE ~ (endp /\ runmode = 1)
    <3>1. do_inc(M, at, p, endp) = do_inc(M, at, p, FALSE)
      BY <2>1, <2>3, WholeSection
    <3> DEFINE q == do_inc(M, at, p, FALSE).pc
    <3>2. do_dec(M, at, q, endp) = do_dec(M, at, q, FALSE)
      BY <2>1, <2>3, WholeSection
    <3>3. do_dec(M, at, q, FALSE).pc = p
      BY <2>1, InvertMemory
    <3> QED BY <3>1, <3>2, <3>3
  <2> QED BY <2>2, <2>3
<1> QED BY <1>1, ProgramIsSound, PTL

\* A step that fails is the one the program stops at: stepping over it and back
\* leads to it, at either end of the program, too (xeq, "Back to error
\* instruction").
THEOREM FailedStepFound == CheckedSpec => BackToError
<1> DEFINE Found == \A by \in {"run", "sst"} : Executes(by) /\ Fail(by) => at'.pc = at.pc
<1>1. IInv => Found
  <2> SUFFICES ASSUME IInv, NEW by \in {"run", "sst"}, Executes(by), Fail(by)
               PROVE  at'.pc = at.pc
    OBVIOUS
  <2>1. Readable(M) /\ M.runmode = 1 /\ Located(M, at)
    BY Executing
  <2>2. at' = decpc(M, incpc(M, at))
    BY DEF Fail, ErrorAt, Behind
  <2> DEFINE v == incpc(M, at)
  <2>3. at \in [pc : Nat, begin : Nat, end : Nat] /\ Delimited(M, at) /\ Within(M, at, at.pc)
    BY <2>1, ReachedHere
  <2>4. Home(M, at, v)
    BY <2>1, HomeMoves
  <2>5. /\ v = [at EXCEPT !.pc = do_inc(M, at, at.pc, TRUE).pc]
    BY <2>1, PcMoves
  <2>6. v.pc = do_inc(M, at, at.pc, TRUE).pc
    BY <2>3, <2>5
  <2>7. decpc(M, v) = [v EXCEPT !.pc = do_dec(M, v, v.pc, TRUE).pc] /\ v \in [pc : Nat, begin : Nat, end : Nat]
    BY <2>1, <2>4, PcMoves DEF Home, Located
  <2>8. do_dec(M, v, v.pc, TRUE) = do_dec(M, at, v.pc, TRUE)
    <3>1. Section(M, v, v.pc, TRUE) = Section(M, at, v.pc, TRUE)
      BY <2>4 DEF Home, Section
    <3> QED BY <3>1, Zenon DEF do_dec
  <2>9. do_dec(M, at, do_inc(M, at, at.pc, TRUE).pc, TRUE).pc = at.pc
    BY <2>1, <2>3, InvertWithin
  <2>10. decpc(M, v).pc = do_dec(M, v, v.pc, TRUE).pc
    BY <2>7
  <2> HIDE DEF v
  <2> QED BY <2>2, <2>6, <2>8, <2>9, <2>10 DEF v
<1>2. IInv /\ [CheckedNext]_vars => [Found]_vars
  BY <1>1
<1> QED BY <1>2, ProgramIsSound, PTL DEF CheckedSpec, BackToError

-----------------------------------------------------------------------------
(* The numbers of steps *)

\* The loop of user_pc, turn by turn.
LastCounted(m, p, q) == q >= p \/ do_inc(m, Nowhere, q, FALSE).wrapped
Counted(m, p) ==
    LET number[q \in Addresses] ==
            IF LastCounted(m, p, q) THEN 1 ELSE 1 + number[StepBehind(m, q)]
    IN  number

LEMMA NumbersTurn ==
    ASSUME NEW m, NEW p, NEW q \in Addresses
    PROVE  Numbers(m, p)[q] = IF LastCounted(m, p, q) THEN 1
                              ELSE 1 + Numbers(m, p)[StepBehind(m, q)]
<1>1. Counted(m, p) = [x \in Addresses |->
          IF LastCounted(m, p, x) THEN 1 ELSE 1 + Counted(m, p)[StepBehind(m, x)]]
  BY DEF Counted
<1>2. Numbers(m, p) = Counted(m, p)
  BY Zenon DEF Numbers, Counted, LastCounted, StepBehind
<1> DEFINE C == Counted(m, p)
<1>3. C = [x \in Addresses |-> IF LastCounted(m, p, x) THEN 1 ELSE 1 + C[StepBehind(m, x)]]
  BY <1>1
<1> HIDE DEF C
<1>4. C[q] = IF LastCounted(m, p, q) THEN 1 ELSE 1 + C[StepBehind(m, q)]
  BY <1>3
<1> QED BY <1>2, <1>4 DEF C

\* The step behind one that is not the last.
LEMMA NextIs ==
    ASSUME NEW m, Readable(m), NEW q, InStep(m, q), NEW p, InStep(m, p), q < p,
           Origin(p) = Origin(q)
    PROVE  LET y == q + Len(getprog(m, q))
           IN  /\ InStep(m, y) /\ Origin(y) = Origin(q) /\ q < y /\ y <= p
               /\ y \in Nat /\ StepBehind(m, q) = y
               /\ ~ do_inc(m, Nowhere, q, FALSE).wrapped /\ NextOf(m, q) = y
<1> DEFINE n == Len(getprog(m, q))
           y == q + n
           f == Final(m, q)
           next == do_inc(m, Nowhere, q, FALSE)
<1>1. /\ q \in Nat /\ n \in {1, 2} /\ f \in Nat
      /\ y <= f => InStep(m, y) /\ Origin(y) = Origin(q)
  BY StepFacts
<1>2. y <= p
  BY StepsApart
<1>3. p <= f /\ p \in Nat
  <2>1. Final(m, p) = f
    BY SizesAre DEF Final, Region, Origin
  <2> DEFINE k == Len(getprog(m, p))
  <2>2. p \in Nat /\ k \in {1, 2} /\ p + k - 1 <= Final(m, p) /\ Final(m, p) \in Nat
    BY StepFacts
  <2> HIDE DEF k
  <2>3. p <= Final(m, p)
    BY <2>2
  <2> QED BY <2>1, <2>2, <2>3
<1>4. y <= f => next = [pc |-> y, wrapped |-> FALSE]
  BY IncIs
<1> HIDE DEF n, f, next
<1>5. y <= f /\ q < y /\ y \in Nat
  BY <1>1, <1>2, <1>3
<1>6. next.pc = y /\ next.wrapped = FALSE
  BY <1>4, <1>5, WayIs
<1>7. StepBehind(m, q) = y /\ NextOf(m, q) = y /\ ~ next.wrapped
  BY <1>6 DEF next, StepBehind, NextOf
<1> QED BY <1>1, <1>2, <1>5, <1>7 DEF n, next

\* One step less is counted from the next step on, one more to the next one.
LEMMA NumberIs ==
    ASSUME NEW m, Readable(m), NEW p, InStep(m, p), NEW q, InStep(m, q), Origin(q) = Origin(p)
    PROVE  /\ q >= p => Numbers(m, p)[q] = 1
           /\ q < p => Numbers(m, p)[q] = 1 + Numbers(m, p)[q + Len(getprog(m, q))]
<1>1. q \in Addresses
  BY StepAddress
<1>2. Numbers(m, p)[q] = IF LastCounted(m, p, q) THEN 1 ELSE 1 + Numbers(m, p)[StepBehind(m, q)]
  BY <1>1, NumbersTurn
<1>3. q >= p => LastCounted(m, p, q)
  BY DEF LastCounted
<1>4. ASSUME q < p
      PROVE  ~ LastCounted(m, p, q) /\ StepBehind(m, q) = q + Len(getprog(m, q))
  <2>1. p \in Nat /\ q \in Nat
    BY DEF InStep
  <2>2. ~ (q >= p)
    BY <1>4, <2>1
  <2>3. ~ do_inc(m, Nowhere, q, FALSE).wrapped
    BY <1>4, NextIs
  <2>4. StepBehind(m, q) = q + Len(getprog(m, q))
    BY <1>4, NextIs
  <2> QED BY <2>2, <2>3, <2>4 DEF LastCounted
<1> QED BY <1>2, <1>3, <1>4

\* Going one step first and then n, or n + 1 steps.
LEMMA WalkTurns ==
    ASSUME NEW m, NEW base
    PROVE  /\ Walk(m, base)[0] = base
           /\ \A k \in Nat \ {0} : Walk(m, base)[k] = NextOf(m, Walk(m, base)[k - 1])
<1> DEFINE S == Walk(m, base)
<1>1. S = [k \in Nat |-> IF k = 0 THEN base ELSE NextOf(m, S[k - 1])]
  BY DEF Walk
<1> HIDE DEF S
<1> QED BY <1>1 DEF S

LEMMA WalkShifts ==
    ASSUME NEW m, NEW base, NEW n \in Nat
    PROVE  Walk(m, base)[n + 1] = Walk(m, NextOf(m, base))[n]
<1> DEFINE A == Walk(m, base)
           B == Walk(m, NextOf(m, base))
           T == {i \in Nat : A[i + 1] # B[i]}
<1>1. A[0] = base /\ B[0] = NextOf(m, base)
      /\ (\A k \in Nat \ {0} : A[k] = NextOf(m, A[k - 1]))
      /\ (\A k \in Nat \ {0} : B[k] = NextOf(m, B[k - 1]))
  BY WalkTurns
<1> HIDE DEF A, B
<1>2. T = {}
  <2> SUFFICES ASSUME T # {} PROVE FALSE
    OBVIOUS
  <2>1. T \in SUBSET Nat
    OBVIOUS
  <2> HIDE DEF T
  <2>2. PICK i \in T : \A j \in T : i <= j
    BY <2>1, LeastMember
  <2>3. i \in Nat /\ A[i + 1] # B[i]
    BY <2>2 DEF T
  <2>4. A[i + 1] = NextOf(m, A[i])
    <3>1. i + 1 \in Nat \ {0} /\ (i + 1) - 1 = i
      BY <2>3
    <3> QED BY <1>1, <3>1
  <2>5. i # 0
    BY <1>1, <2>3, <2>4
  <2>6. i - 1 \in Nat /\ ~ (i <= i - 1) /\ (i - 1) + 1 = i
    BY <2>3, <2>5
  <2>7. A[i] = B[i - 1]
    BY <2>2, <2>6 DEF T
  <2>8. B[i] = NextOf(m, B[i - 1])
    BY <1>1, <2>3, <2>5
  <2> QED BY <2>3, <2>4, <2>7, <2>8
<1> QED BY <1>2 DEF A, B

\* As many steps as are counted lead there.
LEMMA NumbersWalk ==
    ASSUME NEW m, Readable(m), NEW p, InStep(m, p), NEW q, InStep(m, q),
           Origin(q) = Origin(p), q <= p
    PROVE  /\ Numbers(m, p)[q] \in Nat /\ Numbers(m, p)[q] > 0
           /\ Walk(m, q)[Numbers(m, p)[q] - 1] = p
<1> DEFINE N == Numbers(m, p)
           Good(x) == N[x] \in Nat /\ N[x] > 0 /\ Walk(m, x)[N[x] - 1] = p
           T == {d \in Nat : \E x \in Nat : /\ InStep(m, x) /\ Origin(x) = Origin(p)
                                            /\ p = x + d /\ ~ Good(x)}
<1>1. p \in Nat /\ q \in Nat
  BY DEF InStep
<1>2. T = {}
  <2> SUFFICES ASSUME T # {} PROVE FALSE
    OBVIOUS
  <2>1. T \in SUBSET Nat
    OBVIOUS
  <2> HIDE DEF T
  <2>2. PICK d \in T : \A c \in T : d <= c
    BY <2>1, LeastMember
  <2>3. d \in Nat /\ \E x \in Nat : /\ InStep(m, x) /\ Origin(x) = Origin(p)
                                    /\ p = x + d /\ ~ Good(x)
    BY <2>2 DEF T
  <2>4. PICK x \in Nat : InStep(m, x) /\ Origin(x) = Origin(p) /\ p = x + d /\ ~ Good(x)
    BY <2>3
  <2>5. CASE x = p
    <3>1. N[x] = 1
      BY <1>1, <2>4, <2>5, NumberIs
    <3>2. Walk(m, x)[0] = x
      BY WalkTurns
    <3> HIDE DEF N
    <3>3. N[x] \in Nat /\ N[x] > 0 /\ N[x] - 1 = 0
      BY <3>1
    <3> QED BY <2>4, <2>5, <3>2, <3>3
  <2>6. CASE x # p
    <3> DEFINE y == x + Len(getprog(m, x))
    <3>1. x < p
      BY <1>1, <2>3, <2>4, <2>6
    <3>2. /\ InStep(m, y) /\ Origin(y) = Origin(x) /\ x < y /\ y <= p /\ y \in Nat
          /\ NextOf(m, x) = y
      BY <2>4, <3>1, NextIs
    <3>3. N[x] = 1 + N[y]
      BY <2>4, <3>1, NumberIs
    <3> HIDE DEF y, N
    <3>4. p - y \in Nat /\ p = y + (p - y) /\ ~ (d <= p - y)
      BY <1>1, <2>3, <2>4, <3>2
    <3>5. Good(y)
      <4> SUFFICES ASSUME ~ Good(y) PROVE FALSE
        OBVIOUS
      <4> HIDE DEF Good
      <4>1. p - y \in T
        BY <2>4, <3>2, <3>4 DEF T
      <4> QED BY <2>2, <3>4, <4>1
    <3>6. N[x] \in Nat /\ N[x] > 0 /\ N[y] - 1 \in Nat /\ N[x] - 1 = (N[y] - 1) + 1
      BY <3>3, <3>5
    <3>7. Walk(m, x)[(N[y] - 1) + 1] = Walk(m, NextOf(m, x))[N[y] - 1]
      BY <3>6, WalkShifts
    <3>8. Walk(m, x)[N[x] - 1] = p
      BY <3>2, <3>5, <3>6, <3>7
    <3> QED BY <2>4, <3>6, <3>8
  <2> QED BY <2>5, <2>6
<1>3. p - q \in Nat /\ p = q + (p - q)
  BY <1>1
<1>4. Good(q)
  <2> HIDE DEF Good
  <2> SUFFICES ASSUME ~ Good(q) PROVE FALSE
    OBVIOUS
  <2>1. p - q \in T
    BY <1>1, <1>3
  <2> QED BY <1>2, <2>1
<1> QED BY <1>4

\* The number shown for a step leads to that step (user_pc, find_user_pc).
LEMMA LeadsBack ==
    ASSUME NEW m, Readable(m), NEW p, InStep(m, p), NEW here, isRAM(here) <=> isRAM(p)
    PROVE  find_user_pc(m, here, user_pc(m, p)) = p
<1> DEFINE base == Origin(p) + 1
           N == Numbers(m, p)[base]
<1>0. p \in Nat /\ p > Origin(p) /\ Origin(p) \in Nat
  BY StepFacts
<1>1. p \in Nat /\ p > Origin(p) /\ Origin(p) \in Nat /\ p # 0 /\ Region(m, p) # << >>
  BY <1>0 DEF InStep, IsStep
<1>2. InStep(m, base) /\ Origin(base) = Origin(p) /\ base <= p
  BY <1>1, RegionEnds
<1>3. N \in Nat /\ N > 0 /\ Walk(m, base)[N - 1] = p
  <2> HIDE DEF base
  <2> QED BY <1>2, NumbersWalk
<1>4. user_pc(m, p) = N
  BY <1>1 DEF user_pc, Origin
<1> HIDE DEF N
<1>5. CASE isRAM(here)
  <2>1. base = 1
    BY <1>5 DEF Origin
  <2>2. NextOf(m, 0) = 1
    <3> DEFINE z == 0
               s == Section(m, Nowhere, z, FALSE)
               next == do_inc(m, Nowhere, z, FALSE)
    <3>1. getprog(m, z) = <<END>> /\ isRAM(z) /\ z \in Nat
      BY Heads
    <3>2. Region(m, z) = m.ram /\ Origin(z) = 0
      BY <3>1 DEF Region, Origin
    <3> HIDE DEF z
    <3>3. s.bottom = Final(m, z)
      BY <3>1, SectionIs
    <3>4. next = Forward(s, z + Len(getprog(m, z)))
      BY Zenon DEF do_inc
    <3>41. Len(getprog(m, z)) = 1
      BY <3>1
    <3>42. m.ram # << >> /\ Len(m.ram) \in Nat
      BY WholeAligned, RegionAligned, <3>1, <3>2 DEF Readable
    <3>43. z = 0
      BY DEF z
    <3>44. Final(m, z) = Len(m.ram) /\ Len(m.ram) > 0
      BY <3>2, <3>42 DEF Final
    <3>45. next = Forward(s, 0 + 1)
      BY <3>4, <3>41, <3>43
    <3> DEFINE b == s.bottom
    <3>46. b \in Nat /\ b > 0
      BY <3>3, <3>42, <3>44
    <3> HIDE DEF b
    <3>47. ~ (0 + 1 > b)
      BY <3>46
    <3>5. ~ (0 + 1 > s.bottom)
      BY <3>47, Zenon DEF b
    <3>6. next = [pc |-> 0 + 1, wrapped |-> FALSE]
      BY <3>45, <3>5, Zenon DEF Forward
    <3> HIDE DEF next
    <3>7. next.pc = 1 /\ next.wrapped = FALSE
      BY <3>6, WayIs
    <3> QED BY <3>7, <3>43 DEF next, NextOf
  <2>3. N - 1 \in Nat /\ (N - 1) + 1 = N
    BY <1>3
  <2>4. Walk(m, 0)[(N - 1) + 1] = Walk(m, NextOf(m, 0))[N - 1]
    BY <2>3, WalkShifts
  <2>5. find_user_pc(m, here, N) = Walk(m, 0)[N]
    BY <1>5 DEF find_user_pc
  <2> QED BY <1>3, <1>4, <2>1, <2>2, <2>3, <2>4, <2>5
<1>6. CASE ~ isRAM(here)
  <2>1. base = LIB + 1
    BY <1>6 DEF Origin
  <2>2. find_user_pc(m, here, N) = Walk(m, LIB + 1)[IF N = 0 THEN 0 ELSE N - 1]
    BY <1>6 DEF find_user_pc
  <2>3. N # 0
    BY <1>3
  <2> QED BY <1>3, <1>4, <2>1, <2>2, <2>3
<1> QED BY <1>5, <1>6

\* The number shown for a step, entered after GTO and a point, leads to that step,
\* in RAM and in the library (user_pc, find_user_pc).
THEOREM NumbersLeadBack == CheckedSpec => []NumbersLead
<1>1. IInv => NumbersLead
  <2> SUFFICES ASSUME IInv, NEW p \in Steps, isRAM(p) = isRAM(at.pc)
               PROVE  find_user_pc(M, at.pc, user_pc(M, p)) = p
    BY DEF NumbersLead
  <2>1. Readable(M) /\ InStep(M, p)
    BY StepsAreSteps DEF IInv
  <2> QED BY <2>1, LeadsBack
<1> QED BY <1>1, ProgramIsSound, PTL

-----------------------------------------------------------------------------
(* Labels *)

LEMMA LeastIs ==
    ASSUME NEW S \in SUBSET Nat, NEW p \in S, \A q \in S : p <= q
    PROVE  Least(S) = p
<1>1. S # {}
  OBVIOUS
<1>2. \A x \in S : (\A q \in S : x <= q) => x = p
  <2> SUFFICES ASSUME NEW x \in S, \A q \in S : x <= q PROVE x = p
    OBVIOUS
  <2>1. x \in Nat /\ p \in Nat /\ x <= p /\ p <= x
    OBVIOUS
  <2> QED BY <2>1
<1>3. Least(S) = CHOOSE x \in S : \A q \in S : x <= q
  BY <1>1 DEF Least
<1> QED BY <1>2, <1>3

\* The places of op in S, and the first one from p on, or else of all.
Own(m, S, op) == {q \in S : getprog(m, q) = op}
FirstFrom(own, p) ==
    LET ahead == {q \in own : q >= p} IN IF ahead = {} THEN Least(own) ELSE Least(ahead)

Finds(m, op, S, p, found) ==
    /\ getprog(m, found) = op => found = FirstFrom(Own(m, S, op), p)
    /\ getprog(m, found) # op => Own(m, S, op) = {}
Spans(S, top, bottom) == S \subseteq top .. bottom

\* From each place of S do_inc leads to the next one, from the last to the first,
\* or from the last to another one.
GoesRound(m, w, endp, S) ==
    \A q \in S : LET d == do_inc(m, w, q, endp).pc
                IN  /\ d \in S
                    /\ q < d => \A r \in S : r <= q \/ d <= r
                    /\ ~ (q < d) => \A r \in S : d <= r /\ r <= q
GoesDown(m, w, endp, S) ==
    \A q \in S : LET d == do_inc(m, w, q, endp).pc
                IN  /\ d \in S
                    /\ q < d => \A r \in S : r <= q \/ d <= r
                    /\ ~ (q < d) => \A r \in S : r <= q

\* A search from p on that goes round the places S, which lie from top to bottom,
\* looks at all of them: what it comes to is the first op from p on, or from the
\* first place on.
LEMMA SearchRound ==
    ASSUME NEW m, NEW w, NEW op, NEW endp, NEW top \in Nat, NEW bottom \in Nat,
           NEW S, Spans(S, top, bottom), NEW p \in S, GoesRound(m, w, endp, S)
    PROVE  Finds(m, op, S, p, Search(m, w, p, op, endp)[bottom - top])
<1> DEFINE Op(q) == getprog(m, q) = op
           X == Search(m, w, p, op, endp)
           Below(q) == q >= p /\ (\A r \in S : p <= r /\ r < q => ~ Op(r))
           Above(q) == q < p /\ (\A r \in S : p <= r \/ r < q => ~ Op(r))
           None == \A r \in S : ~ Op(r)
           Phase(k, q) == /\ q \in S
                          /\ \/ Below(q) /\ (Op(q) \/ q >= p + k)
                             \/ Above(q) /\ (Op(q) \/ q - top + bottom - p + 1 >= k)
                             \/ None
           T == {i \in Nat : ~ Phase(i, X[i])}
<1>1. X[0] = p /\ \A i \in Nat \ {0} : X[i] = Probe(m, w, op, endp, X[i - 1])
  BY SearchTurns
<1> HIDE DEF X
<1>2. p \in Nat /\ S \in SUBSET Nat /\ \A q \in S : top <= q /\ q <= bottom
  BY DEF Spans
<1>3. ASSUME NEW k \in Nat, NEW q, Phase(k, q)
      PROVE  Phase(k + 1, Probe(m, w, op, endp, q))
  <2> DEFINE d == do_inc(m, w, q, endp).pc
  <2>1. CASE Op(q)
    <3>1. Probe(m, w, op, endp, q) = q
      BY <2>1 DEF Probe
    <3> QED BY <1>3, <2>1, <3>1
  <2>2. CASE ~ Op(q)
    <3>1. Probe(m, w, op, endp, q) = d
      BY <2>2 DEF Probe
    <3>2. q \in S /\ d \in S /\ q \in Nat /\ d \in Nat /\ d <= bottom /\ d >= top /\ q <= bottom
      BY <1>2, <1>3 DEF GoesRound
    <3>3. q < d => \A r \in S : r <= q \/ d <= r
      BY <3>2 DEF GoesRound
    <3>4. ~ (q < d) => \A r \in S : d <= r /\ r <= q
      BY <3>2 DEF GoesRound
    <3> HIDE DEF d
    <3> USE DEF Phase
    <3> SUFFICES Phase(k + 1, d)
      BY <3>1
    <3>5. CASE None
      BY <3>2, <3>5
    <3>6. CASE Below(q) /\ q >= p + k /\ q < d
      <4>1. \A r \in S : p <= r /\ r < d => ~ Op(r)
        <5> SUFFICES ASSUME NEW r \in S, p <= r, r < d PROVE ~ Op(r)
          OBVIOUS
        <5>1. r \in Nat /\ (r < q \/ r = q)
          BY <1>2, <3>2, <3>3, <3>6
        <5> QED BY <2>2, <3>6, <5>1
      <4>2. d >= p /\ d >= p + (k + 1)
        BY <1>2, <3>2, <3>6
      <4> QED BY <3>2, <4>1, <4>2
    <3>7. CASE Below(q) /\ q >= p + k /\ ~ (q < d)
      <4>1. \A r \in S : p <= r => ~ Op(r)
        <5> SUFFICES ASSUME NEW r \in S, p <= r PROVE ~ Op(r)
          OBVIOUS
        <5>1. r \in Nat /\ (r < q \/ r = q)
          BY <1>2, <3>2, <3>4, <3>7
        <5> QED BY <2>2, <3>7, <5>1
      <4>2. CASE d < p
        <5>1. \A r \in S : ~ (r < d)
          BY <1>2, <3>2, <3>4, <3>7
        <5>2. d - top + bottom - p + 1 >= k + 1
          BY <1>2, <3>2, <3>7
        <5> QED BY <3>2, <4>1, <4>2, <5>1, <5>2
      <4>3. CASE ~ (d < p)
        <5>1. \A r \in S : p <= r
          BY <1>2, <3>2, <3>4, <3>7, <4>3
        <5> QED BY <3>2, <4>1, <5>1
      <4> QED BY <4>2, <4>3
    <3>8. CASE Above(q) /\ q - top + bottom - p + 1 >= k
      <4>1. q < d
        <5>1. ~ (q < d) => p <= q
          BY <3>4
        <5> QED BY <1>2, <3>2, <3>8, <5>1
      <4>2. \A r \in S : p <= r \/ r < d => ~ Op(r)
        <5> SUFFICES ASSUME NEW r \in S, p <= r \/ r < d PROVE ~ Op(r)
          OBVIOUS
        <5>1. r \in Nat /\ (p <= r \/ r < q \/ r = q)
          BY <1>2, <3>2, <3>3, <4>1
        <5> QED BY <2>2, <3>8, <5>1
      <4>3. d <= p /\ d - top + bottom - p + 1 >= k + 1
        <5>1. p <= q \/ d <= p
          BY <3>3, <4>1
        <5> QED BY <1>2, <3>2, <3>8, <4>1, <5>1
      <4>4. CASE d < p
        BY <3>2, <4>2, <4>3, <4>4
      <4>5. CASE d = p
        <5>1. \A r \in S : p <= r \/ r < d
          BY <1>2, <4>5
        <5> QED BY <3>2, <4>2, <5>1
      <4> QED BY <1>2, <3>2, <4>3, <4>4, <4>5
    <3> QED BY <1>3, <2>2, <3>5, <3>6, <3>7, <3>8
  <2> QED BY <2>1, <2>2
<1>4. T = {}
  <2> SUFFICES ASSUME T # {} PROVE FALSE
    OBVIOUS
  <2>1. T \in SUBSET Nat
    OBVIOUS
  <2>2. Phase(0, p)
    BY <1>2
  <2> HIDE DEF T
  <2>3. PICK i \in T : \A j \in T : i <= j
    BY <2>1, LeastMember
  <2> HIDE DEF Phase
  <2>4. i \in Nat /\ ~ Phase(i, X[i])
    BY <2>3 DEF T
  <2>5. i # 0
    BY <1>1, <2>2, <2>4
  <2> DEFINE j == i - 1
  <2>6. j \in Nat /\ ~ (i <= j) /\ j + 1 = i
    BY <2>4, <2>5
  <2>7. Phase(j, X[j])
    BY <2>3, <2>6 DEF T
  <2>8. X[i] = Probe(m, w, op, endp, X[j])
    BY <1>1, <2>4, <2>5
  <2> HIDE DEF j
  <2> QED BY <1>3, <2>4, <2>6, <2>7, <2>8
<1> DEFINE own == {q \in S : Op(q)}
           ahead == {q \in own : q >= p}
           k == bottom - top
           f == X[k]
<1>5. k \in Nat
  BY <1>2
<1>6. Phase(k, f)
  <2> HIDE DEF Phase, k
  <2> QED BY <1>4, <1>5
<1>7. f \in S /\ f \in Nat /\ f <= bottom /\ top <= f /\ top <= p /\ p <= bottom
  BY <1>2, <1>6
<1> HIDE DEF f, k
<1>8. ASSUME Op(f) PROVE f = IF ahead = {} THEN Least(own) ELSE Least(ahead)
  <2>1. CASE Below(f)
    <3>1. f \in ahead /\ \A q \in ahead : f <= q
      <4>1. f \in ahead
        BY <1>7, <1>8, <2>1
      <4>2. \A q \in ahead : ~ (q < f)
        BY <2>1
      <4> QED BY <1>2, <1>7, <4>1, <4>2
    <3>2. ahead \in SUBSET Nat
      BY <1>2
    <3>3. Least(ahead) = f
      <4> HIDE DEF ahead
      <4> QED BY <3>1, <3>2, LeastIs
    <3> QED BY <3>1, <3>3
  <2>2. CASE Above(f)
    <3>1. ahead = {}
      BY <1>2, <2>2
    <3>2. f \in own /\ \A q \in own : f <= q
      <4>1. \A q \in own : ~ (q < f)
        BY <2>2
      <4> QED BY <1>2, <1>7, <1>8, <4>1
    <3>3. own \in SUBSET Nat
      BY <1>2
    <3>4. Least(own) = f
      <4> HIDE DEF own
      <4> QED BY <3>2, <3>3, LeastIs
    <3> QED BY <3>1, <3>4
  <2> QED BY <1>6, <1>7, <1>8, <2>1, <2>2
<1>9. ASSUME ~ Op(f) PROVE own = {}
  <2> SUFFICES ASSUME NEW r \in S PROVE ~ Op(r)
    OBVIOUS
  <2>1. r \in Nat /\ top <= r /\ r <= bottom
    BY <1>2
  <2>2. CASE Below(f) /\ f >= p + k
    <3>1. p <= r /\ (r < f \/ r = f)
      BY <1>2, <1>7, <2>1, <2>2 DEF k
    <3> QED BY <1>9, <2>2, <3>1
  <2>3. CASE Above(f) /\ f - top + bottom - p + 1 >= k
    <3>1. p <= r \/ r < f \/ r = f
      BY <1>2, <1>7, <2>1, <2>3 DEF k
    <3> QED BY <1>9, <2>3, <3>1
  <2> QED BY <1>6, <1>9, <2>2, <2>3
<1>10. Own(m, S, op) = own
  BY DEF Own
<1>11. FirstFrom(own, p) = IF ahead = {} THEN Least(own) ELSE Least(ahead)
  BY DEF FirstFrom
<1> HIDE DEF own, ahead
<1> QED BY <1>8, <1>9, <1>10, <1>11 DEF f, k, X, Finds

\* A search from the first place p of S on that goes through S as far as op may be.
LEMMA SearchDown ==
    ASSUME NEW m, NEW w, NEW op, NEW endp, NEW k \in Nat,
           NEW S \in SUBSET Nat, NEW p \in S,
           \A r \in S : p <= r /\ (r > p + k => getprog(m, r) # op),
           GoesDown(m, w, endp, S)
    PROVE  LET found == Search(m, w, p, op, endp)[k]
               own   == Own(m, S, op)
           IN  /\ getprog(m, found) = op => found = Least(own) /\ found \in own
               /\ getprog(m, found) # op => own = {}
<1> DEFINE Op(q) == getprog(m, q) = op
           X == Search(m, w, p, op, endp)
           Below(q) == \A r \in S : r < q => ~ Op(r)
           None == \A r \in S : ~ Op(r)
           Phase(j, q) == q \in S /\ (None \/ (Below(q) /\ (Op(q) \/ q >= p + j)))
           T == {i \in Nat : ~ Phase(i, X[i])}
<1>1. X[0] = p /\ \A i \in Nat \ {0} : X[i] = Probe(m, w, op, endp, X[i - 1])
  BY SearchTurns
<1> HIDE DEF X
<1>2. p \in Nat /\ S \in SUBSET Nat
  OBVIOUS
<1>3. ASSUME NEW j \in Nat, NEW q, Phase(j, q)
      PROVE  Phase(j + 1, Probe(m, w, op, endp, q))
  <2> DEFINE d == do_inc(m, w, q, endp).pc
  <2>1. CASE Op(q)
    <3>1. Probe(m, w, op, endp, q) = q
      BY <2>1 DEF Probe
    <3> QED BY <1>3, <2>1, <3>1
  <2>2. CASE ~ Op(q)
    <3>1. Probe(m, w, op, endp, q) = d
      BY <2>2 DEF Probe
    <3>2. q \in S /\ d \in S /\ q \in Nat /\ d \in Nat
      BY <1>2, <1>3 DEF GoesDown
    <3>3. q < d => \A r \in S : r <= q \/ d <= r
      BY <3>2 DEF GoesDown
    <3>4. ~ (q < d) => \A r \in S : r <= q
      BY <3>2 DEF GoesDown
    <3> HIDE DEF d
    <3> SUFFICES Phase(j + 1, d)
      BY <3>1
    <3>5. CASE None
      BY <3>2, <3>5
    <3>6. CASE Below(q) /\ q >= p + j
      <4>1. ASSUME NEW r \in S, r < d \/ ~ (q < d) PROVE ~ Op(r)
        <5>1. r \in Nat /\ (r < q \/ r = q)
          BY <1>2, <3>2, <3>3, <3>4, <4>1
        <5> QED BY <2>2, <3>6, <5>1
      <4>2. q < d => d >= p + (j + 1)
        BY <1>2, <3>2, <3>6
      <4> QED BY <3>2, <4>1, <4>2
    <3> QED BY <1>3, <2>2, <3>5, <3>6
  <2> QED BY <2>1, <2>2
<1>4. T = {}
  <2> SUFFICES ASSUME T # {} PROVE FALSE
    OBVIOUS
  <2>1. T \in SUBSET Nat
    OBVIOUS
  <2>2. Phase(0, p)
    <3>1. Below(p) /\ p >= p + 0
      BY <1>2
    <3> QED BY <3>1
  <2> HIDE DEF T
  <2>3. PICK i \in T : \A j \in T : i <= j
    BY <2>1, LeastMember
  <2> HIDE DEF Phase
  <2>4. i \in Nat /\ ~ Phase(i, X[i])
    BY <2>3 DEF T
  <2>5. i # 0
    BY <1>1, <2>2, <2>4
  <2> DEFINE j == i - 1
  <2>6. j \in Nat /\ ~ (i <= j) /\ j + 1 = i
    BY <2>4, <2>5
  <2>7. Phase(j, X[j])
    BY <2>3, <2>6 DEF T
  <2>8. X[i] = Probe(m, w, op, endp, X[j])
    BY <1>1, <2>4, <2>5
  <2> HIDE DEF j
  <2> QED BY <1>3, <2>4, <2>6, <2>7, <2>8
<1> DEFINE own == {q \in S : Op(q)}
           f == X[k]
<1>5. Phase(k, f)
  <2> HIDE DEF Phase
  <2> QED BY <1>4
<1>6. f \in S /\ f \in Nat
  BY <1>2, <1>5
<1> HIDE DEF f
<1>7. ASSUME Op(f) PROVE f = Least(own) /\ f \in own
  <2>1. own \in SUBSET Nat /\ f \in own
    BY <1>2, <1>6, <1>7
  <2>2. \A q \in own : ~ (q < f)
    BY <1>5, <1>7
  <2>3. \A q \in own : f <= q
    BY <1>2, <1>6, <2>2
  <2> HIDE DEF own
  <2> QED BY <2>1, <2>3, LeastIs
<1>8. ASSUME ~ Op(f) PROVE own = {}
  <2> SUFFICES ASSUME NEW r \in S, Below(f), f >= p + k PROVE ~ Op(r)
    BY <1>5, <1>8
  <2>1. r \in Nat /\ (r < f \/ r = f \/ r > p + k)
    BY <1>2, <1>6
  <2> QED BY <1>8, <2>1
<1>9. Own(m, S, op) = own
  BY DEF Own
<1> HIDE DEF own
<1> QED BY <1>7, <1>8, <1>9 DEF f, X

\* The steps op of the current program.
OfProgram(m, w, op) == {q \in w.begin .. w.end : InStep(m, q) /\ getprog(m, q) = op}

\* The search for a step in the current program, from the counter on.
LEMMA NearestIs ==
    ASSUME NEW m, Readable(m), m.runmode = 1, NEW w, Located(m, w), NEW op, op # <<END>>
    PROVE  find_opcode_from(m, w, w.pc, op, TRUE) = FirstFrom(OfProgram(m, w, op), w.pc)
<1> DEFINE S == {q \in w.begin .. w.end : InStep(m, q)}
           own == {q \in S : getprog(m, q) = op}
           ahead == {q \in own : q >= w.pc}
           s == Section(m, w, w.pc, TRUE)
           found == Search(m, w, w.pc, op, TRUE)[w.end - w.begin]
           q0 == find_opcode_from(m, w, w.pc, op, TRUE)
<1>1. w \in [pc : Nat, begin : Nat, end : Nat] /\ Delimited(m, w)
  BY DEF Located
<1>2. w.pc \in Nat /\ w.begin \in Nat /\ w.end \in Nat /\ w.begin > 0
      /\ Within(m, w, w.pc) /\ w.pc \in w.begin .. w.end
  BY <1>1, WithinIs DEF Within
<1>3. s.top = w.begin /\ s.bottom = w.end
  BY <1>2 DEF Section
<1>4. q0 = IF getprog(m, found) = op THEN found ELSE 0
  <2>1. q0 = LET probe == Search(m, w, w.pc, op, TRUE)[s.bottom - s.top]
             IN  IF s.bottom >= s.top /\ getprog(m, probe) = op THEN probe ELSE 0
    BY Zenon DEF find_opcode_from
  <2>2. w.end >= w.begin
    BY <1>2
  <2> HIDE DEF s, q0
  <2> QED BY <1>3, <2>1, <2>2
<1> HIDE DEF q0, s
<1>5. Least({}) = 0
  BY DEF Least
<1>6. q0 = IF ahead = {} THEN Least(own) ELSE Least(ahead)
  <2>1. CASE AtHead(m, w.pc)
    <3>1. w.begin = w.pc /\ w.end = w.pc /\ getprog(m, w.pc) = <<END>> /\ ~ InStep(m, w.pc)
      BY <1>1, <2>1, WithinIs, Heads
    <3>2. S = {}
      BY <1>2, <3>1
    <3>3. own = {} /\ ahead = {}
      BY <3>2
    <3>4. w.end - w.begin = 0 /\ found = w.pc
      <4>1. w.end - w.begin = 0
        BY <1>2, <3>1
      <4> DEFINE t == TRUE
                 h == w.pc
      <4> HIDE DEF t, h
      <4>2. Search(m, w, h, op, t)[0] = h
        BY SearchTurns
      <4> USE DEF t, h
      <4> QED BY <4>1, <4>2
    <3> HIDE DEF found, own, ahead
    <3> QED BY <1>4, <1>5, <3>1, <3>3, <3>4
  <2>2. CASE ~ AtHead(m, w.pc)
    <3>1. InStep(m, w.begin) /\ InStep(m, w.end) /\ InStep(m, w.pc)
      BY <1>1, <2>2, WithinIs DEF Ending, Delimited
    <3>2. ASSUME NEW q \in S
          PROVE  LET d == do_inc(m, w, q, TRUE).pc
                 IN  /\ d \in S
                     /\ q < d => \A r \in S : r <= q \/ d <= r
                     /\ ~ (q < d) => \A r \in S : d <= r /\ r <= q
      <4> DEFINE n == Len(getprog(m, q))
                 next == do_inc(m, w, q, TRUE)
      <4>1. Within(m, w, q) /\ q \in Nat /\ InStep(m, q) /\ q <= w.end /\ q >= w.begin
        BY <1>2, <3>2 DEF Within, Place
      <4>2. CASE q = w.end
        <5>1. next = [pc |-> w.begin, wrapped |-> TRUE]
          BY <1>1, <4>1, <4>2, IncWithin
        <5> HIDE DEF next
        <5>2. next.pc = w.begin
          BY <5>1, WayIs
        <5>3. w.begin \in S
          BY <1>2, <3>1
        <5>4. \A r \in S : w.begin <= r /\ r <= q
          BY <4>2
        <5>5. ~ (q < w.begin)
          BY <1>2, <4>1
        <5> HIDE DEF S
        <5> QED BY <5>2, <5>3, <5>4, <5>5 DEF next
      <4>3. CASE q # w.end
        <5>1. next = [pc |-> q + n, wrapped |-> FALSE] /\ InStep(m, q + n) /\ q + n > q
          BY <1>1, <4>1, <4>3, IncWithin
        <5>2. Within(m, w, next.pc)
          BY <1>1, <4>1, IncWithin
        <5> DEFINE d == q + n
        <5>3. \A r \in S : r <= q \/ d <= r
          <6> SUFFICES ASSUME NEW r \in S, ~ (r <= q) PROVE d <= r
            OBVIOUS
          <6>1. q < r /\ InStep(m, r)
            BY <1>2, <4>1
          <6> QED BY <4>1, <6>1, StepsApart
        <5> HIDE DEF next, d
        <5>4. next.pc = d
          BY <5>1, WayIs DEF d
        <5>5. d \in S /\ q < d
          <6>1. InStep(m, d) /\ d > q
            BY <5>1 DEF d
          <6>2. d \in Nat
            BY <6>1 DEF InStep
          <6> QED BY <4>1, <5>2, <5>4, <6>1, <6>2 DEF Within
        <5> HIDE DEF S
        <5> QED BY <5>3, <5>4, <5>5 DEF next
      <4> QED BY <4>2, <4>3
    <3>3. S \in SUBSET (w.begin .. w.end) /\ w.pc \in S
      BY <1>2, <3>1
    <3>4. /\ getprog(m, found) = op =>
               found = (IF ahead = {} THEN Least(own) ELSE Least(ahead))
          /\ getprog(m, found) # op => own = {}
      <4> DEFINE t == TRUE
                 h == w.pc
                 b == w.begin
                 e == w.end
      <4>1. GoesRound(m, w, t, S)
        BY <3>2 DEF GoesRound
      <4>2. Spans(S, b, e)
        BY <3>3 DEF Spans
      <4>3. h \in S /\ b \in Nat /\ e \in Nat
        BY <1>2, <3>3
      <4> HIDE DEF S, t, h, b, e
      <4> DEFINE f == Search(m, w, h, op, t)[e - b]
      <4>4. Finds(m, op, S, h, f)
        BY <4>1, <4>2, <4>3, SearchRound
      <4>5. Own(m, S, op) = own
        BY DEF Own
      <4>6. FirstFrom(own, h) = IF ahead = {} THEN Least(own) ELSE Least(ahead)
        BY DEF FirstFrom, h
      <4> HIDE DEF own, ahead
      <4> QED BY <4>4, <4>5, <4>6 DEF t, h, b, e, Finds
    <3>5. own = {} => ahead = {}
      OBVIOUS
    <3> HIDE DEF own, ahead, found
    <3> QED BY <1>4, <1>5, <3>4, <3>5
  <2> QED BY <2>1, <2>2
<1>7. OfProgram(m, w, op) = own
  BY DEF OfProgram
<1>8. FirstFrom(own, w.pc) = IF ahead = {} THEN Least(own) ELSE Least(ahead)
  BY DEF FirstFrom
<1> HIDE DEF own, ahead
<1> QED BY <1>6, <1>7, <1>8 DEF q0

\* The steps op of the region whose word 0 is at p.
OfRegion(m, p, op) == {q \in Nat : InStep(m, q) /\ Origin(q) = p /\ getprog(m, q) = op}

\* The search for a step in RAM or the library, from its beginning on.
LEMMA FirstIs ==
    ASSUME NEW m, Readable(m), NEW w, NEW op, op # <<END>>, NEW p \in {0, LIB}
    PROVE  LET found == find_opcode_from(m, w, p, op, FALSE)
           IN  IF OfRegion(m, p, op) = {} THEN found = 0
               ELSE found = Least(OfRegion(m, p, op)) /\ found \in OfRegion(m, p, op)
<1> DEFINE Places == {q \in Nat : InStep(m, q) /\ Origin(q) = p}
           S == {p} \cup Places
           t == FALSE
           s == Section(m, w, p, t)
           f == Final(m, p)
           k == s.bottom - s.top
           found == find_opcode_from(m, w, p, op, t)
           probe == Search(m, w, p, op, t)[k]
<1>1. p \in Nat /\ Origin(p) = p /\ getprog(m, p) = <<END>> /\ ~ InStep(m, p)
  <2>1. CASE p = 0
    BY <2>1, Heads
  <2>2. CASE p = LIB
    <3>1. AtHead(m, p)
      BY <2>2 DEF AtHead
    <3> QED BY <2>2, <3>1, Heads, SizesAre DEF Origin
  <2> QED BY <2>1, <2>2
<1>2. s.bottom = f /\ f \in Nat /\ s.top \in Nat /\ s.top \in {p, p + 1}
  <2>1. s.bottom = f /\ s.bottom \in Nat /\ s.top \in Nat /\ s.top \in {Origin(p), Origin(p) + 1}
    BY <1>1, SectionIs
  <2> QED BY <1>1, <2>1
<1>3. ASSUME NEW q \in Places
      PROVE  /\ q \in Nat /\ InStep(m, q) /\ p < q /\ q <= f /\ Region(m, q) = Region(m, p)
             /\ Final(m, q) = f /\ (isRAM(q) <=> isRAM(p))
  <2>1. q \in Nat /\ InStep(m, q) /\ Origin(q) = Origin(p)
    BY <1>1, <1>3
  <2>2. (isRAM(q) <=> isRAM(p)) /\ Region(m, q) = Region(m, p)
    BY <2>1, SizesAre DEF Origin, Region
  <2>3. Final(m, q) = f
    BY <2>1, <2>2 DEF Final
  <2> DEFINE n == Len(getprog(m, q))
  <2>4. q > Origin(q) /\ q + n - 1 <= Final(m, q) /\ n \in {1, 2}
    BY <2>1, StepFacts
  <2> HIDE DEF f, Places, s, n
  <2>5. p < q /\ q <= f
    BY <1>1, <1>2, <2>1, <2>3, <2>4
  <2> QED BY <2>1, <2>2, <2>3, <2>5
<1>4. found = IF s.bottom >= s.top /\ getprog(m, probe) = op THEN probe ELSE 0
  BY Zenon DEF find_opcode_from
<1>5. OfRegion(m, p, op) = Own(m, S, op)
  BY <1>1 DEF OfRegion, Own
<1>6. CASE Region(m, p) = << >>
  <2>1. f = p /\ ~ isRAM(p)
    BY <1>1, <1>6, RegionAligned, EmptySeq DEF Final
  <2>2. s.top = LIB + 1 /\ p = LIB
    BY <1>1, <2>1, SectionIs DEF Origin
  <2> HIDE DEF s, probe, found, f
  <2>3. ~ (s.bottom >= s.top)
    <3>1. s.bottom = LIB /\ s.top = LIB + 1 /\ LIB \in Nat
      BY <1>2, <2>1, <2>2, SizesAre
    <3> QED BY <3>1
  <2>4. found = 0
    BY <1>4, <2>3
  <2>5. Places = {}
    <3> SUFFICES ASSUME NEW q \in Places PROVE FALSE
      OBVIOUS
    <3>1. q \in Nat /\ p < q /\ q <= f
      BY <1>3
    <3> QED BY <1>1, <2>1, <3>1
  <2>6. OfRegion(m, p, op) = {}
    BY <2>5 DEF OfRegion
  <2> QED BY <2>4, <2>6 DEF found
<1>7. CASE Region(m, p) # << >>
  <2>1. /\ InStep(m, p + 1) /\ Origin(p + 1) = p /\ getprog(m, f) = <<END>> /\ f > p
        /\ p + 1 \in Nat
    BY <1>1, <1>7, RegionEnds DEF Ending
  <2>2. p + 1 \in Places
    BY <2>1
  <2>3. k \in Nat /\ s.bottom >= s.top
    <3> HIDE DEF s, f
    <3>1. s.bottom >= s.top
      BY <1>1, <1>2, <2>1
    <3> QED BY <1>2, <3>1
  <2>4. S \in SUBSET Nat /\ p \in S
    BY <1>1
  <2>5. \A r \in S : p <= r /\ (r > p + k => getprog(m, r) # op)
    <3>0. p <= p /\ ~ (p > p + k)
      <4> HIDE DEF k
      <4> QED BY <1>1, <2>3
    <3> SUFFICES ASSUME NEW r \in Places PROVE p <= r /\ (r > p + k => getprog(m, r) # op)
      <4> HIDE DEF k, Places
      <4> QED BY <3>0
    <3>1. r \in Nat /\ p < r /\ r <= f
      BY <1>3
    <3> DEFINE a == s.top
    <3>2. p + k = p + (f - a) /\ a \in {p, p + 1}
      BY <1>2
    <3> HIDE DEF s, f, k, a
    <3>3. r > p + k => r = f
      BY <1>1, <1>2, <3>1, <3>2
    <3> QED BY <1>1, <2>1, <3>1, <3>3
  <2>6. GoesDown(m, w, t, S)
    <3> SUFFICES ASSUME NEW q \in S
                 PROVE  LET d == do_inc(m, w, q, t).pc
                        IN  /\ d \in S
                            /\ q < d => \A r \in S : r <= q \/ d <= r
                            /\ ~ (q < d) => \A r \in S : r <= q
      BY DEF GoesDown
    <3> DEFINE next == do_inc(m, w, q, t)
    <3>1. CASE q = p
      <4>1. next = Forward(Section(m, w, q, t), q + Len(getprog(m, q)))
        BY Zenon DEF do_inc
      <4>2. Len(getprog(m, q)) = 1
        BY <1>1, <3>1
      <4> HIDE DEF s, next, f
      <4>3. next = Forward(s, p + 1)
        BY <3>1, <4>1, <4>2 DEF s
      <4>4. ~ (p + 1 > s.bottom)
        BY <1>1, <1>2, <2>1
      <4> DEFINE e == p + 1
      <4> HIDE DEF e
      <4>5. next = [pc |-> e, wrapped |-> FALSE]
        BY <4>3, <4>4, Zenon DEF Forward, e
      <4>6. next.pc = e
        BY <4>5, WayIs
      <4>7. e \in S /\ q < e
        BY <1>1, <2>2, <3>1 DEF e
      <4>8. \A r \in S : r <= q \/ e <= r
        <5> SUFFICES ASSUME NEW r \in Places PROVE e <= r
          BY <1>1, <3>1
        <5>1. r \in Nat /\ p < r
          BY <1>3
        <5> HIDE DEF Places
        <5> QED BY <1>1, <5>1 DEF e
      <4> HIDE DEF S
      <4> QED BY <4>6, <4>7, <4>8 DEF next
    <3>2. CASE q \in Places
      <4> DEFINE n == Len(getprog(m, q))
                 d == q + n
                 x == Section(m, w, q, FALSE).top
      <4>1. /\ q \in Nat /\ InStep(m, q) /\ p < q /\ q <= f /\ Final(m, q) = f
            /\ (isRAM(q) <=> isRAM(p))
        BY <1>3, <3>2
      <4>2. /\ n \in {1, 2}
            /\ d <= f => InStep(m, d) /\ Origin(d) = Origin(q)
        BY <4>1, StepFacts
      <4>3. IF d <= f THEN next = [pc |-> d, wrapped |-> FALSE]
            ELSE next = [pc |-> x, wrapped |-> TRUE]
        BY <4>1, IncIs
      <4>4. x = s.top
        <5>1. x = IF isRAM(q) THEN m.runmode ELSE LIB + 1
          BY <4>1, SectionIs
        <5>2. s.top = IF isRAM(p) THEN m.runmode ELSE LIB + 1
          BY <1>1, SectionIs
        <5> HIDE DEF x, s
        <5> QED BY <4>1, <5>1, <5>2
      <4>5. \A r \in S : r <= q \/ d <= r
        <5> SUFFICES ASSUME NEW r \in S, ~ (r <= q) PROVE d <= r
          OBVIOUS
        <5>1. r \in Places
          BY <1>1, <4>1
        <5>2. r \in Nat /\ InStep(m, r) /\ q < r
          BY <1>3, <4>1, <5>1
        <5> QED BY <4>1, <5>2, StepsApart
      <4>6. CASE d <= f
        <5>1. next = [pc |-> d, wrapped |-> FALSE]
          BY <4>3, <4>6
        <5>2. d \in S /\ q < d
          <6>1. InStep(m, d) /\ Origin(d) = p
            BY <3>2, <4>2, <4>6
          <6>2. d \in Nat
            BY <6>1 DEF InStep
          <6> HIDE DEF n
          <6> QED BY <4>1, <4>2, <6>1, <6>2
        <5> HIDE DEF d, next, S
        <5>3. next.pc = d
          BY <5>1, WayIs
        <5> QED BY <4>5, <5>2, <5>3 DEF next
      <4>7. CASE ~ (d <= f)
        <5>1. next = [pc |-> x, wrapped |-> TRUE]
          BY <4>3, <4>7
        <5>2. x \in S
          BY <1>2, <2>2, <4>4
        <5>3. \A r \in S : r <= q
          <6> SUFFICES ASSUME NEW r \in S PROVE r <= q
            OBVIOUS
          <6>1. r \in Nat /\ r <= f /\ (r <= q \/ d <= r)
            BY <1>1, <1>2, <1>3, <2>1, <4>5
          <6>2. d \in Nat
            BY <4>1, <4>2
          <6> HIDE DEF d, f
          <6> QED BY <1>2, <4>1, <4>7, <6>1, <6>2
        <5> HIDE DEF x, next, S
        <5>4. next.pc = x
          BY <5>1, WayIs
        <5>5. ~ (q < x)
          <6>1. x \in {p, p + 1}
            BY <1>2, <4>4
          <6> QED BY <1>1, <4>1, <6>1
        <5> QED BY <5>2, <5>3, <5>4, <5>5 DEF next
      <4> QED BY <4>6, <4>7
    <3> QED BY <3>1, <3>2
  <2> HIDE DEF S, t, k
  <2>7. getprog(m, probe) = op => probe = Least(Own(m, S, op)) /\ probe \in Own(m, S, op)
    BY <2>3, <2>4, <2>5, <2>6, SearchDown
  <2>8. getprog(m, probe) # op => Own(m, S, op) = {}
    BY <2>3, <2>4, <2>5, <2>6, SearchDown
  <2>9. getprog(m, probe) = op => Own(m, S, op) # {}
    BY <2>7
  <2> HIDE DEF probe, found, s
  <2> QED BY <1>4, <1>5, <2>3, <2>7, <2>8, <2>9 DEF found, t
<1> QED BY <1>6, <1>7

LEMMA StepsAreAll ==
    ASSUME Readable(M), NEW p
    PROVE  p \in Steps <=> InStep(M, p)
<1>1. p \in Steps => InStep(M, p)
  BY StepsAreSteps
<1>2. ASSUME InStep(M, p) PROVE p \in Steps
  <2> DEFINE n == Len(getprog(M, p))
  <2>1. p \in Nat /\ n \in {1, 2} /\ p > Origin(p) /\ p + n - 1 <= Final(M, p)
        /\ Final(M, p) \in Nat /\ Origin(p) \in Nat
    BY <1>2, StepFacts
  <2> HIDE DEF n
  <2>2. p > Origin(p) /\ p <= Final(M, p)
    BY <2>1
  <2>3. CASE isRAM(p)
    <3>1. Origin(p) = 0 /\ Final(M, p) = ProgSize
      <4>1. Origin(p) = 0 /\ Region(M, p) = ram
        BY <2>3, RamIs DEF Origin, Region
      <4>2. Len(ram) \in Nat
        BY RamIs, LenProperties DEF Readable
      <4> QED BY <4>1, <4>2 DEF Final, ProgSize
    <3>2. p \in 1 .. ProgSize
      BY <2>1, <2>2, <3>1
    <3> QED BY <1>2, <3>2 DEF Steps, InStep
  <2>4. CASE ~ isRAM(p)
    <3>1. Origin(p) = LIB /\ Final(M, p) = LIB + Len(lib)
      BY <2>4, RamIs DEF Origin, Region, Final
    <3>2. p \in LIB + 1 .. LIB + Len(lib)
      BY <2>1, <2>2, <3>1
    <3> QED BY <1>2, <3>2 DEF Steps, InStep
  <2> QED BY <2>3, <2>4
<1> QED BY <1>1, <1>2

\* A global label is looked for in RAM and then in the library.
LEMMA FirstOfAll ==
    ASSUME Readable(M), NEW w, NEW label, label # <<END>>
    PROVE  findmultilbl(M, w, label) = Least({p \in Steps : getprog(M, p) = label})
<1> DEFINE R == OfRegion(M, 0, label)
           LS == OfRegion(M, LIB, label)
           A == {p \in Steps : getprog(M, p) = label}
           inRAM == find_opcode_from(M, w, 0, label, FALSE)
           inLIB == find_opcode_from(M, w, LIB, label, FALSE)
<1>1. findmultilbl(M, w, label) = IF inRAM # 0 THEN inRAM ELSE inLIB
  BY Zenon DEF findmultilbl
<1>2. IF R = {} THEN inRAM = 0 ELSE inRAM = Least(R) /\ inRAM \in R
  <2> DEFINE z == 0
  <2>1. z \in {0, LIB}
    OBVIOUS
  <2> HIDE DEF z
  <2>2. IF OfRegion(M, z, label) = {} THEN find_opcode_from(M, w, z, label, FALSE) = 0
        ELSE /\ find_opcode_from(M, w, z, label, FALSE) = Least(OfRegion(M, z, label))
             /\ find_opcode_from(M, w, z, label, FALSE) \in OfRegion(M, z, label)
    BY <2>1, FirstIs
  <2> QED BY <2>2 DEF z
<1>3. IF LS = {} THEN inLIB = 0 ELSE inLIB = Least(LS) /\ inLIB \in LS
  <2>1. LIB \in {0, LIB}
    OBVIOUS
  <2> QED BY <2>1, FirstIs
<1> HIDE DEF inRAM, inLIB
<1>4. A = R \cup LS
  <2>1. ASSUME NEW p, InStep(M, p) PROVE p \in Nat /\ (Origin(p) = 0 \/ Origin(p) = LIB)
    BY <2>1, StepFacts DEF Origin
  <2>2. \A p : p \in Steps <=> InStep(M, p)
    BY StepsAreAll
  <2> QED BY <2>1, <2>2 DEF OfRegion
<1>5. R \in SUBSET Nat /\ LS \in SUBSET Nat /\ A \in SUBSET Nat
  BY <1>4 DEF OfRegion
<1>6. \A p \in R, q \in LS : 0 < p /\ p < LIB /\ LIB < q
  <2> TAKE p \in R, q \in LS
  <2>1. p \in Nat /\ q \in Nat /\ p > Origin(p) /\ q > Origin(q) /\ Origin(p) = 0
        /\ Origin(q) = LIB
    BY StepFacts DEF OfRegion
  <2> QED BY <2>1, SizesAre DEF Origin, isRAM
<1>7. \A p \in R : 0 < p
  <2> TAKE p \in R
  <2>1. p \in Nat /\ p > Origin(p) /\ Origin(p) = 0
    BY StepFacts DEF OfRegion
  <2> QED BY <2>1
<1> HIDE DEF R, LS, A
<1>8. CASE R # {}
  <2>1. PICK p \in R : \A q \in R : p <= q
    BY <1>5, <1>8, LeastMember
  <2>2. inRAM = p /\ p # 0
    <3>1. Least(R) = p
      BY <1>5, <2>1, LeastIs
    <3> QED BY <1>2, <1>5, <1>7, <1>8, <3>1
  <2>3. p \in A /\ \A q \in A : p <= q
    <3> SUFFICES ASSUME NEW q \in LS PROVE p <= q
      BY <1>4, <2>1
    <3>1. p < LIB /\ LIB < q /\ p \in Nat /\ q \in Nat /\ LIB \in Nat
      BY <1>5, <1>6, SizesAre
    <3> QED BY <3>1
  <2>4. Least(A) = p
    BY <1>5, <2>3, LeastIs
  <2> QED BY <1>1, <2>2, <2>4 DEF A
<1>9. CASE R = {}
  <2>1. findmultilbl(M, w, label) = inLIB /\ A = LS
    BY <1>1, <1>2, <1>4, <1>9
  <2>2. LS = {} => Least(LS) = 0
    BY DEF Least
  <2> QED BY <1>3, <2>1, <2>2 DEF A
<1> QED BY <1>8, <1>9

\* A numeric label is found from the counter on or else from the beginning of the
\* program, a global one from the beginning of RAM on and then in the library: the
\* nearest that there is, and none when there is none (find_opcode_from, findmultilbl).
THEOREM LabelsAreFound == CheckedSpec => []LabelsFound
<1>1. IInv => LabelsFound
  <2> SUFFICES ASSUME IInv PROVE LabelsFound
    OBVIOUS
  <2>1. Readable(M) /\ Located(M, at) /\ M.runmode = runmode
    BY RamIs DEF IInv
  <2>2. \A p : p \in Steps <=> InStep(M, p)
    BY <2>1, StepsAreAll
  <2> DEFINE own   == {p \in Steps \cap (at.begin .. at.end) : getprog(M, p) = <<LBL>>}
             ahead == {p \in own : p >= at.pc}
  <2>3. ASSUME runmode = 1
        PROVE  find_opcode_from(M, at, at.pc, <<LBL>>, TRUE)
                   = (IF ahead = {} THEN Least(own) ELSE Least(ahead))
    <3> DEFINE op == <<LBL>>
    <3>1. op # <<END>>
      BY KindsOfWords
    <3>2. own = OfProgram(M, at, op)
      BY <2>2 DEF OfProgram
    <3>3. FirstFrom(own, at.pc) = IF ahead = {} THEN Least(own) ELSE Least(ahead)
      BY DEF FirstFrom
    <3> HIDE DEF op, own, ahead
    <3>4. M.runmode = 1
      BY <2>1, <2>3
    <3>5. find_opcode_from(M, at, at.pc, op, TRUE) = FirstFrom(OfProgram(M, at, op), at.pc)
      BY <2>1, <3>1, <3>4, NearestIs
    <3> QED BY <3>2, <3>3, <3>5 DEF op
  <2>4. ASSUME NEW label \in Labels
        PROVE  findmultilbl(M, at, label) = Least({p \in Steps : getprog(M, p) = label})
    <3>1. label # <<END>>
      BY DEF Labels
    <3> QED BY <2>1, <3>1, FirstOfAll
  <2> QED BY <2>3, <2>4, Zenon DEF LabelsFound
<1> QED BY <1>1, ProgramIsSound, PTL

-----------------------------------------------------------------------------
(* Steps counted *)

\* The step behind has the next number.
LEMMA NumberOfNext ==
    ASSUME NEW m, Readable(m), NEW p, InStep(m, p), InStep(m, p + Len(getprog(m, p)))
    PROVE  /\ user_pc(m, p) \in Nat
           /\ user_pc(m, p + Len(getprog(m, p))) = user_pc(m, p) + 1
<1> DEFINE y == p + Len(getprog(m, p))
           A == Numbers(m, p)
           B == Numbers(m, y)
           base == Origin(p) + 1
           T == {d \in Nat : \E x \in Nat : /\ InStep(m, x) /\ Origin(x) = Origin(p)
                                            /\ p = x + d /\ B[x] # A[x] + 1}
<1>1. p \in Nat /\ y \in Nat /\ p < y /\ p > Origin(p) /\ Origin(p) \in Nat
  <2> DEFINE n == Len(getprog(m, p))
  <2>1. p \in Nat /\ n \in {1, 2} /\ p > Origin(p) /\ Origin(p) \in Nat
    BY StepFacts
  <2> HIDE DEF n
  <2>2. p + n \in Nat /\ p < p + n
    BY <2>1
  <2> QED BY <2>1, <2>2 DEF n
<1>2. Origin(y) = Origin(p)
  <2> DEFINE f == Final(m, p)
             n == Len(getprog(m, p))
             l == Len(Region(m, p))
  <2>1. n \in {1, 2} /\ p + n - 1 <= f /\ f = Origin(p) + l
    BY StepFacts DEF Final
  <2>2. p = Origin(p) + offset(p) /\ l \in Nat /\ offset(p) \in Nat
    BY <1>1, RegionAligned
  <2> HIDE DEF n, f, l
  <2>3. offset(p) + n \in 0 .. l + 1 /\ p + n = Origin(p) + (offset(p) + n)
    BY <1>1, <2>1, <2>2
  <2>4. Origin(Origin(p) + (offset(p) + n)) = Origin(p)
    BY <1>1, <2>3, SameRegion DEF l
  <2> QED BY <2>3, <2>4 DEF n
<1>3. InStep(m, y)
  OBVIOUS
<1>4. A[p] = 1 /\ B[p] = 1 + B[y] /\ B[y] = 1
  <2>1. A[p] = 1
    BY <1>1, NumberIs
  <2> HIDE DEF A
  <2>2. Numbers(m, y)[p] = 1 + Numbers(m, y)[p + Len(getprog(m, p))]
    <3> HIDE DEF y
    <3> QED BY <1>1, <1>2, <1>3, NumberIs
  <2>3. Numbers(m, y)[y] = 1
    <3> HIDE DEF y
    <3> QED BY <1>1, <1>3, NumberIs
  <2> QED BY <2>1, <2>2, <2>3
<1> HIDE DEF y
<1>5. T = {}
  <2> SUFFICES ASSUME T # {} PROVE FALSE
    OBVIOUS
  <2>1. T \in SUBSET Nat
    OBVIOUS
  <2> HIDE DEF T
  <2>2. PICK d \in T : \A c \in T : d <= c
    BY <2>1, LeastMember
  <2>3. d \in Nat /\ \E x \in Nat : /\ InStep(m, x) /\ Origin(x) = Origin(p)
                                    /\ p = x + d /\ B[x] # A[x] + 1
    BY <2>2 DEF T
  <2>4. PICK x \in Nat : InStep(m, x) /\ Origin(x) = Origin(p) /\ p = x + d /\ B[x] # A[x] + 1
    BY <2>3
  <2>5. x # p
    <3> HIDE DEF A, B
    <3> QED BY <1>4, <2>4
  <2> DEFINE z == x + Len(getprog(m, x))
  <2>6. x < p /\ x < y
    BY <1>1, <2>3, <2>4, <2>5
  <2>7. InStep(m, z) /\ Origin(z) = Origin(x) /\ x < z /\ z <= p /\ z \in Nat
    BY <2>4, <2>6, NextIs
  <2>8. A[x] = 1 + A[z]
    BY <2>4, <2>6, NumberIs
  <2>9. B[x] = 1 + B[z]
    BY <1>2, <1>3, <2>4, <2>6, NumberIs
  <2>10. A[z] \in Nat
    <3> HIDE DEF z
    <3> QED BY <2>4, <2>7, NumbersWalk
  <2> HIDE DEF z, A, B
  <2>11. p - z \in Nat /\ p = z + (p - z) /\ ~ (d <= p - z)
    BY <1>1, <2>3, <2>4, <2>7
  <2>12. B[z] # A[z] + 1
    BY <2>4, <2>8, <2>9, <2>10
  <2>13. p - z \in T
    BY <2>4, <2>7, <2>11, <2>12 DEF T
  <2> QED BY <2>2, <2>11, <2>13
<1>6. InStep(m, base) /\ Origin(base) = Origin(p) /\ base <= p
  <2>1. Region(m, p) # << >>
    BY DEF InStep, IsStep
  <2> QED BY <1>1, <2>1, RegionEnds
<1>7. base \in Nat /\ p - base \in Nat /\ p = base + (p - base)
  BY <1>1, <1>6
<1>8. B[base] = A[base] + 1
  <2> HIDE DEF A, B, base
  <2> SUFFICES ASSUME B[base] # A[base] + 1 PROVE FALSE
    OBVIOUS
  <2>1. p - base \in T
    BY <1>6, <1>7
  <2> QED BY <1>5, <2>1
<1>9. A[base] \in Nat
  <2> HIDE DEF base
  <2> QED BY <1>6, NumbersWalk
<1>10. user_pc(m, p) = A[base] /\ user_pc(m, y) = B[base]
  <2>1. p # 0 /\ y # 0
    BY <1>1
  <2>2. isRAM(p) => base = 1
    BY DEF Origin
  <2>3. ~ isRAM(p) => base = LIB + 1
    BY DEF Origin
  <2>4. isRAM(y) <=> isRAM(p)
    BY <1>2, SizesAre DEF Origin
  <2> HIDE DEF base, A, B
  <2> QED BY <2>1, <2>2, <2>3, <2>4 DEF user_pc, A, B
<1> HIDE DEF A, B
<1> QED BY <1>8, <1>9, <1>10 DEF y

\* One step on is one number more, one step back one less, within the program.
LEMMA CountedOn ==
    ASSUME NEW m, Readable(m), m.runmode = 1,
           NEW w \in [pc : Nat, begin : Nat, end : Nat], Delimited(m, w),
           NEW p, Within(m, w, p)
    PROVE  /\ do_inc(m, w, p, TRUE).wrapped
                 \/ /\ InStep(m, p) /\ user_pc(m, p) \in Nat
                    /\ user_pc(m, do_inc(m, w, p, TRUE).pc) = user_pc(m, p) + 1
           /\ do_dec(m, w, p, TRUE).wrapped
                 \/ /\ InStep(m, p) /\ user_pc(m, do_dec(m, w, p, TRUE).pc) \in Nat
                    /\ user_pc(m, do_dec(m, w, p, TRUE).pc) = user_pc(m, p) - 1
<1>1. ASSUME p = w.end PROVE do_inc(m, w, p, TRUE).wrapped
  <2> DEFINE next == do_inc(m, w, p, TRUE)
  <2>2. p = w.end => next = [pc |-> w.begin, wrapped |-> TRUE]
    BY IncWithin
  <2> HIDE DEF next
  <2>3. next = [pc |-> w.begin, wrapped |-> TRUE]
    BY <1>1, <2>2
  <2>4. next.wrapped
    BY <2>3
  <2> QED BY <2>4, Zenon DEF next
<1>2. ASSUME p # w.end
      PROVE  /\ InStep(m, p) /\ user_pc(m, p) \in Nat
             /\ user_pc(m, do_inc(m, w, p, TRUE).pc) = user_pc(m, p) + 1
  <2> DEFINE y == p + Len(getprog(m, p))
  <2>1. do_inc(m, w, p, TRUE) = [pc |-> y, wrapped |-> FALSE]
    BY <1>2, IncWithin
  <2>2. InStep(m, p) /\ InStep(m, p + Len(getprog(m, p)))
    BY <1>2, IncWithin
  <2>3. do_inc(m, w, p, TRUE).pc = y
    BY <2>1, WayIs
  <2>4. user_pc(m, p) \in Nat /\ user_pc(m, p + Len(getprog(m, p))) = user_pc(m, p) + 1
    BY <2>2, NumberOfNext
  <2> QED BY <2>2, <2>3, <2>4
<1>3. ASSUME p = w.begin PROVE do_dec(m, w, p, TRUE).wrapped
  BY <1>3, DecWithin
<1>4. ASSUME p # w.begin
      PROVE  /\ InStep(m, p) /\ user_pc(m, do_dec(m, w, p, TRUE).pc) \in Nat
             /\ user_pc(m, do_dec(m, w, p, TRUE).pc) = user_pc(m, p) - 1
  <2> DEFINE r == do_dec(m, w, p, TRUE).pc
  <2>1. r + Len(getprog(m, r)) = p /\ InStep(m, r) /\ InStep(m, p)
    BY <1>4, DecWithin
  <2> HIDE DEF r
  <2>2. InStep(m, r + Len(getprog(m, r)))
    BY <2>1
  <2>3. user_pc(m, r) \in Nat /\ user_pc(m, r + Len(getprog(m, r))) = user_pc(m, r) + 1
    BY <2>1, <2>2, NumberOfNext
  <2>4. user_pc(m, p) = user_pc(m, r) + 1
    BY <2>1, <2>3
  <2>5. user_pc(m, r) = user_pc(m, p) - 1
    BY <2>3, <2>4
  <2> QED BY <2>1, <2>3, <2>5 DEF r
<1> QED BY <1>1, <1>2, <1>3, <1>4

\* n steps forwards are n numbers more, unless the program ends before.
LEMMA AheadCounts ==
    ASSUME Readable(M), runmode = 1, NEW w, Located(M, w), user_pc(M, w.pc) \in Nat,
           NEW n \in Nat
    PROVE  \/ Ahead(w, n).wrapped
           \/ user_pc(M, Ahead(w, n).at.pc) = user_pc(M, w.pc) + n
<1> DEFINE G == StepsAhead(w)
           Good(i) == G[i].wrapped \/ user_pc(M, G[i].at.pc) = user_pc(M, w.pc) + i
           T == {i \in Nat : ~ Good(i)}
<1>1. G = [k \in Nat |-> IF k = 0 THEN Unmoved(w) ELSE OneOn(G[k - 1])]
  BY DEF StepsAhead
<1>2. M.runmode = 1
  BY DEF M
<1>3. \A i \in Nat : Home(M, w, G[i].at)
  <2> SUFFICES ASSUME NEW i \in Nat PROVE Home(M, w, Ahead(w, i).at)
    BY DEF Ahead
  <2> QED BY AheadHome
<1> HIDE DEF G
<1>4. T = {}
  <2> SUFFICES ASSUME T # {} PROVE FALSE
    OBVIOUS
  <2>1. T \in SUBSET Nat
    OBVIOUS
  <2> HIDE DEF T
  <2>2. PICK i \in T : \A j \in T : i <= j
    BY <2>1, LeastMember
  <2>3. i \in Nat /\ ~ Good(i)
    BY <2>2 DEF T
  <2>4. i # 0
    <3>1. G[0] = Unmoved(w)
      BY <1>1
    <3>2. G[0].at = w
      BY <3>1 DEF Unmoved
    <3> QED BY <2>3, <3>2
  <2>5. i - 1 \in Nat /\ ~ (i <= i - 1)
    BY <2>3, <2>4
  <2>6. Good(i - 1)
    BY <2>2, <2>5 DEF T
  <2> DEFINE x == G[i - 1]
             v == x.at
  <2>7. G[i] = OneOn(x)
    BY <1>1, <2>3, <2>4
  <2>8. Home(M, w, v)
    BY <1>3, <2>5
  <2> HIDE DEF x
  <2>9. CASE x.wrapped
    <3>1. G[i].wrapped
      BY <2>7, <2>9 DEF OneOn
    <3> QED BY <2>3, <3>1
  <2>10. CASE ~ x.wrapped
    <3>1. G[i] = [at |-> incpc(M, v), wrapped |-> do_inc(M, v, v.pc, TRUE).wrapped]
      BY <2>7, <2>10 DEF OneOn
    <3>2. G[i].at = incpc(M, v) /\ G[i].wrapped = do_inc(M, v, v.pc, TRUE).wrapped
      BY <3>1
    <3>3. Located(M, v)
      BY <2>8 DEF Home
    <3>4. v \in [pc : Nat, begin : Nat, end : Nat] /\ Delimited(M, v) /\ Within(M, v, v.pc)
      BY <1>2, <3>3, ReachedHere
    <3>5. incpc(M, v) = [v EXCEPT !.pc = do_inc(M, v, v.pc, TRUE).pc]
      BY <1>2, <3>3, PcMoves
    <3>6. incpc(M, v).pc = do_inc(M, v, v.pc, TRUE).pc
      BY <3>4, <3>5
    <3>7. do_inc(M, v, v.pc, TRUE).wrapped
             \/ user_pc(M, do_inc(M, v, v.pc, TRUE).pc) = user_pc(M, v.pc) + 1
      BY <1>2, <3>4, CountedOn
    <3>8. user_pc(M, v.pc) = user_pc(M, w.pc) + (i - 1)
      BY <2>6, <2>10 DEF x
    <3> HIDE DEF v
    <3>9. G[i].wrapped \/ user_pc(M, G[i].at.pc) = (user_pc(M, w.pc) + (i - 1)) + 1
      BY <3>2, <3>6, <3>7, <3>8
    <3>10. (user_pc(M, w.pc) + (i - 1)) + 1 = user_pc(M, w.pc) + i
      BY <2>3, <2>5
    <3> QED BY <2>3, <3>9, <3>10
  <2> QED BY <2>9, <2>10
<1>5. Good(n)
  BY <1>4
<1> QED BY <1>5 DEF G, Ahead

\* n steps back are n numbers less.
LEMMA BackCounts ==
    ASSUME Readable(M), runmode = 1, NEW w, Located(M, w), NEW by,
           user_pc(M, OwnStep(by, w).pc) \in Nat, NEW n \in Nat
    PROVE  \/ StepsBack(by, w)[n].wrapped
           \/ user_pc(M, StepsBack(by, w)[n].pc) = user_pc(M, OwnStep(by, w).pc) - n
<1> DEFINE G == StepsBack(by, w)
           own == user_pc(M, OwnStep(by, w).pc)
           Good(i) == G[i].wrapped \/ user_pc(M, G[i].pc) = own - i
           T == {i \in Nat : ~ Good(i)}
<1>1. G = [k \in Nat |-> IF k = 0 THEN OwnStep(by, w) ELSE OneBack(w, G[k - 1])]
  BY DEF StepsBack
<1>2. M.runmode = 1
  BY DEF M
<1>3. \A i \in Nat : Within(M, w, G[i].pc)
  <2> SUFFICES ASSUME NEW i \in Nat PROVE Within(M, w, StepsBack(by, w)[i].pc)
    OBVIOUS
  <2> QED BY StepsBackWithin
<1>4. w \in [pc : Nat, begin : Nat, end : Nat] /\ Delimited(M, w)
  BY <1>2, ReachedHere
<1>5. own \in Nat
  OBVIOUS
<1> HIDE DEF G
<1>6. G[0] = OwnStep(by, w)
  BY <1>1
<1>7. user_pc(M, G[0].pc) = own
  BY <1>6
<1> HIDE DEF own
<1>8. T = {}
  <2> SUFFICES ASSUME T # {} PROVE FALSE
    OBVIOUS
  <2>1. T \in SUBSET Nat
    OBVIOUS
  <2> HIDE DEF T
  <2>2. PICK i \in T : \A j \in T : i <= j
    BY <2>1, LeastMember
  <2>3. i \in Nat /\ ~ Good(i)
    BY <2>2 DEF T
  <2>4. i # 0
    <3>1. own - 0 = own
      BY <1>5
    <3> QED BY <1>7, <2>3, <3>1
  <2>5. i - 1 \in Nat /\ ~ (i <= i - 1)
    BY <2>3, <2>4
  <2>6. Good(i - 1)
    BY <2>2, <2>5 DEF T
  <2> DEFINE x == G[i - 1]
  <2>7. G[i] = OneBack(w, x)
    BY <1>1, <2>3, <2>4
  <2>8. Within(M, w, x.pc)
    BY <1>3, <2>5
  <2> HIDE DEF x
  <2>9. CASE x.wrapped
    <3>1. G[i].wrapped
      BY <2>7, <2>9 DEF OneBack
    <3> QED BY <2>3, <3>1
  <2>10. CASE ~ x.wrapped
    <3>1. G[i] = do_dec(M, w, x.pc, TRUE)
      BY <2>7, <2>10 DEF OneBack
    <3>2. G[i].wrapped \/ user_pc(M, G[i].pc) = user_pc(M, x.pc) - 1
      <4> DEFINE q == x.pc
      <4>1. Within(M, w, q)
        BY <2>8
      <4> HIDE DEF q
      <4>2. do_dec(M, w, q, TRUE).wrapped
               \/ user_pc(M, do_dec(M, w, q, TRUE).pc) = user_pc(M, q) - 1
        BY <1>2, <1>4, <4>1, CountedOn
      <4> QED BY <3>1, <4>2 DEF q
    <3>3. user_pc(M, x.pc) = own - (i - 1)
      BY <2>6, <2>10 DEF x
    <3>4. (own - (i - 1)) - 1 = own - i
      BY <1>5, <2>3, <2>5
    <3> QED BY <2>3, <3>2, <3>3, <3>4
  <2> QED BY <2>9, <2>10
<1>9. Good(n)
  BY <1>8
<1> QED BY <1>9 DEF G, own

\* A branch within the program, and the step that a command of a running program
\* belongs to.
LEMMA JumpHome ==
    ASSUME IInv, NEW by, Executes(by), NEW gsb, NEW p, Within(M, Behind(by), p),
           gsbgto(by, gsb, p)
    PROVE  Home(M, at, at') /\ at'.pc = p
<1> DEFINE w == Behind(by)
<1>1. /\ Readable(M) /\ M.runmode = 1 /\ Located(M, w) /\ Home(M, at, w)
      /\ w \in [pc : Nat, begin : Nat, end : Nat]
  BY Executing
<1>2. at' = raw_set_pc(M, w, p)
  BY DEF gsbgto, Jump
<1> HIDE DEF w
<1>3. raw_set_pc(M, w, p) = [w EXCEPT !.pc = p] /\ Located(M, raw_set_pc(M, w, p))
  <2>1. Within(M, w, p)
    BY DEF w
  <2> QED BY <1>1, <2>1, RawSetPcWithin
<1>4. at'.pc = p /\ at'.begin = w.begin /\ at'.end = w.end
  BY <1>1, <1>2, <1>3
<1> QED BY <1>1, <1>2, <1>3, <1>4 DEF Home

LEMMA OwnStepIs ==
    ASSUME IInv, NEW by, by # "key", Executes(by)
    PROVE  OwnStep(by, Behind(by)).pc = at.pc
<1> DEFINE v == incpc(M, at)
<1>1. Readable(M) /\ M.runmode = 1 /\ Located(M, at)
  BY Executing
<1>2. OwnStep(by, v).pc = do_dec(M, v, v.pc, TRUE).pc /\ Behind(by) = v
  BY DEF OwnStep, Behind
<1>3. at \in [pc : Nat, begin : Nat, end : Nat] /\ Delimited(M, at) /\ Within(M, at, at.pc)
  BY <1>1, ReachedHere
<1>4. Home(M, at, v)
  BY <1>1, HomeMoves
<1>5. v = [at EXCEPT !.pc = do_inc(M, at, at.pc, TRUE).pc]
  BY <1>1, PcMoves
<1>6. v.pc = do_inc(M, at, at.pc, TRUE).pc
  BY <1>3, <1>5
<1>7. do_dec(M, v, v.pc, TRUE) = do_dec(M, at, v.pc, TRUE)
  <2>1. Section(M, v, v.pc, TRUE) = Section(M, at, v.pc, TRUE)
    BY <1>4 DEF Home, Section
  <2> QED BY <2>1, Zenon DEF do_dec
<1>8. do_dec(M, at, do_inc(M, at, at.pc, TRUE).pc, TRUE).pc = at.pc
  BY <1>1, <1>3, InvertWithin
<1> HIDE DEF v
<1> QED BY <1>2, <1>6, <1>7, <1>8

\* What a running program does within itself.
Inside(gsb, n) ==
    \/ Plain("run") \/ fin_tst("run")
    \/ cmdgto("run", gsb) \/ cmdskip("run", gsb, n) \/ cmdback("run", gsb, n)

LEMMA StaysInside ==
    ASSUME IInv, Executes("run"), NEW gsb \in BOOLEAN, NEW n \in Nat, Inside(gsb, n)
    PROVE  Home(M, at, at')
<1> DEFINE w == Behind("run")
<1>1. /\ Readable(M) /\ M.runmode = 1 /\ runmode = 1 /\ Located(M, at) /\ Located(M, w)
      /\ Home(M, at, w) /\ Delimited(M, w) /\ w \in [pc : Nat, begin : Nat, end : Nat]
  BY Executing
<1>2. ASSUME NEW v, Home(M, w, v)
      PROVE  Home(M, at, v)
  BY <1>1, <1>2 DEF Home
<1> HIDE DEF w
<1>3. CASE Plain("run")
  <2>1. at' = w
    BY <1>3 DEF Plain, w
  <2> QED BY <1>1, <2>1
<1>4. CASE fin_tst("run")
  <2>1. at' = IncUnlessLast(M, w)
    BY <1>4 DEF fin_tst, w
  <2> QED BY <1>1, <1>2, <2>1, IncUnlessLastHome
<1>5. CASE cmdgto("run", gsb)
  <2> DEFINE q == find_opcode_from(M, w, w.pc, <<LBL>>, TRUE)
  <2>1. q # 0 /\ gsbgto("run", gsb, q)
    BY <1>5 DEF cmdgto, Reach, w
  <2>2. Reached(M, w, TRUE, w.pc)
    BY <1>1, ReachedHere
  <2>3. Reached(M, w, TRUE, q)
    BY <1>1, <2>1, <2>2, FindOpcodeIs
  <2> HIDE DEF q
  <2>4. Within(M, w, q)
    BY <1>1, <2>3 DEF Reached
  <2> QED BY <2>1, <2>4, JumpHome DEF w
<1>6. CASE cmdskip("run", gsb, n)
  <2> DEFINE dest == Ahead(w, n)
  <2>1. SkipTo("run", gsb, n, w, dest)
    BY <1>6 DEF cmdskip, w
  <2>2. Home(M, w, dest.at)
    BY <1>1, AheadHome
  <2> HIDE DEF dest
  <2>3. CASE gsbgto("run", gsb, dest.at.pc)
    <3>1. Within(M, w, dest.at.pc)
      BY <1>1, <2>2, HomeMoves
    <3> QED BY <2>3, <3>1, JumpHome DEF w
  <2>4. CASE ~ gsbgto("run", gsb, dest.at.pc)
    <3>1. at' = decpc(M, w)
      BY <2>1, <2>4 DEF SkipTo, ErrorAt
    <3>2. Home(M, w, w)
      BY <1>1, HomeMoves
    <3>3. Home(M, w, decpc(M, w))
      BY <1>1, <3>2, HomeMoves
    <3> QED BY <1>2, <3>1, <3>3
  <2> QED BY <2>3, <2>4
<1>7. CASE cmdback("run", gsb, n)
  <2>1. CASE n = 0
    <3>1. gsbgto("run", gsb, w.pc)
      BY <1>7, <2>1 DEF cmdback, w
    <3>2. Within(M, w, w.pc)
      BY <1>1, ReachedHere
    <3> QED BY <3>1, <3>2, JumpHome DEF w
  <2>2. CASE n # 0
    <3>1. gsbgto("run", gsb, StepsBack("run", w)[n].pc)
      BY <1>7, <2>2 DEF cmdback, BackTo, w
    <3>2. Within(M, w, StepsBack("run", w)[n].pc)
      BY <1>1, StepsBackWithin
    <3> QED BY <3>1, <3>2, JumpHome DEF w
  <2> QED BY <2>1, <2>2
<1> QED BY <1>3, <1>4, <1>5, <1>6, <1>7 DEF Inside

LEMMA BranchHome ==
    ASSUME IInv, Executes("run"), NEW p, Within(M, Behind("run"), p), gsbgto("run", FALSE, p)
    PROVE  at'.pc = p
<1> DEFINE gsb == FALSE
<1>1. gsbgto("run", gsb, p)
  OBVIOUS
<1> HIDE DEF gsb
<1> QED BY <1>1, JumpHome

\* The step executed is numbered one less than the one behind it.
LEMMA NumberBehind ==
    ASSUME IInv, Executes("run"), getprog(M, at.pc) # <<END>>
    PROVE  /\ user_pc(M, at.pc) \in Nat
           /\ user_pc(M, Behind("run").pc) = user_pc(M, at.pc) + 1
<1>1. Readable(M) /\ M.runmode = 1 /\ Located(M, at)
  BY Executing
<1>2. at \in [pc : Nat, begin : Nat, end : Nat] /\ Delimited(M, at) /\ Within(M, at, at.pc)
  BY <1>1, ReachedHere
<1>3. at.pc # at.end
  <2>1. ~ AtHead(M, at.pc)
    BY <1>1, <1>2, WithinIs
  <2>2. Ending(M, at.end)
    BY <1>1, <1>2, <2>1, WithinIs
  <2> QED BY <2>2 DEF Ending
<1> DEFINE next == do_inc(M, at, at.pc, TRUE)
           y    == at.pc + Len(getprog(M, at.pc))
<1>4. next = [pc |-> y, wrapped |-> FALSE]
  BY <1>1, <1>2, <1>3, IncWithin
<1> HIDE DEF y, next
<1>5. next.wrapped = FALSE
  BY <1>4, WayIs
<1>6. user_pc(M, at.pc) \in Nat /\ user_pc(M, next.pc) = user_pc(M, at.pc) + 1
  <2>1. \/ next.wrapped
        \/ /\ InStep(M, at.pc) /\ user_pc(M, at.pc) \in Nat
           /\ user_pc(M, next.pc) = user_pc(M, at.pc) + 1
    BY <1>1, <1>2, CountedOn DEF next
  <2> QED BY <1>5, <2>1
<1>7. incpc(M, at) = [at EXCEPT !.pc = next.pc]
  BY <1>1, PcMoves DEF next
<1>8. incpc(M, at).pc = next.pc
  BY <1>2, <1>7
<1> QED BY <1>6, <1>8 DEF Behind

\* A running program executes its steps or is stopped.
LEMMA RunningStep ==
    ASSUME IInv, Running, CheckedNext
    PROVE  Executes("run") /\ (Running' => xeq_single("run"))
<1>1. Running = TRUE /\ runmode = 1
  BY DEF IInv
<1>2. ~ Navigate
  BY <1>1 DEF Navigate, toggle, soft_init_state, load_state, xeq_bst, xeq_sst, gtodot, gtodot_end,
              gtodot_fkey, gtodot_up, gtodot_down, process_labellist, Move
<1>3. ~ Edit /\ ~ Replace /\ ~ TakeAway /\ ~ store_program
  <2>1. ~ Edit
    BY <1>1, Zenon DEF Edit, stoprog, recall_program, reset
  <2>2. ~ Replace
    BY <1>1, Zenon DEF Replace, clpall, load_program
  <2>3. ~ TakeAway
    BY <1>1, Zenon DEF TakeAway, delprog, clrprog
  <2>4. ~ store_program
    BY <1>1, Zenon DEF store_program
  <2> QED BY <2>1, <2>2, <2>3, <2>4
<1>4. Run
  BY <1>2, <1>3 DEF CheckedNext
<1>5. \A by : Executes(by) => by = "run"
  BY <1>1 DEF Executes
<1>6. CASE KeyStop
  <2>1. Running' = FALSE /\ UNCHANGED <<ram, lib, runmode>>
    BY <1>6 DEF KeyStop
  <2> QED BY <1>1, <2>1 DEF Executes
<1>7. ~ xeq_key
  <2>1. ~ Executes("key")
    BY <1>5
  <2> QED BY <2>1 DEF xeq_key
<1>8. ASSUME NEW by \in {"run", "sst"}, xeq_single(by)
      PROVE  Executes("run") /\ xeq_single("run")
  <2>1. Executes(by)
    BY <1>8 DEF xeq_single
  <2>2. by = "run"
    BY <1>5, <2>1
  <2> QED BY <1>8, <2>1, <2>2
<1> QED BY <1>4, <1>6, <1>7, <1>8 DEF Run

\* Neither END nor RTN leaves the return stack as it is and the program running.
LEMMA NotAtEnd ==
    ASSUME IInv, xeq_single("run"), Running', rets' = rets
    PROVE  getprog(M, at.pc) # <<END>>
<1> SUFFICES ASSUME getprog(M, at.pc) = <<END>> PROVE FALSE
  OBVIOUS
<1>1. do_rtn("run", FALSE)
  BY DEF xeq_single
<1>2. rets # << >> /\ rets' = Front(rets)
  BY <1>1 DEF do_rtn
<1>3. Len(Front(rets)) = Len(rets) - 1
  <2>1. rets \in Seq(Nat) /\ Len(rets) \in Nat
    BY LenProperties DEF IInv, Returning
  <2>2. Front(rets) = SubSeq(rets, 1, Len(rets) - 1)
    BY DEF Front
  <2>3. \A i \in 1 .. Len(rets) - 1 : rets[i] \in Nat
    BY <2>1, ElementOfSeq
  <2>4. Len(SubSeq(rets, 1, Len(rets) - 1))
            = (IF 1 <= Len(rets) - 1 THEN (Len(rets) - 1) - 1 + 1 ELSE 0)
    BY <2>1, <2>3, SubSeqProperties
  <2>5. Len(rets) > 0
    BY <1>2, ReturnsFront DEF IInv
  <2> DEFINE n == Len(rets)
             k == Len(SubSeq(rets, 1, n - 1))
  <2>6. n \in Nat /\ n > 0 /\ k = IF 1 <= n - 1 THEN (n - 1) - 1 + 1 ELSE 0
    BY <2>1, <2>4, <2>5
  <2> HIDE DEF n, k
  <2>7. k = n - 1
    BY <2>6
  <2> QED BY <2>2, <2>7 DEF n, k
<1>4. Len(rets) \in Nat
  BY LenProperties DEF IInv, Returning
<1> DEFINE n == Len(rets)
<1>5. n = n - 1 /\ n \in Nat
  BY <1>2, <1>3, <1>4
<1> HIDE DEF n
<1> QED BY <1>5

\* SKIP and BACK count steps, not words, and with numeric labels and tests stay within
\* the program: at its ends they stop rather than go on in the next one (cmdskip,
\* cmdback, fin_tst, cmdgto).
THEOREM StepsAreCounted == CheckedSpec => CountedSteps
<1> DEFINE Stays == at'.begin = at.begin /\ at'.end = at.end /\ at'.pc \in at.begin .. at.end
           On(n) == cmdskip("run", FALSE, n) => user_pc(M, at'.pc) = user_pc(M, at.pc) + 1 + n
           Off(n) == cmdback("run", FALSE, n) => user_pc(M, at'.pc) = user_pc(M, at.pc) - n
           Branches == \/ Plain("run") \/ fin_tst("run")
                       \/ \E gsb \in BOOLEAN : cmdgto("run", gsb)
                       \/ \E gsb \in BOOLEAN, n \in 0 .. MAX_ARG :
                             cmdskip("run", gsb, n) \/ cmdback("run", gsb, n)
           Counts == /\ Running /\ Branches
                        => /\ at'.begin = at.begin /\ at'.end = at.end
                           /\ at'.pc \in at.begin .. at.end
                     /\ Running /\ Running' =>
                           \A n \in 1 .. MAX_ARG :
                              /\ cmdskip("run", FALSE, n)
                                   => user_pc(M, at'.pc) = user_pc(M, at.pc) + 1 + n
                              /\ cmdback("run", FALSE, n)
                                   => user_pc(M, at'.pc) = user_pc(M, at.pc) - n
<1>1. ASSUME IInv, CheckedNext, Running, Branches
      PROVE  Stays
  <2>1. Executes("run")
    BY <1>1, RunningStep
  <2>2. \E gsb \in BOOLEAN, n \in Nat : Inside(gsb, n)
    <3>1. 0 .. MAX_ARG \subseteq Nat /\ 0 \in Nat /\ TRUE \in BOOLEAN
      BY SizesAre
    <3>2. CASE Plain("run") \/ fin_tst("run")
      BY <3>1, <3>2 DEF Inside
    <3>3. CASE \E gsb \in BOOLEAN : cmdgto("run", gsb)
      BY <3>1, <3>3 DEF Inside
    <3>4. CASE \E gsb \in BOOLEAN, n \in 0 .. MAX_ARG :
                  cmdskip("run", gsb, n) \/ cmdback("run", gsb, n)
      BY <3>1, <3>4 DEF Inside
    <3> QED BY <1>1, <3>2, <3>3, <3>4
  <2>3. Home(M, at, at')
    BY <1>1, <2>1, <2>2, StaysInside
  <2>4. Readable(M) /\ M.runmode = 1 /\ Located(M, at)
    BY <1>1, <2>1, Executing
  <2>5. Within(M, at, at'.pc)
    BY <2>3, <2>4, HomeMoves
  <2> QED BY <2>3, <2>5 DEF Home, Within
<1>2. ASSUME IInv, CheckedNext, Running, Running', NEW n \in 1 .. MAX_ARG
      PROVE  On(n) /\ Off(n)
  <2> DEFINE w == Behind("run")
  <2>1. n \in Nat /\ n # 0 /\ xeq_single("run") /\ Executes("run")
    BY <1>2, RunningStep, SizesAre
  <2>2. Readable(M) /\ M.runmode = 1 /\ runmode = 1 /\ Located(M, w)
    BY <1>2, <2>1, Executing
  <2>3. ASSUME NEW p, gsbgto("run", FALSE, p)
        PROVE  user_pc(M, at.pc) \in Nat /\ user_pc(M, w.pc) = user_pc(M, at.pc) + 1
    <3>1. rets' = rets
      BY <2>3 DEF gsbgto, Jump
    <3>2. getprog(M, at.pc) # <<END>>
      BY <1>2, <2>1, <3>1, NotAtEnd
    <3> QED BY <1>2, <2>1, <3>2, NumberBehind
  <2> HIDE DEF w
  <2>4. ASSUME cmdskip("run", FALSE, n)
        PROVE  user_pc(M, at'.pc) = user_pc(M, at.pc) + 1 + n
    <3> DEFINE dest == Ahead(w, n)
    <3>1. SkipTo("run", FALSE, n, w, dest)
      BY <2>4 DEF cmdskip, w
    <3>2. Home(M, w, dest.at)
      BY <2>1, <2>2, AheadHome
    <3>3. Within(M, w, dest.at.pc)
      BY <2>2, <3>2, HomeMoves
    <3> HIDE DEF dest
    <3>4. ~ dest.wrapped /\ gsbgto("run", FALSE, dest.at.pc)
      BY <1>2, <3>1 DEF SkipTo
    <3>5. at'.pc = dest.at.pc
      BY <1>2, <2>1, <3>3, <3>4, BranchHome DEF w
    <3>6. user_pc(M, at.pc) \in Nat /\ user_pc(M, w.pc) = user_pc(M, at.pc) + 1
      BY <2>3, <3>4
    <3>7. user_pc(M, w.pc) \in Nat
      BY <3>6
    <3>8. dest.wrapped \/ user_pc(M, dest.at.pc) = user_pc(M, w.pc) + n
      BY <2>1, <2>2, <3>7, AheadCounts DEF dest
    <3>9. user_pc(M, at'.pc) = user_pc(M, w.pc) + n
      BY <3>4, <3>5, <3>8
    <3> QED BY <3>6, <3>9
  <2>5. ASSUME cmdback("run", FALSE, n)
        PROVE  user_pc(M, at'.pc) = user_pc(M, at.pc) - n
    <3> DEFINE dest == StepsBack("run", w)[n]
    <3>1. ~ dest.wrapped /\ gsbgto("run", FALSE, dest.pc)
      BY <2>1, <2>5 DEF cmdback, BackTo, w
    <3>2. Within(M, w, dest.pc)
      BY <2>1, <2>2, StepsBackWithin
    <3>3. user_pc(M, at.pc) \in Nat
      BY <2>3, <3>1
    <3>4. OwnStep("run", w).pc = at.pc
      BY <1>2, <2>1, OwnStepIs DEF w
    <3>5. user_pc(M, OwnStep("run", w).pc) \in Nat
      BY <3>3, <3>4
    <3>6. dest.wrapped \/ user_pc(M, dest.pc) = user_pc(M, OwnStep("run", w).pc) - n
      BY <2>1, <2>2, <3>5, BackCounts
    <3> HIDE DEF dest
    <3>7. at'.pc = dest.pc
      BY <1>2, <2>1, <3>1, <3>2, BranchHome DEF w
    <3> QED BY <3>1, <3>4, <3>6, <3>7
  <2> QED BY <2>4, <2>5
<1>3. IInv /\ [CheckedNext]_vars => [Counts]_vars
  BY <1>1, <1>2
<1> QED BY <1>3, ProgramIsSound, PTL DEF CheckedSpec, CountedSteps

-----------------------------------------------------------------------------
(* The listing of words *)

\* The step at o, as StepsOf takes it, and the listing from there on.
Width(s, o)    == IF isDBL(s[o]) THEN 2 ELSE 1
StepFrom(s, o) == SubSeq(s, o, o + Width(s, o) - 1)
Following(s, o) == o + Width(s, o)
ListFrom(s, o, rest) == IF o > Len(s) THEN << >> ELSE <<StepFrom(s, o)>> \o rest
Listed(s) ==
    LET rest[o \in 1 .. Len(s) + 2] == ListFrom(s, o, rest[Following(s, o)]) IN rest

\* A step begins at o, or the words end before it.
Start(s, o) == IsStep(s, o) \/ o = Len(s) + 1

LEMMA ListTurns ==
    ASSUME NEW s
    PROVE  /\ StepsOf(s) = Listed(s)[1]
           /\ \A o \in 1 .. Len(s) + 2 :
                 Listed(s)[o] = IF o > Len(s) THEN << >>
                                ELSE <<StepFrom(s, o)>> \o Listed(s)[o + Width(s, o)]
<1> DEFINE F == Listed(s)
<1>1. F = [o \in 1 .. Len(s) + 2 |-> ListFrom(s, o, F[Following(s, o)])]
  BY DEF Listed
<1>2. StepsOf(s) = F[1]
  BY Zenon DEF StepsOf, Listed, ListFrom, Following, StepFrom, Width
<1> HIDE DEF F
<1>3. \A o \in 1 .. Len(s) + 2 : F[o] = ListFrom(s, o, F[Following(s, o)])
  BY <1>1
<1> QED BY <1>2, <1>3 DEF F, ListFrom, Following

\* The words of c are those of s from o on.
Copies(c, s, o) == \A i \in 1 .. Len(c) : c[i] = s[o + i - 1]

LEMMA StartAhead ==
    ASSUME NEW s, Aligned(s), NEW o, Start(s, o)
    PROVE  /\ Len(s) \in Nat /\ o \in 1 .. Len(s) + 1
           /\ IF o = Len(s) + 1 THEN Listed(s)[o] = << >>
              ELSE /\ Width(s, o) \in {1, 2} /\ IsStep(s, o) /\ o + Width(s, o) - 1 <= Len(s)
                   /\ Start(s, o + Width(s, o)) /\ o \in 1 .. Len(s)
                   /\ StepFrom(s, o) \in Seq(Words) /\ Len(StepFrom(s, o)) = Width(s, o)
                   /\ Copies(StepFrom(s, o), s, o)
                   /\ Listed(s)[o] = <<StepFrom(s, o)>> \o Listed(s)[o + Width(s, o)]
<1> DEFINE n == Width(s, o)
           F == Listed(s)
           c == StepFrom(s, o)
<1>1. Len(s) \in Nat /\ s \in Seq(Words)
  BY LenProperties DEF Aligned
<1>2. o \in 1 .. Len(s) + 1
  BY <1>1 DEF Start, IsStep
<1>3. \A q \in 1 .. Len(s) + 2 :
          F[q] = IF q > Len(s) THEN << >> ELSE <<StepFrom(s, q)>> \o F[q + Width(s, q)]
  BY ListTurns
<1>4. n \in {1, 2}
  BY DEF Width
<1> HIDE DEF F
<1>5. o = Len(s) + 1 => F[o] = << >>
  <2> SUFFICES ASSUME o = Len(s) + 1 PROVE F[o] = << >>
    OBVIOUS
  <2>1. o \in 1 .. Len(s) + 2 /\ o > Len(s)
    BY <1>1
  <2> QED BY <1>3, <2>1
<1>6. ASSUME o # Len(s) + 1
      PROVE  /\ IsStep(s, o) /\ o + n - 1 <= Len(s) /\ Start(s, o + n) /\ o \in 1 .. Len(s)
             /\ c \in Seq(Words) /\ Len(c) = n
             /\ Copies(c, s, o)
             /\ F[o] = <<c>> \o F[o + n]
  <2>1. IsStep(s, o) /\ o \in 1 .. Len(s)
    BY <1>6 DEF Start, IsStep
  <2>2. o + n - 1 <= Len(s)
    BY <1>1, <2>1, StepAhead DEF Width
  <2>3. Start(s, o + n)
    <3>1. CASE isDBL(s[o])
      <4>1. n = 2 /\ (o + 2 <= Len(s) => IsStep(s, o + 2))
        BY <2>1, <3>1, StepAhead DEF Width
      <4>2. o + 2 <= Len(s) \/ o + 2 = Len(s) + 1
        BY <1>1, <2>1, <2>2, <4>1
      <4> HIDE DEF n
      <4> QED BY <4>1, <4>2 DEF Start
    <3>2. CASE ~ isDBL(s[o])
      <4>1. n = 1 /\ (o < Len(s) => IsStep(s, o + 1))
        BY <2>1, <3>2, StepAhead DEF Width
      <4>2. o < Len(s) \/ o + 1 = Len(s) + 1
        BY <1>1, <2>1
      <4> HIDE DEF n
      <4> QED BY <4>1, <4>2 DEF Start
    <3> QED BY <3>1, <3>2
  <2>4. F[o] = <<c>> \o F[o + n]
    <3>1. o \in 1 .. Len(s) + 2 /\ ~ (o > Len(s))
      BY <1>1, <2>1
    <3> QED BY <1>3, <3>1, Zenon
  <2>5. c \in Seq(Words) /\ Len(c) = n /\ Copies(c, s, o)
    <3> DEFINE k == o + n - 1
    <3>0. c = SubSeq(s, o, k)
      BY DEF StepFrom
    <3> HIDE DEF n, c
    <3>1. k \in Int /\ o \in Int /\ o <= k /\ k - o + 1 = n /\ k <= Len(s)
      BY <1>1, <1>4, <2>1, <2>2
    <3> HIDE DEF k
    <3>2. \A i \in o .. k : s[i] \in Words
      <4> TAKE i \in o .. k
      <4>1. i \in 1 .. Len(s)
        BY <1>1, <2>1, <3>1
      <4> QED BY <1>1, <4>1, ElementOfSeq
    <3>3. /\ SubSeq(s, o, k) \in Seq(Words)
          /\ Len(SubSeq(s, o, k)) = (IF o <= k THEN k - o + 1 ELSE 0)
          /\ \A i \in 1 .. k - o + 1 : SubSeq(s, o, k)[i] = s[o + i - 1]
      BY <3>1, <3>2, SubSeqProperties
    <3> QED BY <3>0, <3>1, <3>3 DEF Copies
  <2> QED BY <2>1, <2>2, <2>3, <2>4, <2>5
<1> QED BY <1>1, <1>2, <1>4, <1>5, <1>6 DEF F

LEMMA StepFromIs ==
    ASSUME NEW s, Aligned(s), NEW o, IsStep(s, o)
    PROVE  /\ o \in 1 .. Len(s) /\ Len(s) \in Nat
           /\ Width(s, o) \in {1, 2} /\ o + Width(s, o) - 1 <= Len(s)
           /\ Start(s, o + Width(s, o))
           /\ StepFrom(s, o) \in Seq(Words) /\ Len(StepFrom(s, o)) = Width(s, o)
           /\ Copies(StepFrom(s, o), s, o)
           /\ Listed(s)[o] = <<StepFrom(s, o)>> \o Listed(s)[o + Width(s, o)]
<1>1. Start(s, o)
  BY DEF Start
<1>2. o \in 1 .. Len(s) /\ Len(s) \in Nat
  BY <1>1, StartAhead DEF IsStep
<1>3. o # Len(s) + 1
  BY <1>2
<1> QED BY <1>1, <1>2, <1>3, StartAhead

\* Any words can be listed; their steps are words of theirs.
LEMMA ListIs ==
    ASSUME NEW s, Aligned(s), NEW o, Start(s, o)
    PROVE  /\ Listed(s)[o] \in Seq(Seq(Words))
           /\ \A i \in 1 .. Len(Listed(s)[o]) :
                 \E q : IsStep(s, q) /\ o <= q /\ Listed(s)[o][i] = StepFrom(s, q)
<1> DEFINE F == Listed(s)
           Good(x) == /\ F[x] \in Seq(Seq(Words))
                      /\ \A i \in 1 .. Len(F[x]) :
                            \E q : IsStep(s, q) /\ x <= q /\ F[x][i] = StepFrom(s, q)
           T == {d \in Nat : \E x \in Nat : Start(s, x) /\ Len(s) + 1 = x + d /\ ~ Good(x)}
<1>1. Len(s) \in Nat
  BY StartAhead
<1>2. T = {}
  <2> SUFFICES ASSUME T # {} PROVE FALSE
    OBVIOUS
  <2>1. PICK d \in T : \A c \in T : d <= c
    <3>1. T \in SUBSET Nat
      OBVIOUS
    <3> HIDE DEF T
    <3> QED BY <3>1, LeastMember
  <2>2. PICK x \in Nat : Start(s, x) /\ Len(s) + 1 = x + d /\ ~ Good(x)
    BY <2>1
  <2> DEFINE n == Width(s, x)
             c == StepFrom(s, x)
             R == F[x + n]
  <2>3. IF x = Len(s) + 1 THEN F[x] = << >>
        ELSE /\ n \in {1, 2} /\ IsStep(s, x) /\ x + n - 1 <= Len(s) /\ Start(s, x + n)
             /\ c \in Seq(Words) /\ F[x] = <<c>> \o R
    BY <2>2, StartAhead
  <2>4. CASE x = Len(s) + 1
    <3>1. F[x] = << >> /\ 1 .. Len(<< >>) = {}
      BY <2>3, <2>4
    <3>2. << >> \in Seq(Seq(Words))
      BY EmptySeq
    <3> HIDE DEF F
    <3> QED BY <2>2, <3>1, <3>2
  <2>5. CASE x # Len(s) + 1
    <3>1. Good(x + n)
      <4> SUFFICES ASSUME ~ Good(x + n) PROVE FALSE
        OBVIOUS
      <4>1. d - n \in Nat /\ x + n \in Nat /\ Len(s) + 1 = (x + n) + (d - n) /\ d - n < d
        <5> DEFINE l == Len(s)
        <5>1. d \in Nat /\ x \in Nat /\ l \in Nat /\ l + 1 = x + d
          BY <1>1, <2>1, <2>2
        <5>2. n \in {1, 2} /\ x + n - 1 <= l
          BY <2>3, <2>5
        <5> HIDE DEF n, T, F, l
        <5> QED BY <5>1, <5>2 DEF l
      <4> HIDE DEF n, Good
      <4>2. d - n \in T
        BY <2>3, <2>5, <4>1
      <4> QED BY <2>1, <4>1, <4>2
    <3>2. n \in {1, 2} /\ c \in Seq(Words) /\ F[x] = <<c>> \o R /\ IsStep(s, x)
      BY <2>3, <2>5
    <3> DEFINE G == F[x]
    <3>3. R \in Seq(Seq(Words)) /\ <<c>> \in Seq(Seq(Words)) /\ Len(<<c>>) = 1 /\ <<c>>[1] = c
          /\ Len(R) \in Nat
      BY <3>1, <3>2, LenProperties
    <3>4. \A i \in 1 .. Len(R) : \E q : IsStep(s, q) /\ x + n <= q /\ R[i] = StepFrom(s, q)
      BY <3>1
    <3>5. G = <<c>> \o R /\ c = StepFrom(s, x)
      BY <3>2
    <3> HIDE DEF R, c, F, n, G
    <3>6. /\ G \in Seq(Seq(Words)) /\ Len(G) = 1 + Len(R)
          /\ \A i \in 1 .. 1 + Len(R) : G[i] = IF i <= 1 THEN <<c>>[i] ELSE R[i - 1]
      BY <3>3, <3>5, ConcatProperties
    <3>7. ASSUME NEW i \in 1 .. Len(G)
          PROVE  \E q : IsStep(s, q) /\ x <= q /\ G[i] = StepFrom(s, q)
      <4>1. CASE i = 1
        <5>1. G[i] = StepFrom(s, x) /\ x <= x
          BY <2>2, <3>3, <3>5, <3>6, <4>1
        <5> QED BY <3>2, <5>1
      <4>2. CASE i # 1
        <5> DEFINE l == Len(R)
        <5>0. l \in Nat /\ i \in 1 .. 1 + l /\ G[i] = (IF i <= 1 THEN <<c>>[i] ELSE R[i - 1])
          BY <3>3, <3>6
        <5> HIDE DEF l
        <5>1. i - 1 \in 1 .. l /\ ~ (i <= 1)
          BY <4>2, <5>0
        <5>4. i - 1 \in 1 .. Len(R) /\ G[i] = R[i - 1]
          BY <5>0, <5>1 DEF l
        <5>2. PICK q : IsStep(s, q) /\ x + n <= q /\ R[i - 1] = StepFrom(s, q)
          BY <3>4, <5>4
        <5>3. x <= q
          <6> DEFINE h == Len(s)
          <6>1. n \in {1, 2} /\ q \in 1 .. h /\ x + n <= q /\ h \in Nat
            BY <1>1, <3>2, <5>2 DEF IsStep
          <6> HIDE DEF h, T, Good
          <6> QED BY <6>1
        <5> QED BY <5>2, <5>3, <5>4
      <4> QED BY <4>1, <4>2
    <3> QED BY <2>2, <3>6, <3>7 DEF G
  <2> QED BY <2>4, <2>5
<1>3. o \in Nat /\ (Len(s) + 1) - o \in Nat /\ Len(s) + 1 = o + ((Len(s) + 1) - o)
  <2>1. o \in 1 .. Len(s) + 1
    BY StartAhead
  <2> QED BY <1>1, <2>1
<1> HIDE DEF Good
<1>4. Good(o)
  BY <1>2, <1>3
<1> QED BY <1>4 DEF Good, F

\* One step on, less of the words is left.
LEMMA LessLeft ==
    \A l \in Nat, x \in Nat, d \in Nat, n \in {1, 2} :
        l + 1 = x + d /\ x + n - 1 <= l
            => d - n \in Nat /\ x + n \in Nat /\ l + 1 = (x + n) + (d - n) /\ ~ (d <= d - n)
OBVIOUS

\* The words of u list those of b behind those of a.
ListsBehind(u, a, b) == \A o : Start(b, o) => Listed(u)[Len(a) + o] = Listed(b)[o]

\* The steps of words put together are those of the one and those of the other.
LEMMA ListBehind ==
    ASSUME NEW a, Aligned(a), NEW b, Aligned(b), NEW u, u = a \o b
    PROVE  ListsBehind(u, a, b)
<1> DEFINE k == Len(a)
           F == Listed(b)
           G == Listed(u)
           T == {d \in Nat : \E x \in Nat : /\ Start(b, x) /\ Len(b) + 1 = x + d
                                            /\ G[k + x] # F[x]}
<1>1. /\ k \in Nat /\ Len(b) \in Nat /\ a \in Seq(Words) /\ b \in Seq(Words) /\ Aligned(u)
  BY AlignedConcat, LenProperties DEF Aligned
<1>2. /\ u \in Seq(Words) /\ Len(u) = k + Len(b)
      /\ \A i \in 1 .. k + Len(b) : u[i] = IF i <= k THEN a[i] ELSE b[i - k]
  BY <1>1, ConcatProperties
<1> HIDE DEF k
<1>3. \A i \in 1 .. Len(b) : u[k + i] = b[i]
  <2> TAKE i \in 1 .. Len(b)
  <2>1. k + i \in 1 .. k + Len(b) /\ ~ (k + i <= k) /\ (k + i) - k = i
    BY <1>1
  <2> QED BY <1>2, <2>1
<1>4. ASSUME NEW x, IsStep(b, x)
      PROVE  IsStep(u, k + x) /\ Width(u, k + x) = Width(b, x)
             /\ StepFrom(u, k + x) = StepFrom(b, x)
  <2>1. x \in 1 .. Len(b) /\ k + x \in 1 .. Len(u) /\ u[k + x] = b[x]
    BY <1>1, <1>2, <1>3, <1>4 DEF IsStep
  <2>2. IsStep(u, k + x)
    <3>1. CASE x > 1
      <4>1. x - 1 \in 1 .. Len(b) /\ k + (x - 1) = (k + x) - 1 /\ x # 1
        BY <1>1, <2>1, <3>1
      <4>2. u[(k + x) - 1] = b[x - 1]
        BY <1>3, <4>1
      <4> QED BY <1>4, <2>1, <4>1, <4>2 DEF IsStep
    <3>2. CASE x = 1 /\ k = 0
      BY <2>1, <3>2 DEF IsStep
    <3>3. CASE x = 1 /\ k > 0
      <4>1. (k + x) - 1 = k /\ k \in 1 .. k + Len(b) /\ k <= k
        BY <1>1, <2>1, <3>3
      <4>2. u[(k + x) - 1] = a[k]
        BY <1>2, <4>1
      <4>3. ~ isDBL(a[k])
        BY <3>3 DEF Aligned, k
      <4> QED BY <2>1, <4>2, <4>3 DEF IsStep
    <3> QED BY <1>1, <2>1, <3>1, <3>2, <3>3
  <2>3. Width(u, k + x) = Width(b, x)
    BY <2>1 DEF Width
  <2> DEFINE n == Width(b, x)
             e == k + x + n - 1
  <2>4. n \in {1, 2} /\ x + n - 1 <= Len(b)
    BY <1>4, StepFromIs
  <2>5. StepFrom(b, x) = SubSeq(b, x, x + n - 1) /\ StepFrom(u, k + x) = SubSeq(u, k + x, e)
    BY <2>3 DEF StepFrom
  <2> HIDE DEF n
  <2>6. /\ k + x \in k + 1 .. k + Len(b) /\ e \in k + 1 .. k + Len(b)
        /\ (k + x) - k = x /\ e - k = x + n - 1
    BY <1>1, <2>1, <2>4
  <2> HIDE DEF e
  <2>7. SubSeq(u, k + x, e) = SubSeq(b, (k + x) - k, e - k)
    BY <1>1, <2>6, SubSeqOfConcat2 DEF k
  <2> QED BY <2>2, <2>3, <2>5, <2>6, <2>7 DEF n
<1>5. T = {}
  <2> SUFFICES ASSUME T # {} PROVE FALSE
    OBVIOUS
  <2>1. PICK d \in T : \A c \in T : d <= c
    <3>1. T \in SUBSET Nat
      OBVIOUS
    <3> HIDE DEF T
    <3> QED BY <3>1, LeastMember
  <2>2. PICK x \in Nat : Start(b, x) /\ Len(b) + 1 = x + d /\ G[k + x] # F[x]
    BY <2>1
  <2>3. CASE x = Len(b) + 1
    <3>1. F[x] = << >>
      BY <2>2, <2>3, StartAhead
    <3>2. k + x = Len(u) + 1 /\ Start(u, k + x)
      BY <1>1, <1>2, <2>3 DEF Start
    <3>3. G[k + x] = << >>
      BY <1>1, <3>2, StartAhead
    <3> QED BY <2>2, <3>1, <3>3
  <2>4. CASE x # Len(b) + 1
    <3> DEFINE n == Width(b, x)
    <3>1. IsStep(b, x)
      BY <2>2, <2>4 DEF Start
    <3>2. n \in {1, 2} /\ Start(b, x + n) /\ F[x] = <<StepFrom(b, x)>> \o F[x + n]
          /\ x + n - 1 <= Len(b)
      BY <2>2, <2>4, StartAhead
    <3>3. IsStep(u, k + x) /\ k + x # Len(u) + 1
      BY <1>1, <1>2, <1>4, <2>2, <2>4, <3>1
    <3>4. G[k + x] = <<StepFrom(u, k + x)>> \o G[(k + x) + Width(u, k + x)]
      BY <1>1, <3>3, StartAhead DEF Start
    <3>5. (k + x) + Width(u, k + x) = k + (x + n)
      <4>1. Width(u, k + x) = n
        BY <1>4, <3>1
      <4> HIDE DEF n
      <4> QED BY <1>1, <2>2, <3>2, <4>1
    <3>6. StepFrom(u, k + x) = StepFrom(b, x)
      BY <1>4, <3>1
    <3> HIDE DEF n, F, G
    <3>7. G[k + (x + n)] = F[x + n]
      <4> SUFFICES ASSUME G[k + (x + n)] # F[x + n] PROVE FALSE
        OBVIOUS
      <4> DEFINE l == Len(b)
      <4>1. d - n \in Nat /\ x + n \in Nat /\ l + 1 = (x + n) + (d - n) /\ ~ (d <= d - n)
        <5>1. d \in Nat /\ x \in Nat /\ l + 1 = x + d
          BY <2>1, <2>2
        <5>2. l \in Nat /\ n \in {1, 2} /\ x + n - 1 <= l
          BY <1>1, <3>2
        <5> HIDE DEF l
        <5> QED BY <5>1, <5>2, LessLeft
      <4>2. d - n \in T
        BY <3>2, <4>1
      <4> QED BY <2>1, <4>1, <4>2
    <3> QED BY <2>2, <3>2, <3>4, <3>5, <3>6, <3>7
  <2> QED BY <2>3, <2>4
<1>6. ASSUME NEW o, Start(b, o) PROVE G[k + o] = F[o]
  <2>1. o \in 1 .. Len(b) + 1
    BY <1>6, StartAhead
  <2>2. o \in Nat /\ (Len(b) + 1) - o \in Nat /\ Len(b) + 1 = o + ((Len(b) + 1) - o)
    BY <1>1, <2>1
  <2> HIDE DEF F, G
  <2> QED BY <1>5, <1>6, <2>2
<1> QED BY <1>6 DEF k, ListsBehind

LEMMA ListBegins ==
    ASSUME NEW s, Aligned(s)
    PROVE  /\ Start(s, 1) /\ Start(s, Len(s) + 1) /\ Len(s) \in Nat
           /\ StepsOf(s) = Listed(s)[1] /\ StepsOf(s) \in Seq(Seq(Words))
           /\ Len(StepsOf(s)) \in Nat
<1>1. Len(s) \in Nat
  BY LenProperties DEF Aligned
<1>2. Start(s, 1) /\ Start(s, Len(s) + 1)
  BY <1>1 DEF Start, IsStep
<1>3. StepsOf(s) = Listed(s)[1]
  BY ListTurns
<1>4. StepsOf(s) \in Seq(Seq(Words))
  BY <1>2, <1>3, ListIs
<1> QED BY <1>1, <1>2, <1>3, <1>4, LenProperties

LEMMA ListConcat ==
    ASSUME NEW a, Aligned(a), NEW b, Aligned(b)
    PROVE  Aligned(a \o b) /\ StepsOf(a \o b) = StepsOf(a) \o StepsOf(b)
<1> DEFINE u == a \o b
           k == Len(a)
           F == Listed(a)
           G == Listed(u)
           K == StepsOf(b)
           T == {d \in Nat : \E x \in Nat : /\ Start(a, x) /\ k + 1 = x + d
                                            /\ G[x] # F[x] \o K}
<1>1. /\ k \in Nat /\ Len(b) \in Nat /\ a \in Seq(Words) /\ b \in Seq(Words) /\ Aligned(u)
      /\ K \in Seq(Seq(Words))
  BY AlignedConcat, ListBegins DEF Aligned
<1>2. /\ u \in Seq(Words) /\ Len(u) = k + Len(b)
      /\ \A i \in 1 .. k + Len(b) : u[i] = IF i <= k THEN a[i] ELSE b[i - k]
  BY <1>1, ConcatProperties
<1> HIDE DEF u, k, K
<1>3. \A i \in 1 .. k : u[i] = a[i]
  BY <1>1, <1>2
<1>4. ASSUME NEW x, IsStep(a, x)
      PROVE  IsStep(u, x) /\ Width(u, x) = Width(a, x) /\ StepFrom(u, x) = StepFrom(a, x)
  <2>1. x \in 1 .. k /\ x \in 1 .. Len(u) /\ u[x] = a[x] /\ (x # 1 => u[x - 1] = a[x - 1])
    <3>1. x \in 1 .. k
      BY <1>4 DEF IsStep, k
    <3>2. x # 1 => x - 1 \in 1 .. k
      BY <1>1, <3>1
    <3> QED BY <1>1, <1>2, <1>3, <3>1, <3>2
  <2>2. IsStep(u, x)
    BY <1>4, <2>1 DEF IsStep
  <2>3. Width(u, x) = Width(a, x)
    BY <2>1 DEF Width
  <2> DEFINE n == Width(a, x)
             e == x + n - 1
  <2>4. n \in {1, 2} /\ x + n - 1 <= k
    BY <1>4, StepFromIs DEF k
  <2>5. StepFrom(a, x) = SubSeq(a, x, e) /\ StepFrom(u, x) = SubSeq(u, x, e)
    BY <2>3 DEF StepFrom
  <2> HIDE DEF n
  <2>6. x \in 1 .. k /\ e \in 1 .. k
    BY <1>1, <2>1, <2>4
  <2> HIDE DEF e
  <2>7. SubSeq(u, x, e) = SubSeq(a, x, e)
    BY <1>1, <2>6, SubSeqOfConcat1 DEF u, k
  <2> QED BY <2>2, <2>3, <2>5, <2>7
<1>5. Listed(u)[k + 1] = Listed(b)[1]
  <2>1. Start(b, 1) /\ u = a \o b
    BY ListBegins DEF u
  <2>2. ListsBehind(u, a, b)
    BY <2>1, ListBehind
  <2>3. Listed(u)[Len(a) + 1] = Listed(b)[1]
    BY <2>1, <2>2 DEF ListsBehind
  <2> QED BY <2>3 DEF k
<1>6. ASSUME NEW c \in Seq(Words), NEW R \in Seq(Seq(Words))
      PROVE  (<<c>> \o R) \o K = <<c>> \o (R \o K)
  <2> DEFINE t == <<c>>
  <2>1. t \in Seq(Seq(Words))
    OBVIOUS
  <2> DEFINE W == Seq(Words)
  <2>2. t \in Seq(W) /\ R \in Seq(W) /\ K \in Seq(W)
    BY <1>1, <2>1
  <2> HIDE DEF t, W
  <2>3. (t \o R) \o K = t \o (R \o K)
    BY <2>2, ConcatAssociative
  <2> QED BY <2>3 DEF t
<1>7. T = {}
  <2> SUFFICES ASSUME T # {} PROVE FALSE
    OBVIOUS
  <2>1. PICK d \in T : \A c \in T : d <= c
    <3>1. T \in SUBSET Nat
      OBVIOUS
    <3> HIDE DEF T
    <3> QED BY <3>1, LeastMember
  <2>2. PICK x \in Nat : Start(a, x) /\ k + 1 = x + d /\ G[x] # F[x] \o K
    BY <2>1
  <2>3. CASE x = k + 1
    <3>1. F[x] = << >>
      BY <2>2, <2>3, StartAhead DEF k
    <3>2. G[k + 1] = Listed(b)[1]
      BY <1>5
    <3>3. K = Listed(b)[1]
      BY ListBegins DEF K
    <3>4. << >> \o K = K
      BY <1>1, ConcatEmptySeq
    <3> HIDE DEF F, G
    <3> QED BY <2>2, <2>3, <3>1, <3>2, <3>3, <3>4
  <2>4. CASE x # k + 1
    <3> DEFINE n == Width(a, x)
               c == StepFrom(a, x)
    <3>1. IsStep(a, x)
      BY <2>2, <2>4 DEF Start, k
    <3>2. /\ n \in {1, 2} /\ Start(a, x + n) /\ F[x] = <<c>> \o F[x + n] /\ x + n - 1 <= k
          /\ c \in Seq(Words) /\ F[x + n] \in Seq(Seq(Words))
      BY <3>1, StepFromIs, ListIs DEF k
    <3>3. G[x] = <<c>> \o G[x + n]
      <4>1. IsStep(u, x) /\ Width(u, x) = n /\ StepFrom(u, x) = c
        BY <1>4, <3>1
      <4>2. G[x] = <<StepFrom(u, x)>> \o G[x + Width(u, x)]
        BY <1>1, <4>1, StepFromIs
      <4> QED BY <4>1, <4>2
    <3> HIDE DEF n, F, G, c
    <3>4. G[x + n] = F[x + n] \o K
      <4> SUFFICES ASSUME G[x + n] # F[x + n] \o K PROVE FALSE
        OBVIOUS
      <4>1. d - n \in Nat /\ x + n \in Nat /\ k + 1 = (x + n) + (d - n) /\ ~ (d <= d - n)
        <5>1. d \in Nat /\ x \in Nat /\ k + 1 = x + d
          BY <2>1, <2>2
        <5>2. k \in Nat /\ n \in {1, 2} /\ x + n - 1 <= k
          BY <1>1, <3>2
        <5> QED BY <5>1, <5>2, LessLeft
      <4>2. d - n \in T
        BY <3>2, <4>1
      <4> HIDE DEF T
      <4> QED BY <2>1, <4>1, <4>2
    <3>5. (<<c>> \o F[x + n]) \o K = <<c>> \o (F[x + n] \o K)
      BY <1>6, <3>2
    <3> QED BY <2>2, <3>2, <3>3, <3>4, <3>5
  <2> QED BY <2>3, <2>4
<1>8. 1 \in Nat /\ k \in Nat /\ k + 1 = 1 + k /\ Start(a, 1)
  BY <1>1, ListBegins
<1> HIDE DEF F, G
<1>9. G[1] = F[1] \o K
  BY <1>7, <1>8
<1>10. StepsOf(u) = G[1] /\ StepsOf(a) = F[1]
  BY <1>1, ListBegins DEF F, G
<1> QED BY <1>1, <1>9, <1>10 DEF u, K

\* A step alone, and nothing, as listings.
LEMMA ListSingle ==
    /\ \A c \in Opcodes : StepsOf(c) = <<c>>
    /\ StepsOf(<< >>) = << >>
    /\ StepsOf(<<END>>) = <<<<END>>>>
<1>1. ASSUME NEW c \in Opcodes PROVE StepsOf(c) = <<c>>
  <2> DEFINE n == Len(c)
             F == Listed(c)
  <2>1. Aligned(c) /\ n \in {1, 2} /\ c \in Seq(Words)
    BY OpcodeAligned DEF Aligned
  <2>2. Width(c, 1) = n
    <3>1. ASSUME NEW x \in Singles, c = <<x>> PROVE Width(c, 1) = n
      <4>1. c[1] = x /\ n = 1
        BY <3>1
      <4>2. ~ isDBL(x)
        BY KindsOfWords
      <4> HIDE DEF n
      <4> QED BY <4>1, <4>2 DEF Width
    <3>2. ASSUME NEW x \in Doubles, NEW y \in Seconds, c = <<x, y>> PROVE Width(c, 1) = n
      <4>1. c[1] = x /\ n = 2
        BY <3>2
      <4>2. isDBL(x)
        BY DEF isDBL
      <4> HIDE DEF n
      <4> QED BY <4>1, <4>2 DEF Width
    <3>3. (\E x \in Singles : c = <<x>>) \/ (\E d \in Doubles, x \in Seconds : c = <<d, x>>)
      BY DEF Opcodes
    <3> QED BY <3>1, <3>2, <3>3
  <2>3. Start(c, 1) /\ StepsOf(c) = F[1] /\ Start(c, n + 1)
    BY <2>1, ListBegins
  <2>4. F[n + 1] = << >>
    BY <2>1, <2>3, StartAhead
  <2>5. IsStep(c, 1)
    BY <2>1 DEF IsStep
  <2>6. F[1] = <<StepFrom(c, 1)>> \o F[1 + Width(c, 1)]
    BY <2>1, <2>5, StepFromIs
  <2>7. StepFrom(c, 1) = c
    <3>1. StepFrom(c, 1) = SubSeq(c, 1, 1 + n - 1) /\ 1 + n - 1 = n
      BY <2>1, <2>2 DEF StepFrom
    <3>2. SubSeq(c, 1, n) = c
      BY <2>1, SubSeqFull
    <3> HIDE DEF n
    <3> QED BY <3>1, <3>2
  <2>8. <<c>> \o << >> = <<c>>
    <3>1. <<c>> \in Seq(Seq(Words))
      BY <2>1
    <3> QED BY <3>1, ConcatEmptySeq
  <2> HIDE DEF F, n
  <2>9. 1 + n = n + 1
    BY <2>1
  <2> QED BY <2>2, <2>3, <2>4, <2>6, <2>7, <2>8, <2>9
<1>2. StepsOf(<< >>) = << >>
  <2>1. Start(<< >>, 1) /\ 1 = Len(<< >>) + 1
    BY EmptyAligned DEF Start
  <2>2. Listed(<< >>)[1] = << >>
    BY <2>1, EmptyAligned, StartAhead
  <2> QED BY <2>2, ListTurns
<1>3. <<END>> \in Opcodes
  BY KindsOfWords DEF Opcodes
<1> QED BY <1>1, <1>2, <1>3

-----------------------------------------------------------------------------
(* The numbers of the steps *)

\* How many steps begin at word p or before it.
StepCount(s, p) == Cardinality({o \in 1 .. p : IsStep(s, o)})

\* A step is one of the opcodes.
LEMMA StepIsOpcode ==
    ASSUME NEW s, Aligned(s), NEW o, IsStep(s, o)
    PROVE  StepFrom(s, o) \in Opcodes
<1> DEFINE c == StepFrom(s, o)
           n == Width(s, o)
<1>1. /\ n \in {1, 2} /\ c \in Seq(Words) /\ Len(c) = n /\ o \in Nat
      /\ \A i \in 1 .. n : c[i] = s[o + i - 1]
  <2>1. /\ n \in {1, 2} /\ c \in Seq(Words) /\ Len(c) = n /\ o \in 1 .. Len(s)
        /\ Len(s) \in Nat /\ Copies(c, s, o)
    BY StepFromIs
  <2> HIDE DEF n, c
  <2> QED BY <2>1 DEF Copies
<1> HIDE DEF c
<1>2. CASE isDBL(s[o])
  <2>1. n = 2 /\ s[o] \in Doubles /\ s[o + 1] \in Seconds
    BY <1>2, StepAhead DEF Width, isDBL
  <2> HIDE DEF n
  <2>2. c[1] = s[o] /\ c[2] = s[o + 1]
    <3>1. o + 1 - 1 = o /\ o + 2 - 1 = o + 1 /\ 1 \in 1 .. n /\ 2 \in 1 .. n
      BY <1>1, <2>1
    <3> QED BY <1>1, <3>1
  <2> DEFINE d == <<s[o], s[o + 1]>>
  <2>3. d \in Seq(Words) /\ Len(d) = 2 /\ d[1] = s[o] /\ d[2] = s[o + 1] /\ d \in Opcodes
    BY <2>1, KindsOfWords DEF Opcodes
  <2> HIDE DEF d
  <2>4. c = d
    <3>1. \A i \in 1 .. Len(c) : c[i] = d[i]
      BY <1>1, <2>1, <2>2, <2>3
    <3> QED BY <1>1, <2>1, <2>3, <3>1, SeqEqual
  <2> QED BY <2>3, <2>4 DEF c
<1>3. CASE ~ isDBL(s[o])
  <2>1. n = 1 /\ s[o] \in Singles
    BY <1>3, StepAhead DEF Width, isDBL
  <2> HIDE DEF n
  <2>2. c[1] = s[o]
    <3>1. o + 1 - 1 = o /\ 1 \in 1 .. n
      BY <1>1, <2>1
    <3> QED BY <1>1, <3>1
  <2> DEFINE d == <<s[o]>>
  <2>3. d \in Seq(Words) /\ Len(d) = 1 /\ d[1] = s[o] /\ d \in Opcodes
    BY <2>1, KindsOfWords DEF Opcodes
  <2> HIDE DEF d
  <2>4. c = d
    <3>1. \A i \in 1 .. Len(c) : c[i] = d[i]
      BY <1>1, <2>1, <2>2, <2>3
    <3> QED BY <1>1, <2>1, <2>3, <3>1, SeqEqual
  <2> QED BY <2>3, <2>4 DEF c
<1> QED BY <1>2, <1>3

\* A step and the words before it.
LEMMA StepBoundaries ==
    ASSUME NEW s, Aligned(s), NEW o, IsStep(s, o)
    PROVE  /\ o - 1 \in Nat /\ Boundary(s, o - 1)
           /\ Boundary(s, o + Width(s, o) - 1) /\ o + Width(s, o) - 1 \in Nat
           /\ o - 1 < o + Width(s, o) - 1
           /\ \A q \in o + 1 .. o + Width(s, o) - 1 : ~ IsStep(s, q)
<1> DEFINE n == Width(s, o)
           e == o + n - 1
<1>1. o \in 1 .. Len(s) /\ Len(s) \in Nat /\ n \in {1, 2} /\ e <= Len(s)
  BY StepFromIs
<1>2. Boundary(s, o - 1)
  <2>1. o - 1 \in 0 .. Len(s) /\ (o - 1 > 0 => o # 1)
    BY <1>1
  <2> QED BY <2>1 DEF Boundary, IsStep
<1>3. CASE isDBL(s[o])
  <2>1. n = 2 /\ s[o + 1] \in Seconds
    BY <1>3, StepAhead DEF Width
  <2> HIDE DEF n
  <2>2. e = o + 1 /\ e \in 0 .. Len(s) /\ e \in Nat /\ o - 1 < e /\ o - 1 \in Nat
    BY <1>1, <2>1
  <2>3. ~ isDBL(s[o + 1])
    BY <2>1, KindsOfWords
  <2>4. ASSUME NEW q \in o + 1 .. e PROVE ~ IsStep(s, q)
    <3>1. q - 1 = o /\ q # 1
      BY <1>1, <2>2
    <3> QED BY <1>3, <3>1 DEF IsStep
  <2> HIDE DEF e
  <2> QED BY <1>2, <2>2, <2>3, <2>4 DEF Boundary, e, n
<1>4. CASE ~ isDBL(s[o])
  <2>1. n = 1
    BY <1>4 DEF Width
  <2> HIDE DEF n
  <2>2. e = o /\ e \in 0 .. Len(s) /\ e \in Nat /\ o - 1 < e /\ o - 1 \in Nat
        /\ \A q \in o + 1 .. e : FALSE
    BY <1>1, <2>1
  <2> HIDE DEF e
  <2> QED BY <1>2, <1>4, <2>2 DEF Boundary, e, n
<1> QED BY <1>3, <1>4

\* The step that ends with a word.
LEMMA StepBack ==
    ASSUME NEW s, Aligned(s), NEW e, Boundary(s, e), e > 0
    PROVE  \E o : IsStep(s, o) /\ o + Width(s, o) - 1 = e
<1>1. Len(s) \in Nat /\ e \in 1 .. Len(s) /\ ~ isDBL(s[e])
  BY LenProperties DEF Aligned, Boundary
<1>2. CASE e > 1 /\ isDBL(s[e - 1])
  <2>1. IsStep(s, e - 1) /\ Width(s, e - 1) = 2
    BY <1>1, <1>2, StepAround DEF Width
  <2>2. (e - 1) + 2 - 1 = e
    BY <1>1
  <2> QED BY <2>1, <2>2
<1>3. CASE ~ (e > 1 /\ isDBL(s[e - 1]))
  <2>1. IsStep(s, e) /\ Width(s, e) = 1
    BY <1>1, <1>3, StepAround DEF Width
  <2>2. e + 1 - 1 = e
    BY <1>1
  <2> QED BY <2>1, <2>2
<1> QED BY <1>2, <1>3

\* Words taken apart between two steps.
LEMMA SplitList ==
    ASSUME NEW s, Aligned(s), NEW m, Boundary(s, m), NEW n, Boundary(s, n), m <= n
    PROVE  LET a == SubSeq(s, 1, m)
               b == SubSeq(s, m + 1, n)
               t == SubSeq(s, 1, n)
           IN  /\ Aligned(a) /\ Aligned(b) /\ Aligned(t) /\ t = a \o b
               /\ StepsOf(t) = StepsOf(a) \o StepsOf(b)
<1> DEFINE a == SubSeq(s, 1, m)
           b == SubSeq(s, m + 1, n)
           t == SubSeq(s, 1, n)
<1>1. s \in Seq(Words) /\ Len(s) \in Nat /\ m \in 0 .. Len(s) /\ n \in 0 .. Len(s)
  BY LenProperties DEF Aligned, Boundary
<1>2. Boundary(s, 0)
  BY <1>1 DEF Boundary
<1>3. 0 + 1 = 1
  OBVIOUS
<1>4. Aligned(SubSeq(s, 0 + 1, m)) /\ Aligned(SubSeq(s, 0 + 1, n)) /\ Aligned(b)
  BY <1>2, AlignedSegment
<1>5. Aligned(a) /\ Aligned(t) /\ Aligned(b)
  BY <1>3, <1>4
<1>6. a \o b = t
  <2>1. 1 \in 1 .. Len(s) + 1 /\ m \in 1 - 1 .. Len(s) /\ n \in m .. Len(s)
    BY <1>1
  <2> QED BY <1>1, <2>1, ConcatAdjacentSubSeq
<1>7. StepsOf(a \o b) = StepsOf(a) \o StepsOf(b)
  <2> HIDE DEF a, b
  <2> QED BY <1>5, ListConcat
<1> HIDE DEF a, b, t
<1>8. t = a \o b /\ StepsOf(t) = StepsOf(a) \o StepsOf(b)
  BY <1>6, <1>7
<1> QED BY <1>5, <1>8 DEF a, b, t

\* One step more, one entry more.
LEMMA OneStepMore ==
    ASSUME NEW s, Aligned(s), NEW o, IsStep(s, o)
    PROVE  LET a == SubSeq(s, 1, o - 1)
               t == SubSeq(s, 1, o + Width(s, o) - 1)
           IN  /\ Aligned(a) /\ Aligned(t)
               /\ StepsOf(t) = StepsOf(a) \o <<StepFrom(s, o)>>
               /\ Len(StepsOf(t)) = Len(StepsOf(a)) + 1
               /\ StepsOf(t)[Len(StepsOf(a)) + 1] = StepFrom(s, o)
<1> DEFINE m == o - 1
           n == o + Width(s, o) - 1
           a == SubSeq(s, 1, m)
           b == SubSeq(s, m + 1, n)
           t == SubSeq(s, 1, n)
           A == StepsOf(a)
           c == StepFrom(s, o)
           d == <<c>>
<1>1. m \in Nat /\ Boundary(s, m) /\ Boundary(s, n) /\ n \in Nat /\ m < n
  BY StepBoundaries
<1>2. m + 1 = o
  <2>1. o \in 1 .. Len(s) /\ Len(s) \in Nat
    BY StepFromIs
  <2> QED BY <2>1
<1>3. b = c
  BY <1>2 DEF StepFrom
<1>4. StepsOf(b) = d
  <2>1. c \in Opcodes
    BY StepIsOpcode
  <2> HIDE DEF c, b
  <2> QED BY <1>3, <2>1, ListSingle
<1>5. Aligned(a) /\ Aligned(t) /\ StepsOf(t) = A \o StepsOf(b)
  <2>1. m <= n
    BY <1>1
  <2> HIDE DEF m, n
  <2> QED BY <1>1, <2>1, SplitList
<1>6. A \in Seq(Seq(Words)) /\ Len(A) \in Nat /\ c \in Seq(Words)
  BY <1>5, ListBegins, StepFromIs
<1> HIDE DEF m, n, b, a, t, A
<1>7. StepsOf(t) = A \o d
  BY <1>4, <1>5
<1>8. d \in Seq(Seq(Words)) /\ Len(d) = 1 /\ d[1] = c
  BY <1>6
<1> HIDE DEF d, c
<1>9. /\ Len(A \o d) = Len(A) + Len(d)
      /\ \A i \in 1 .. Len(A) + Len(d) :
            (A \o d)[i] = IF i <= Len(A) THEN A[i] ELSE d[i - Len(A)]
  BY <1>6, <1>8, ConcatProperties
<1>10. (A \o d)[Len(A) + 1] = c
  <2>1. Len(A) + 1 \in 1 .. Len(A) + Len(d) /\ ~ (Len(A) + 1 <= Len(A)) /\ (Len(A) + 1) - Len(A) = 1
    BY <1>6, <1>8
  <2> QED BY <1>8, <1>9, <2>1
<1> QED BY <1>5, <1>7, <1>8, <1>9, <1>10 DEF m, n, a, t, A, d, c

\* The number of a step is its place in the listing.
LEMMA CountIs ==
    ASSUME NEW s, Aligned(s), NEW e, Boundary(s, e)
    PROVE  StepCount(s, e) = Len(StepsOf(SubSeq(s, 1, e)))
<1> DEFINE Listing(x) == Len(StepsOf(SubSeq(s, 1, x)))
           T == {x \in Nat : Boundary(s, x) /\ StepCount(s, x) # Listing(x)}
<1>1. Len(s) \in Nat
  BY LenProperties DEF Aligned
<1>2. \A x \in Nat : IsFiniteSet({o \in 1 .. x : IsStep(s, o)})
  <2> TAKE x \in Nat
  <2> DEFINE I == 1 .. x
             J == {o \in I : IsStep(s, o)}
  <2>1. IsFiniteSet(I)
    BY FS_Interval
  <2>2. J \in SUBSET I
    OBVIOUS
  <2> HIDE DEF I, J
  <2>3. IsFiniteSet(J)
    BY <2>1, <2>2, FS_Subset
  <2> QED BY <2>3 DEF I, J
<1>3. StepCount(s, 0) = Listing(0)
  <2>1. {o \in 1 .. 0 : IsStep(s, o)} = {}
    OBVIOUS
  <2>2. StepCount(s, 0) = 0
    BY <2>1, FS_EmptySet, Zenon DEF StepCount
  <2>3. SubSeq(s, 1, 0) = << >>
    BY SubSeqEmpty
  <2>4. Listing(0) = Len(<< >>)
    BY <2>3, ListSingle, Zenon
  <2> QED BY <2>2, <2>4, EmptyAligned
<1>4. ASSUME NEW x \in Nat, x > 0, Boundary(s, x),
             \A y \in Nat : Boundary(s, y) /\ y < x => StepCount(s, y) = Listing(y)
      PROVE  StepCount(s, x) = Listing(x)
  <2>1. PICK o : IsStep(s, o) /\ o + Width(s, o) - 1 = x
    BY <1>4, StepBack
  <2> DEFINE m == o - 1
             I == {q \in 1 .. m : IsStep(s, q)}
             J == {q \in 1 .. x : IsStep(s, q)}
  <2>2. /\ m \in Nat /\ Boundary(s, m) /\ m < x /\ \A q \in o + 1 .. x : ~ IsStep(s, q)
    BY <2>1, StepBoundaries
  <2>3. o \in Nat /\ m + 1 = o
    <3>1. o \in 1 .. Len(s)
      BY <2>1, StepFromIs
    <3> QED BY <1>1, <3>1
  <2>4. J = I \cup {o}
    <3>1. ASSUME NEW q \in J PROVE q \in I \cup {o}
      <4>1. q \in 1 .. x /\ IsStep(s, q)
        OBVIOUS
      <4>2. q \in 1 .. m \/ q = o \/ q \in o + 1 .. x
        BY <1>4, <2>2, <2>3, <4>1
      <4> QED BY <2>2, <4>1, <4>2
    <3>2. ASSUME NEW q \in I PROVE q \in J
      <4>1. q \in 1 .. m /\ IsStep(s, q)
        OBVIOUS
      <4>2. q \in 1 .. x
        BY <1>4, <2>2, <4>1
      <4> QED BY <4>1, <4>2
    <3>3. o \in J
      <4>1. o \in 1 .. x
        BY <1>4, <2>2, <2>3
      <4> QED BY <2>1, <4>1
    <3> HIDE DEF I, J
    <3> QED BY <3>1, <3>2, <3>3
  <2>5. o \notin I
    BY <2>2, <2>3
  <2>6. IsFiniteSet(I)
    BY <1>2, <2>2
  <2> HIDE DEF I, J
  <2>7. Cardinality(I \cup {o}) = Cardinality(I) + 1
    BY <2>5, <2>6, FS_AddElement
  <2>8. StepCount(s, x) = Cardinality(J) /\ StepCount(s, m) = Cardinality(I)
    BY Zenon DEF StepCount, I, J
  <2>9. StepCount(s, m) = Listing(m)
    BY <1>4, <2>2
  <2>10. Listing(x) = Listing(m) + 1
    BY <2>1, OneStepMore
  <2> HIDE DEF Listing
  <2> QED BY <2>4, <2>7, <2>8, <2>9, <2>10
<1>5. T = {}
  <2> SUFFICES ASSUME T # {} PROVE FALSE
    OBVIOUS
  <2> HIDE DEF Listing
  <2>1. PICK x \in T : \A y \in T : x <= y
    <3>1. T \in SUBSET Nat
      OBVIOUS
    <3> HIDE DEF T
    <3> QED BY <3>1, LeastMember
  <2>2. x \in Nat /\ Boundary(s, x) /\ StepCount(s, x) # Listing(x)
    BY <2>1
  <2>3. x > 0
    BY <1>3, <2>2
  <2>4. \A y \in Nat : Boundary(s, y) /\ y < x => StepCount(s, y) = Listing(y)
    BY <2>1, <2>2
  <2> HIDE DEF T
  <2> QED BY <1>4, <2>2, <2>3, <2>4
<1>6. e \in Nat
  BY <1>1 DEF Boundary
<1> HIDE DEF Listing
<1>7. StepCount(s, e) = Listing(e)
  BY <1>5, <1>6
<1> QED BY <1>7 DEF Listing

\* The cursor is at the step the program counter is at.
CursorOf(s, p) == IF isRAM(p) THEN StepCount(s, p) ELSE ELSEWHERE

LEMMA CursorIs ==
    Cursor = CursorOf(ram, at.pc) /\ Cursor' = CursorOf(ram', at'.pc)
BY DEF Cursor, CursorOf, StepNumber, StepCount, isRAM, ELSEWHERE

LEMMA CursorAt ==
    ASSUME NEW s, Aligned(s), NEW p, IsStep(s, p)
    PROVE  LET a == StepsOf(SubSeq(s, 1, p - 1))
               t == StepsOf(SubSeq(s, 1, p + Width(s, p) - 1))
           IN  /\ StepCount(s, p) = Len(a) + 1 /\ StepCount(s, p) = Len(t)
               /\ StepCount(s, p - 1) = Len(a)
               /\ Len(a) \in Nat /\ t = a \o <<StepFrom(s, p)>>
               /\ t[StepCount(s, p)] = StepFrom(s, p)
<1> DEFINE m == p - 1
           e == p + Width(s, p) - 1
           a == StepsOf(SubSeq(s, 1, m))
           t == StepsOf(SubSeq(s, 1, e))
<1>1. /\ m \in Nat /\ Boundary(s, m) /\ Boundary(s, e) /\ e \in Nat /\ m < e
      /\ \A q \in p + 1 .. e : ~ IsStep(s, q)
  BY StepBoundaries
<1>2. p \in Nat /\ m + 1 = p
  <2>1. p \in 1 .. Len(s) /\ Len(s) \in Nat
    BY StepFromIs
  <2> QED BY <2>1
<1>3. Aligned(SubSeq(s, 1, m)) /\ t = a \o <<StepFrom(s, p)>> /\ Len(t) = Len(a) + 1
      /\ t[Len(a) + 1] = StepFrom(s, p)
  BY OneStepMore
<1>4. Len(a) \in Nat
  BY <1>3, ListBegins
<1>5. StepCount(s, e) = Len(t) /\ StepCount(s, m) = Len(a)
  BY <1>1, CountIs
<1> HIDE DEF a, t, e, m
<1>6. {o \in 1 .. e : IsStep(s, o)} = {o \in 1 .. p : IsStep(s, o)}
  <2>1. ASSUME NEW o \in 1 .. e, IsStep(s, o) PROVE o \in 1 .. p
    <3>1. o \in 1 .. p \/ o \in p + 1 .. e
      BY <1>1, <1>2, <2>1
    <3> QED BY <1>1, <2>1, <3>1
  <2>2. ASSUME NEW o \in 1 .. p PROVE o \in 1 .. e
    BY <1>1, <1>2, <2>2
  <2> QED BY <2>1, <2>2
<1>7. StepCount(s, p) = StepCount(s, e)
  BY <1>6, Zenon DEF StepCount
<1> QED BY <1>3, <1>4, <1>5, <1>7 DEF a, t, e, m

\* The step of a number is the one shown there.
LEMMA CursorShows ==
    ASSUME NEW s, Aligned(s), NEW p, p = 0 \/ IsStep(s, p)
    PROVE  /\ StepCount(s, p) \in 0 .. Len(StepsOf(s))
           /\ p = 0 => StepCount(s, p) = 0
           /\ p # 0 => StepCount(s, p) > 0 /\ StepsOf(s)[StepCount(s, p)] = StepFrom(s, p)
<1>1. Len(s) \in Nat /\ s \in Seq(Words) /\ StepsOf(s) \in Seq(Seq(Words))
      /\ Len(StepsOf(s)) \in Nat
  BY ListBegins DEF Aligned
<1>2. CASE p = 0
  <2>1. {o \in 1 .. 0 : IsStep(s, o)} = {}
    OBVIOUS
  <2>2. StepCount(s, 0) = 0
    BY <2>1, FS_EmptySet, Zenon DEF StepCount
  <2> QED BY <1>1, <1>2, <2>2
<1>3. CASE IsStep(s, p)
  <2> DEFINE e == p + Width(s, p) - 1
             t == SubSeq(s, 1, e)
             b == SubSeq(s, e + 1, Len(s))
             T == StepsOf(t)
             B == StepsOf(b)
             k == StepCount(s, p)
             A == StepsOf(SubSeq(s, 1, p - 1))
  <2>0. p # 0
    <3>1. p \in 1 .. Len(s)
      BY <1>3, StepFromIs
    <3> QED BY <3>1
  <2>1. Boundary(s, e) /\ e \in Nat /\ e <= Len(s) /\ Boundary(s, Len(s))
    BY <1>1, <1>3, StepBoundaries, StepFromIs DEF Aligned, Boundary
  <2>2. k = Len(T) /\ k = Len(A) + 1 /\ Len(A) \in Nat /\ T[k] = StepFrom(s, p)
    BY <1>3, CursorAt
  <2> HIDE DEF e, k, A
  <2>3. StepsOf(SubSeq(s, 1, Len(s))) = T \o B /\ Aligned(t) /\ Aligned(b)
    BY <2>1, SplitList
  <2>4. T \in Seq(Seq(Words)) /\ B \in Seq(Seq(Words)) /\ Len(T) \in Nat /\ Len(B) \in Nat
    BY <2>3, ListBegins
  <2>5. SubSeq(s, 1, Len(s)) = s
    BY <1>1, SubSeqFull
  <2> HIDE DEF t, b, T, B
  <2>6. /\ Len(T \o B) = Len(T) + Len(B)
        /\ \A i \in 1 .. Len(T) + Len(B) :
              (T \o B)[i] = IF i <= Len(T) THEN T[i] ELSE B[i - Len(T)]
    BY <2>4, ConcatProperties
  <2>7. StepsOf(s) = T \o B
    BY <2>3, <2>5
  <2>8. k \in 1 .. Len(T) + Len(B) /\ k <= Len(T) /\ k > 0 /\ k \in 0 .. Len(T) + Len(B)
    BY <2>2, <2>4
  <2> QED BY <2>0, <2>2, <2>6, <2>7, <2>8 DEF k
<1> QED BY <1>2, <1>3
-----------------------------------------------------------------------------
(* The commands *)

\* The words are listed before and after a command.
LEMMA RamListed ==
    ASSUME NEW m, Readable(m), NEW w, Located(m, w)
    PROVE  /\ Aligned(m.ram) /\ m.ram \in Seq(Words) /\ Len(m.ram) \in Nat /\ Len(m.ram) > 0
           /\ isRAM(w.pc) => w.pc = 0 \/ IsStep(m.ram, w.pc)
<1>1. m.ram \in Seq(Words) /\ Whole(m.ram) /\ Len(m.ram) \in Nat
  BY LenProperties DEF Readable
<1>2. Aligned(m.ram) /\ Len(m.ram) > 0
  BY <1>1, WholeAligned
<1>3. ASSUME isRAM(w.pc), w.pc # 0 PROVE IsStep(m.ram, w.pc)
  <2>1. Place(m, w.pc) /\ ~ AtHead(m, w.pc)
    BY <1>3, Heads DEF Located
  <2>2. Region(m, w.pc) = m.ram /\ offset(w.pc) = w.pc
    BY <1>3 DEF Region, offset
  <2> QED BY <1>3, <2>1, <2>2 DEF Place, InStep
<1> QED BY <1>1, <1>2, <1>3

LEMMA Listable ==
    /\ IInv => /\ Aligned(ram) /\ ram \in Seq(Words) /\ Len(ram) \in Nat /\ Len(ram) > 0
               /\ isRAM(at.pc) => at.pc = 0 \/ IsStep(ram, at.pc)
    /\ IInv' => /\ Aligned(ram') /\ ram' \in Seq(Words) /\ Len(ram') \in Nat /\ Len(ram') > 0
                /\ isRAM(at'.pc) => at'.pc = 0 \/ IsStep(ram', at'.pc)
<1>1. M.ram = ram /\ M'.ram = ram'
  BY DEF M
<1>2. IInv => Readable(M) /\ Located(M, at)
  BY DEF IInv
<1>3. IInv' => Readable(M') /\ Located(M', at')
  BY DEF IInv
<1>4. IInv => /\ Aligned(M.ram) /\ M.ram \in Seq(Words) /\ Len(M.ram) \in Nat /\ Len(M.ram) > 0
              /\ isRAM(at.pc) => at.pc = 0 \/ IsStep(M.ram, at.pc)
  BY <1>2, RamListed
<1>5. IInv' => /\ Aligned(M'.ram) /\ M'.ram \in Seq(Words) /\ Len(M'.ram) \in Nat
               /\ Len(M'.ram) > 0
               /\ isRAM(at'.pc) => at'.pc = 0 \/ IsStep(M'.ram, at'.pc)
  BY <1>3, RamListed
<1> QED BY <1>1, <1>4, <1>5

\* What moves the program counter, or changes only the library, moves the cursor.
LEMMA MoveShown ==
    ASSUME IInv', ram' = ram
    PROVE  L!Move
<1>1. Aligned(ram') /\ (isRAM(at'.pc) => at'.pc = 0 \/ IsStep(ram', at'.pc))
  BY Listable
<1>2. Cursor' = CursorOf(ram', at'.pc)
  BY CursorIs
<1>3. CursorOf(ram', at'.pc) \in 0 .. Len(StepsOf(ram')) \cup {ELSEWHERE}
  BY <1>1, CursorShows DEF CursorOf
<1>4. StepsOf(ram') = StepsOf(ram) /\ StepsOf(ram)' = StepsOf(ram')
  <2>1. StepsOf(ram)' = StepsOf(ram')
    BY DEF StepsOf, isDBL
  <2> QED BY <2>1
<1>5. Cursor' \in 0 .. Len(StepsOf(ram)) \cup {ELSEWHERE}
  BY <1>2, <1>3, <1>4
<1> QED BY <1>4, <1>5 DEF L!Move

\* What leaves the words alone.
LEMMA RamStays ==
    ASSUME Navigate \/ Run \/ store_program
    PROVE  ram' = ram
<1>1. CASE Navigate
  BY <1>1 DEF Navigate, toggle, soft_init_state, load_state, xeq_bst, xeq_sst, gtodot,
              gtodot_end, gtodot_fkey, gtodot_up, gtodot_down, process_labellist, Move
<1>2. CASE Run
  <2>1. ASSUME NEW by, Executes(by) PROVE ram' = ram
    BY <2>1 DEF Executes
  <2>2. xeq_key => ram' = ram
    BY <2>1 DEF xeq_key
  <2>3. ASSUME NEW by, xeq_single(by) PROVE ram' = ram
    BY <2>1, <2>3 DEF xeq_single
  <2>4. KeyStop => ram' = ram
    BY DEF KeyStop
  <2> QED BY <1>2, <2>2, <2>3, <2>4 DEF Run
<1>3. CASE store_program
  BY <1>3 DEF store_program
<1> QED BY <1>1, <1>2, <1>3

\* All programs replaced by a lone END.
LEMMA ClearShown ==
    ASSUME IInv', ram' = <<END>>, isRAM(at'.pc)
    PROVE  L!Clear
<1> DEFINE d == <<END>>
           P == StepsOf(d)
           k == StepCount(ram', at'.pc)
<1>1. P = <<d>> /\ Len(P) = 1
  BY ListSingle
<1>2. Aligned(ram') /\ (at'.pc = 0 \/ IsStep(ram', at'.pc)) /\ ram' = d
  BY Listable
<1> HIDE DEF d
<1>3. k \in 0 .. Len(P)
  BY <1>2, CursorShows
<1> HIDE DEF k, P
<1>4. k \in {0, 1}
  BY <1>1, <1>3
<1>5. Cursor' = k
  BY CursorIs DEF CursorOf, k
<1>6. StepsOf(ram)' = P
  <2>1. StepsOf(ram)' = StepsOf(ram')
    BY DEF StepsOf, isDBL
  <2> QED BY <1>2, <2>1 DEF P
<1> QED BY <1>1, <1>4, <1>5, <1>6, Zenon DEF L!Clear, d

-----------------------------------------------------------------------------
(* Parts of a listing *)

LEMMA ConcatParts ==
    ASSUME NEW S, NEW x \in Seq(S), NEW y \in Seq(S)
    PROVE  /\ Len(x) \in Nat /\ Len(y) \in Nat /\ x \o y \in Seq(S)
           /\ Len(x \o y) = Len(x) + Len(y)
           /\ SubSeq(x \o y, 1, Len(x)) = x
           /\ SubSeq(x \o y, Len(x) + 1, Len(x) + Len(y)) = y
           /\ Len(y) > 0 => (x \o y)[Len(x) + 1] = y[1]
<1> DEFINE u == x \o y
           k == Len(x)
           n == Len(y)
<1>1. k \in Nat /\ n \in Nat
  BY LenProperties
<1>2. /\ u \in Seq(S) /\ Len(u) = k + n
      /\ \A i \in 1 .. k + n : u[i] = IF i <= k THEN x[i] ELSE y[i - k]
  BY ConcatProperties
<1> HIDE DEF u, k, n
<1>3. SubSeq(u, 1, k) = x
  <2> DEFINE t == SubSeq(u, 1, k)
  <2>1. \A i \in 1 .. k : u[i] = x[i] /\ x[i] \in S
    <3> TAKE i \in 1 .. k
    <3>1. i \in 1 .. k + n /\ i <= k /\ i \in 1 .. Len(x)
      BY <1>1 DEF k
    <3> QED BY <1>2, <3>1, ElementOfSeq
  <2>2. /\ t \in Seq(S) /\ Len(t) = (IF 1 <= k THEN k - 1 + 1 ELSE 0)
        /\ \A i \in 1 .. k - 1 + 1 : t[i] = u[1 + i - 1]
    <3>1. \A i \in 1 .. k : u[i] \in S
      BY <2>1
    <3> QED BY <1>1, <3>1, SubSeqProperties
  <2> HIDE DEF t
  <2>3. Len(t) = k
    BY <1>1, <2>2
  <2>4. ASSUME NEW i \in 1 .. Len(t) PROVE t[i] = x[i]
    <3>1. i \in 1 .. k /\ i \in 1 .. k - 1 + 1 /\ 1 + i - 1 = i
      BY <1>1, <2>3
    <3> QED BY <2>1, <2>2, <3>1
  <2>5. t = x
    BY <2>2, <2>3, <2>4, SeqEqual DEF k
  <2> QED BY <2>5 DEF t
<1>4. SubSeq(u, k + 1, k + n) = y
  <2> DEFINE t == SubSeq(u, k + 1, k + n)
  <2>1. \A i \in 1 .. n : u[k + i] = y[i]
    <3> TAKE i \in 1 .. n
    <3>1. k + i \in 1 .. k + n /\ ~ (k + i <= k) /\ (k + i) - k = i
      BY <1>1
    <3> QED BY <1>2, <3>1
  <2>2. \A j \in k + 1 .. k + n : u[j] \in S
    <3> TAKE j \in k + 1 .. k + n
    <3>1. j \in 1 .. Len(u)
      BY <1>1, <1>2
    <3> QED BY <1>2, <3>1, ElementOfSeq
  <2>3. /\ t \in Seq(S) /\ Len(t) = (IF k + 1 <= k + n THEN (k + n) - (k + 1) + 1 ELSE 0)
        /\ \A i \in 1 .. (k + n) - (k + 1) + 1 : t[i] = u[(k + 1) + i - 1]
    <3>1. k + 1 \in Int /\ k + n \in Int
      BY <1>1
    <3> QED BY <2>2, <3>1, SubSeqProperties
  <2> HIDE DEF t
  <2>4. Len(t) = n
    BY <1>1, <2>3
  <2>5. ASSUME NEW i \in 1 .. Len(t) PROVE t[i] = y[i]
    <3>1. i \in 1 .. n /\ i \in 1 .. (k + n) - (k + 1) + 1 /\ (k + 1) + i - 1 = k + i
      BY <1>1, <2>4
    <3> QED BY <2>1, <2>3, <3>1
  <2>6. t = y
    BY <2>3, <2>4, <2>5, SeqEqual DEF n
  <2> QED BY <2>6 DEF t
<1>5. n > 0 => u[k + 1] = y[1]
  <2>1. n > 0 => k + 1 \in 1 .. k + n /\ ~ (k + 1 <= k) /\ (k + 1) - k = 1
    BY <1>1
  <2> QED BY <1>2, <2>1
<1> QED BY <1>1, <1>2, <1>3, <1>4, <1>5 DEF u, k, n

\* u is x and y behind it.
PartsOf(x, y, u) ==
    /\ Len(x) \in Nat /\ Len(y) \in Nat /\ Len(u) = Len(x) + Len(y)
    /\ SubSeq(u, 1, Len(x)) = x
    /\ SubSeq(u, Len(x) + 1, Len(x) + Len(y)) = y
    /\ \A i \in 1 .. Len(x) + Len(y) : u[i] = IF i <= Len(x) THEN x[i] ELSE y[i - Len(x)]

LEMMA WordParts ==
    ASSUME NEW x \in Seq(Words), NEW y \in Seq(Words), NEW u, u = x \o y
    PROVE  u \in Seq(Words) /\ PartsOf(x, y, u)
BY ConcatParts, ConcatProperties DEF PartsOf

LEMMA StepParts ==
    ASSUME NEW x \in Seq(Seq(Words)), NEW y \in Seq(Seq(Words)), NEW u, u = x \o y
    PROVE  u \in Seq(Seq(Words)) /\ PartsOf(x, y, u)
<1> DEFINE T == Seq(Words)
<1>1. x \in Seq(T) /\ y \in Seq(T)
  OBVIOUS
<1> HIDE DEF T
<1>2. u \in Seq(T) /\ PartsOf(x, y, u)
  BY <1>1, ConcatParts, ConcatProperties DEF PartsOf
<1> QED BY <1>2 DEF T

Associate(x, y, z) == x \o y \o z = x \o (y \o z)

LEMMA WordsAssociate ==
    ASSUME NEW x \in Seq(Words), NEW y \in Seq(Words), NEW z \in Seq(Words)
    PROVE  Associate(x, y, z)
BY ConcatAssociative DEF Associate

LEMMA StepsAssociate ==
    ASSUME NEW x \in Seq(Seq(Words)), NEW y \in Seq(Seq(Words)), NEW z \in Seq(Seq(Words))
    PROVE  Associate(x, y, z)
BY DEF Associate

LEMMA ListNonempty ==
    ASSUME NEW s, Aligned(s), Len(s) > 0
    PROVE  Len(StepsOf(s)) > 0
<1>1. Len(s) \in Nat /\ Len(StepsOf(s)) \in Nat
  BY ListBegins
<1>2. IsStep(s, 1)
  BY <1>1 DEF IsStep
<1>3. StepCount(s, 1) \in 0 .. Len(StepsOf(s)) /\ StepCount(s, 1) > 0
  BY <1>2, CursorShows
<1> QED BY <1>1, <1>3

\* A step put between others.
LEMMA EnteredSteps ==
    ASSUME NEW s, Aligned(s), NEW k, Boundary(s, k), NEW c \in Opcodes
    PROVE  LET r == SubSeq(s, 1, k) \o c \o SubSeq(s, k + 1, Len(s))
               n == Len(StepsOf(SubSeq(s, 1, k)))
           IN  /\ n \in Nat /\ n <= Len(StepsOf(s)) /\ Len(StepsOf(s)) \in Nat
               /\ k < Len(s) => n < Len(StepsOf(s))
               /\ k = Len(s) => n = Len(StepsOf(s))
               /\ Aligned(r) /\ StepsOf(r) = InsertAt(StepsOf(s), n + 1, c)
               /\ IsStep(r, k + 1) /\ StepCount(r, k + 1) = n + 1
<1> DEFINE a == SubSeq(s, 1, k)
           b == SubSeq(s, k + 1, Len(s))
           A == StepsOf(a)
           B == StepsOf(b)
           n == Len(A)
           d == <<c>>
<1>1. Len(s) \in Nat /\ k \in 0 .. Len(s) /\ Boundary(s, Len(s)) /\ k <= Len(s)
      /\ s \in Seq(Words)
  <2>1. Len(s) \in Nat /\ s \in Seq(Words)
    BY ListBegins DEF Aligned
  <2> QED BY <2>1 DEF Boundary, Aligned
<1>2. /\ Aligned(a) /\ Aligned(b) /\ StepsOf(SubSeq(s, 1, Len(s))) = A \o B
      /\ SubSeq(s, 1, Len(s)) = s
  <2> DEFINE e == Len(s)
  <2>1. SubSeq(s, 1, e) = s
    BY <1>1, SubSeqFull
  <2>2. Boundary(s, e) /\ k <= e /\ Boundary(s, k)
    BY <1>1
  <2> HIDE DEF e
  <2>3. /\ Aligned(SubSeq(s, 1, k)) /\ Aligned(SubSeq(s, k + 1, e))
        /\ StepsOf(SubSeq(s, 1, e)) = StepsOf(SubSeq(s, 1, k)) \o StepsOf(SubSeq(s, k + 1, e))
    BY <2>2, SplitList
  <2> QED BY <2>1, <2>3 DEF e
<1>3. /\ a \in Seq(Words) /\ b \in Seq(Words) /\ Len(a) = k /\ Len(b) = Len(s) - k
      /\ A \in Seq(Seq(Words)) /\ B \in Seq(Seq(Words)) /\ n \in Nat /\ Len(B) \in Nat
  <2>1. Boundary(s, 0) /\ 0 + 1 = 1 /\ k + 1 \in Nat /\ k + 1 > 0 /\ (k + 1) - 1 = k
    BY <1>1 DEF Boundary
  <2>2. Boundary(s, 1 - 1) /\ Boundary(s, (k + 1) - 1)
    BY <2>1
  <2>3. Len(a) = (IF 1 <= k THEN k - 1 + 1 ELSE 0)
        /\ Len(b) = (IF k + 1 <= Len(s) THEN Len(s) - (k + 1) + 1 ELSE 0)
    BY <1>1, <2>1, <2>2, Segment
  <2>4. Len(a) = k /\ Len(b) = Len(s) - k
    <3> HIDE DEF a, b
    <3> QED BY <1>1, <2>3
  <2> QED BY <1>2, <2>4, ListBegins DEF Aligned
<1>4. Aligned(c) /\ StepsOf(c) = d /\ c \in Seq(Words) /\ Len(c) \in Nat /\ Len(c) > 0
      /\ d \in Seq(Seq(Words))
  BY OpcodeAligned, ListSingle DEF Aligned
<1>5. Len(b) > 0 => Len(B) > 0
  BY <1>2, ListNonempty
<1>6. Len(b) = 0 => Len(B) = 0
  <2>1. Len(b) = 0 => b = << >>
    BY <1>3, EmptySeq
  <2> QED BY <2>1, ListSingle
<1> DEFINE r == a \o c \o b
           x == a \o c
<1> HIDE DEF a, b, A, B, d
<1>7. /\ StepsOf(s) = A \o B /\ Len(A \o B) = n + Len(B)
      /\ SubSeq(A \o B, 1, n) = A /\ SubSeq(A \o B, n + 1, n + Len(B)) = B
  <2> DEFINE u == A \o B
  <2>1. PartsOf(A, B, u)
    BY <1>3, StepParts
  <2> HIDE DEF u, n
  <2>2. StepsOf(s) = u
    BY <1>2 DEF u
  <2> QED BY <2>1, <2>2 DEF PartsOf, u, n
<1>8. Aligned(x) /\ StepsOf(x) = A \o d
  BY <1>2, <1>4, ListConcat DEF A
<1>9. Aligned(r) /\ StepsOf(r) = (A \o d) \o B
  <2> HIDE DEF x
  <2>1. Aligned(x \o b) /\ StepsOf(x \o b) = StepsOf(x) \o StepsOf(b)
    BY <1>2, <1>8, ListConcat
  <2> QED BY <1>8, <2>1 DEF x, B
<1>10. StepsOf(r) = InsertAt(StepsOf(s), n + 1, c)
  <2> DEFINE u == StepsOf(s)
  <2>1. InsertAt(u, n + 1, c) = SubSeq(u, 1, (n + 1) - 1) \o <<c>> \o SubSeq(u, n + 1, Len(u))
    BY Zenon DEF InsertAt
  <2>2. (n + 1) - 1 = n /\ Len(u) = n + Len(B)
    BY <1>3, <1>7
  <2>3. SubSeq(u, 1, n) = A /\ SubSeq(u, n + 1, n + Len(B)) = B
    BY <1>7
  <2> HIDE DEF u, n, r
  <2> QED BY <1>9, <2>1, <2>2, <2>3, Zenon DEF u, d
<1>11. IsStep(r, k + 1) /\ SubSeq(r, 1, k) = a
  <2> DEFINE y == c \o b
  <2>1. r = a \o y
    <3>1. Associate(a, c, b)
      BY <1>3, <1>4, WordsAssociate
    <3> QED BY <3>1, Zenon DEF Associate
  <2>2. y \in Seq(Words) /\ PartsOf(c, b, y)
    BY <1>3, <1>4, WordParts
  <2> HIDE DEF y, r
  <2>3. PartsOf(a, y, r)
    BY <1>3, <2>1, <2>2, WordParts
  <2>4. SubSeq(r, 1, k) = a /\ Len(r) = k + Len(y) /\ Len(y) \in Nat /\ Len(y) > 0
    BY <1>1, <1>3, <1>4, <2>2, <2>3 DEF PartsOf
  <2>5. k > 0 => ~ isDBL(r[k])
    <3> SUFFICES ASSUME k > 0 PROVE ~ isDBL(r[k])
      OBVIOUS
    <3>1. r[k] = a[k]
      <4>1. k \in 1 .. Len(a) + Len(y) /\ k <= Len(a)
        BY <1>1, <1>3, <2>4
      <4> QED BY <2>3, <4>1 DEF PartsOf
    <3>2. ~ isDBL(a[Len(a)])
      BY <1>2, <1>3 DEF Aligned
    <3> QED BY <1>3, <3>1, <3>2
  <2>6. k + 1 \in 1 .. Len(r) /\ (k + 1) - 1 = k /\ (k = 0 => k + 1 = 1) /\ (k # 0 => k > 0)
    BY <1>1, <2>4
  <2>7. IsStep(r, k + 1)
    BY <2>5, <2>6 DEF IsStep
  <2> QED BY <2>4, <2>7
<1>12. StepCount(r, k + 1) = n + 1
  <2> HIDE DEF r
  <2>1. StepCount(r, k + 1) = Len(StepsOf(SubSeq(r, 1, (k + 1) - 1))) + 1
    BY <1>9, <1>11, CursorAt
  <2>2. (k + 1) - 1 = k
    BY <1>1
  <2> QED BY <1>11, <2>1, <2>2 DEF A
<1>13. /\ n <= Len(StepsOf(s)) /\ Len(StepsOf(s)) \in Nat /\ (k < Len(s) => n < Len(StepsOf(s)))
       /\ (k = Len(s) => n = Len(StepsOf(s)))
  <2> HIDE DEF n
  <2> QED BY <1>1, <1>3, <1>5, <1>6, <1>7
<1> QED BY <1>3, <1>9, <1>10, <1>11, <1>12, <1>13 DEF a, b, A

LEMMA EntryAt ==
    ASSUME IInv, NEW s \in Seq(Words), Whole(s), Len(s) <= NUMPROG_LIMIT,
           NEW p \in Nat, p = 0 \/ IsStep(s, p), NEW c \in Opcodes
    PROVE  LET r == Inserted(s, p, c)
               k == LastWord([M EXCEPT !.ram = s], p)
               n == StepCount(s, p)
           IN  /\ n \in Nat /\ n <= Len(StepsOf(s)) /\ Len(StepsOf(s)) \in Nat
               /\ p # Len(s) => n < Len(StepsOf(s))
               /\ p = Len(s) => n = Len(StepsOf(s))
               /\ StepsOf(r) = InsertAt(StepsOf(s), n + 1, c)
               /\ k \in Nat /\ IsStep(r, k + 1) /\ StepCount(r, k + 1) = n + 1
<1> DEFINE m == [M EXCEPT !.ram = s]
           k == LastWord(m, p)
           r == SubSeq(s, 1, k) \o c \o SubSeq(s, k + 1, Len(s))
           n == Len(StepsOf(SubSeq(s, 1, k)))
<1>1. Readable(m) /\ m.ram = s
  BY NewRam DEF IInv
<1>2. Aligned(s) /\ Len(s) \in Nat /\ Len(s) > 0 /\ s[Len(s)] = END /\ IsStep(s, Len(s))
  BY LenProperties, WholeAligned
<1>3. Inserted(s, p, c) = r
  BY DEF Inserted, LastWord
<1>4. /\ Boundary(s, k) /\ k \in Nat /\ (p # Len(s) => k < Len(s)) /\ (p = Len(s) => k = Len(s))
      /\ n = StepCount(s, p)
  <2>1. CASE p = 0
    <3>1. k = 0
      BY <2>1 DEF LastWord
    <3>2. Boundary(s, 0) /\ 0 < Len(s)
      BY <1>2 DEF Boundary
    <3>3. StepCount(s, 0) = Len(StepsOf(SubSeq(s, 1, 0)))
      BY <1>2, <3>2, CountIs
    <3> HIDE DEF k
    <3> QED BY <1>2, <2>1, <3>1, <3>2, <3>3
  <2>2. CASE p # 0
    <3> DEFINE g == Len(getprog(m, p))
    <3>1. IsStep(s, p) /\ IsStep(m.ram, p)
      BY <1>1, <2>2
    <3>2. /\ g = Width(s, p) /\ g \in {1, 2} /\ p \in 1 .. Len(s)
          /\ p + g - 1 \in 1 .. Len(s) /\ Boundary(s, p + g - 1)
          /\ p + g - 1 = Len(s) => p = Len(s)
      BY <1>1, <3>1, RamStep DEF Width
    <3>3. k = p + g - 1
      BY <2>2 DEF LastWord
    <3>4. StepCount(s, p) = Len(StepsOf(SubSeq(s, 1, p + Width(s, p) - 1)))
      BY <1>2, <3>1, CursorAt
    <3>5. p = Len(s) => g = 1
      BY <1>2, <3>2, KindsOfWords DEF Width
    <3> HIDE DEF g, k
    <3>6. n = StepCount(s, p)
      BY <3>2, <3>3, <3>4
    <3> QED BY <1>2, <3>2, <3>3, <3>5, <3>6
  <2> QED BY <2>1, <2>2
<1> HIDE DEF m, k
<1>5. /\ n \in Nat /\ n <= Len(StepsOf(s)) /\ Len(StepsOf(s)) \in Nat
      /\ k < Len(s) => n < Len(StepsOf(s))
      /\ k = Len(s) => n = Len(StepsOf(s))
      /\ StepsOf(r) = InsertAt(StepsOf(s), n + 1, c)
      /\ IsStep(r, k + 1) /\ StepCount(r, k + 1) = n + 1
  BY <1>2, <1>4, EnteredSteps
<1> HIDE DEF r, n
<1> QED BY <1>3, <1>4, <1>5 DEF k, m

\* A step entered.
LEMMA EnterShown ==
    ASSUME IInv, IInv', isRAM(at.pc), NEW c \in Opcodes, ram' = Inserted(ram, at.pc, c),
           at'.pc = LastWord(M, at.pc) + 1, at.pc # ProgSize \/ c = <<END>>
    PROVE  L!Enter(c)
<1> DEFINE n == StepCount(ram, at.pc)
           k == LastWord(M, at.pc)
<1>1. /\ ram \in Seq(Words) /\ Whole(ram) /\ Len(ram) <= NUMPROG_LIMIT /\ ProgSize = Len(ram)
  BY RamIs DEF IInv
<1>2. at.pc \in Nat /\ (at.pc = 0 \/ IsStep(ram, at.pc))
  BY Listable DEF IInv, Located
<1>3. [M EXCEPT !.ram = ram] = M
  BY DEF M
<1>4. /\ n \in Nat /\ n <= Len(StepsOf(ram)) /\ Len(StepsOf(ram)) \in Nat
      /\ at.pc # Len(ram) => n < Len(StepsOf(ram))
      /\ StepsOf(ram') = InsertAt(StepsOf(ram), n + 1, c)
      /\ k \in Nat /\ IsStep(ram', k + 1) /\ StepCount(ram', k + 1) = n + 1
  BY <1>1, <1>2, <1>3, EntryAt
<1>5. Cursor = n
  BY CursorIs DEF CursorOf
<1>6. Cursor' = n + 1
  <2>1. isRAM(k + 1)
    <3>1. Len(ram') <= NUMPROG_LIMIT /\ Len(ram') \in Nat
      <4>1. M'.ram = ram'
        BY DEF M
      <4>2. Readable(M')
        BY DEF IInv
      <4> QED BY <4>1, <4>2, Listable DEF Readable
    <3>2. k + 1 <= Len(ram')
      BY <1>4, <3>1 DEF IsStep
    <3> HIDE DEF k
    <3> QED BY <1>4, <3>1, <3>2, SizesAre DEF isRAM
  <2> QED BY <1>4, <2>1, CursorIs DEF CursorOf
<1>7. StepsOf(ram)' = StepsOf(ram')
  BY DEF StepsOf, isDBL
<1> HIDE DEF n
<1>8. n >= 0 /\ (n < Len(StepsOf(ram)) \/ c = <<END>>)
  BY <1>1, <1>4
<1> QED BY <1>4, <1>5, <1>6, <1>7, <1>8, Zenon DEF L!Enter, L!InsertAt, InsertAt

\* The listing with two steps put behind it.
LEMMA EndsAndEnters ==
    ASSUME NEW S \in Seq(Seq(Words)), NEW n \in Nat, n = Len(S),
           NEW c \in Seq(Words), NEW e \in Seq(Words), NEW T, T = InsertAt(S, n + 1, e),
           NEW U, U = InsertAt(T, n + 1, c)
    PROVE  U = S \o <<c, e>>
<1> DEFINE d == <<e>>
           b == <<c>>
           z == << >>
<1>1. d \in Seq(Seq(Words)) /\ b \in Seq(Seq(Words)) /\ Len(d) = 1 /\ z \in Seq(Seq(Words))
  BY EmptySeq
<1>2. SubSeq(S, 1, n) = S
  BY SubSeqFull
<1>3. SubSeq(S, n + 1, n) = z
  BY SubSeqEmpty
<1>4. T = SubSeq(S, 1, (n + 1) - 1) \o d \o SubSeq(S, n + 1, Len(S))
  BY DEF InsertAt
<1>5. (n + 1) - 1 = n
  OBVIOUS
<1>6. T = S \o d \o z
  BY <1>2, <1>3, <1>4, <1>5
<1> HIDE DEF z, d, b
<1>7. T = S \o d
  <2>1. d \o z = d /\ S \o d \o z = S \o (d \o z)
    BY <1>1, ConcatEmptySeq, ConcatAssociative DEF z
  <2> QED BY <1>1, <1>6, <2>1
<1>8. T \in Seq(Seq(Words)) /\ PartsOf(S, d, T)
  BY <1>1, <1>7, StepParts
<1>9. Len(T) = n + 1 /\ SubSeq(T, 1, n) = S /\ SubSeq(T, n + 1, n + 1) = d
  BY <1>1, <1>8 DEF PartsOf
<1>10. InsertAt(T, n + 1, c) = SubSeq(T, 1, (n + 1) - 1) \o b \o SubSeq(T, n + 1, Len(T))
  BY DEF InsertAt, b
<1>11. InsertAt(T, n + 1, c) = S \o b \o d
  BY <1>5, <1>9, <1>10
<1>12. b \o d = <<c, e>>
  <2> DEFINE u == b \o d
             v == <<c, e>>
  <2>1. b[1] = c /\ d[1] = e /\ Len(b) = 1
    BY DEF b, d
  <2>2. v \in Seq(Seq(Words)) /\ Len(v) = 2 /\ v[1] = c /\ v[2] = e
    OBVIOUS
  <2>3. u \in Seq(Seq(Words)) /\ PartsOf(b, d, u)
    BY <1>1, StepParts
  <2> HIDE DEF u, v
  <2>4. Len(u) = 2 /\ u[1] = c /\ u[2] = e
    BY <1>1, <2>1, <2>3 DEF PartsOf
  <2>5. \A i \in 1 .. Len(u) : u[i] = v[i]
    BY <2>2, <2>4
  <2>6. u = v
    <3> DEFINE W == Seq(Words)
    <3>1. u \in Seq(W) /\ v \in Seq(W) /\ Len(u) = Len(v)
      BY <2>2, <2>3, <2>4
    <3> HIDE DEF W
    <3> QED BY <2>5, <3>1, SeqEqual
  <2> QED BY <2>6 DEF u, v
<1>13. S \o b \o d = S \o (b \o d)
  BY <1>1, StepsAssociate, Zenon DEF Associate
<1> QED BY <1>11, <1>12, <1>13

LEMMA EndEntered ==
    ASSUME IInv, NEW s \in Seq(Words), Whole(s), Len(s) <= NUMPROG_LIMIT,
           NEW p \in Nat, p = 0 \/ IsStep(s, p), NEW c \in Opcodes, c = <<END>>
    PROVE  LET u == Inserted(s, p, c) IN u \in Seq(Words) /\ Whole(u) /\ Len(u) = Len(s) + Len(c)
<1>1. p # Len(s) \/ c = <<END>>
  OBVIOUS
<1> QED BY <1>1, InsertedIs, ZenonT(30)

\* stoprog enters the step, or a new program, or nothing.
LEMMA EntryShown ==
    ASSUME IInv, IInv', NEW c \in Opcodes, NEW free \in Nat, stoprog(c, free)
    PROVE  L!Move \/ \E d \in Opcodes : L!Enter(d) \/ L!EnterProgram(d)
<1> DEFINE pc     == at.pc
           e      == <<END>>
           begins == pc = ProgSize /\ c # e
           s      == Inserted(ram, pc, e)
           ended  == IF begins /\ free > 0 THEN s ELSE ram
           left   == IF begins /\ free > 0 THEN free - 1 ELSE free
           fits   == left >= Len(c)
           grown  == IF fits THEN Inserted(ended, pc, c) ELSE ended
           moved  == IF fits \/ (begins /\ free > 0)
                     THEN IF pc = 0 THEN 1 ELSE pc + Len(getprog(M, pc)) ELSE pc
           k      == LastWord(M, pc)
<1>1. /\ isRAM(pc) /\ free <= NUMPROG_LIMIT - ProgSize /\ ram' = grown
      /\ at' = [at EXCEPT !.pc = moved, !.end = @ + Len(grown) - ProgSize]
  BY Zenon DEF stoprog
<1>2. /\ ram \in Seq(Words) /\ Whole(ram) /\ Len(ram) <= NUMPROG_LIMIT /\ ProgSize = Len(ram)
      /\ Len(ram) \in Nat /\ Len(ram) > 0 /\ Readable(M) /\ M.ram = ram
      /\ IsStep(ram, ProgSize) /\ ram[ProgSize] = END
      /\ at \in [pc : Nat, begin : Nat, end : Nat]
  BY RamIs DEF IInv, Located
<1>3. pc \in Nat /\ (pc = 0 \/ IsStep(ram, pc))
  BY <1>1, <1>2, Listable
<1>4. e \in Opcodes /\ Len(e) = 1 /\ e \in Seq(Words) /\ c \in Seq(Words) /\ Len(c) \in {1, 2}
  BY OpcodeAligned, LoneEnd, KindsOfWords DEF Opcodes, Aligned
<1>5. at'.pc = moved
  BY <1>1, <1>2
<1>6. k \in Nat /\ k + 1 = (IF pc = 0 THEN 1 ELSE pc + Len(getprog(M, pc)))
  <2> DEFINE n == Len(getprog(M, pc))
  <2>1. k = (IF pc = 0 THEN 0 ELSE pc + n - 1)
    BY DEF LastWord
  <2>2. pc # 0 => n \in {1, 2}
    <3>1. pc # 0 => IsStep(M.ram, pc)
      BY <1>2, <1>3
    <3> QED BY <1>2, <1>3, <3>1, RamStep
  <2> HIDE DEF n, k, pc
  <2>3. k \in Nat /\ k + 1 = (IF pc = 0 THEN 1 ELSE pc + n)
    BY <1>3, <2>1, <2>2
  <2> QED BY <2>3 DEF n, pc
<1>7. CASE ~ (begins /\ free > 0)
  <2>1. ended = ram /\ left = free
    BY <1>7
  <2>2. CASE fits
    <3>1. grown = Inserted(ram, pc, c) /\ moved = k + 1
      BY <1>6, <2>1, <2>2
    <3>2. pc # ProgSize \/ c = e
      BY <1>4, <1>7, <2>1, <2>2
    <3> HIDE DEF grown, moved, k, e
    <3>3. L!Enter(c)
      BY <1>1, <1>5, <3>1, <3>2, EnterShown DEF k, e
    <3> QED BY <3>3
  <2>3. CASE ~ fits
    <3>1. ram' = ram
      BY <1>1, <2>1, <2>3
    <3> QED BY <3>1, MoveShown
  <2> QED BY <2>2, <2>3
<1>8. CASE begins /\ free > 0
  <2>1. ended = s /\ left = free - 1 /\ pc = ProgSize /\ c # e /\ moved = k + 1 /\ pc # 0
    BY <1>2, <1>6, <1>8
  <2>2. CASE ~ fits
    <3>1. ram' = s /\ at'.pc = k + 1
      BY <1>1, <1>5, <2>1, <2>2
    <3> HIDE DEF s, k
    <3>2. L!Enter(e)
      BY <1>1, <1>4, <3>1, EnterShown DEF s, k
    <3> QED BY <1>4, <3>2
  <2>3. CASE fits
    <3> DEFINE S == StepsOf(ram)
               n == StepCount(ram, pc)
               t == StepsOf(s)
               j == LastWord([M EXCEPT !.ram = s], pc)
    <3>1. [M EXCEPT !.ram = ram] = M
      BY DEF M
    <3>2. /\ n \in Nat /\ n = Len(S) /\ t = InsertAt(S, n + 1, e)
          /\ IsStep(s, k + 1)
      <4> HIDE DEF e, s, k, n
      <4> DEFINE u == Inserted(ram, pc, e)
      <4>1. /\ n \in Nat /\ StepsOf(u) = InsertAt(S, n + 1, e)
            /\ IsStep(u, k + 1) /\ (pc = Len(ram) => n = Len(S))
        BY <1>2, <1>3, <1>4, <3>1, EntryAt DEF k, n
      <4> QED BY <1>2, <2>1, <4>1 DEF s
    <3>3. /\ s \in Seq(Words) /\ Whole(s) /\ Len(s) = Len(ram) + 1
          /\ \A i \in 1 .. k : s[i] = ram[i]
      <4> HIDE DEF e, s, k
      <4> DEFINE u == Inserted(ram, pc, e)
      <4>0. e = <<END>>
        BY DEF e
      <4>1. /\ ram \in Seq(Words) /\ Whole(ram) /\ Len(ram) <= NUMPROG_LIMIT
            /\ pc \in Nat /\ (pc = 0 \/ IsStep(ram, pc)) /\ e \in Opcodes
        BY <1>2, <1>3, <1>4
      <4> HIDE DEF pc
      <4>3. u \in Seq(Words) /\ Whole(u) /\ Len(u) = Len(ram) + Len(e)
        BY <4>0, <4>1, EndEntered, Zenon DEF u
      <4>2. \A i \in 1 .. k : u[i] = ram[i]
        <5> DEFINE h == LastWord([M EXCEPT !.ram = ram], pc)
        <5>1. \A i \in 1 .. h : u[i] = ram[i]
          BY <4>0, <4>1, InsertedIs, Zenon DEF u
        <5> QED BY <3>1, <5>1 DEF k, pc
      <4> QED BY <1>4, <4>2, <4>3 DEF s
    <3>4. k = Len(ram) /\ ProgSize = Len(ram)
      <4>1. getprog(M, pc) = <<END>>
        <5>1. IsStep(M.ram, pc)
          BY <1>2, <1>3, <2>1
        <5> DEFINE g == Len(getprog(M, pc))
        <5>2. g \in {1, 2} /\ pc + g - 1 \in 1 .. Len(ram)
              /\ (pc + g - 1 = Len(ram) => getprog(M, pc) = <<END>>)
          BY <1>2, <1>3, <5>1, RamStep
        <5> HIDE DEF g
        <5>3. pc + g - 1 = Len(ram)
          BY <1>2, <2>1, <5>2
        <5> QED BY <5>2, <5>3
      <4>2. k + 1 = pc + 1
        BY <1>4, <1>6, <2>1, <4>1
      <4> HIDE DEF k
      <4> QED BY <1>2, <1>6, <2>1, <4>2
    <3>5. StepCount(s, pc) = n /\ IsStep(s, pc)
      <4> HIDE DEF s, k
      <4>1. \A o \in 1 .. pc : IsStep(s, o) <=> IsStep(ram, o)
        <5> TAKE o \in 1 .. pc
        <5>1. o \in 1 .. Len(s) /\ o \in 1 .. Len(ram) /\ (o # 1 => o - 1 \in 1 .. k)
          BY <1>2, <2>1, <3>3, <3>4
        <5>2. o # 1 => s[o - 1] = ram[o - 1]
          BY <3>3, <5>1
        <5> QED BY <5>1, <5>2 DEF IsStep
      <4>2. {o \in 1 .. pc : IsStep(s, o)} = {o \in 1 .. pc : IsStep(ram, o)}
        BY <4>1
      <4>3. pc \in 1 .. pc
        BY <1>3, <2>1
      <4> QED BY <1>3, <2>1, <4>1, <4>2, <4>3 DEF StepCount
    <3> HIDE DEF n, s
    <3>6. Len(s) <= NUMPROG_LIMIT
      <4>1. free >= 1
        BY <2>1, <2>3, <1>4
      <4> QED BY <1>1, <1>2, <3>3, <4>1, SizesAre
    <3>7. ram' = Inserted(s, pc, c)
      BY <1>1, <2>1, <2>3
    <3>8. /\ StepsOf(ram') = InsertAt(t, n + 1, c)
          /\ j \in Nat /\ IsStep(ram', j + 1) /\ StepCount(ram', j + 1) = n + 1
      <4> HIDE DEF t, j
      <4> DEFINE u == Inserted(s, pc, c)
      <4>1. /\ StepsOf(u) = InsertAt(StepsOf(s), StepCount(s, pc) + 1, c)
            /\ j \in Nat /\ IsStep(u, j + 1) /\ StepCount(u, j + 1) = StepCount(s, pc) + 1
        BY <1>3, <3>3, <3>5, <3>6, EntryAt DEF j
      <4> QED BY <3>5, <3>7, <4>1 DEF t
    <3>9. S \in Seq(Seq(Words)) /\ StepsOf(ram)' = StepsOf(ram')
      <4>1. S \in Seq(Seq(Words))
        BY Listable, ListBegins
      <4>2. StepsOf(ram)' = StepsOf(ram')
        BY DEF StepsOf, isDBL
      <4> QED BY <4>1, <4>2
    <3>10. StepsOf(ram') = S \o <<c, e>>
      <4> HIDE DEF S, t, e
      <4> QED BY <1>4, <3>2, <3>8, <3>9, EndsAndEnters
    <3>11. j = k
      <4> DEFINE m == [M EXCEPT !.ram = s]
                 g == Len(getprog(m, pc))
      <4>1. Readable(m) /\ m.ram = s
        BY <1>2, <3>3, <3>6, NewRam
      <4>2. pc \in 1 .. k
        BY <1>2, <1>3, <2>1, <3>4
      <4>3. s[pc] = END
        BY <1>2, <2>1, <3>3, <4>2
      <4>4. g = 1
        <5>1. IsStep(m.ram, pc)
          BY <3>5, <4>1
        <5>2. g = IF isDBL(s[pc]) THEN 2 ELSE 1
          <6> HIDE DEF m
          <6> QED BY <1>3, <4>1, <5>1, RamStep
        <5> QED BY <4>3, <5>2, KindsOfWords
      <4>5. j = pc + 1 - 1
        BY <2>1, <4>4 DEF LastWord
      <4> HIDE DEF j, k
      <4> QED BY <1>2, <1>3, <2>1, <3>4, <4>5
    <3> HIDE DEF j, k
    <3>12. Cursor = n
      BY <1>1, CursorIs DEF CursorOf, n
    <3>13. Cursor' = n + 1
      <4>1. at'.pc = k + 1
        BY <1>5, <2>1 DEF moved
      <4>2. isRAM(k + 1)
        <5>1. Len(s) >= k + 1
          BY <1>2, <3>3, <3>4
        <5> QED BY <1>6, <3>3, <3>6, <5>1, LenProperties, SizesAre DEF isRAM
      <4> QED BY <3>8, <3>11, <4>1, <4>2, CursorIs DEF CursorOf
    <3>14. L!EnterProgram(c)
      BY <3>2, <3>9, <3>10, <3>12, <3>13, Zenon DEF L!EnterProgram
    <3> QED BY <3>14
  <2> QED BY <2>2, <2>3
<1> QED BY <1>7, <1>8

-----------------------------------------------------------------------------
(* Steps deleted *)

\* A step taken out.
LEMMA DeletedSteps ==
    ASSUME NEW s, Aligned(s), NEW p, IsStep(s, p)
    PROVE  LET a == SubSeq(s, 1, p - 1)
               b == SubSeq(s, p + Width(s, p), Len(s))
               i == StepCount(s, p)
           IN  /\ StepsOf(a \o b) = RemoveAt(StepsOf(s), i)
               /\ i \in 1 .. Len(StepsOf(s)) /\ Len(StepsOf(s)) \in Nat
               /\ i = Len(StepsOf(a)) + 1 /\ Aligned(a) /\ Aligned(b) /\ Len(a) = p - 1
               /\ Len(b) > 0 => i < Len(StepsOf(s))
<1> DEFINE m == p - 1
           e == p + Width(s, p) - 1
           a == SubSeq(s, 1, m)
           t == SubSeq(s, 1, e)
           b == SubSeq(s, e + 1, Len(s))
           i == StepCount(s, p)
           d == <<StepFrom(s, p)>>
           A == StepsOf(a)
           B == StepsOf(b)
           C == StepsOf(t)
           S == StepsOf(s)
<1>1. Len(s) \in Nat /\ p \in 1 .. Len(s) /\ Boundary(s, Len(s)) /\ Boundary(s, 0)
      /\ s \in Seq(Words)
  <2>1. Len(s) \in Nat /\ s \in Seq(Words)
    BY ListBegins DEF Aligned
  <2> QED BY <2>1 DEF Boundary, Aligned, IsStep
<1>2. Boundary(s, m) /\ Boundary(s, e) /\ m \in Nat /\ e \in Nat /\ e <= Len(s)
  <2>1. Boundary(s, m) /\ Boundary(s, e) /\ m \in Nat /\ e \in Nat
    BY StepBoundaries
  <2> QED BY <2>1, <1>1 DEF Boundary
<1>3. e + 1 = p + Width(s, p)
  BY <1>1 DEF Width
<1>4. Aligned(a) /\ C = A \o d /\ i = Len(A) + 1 /\ d \in Seq(Seq(Words)) /\ Len(d) = 1
  <2>1. C = A \o d
    BY OneStepMore
  <2>2. i = Len(A) + 1
    BY CursorAt
  <2>3. Aligned(a)
    BY OneStepMore
  <2>4. StepFrom(s, p) \in Seq(Words)
    BY StepIsOpcode, OpcodeAligned DEF Aligned
  <2> QED BY <2>1, <2>2, <2>3, <2>4
<1>5. Aligned(t) /\ Aligned(b) /\ S = C \o B
  <2> DEFINE n == Len(s)
  <2>1. SubSeq(s, 1, n) = s
    BY <1>1, SubSeqFull
  <2>2. Boundary(s, n) /\ e <= n
    BY <1>1, <1>2
  <2> HIDE DEF n, e
  <2>3. /\ Aligned(SubSeq(s, 1, e)) /\ Aligned(SubSeq(s, e + 1, n))
        /\ StepsOf(SubSeq(s, 1, n)) = StepsOf(SubSeq(s, 1, e)) \o StepsOf(SubSeq(s, e + 1, n))
    BY <1>2, <2>2, SplitList
  <2> QED BY <2>1, <2>3 DEF n
<1>6. Len(a) = m
  <2>1. 1 \in Nat /\ 1 > 0 /\ 1 - 1 = 0
    OBVIOUS
  <2>2. Boundary(s, 1 - 1)
    BY <1>1, <2>1
  <2>3. Len(a) = (IF 1 <= m THEN m - 1 + 1 ELSE 0)
    BY <1>2, <2>1, <2>2, Segment
  <2> HIDE DEF a, m
  <2> QED BY <1>2, <2>3
<1>7. /\ A \in Seq(Seq(Words)) /\ B \in Seq(Seq(Words)) /\ C \in Seq(Seq(Words))
      /\ Len(A) \in Nat /\ Len(B) \in Nat /\ (Len(b) > 0 => Len(B) > 0)
  BY <1>4, <1>5, ListBegins, ListNonempty
<1>8. StepsOf(a \o b) = A \o B
  BY <1>4, <1>5, ListConcat
<1> HIDE DEF a, b, t, i, A, B, C, S, d, m, e
<1> DEFINE k == Len(A)
           n == Len(B)
           D == d \o B
<1>9. D \in Seq(Seq(Words)) /\ Len(D) = n + 1
  <2>1. D \in Seq(Seq(Words)) /\ PartsOf(d, B, D)
    BY <1>4, <1>7, StepParts
  <2> HIDE DEF D
  <2> QED BY <1>4, <1>7, <2>1 DEF PartsOf
<1>10. S = A \o D
  <2>1. Associate(A, d, B)
    BY <1>4, <1>7, StepsAssociate
  <2> QED BY <1>4, <1>5, <2>1, Zenon DEF Associate
<1> HIDE DEF D
<1>11. PartsOf(A, D, S) /\ PartsOf(C, B, S) /\ PartsOf(A, d, C)
  BY <1>4, <1>5, <1>7, <1>9, <1>10, StepParts
<1>12. /\ Len(C) = k + 1 /\ Len(S) = k + 1 + n /\ SubSeq(S, 1, k) = A
       /\ SubSeq(S, Len(C) + 1, Len(C) + n) = B
  BY <1>4, <1>7, <1>9, <1>11 DEF PartsOf
<1>13. RemoveAt(S, i) = SubSeq(S, 1, i - 1) \o SubSeq(S, i + 1, Len(S))
  BY Zenon DEF RemoveAt
<1>14. i - 1 = k /\ i + 1 = Len(C) + 1 /\ Len(S) = Len(C) + n
  BY <1>4, <1>7, <1>12
<1>15. RemoveAt(S, i) = A \o B
  <2> HIDE DEF k, n
  <2> QED BY <1>12, <1>13, <1>14
<1>16. i \in 1 .. Len(S) /\ Len(S) \in Nat /\ (Len(b) > 0 => i < Len(S))
  BY <1>4, <1>7, <1>12
<1> QED BY <1>3, <1>4, <1>5, <1>6, <1>8, <1>15, <1>16 DEF a, b, A, S, i, m

\* The step before has the number before.
LEMMA NumberBefore ==
    ASSUME NEW s, Aligned(s), NEW p, IsStep(s, p), NEW q \in Nat,
           (q = 0 /\ p = 1) \/ (IsStep(s, q) /\ q + Width(s, q) = p)
    PROVE  StepCount(s, q) = Len(StepsOf(SubSeq(s, 1, p - 1)))
<1>1. CASE q = 0 /\ p = 1
  <2>1. q = p - 1
    BY <1>1
  <2> QED BY <2>1, CursorAt
<1>2. CASE IsStep(s, q) /\ q + Width(s, q) = p
  <2>1. q + Width(s, q) - 1 = p - 1
    BY <1>2 DEF Width
  <2>2. StepCount(s, q) = Len(StepsOf(SubSeq(s, 1, q + Width(s, q) - 1)))
    BY <1>2, CursorAt
  <2> QED BY <2>1, <2>2
<1> QED BY <1>1, <1>2

\* delprog deletes the step at the cursor.
LEMMA DeletionShown ==
    ASSUME IInv, IInv', delprog
    PROVE  L!Delete
<1> DEFINE p    == at.pc
           n    == Len(getprog(M, at.pc))
           less == Without(ram, at.pc)
           m    == [M EXCEPT !.ram = less]
           w    == [at EXCEPT !.end = @ - n]
           q    == do_dec(m, w, w.pc, TRUE).pc
           S    == StepsOf(ram)
           i    == StepCount(ram, p)
           a    == SubSeq(ram, 1, p - 1)
           b    == SubSeq(ram, p + Width(ram, p), Len(ram))
<1>1. /\ runmode = 0 /\ Deletable(p) /\ p \in 1 .. ProgSize
      /\ ram' = less /\ at' = decpc(m, w)
  BY Zenon DEF delprog
<1>2. Readable(M) /\ at \in [pc : Nat, begin : Nat, end : Nat] /\ Place(M, p)
  BY DEF IInv, Located
<1>3. /\ M.ram = ram /\ M.runmode = runmode /\ ram \in Seq(Words) /\ ProgSize = Len(ram)
      /\ ProgSize \in Nat /\ ProgSize <= NUMPROG_LIMIT /\ ProgSize > 0 /\ Aligned(ram)
  BY <1>2, RamIs
<1>4. isRAM(p) /\ p \in Nat /\ IsStep(ram, p) /\ ~ (p = ProgSize /\ getprog(M, p) = <<END>>)
  BY <1>1, <1>2, <1>3, RamPlace DEF Deletable
<1>5. /\ less \in Seq(Words) /\ Whole(less) /\ Len(less) = Len(ram) - n /\ n \in {1, 2}
      /\ IsStep(less, p)
  BY <1>2, <1>4, WithoutIs
<1>6. less = a \o b
  BY Zenon DEF Without, Width
<1>7. /\ StepsOf(a \o b) = RemoveAt(S, i) /\ i \in 1 .. Len(S) /\ Len(S) \in Nat
      /\ i = Len(StepsOf(a)) + 1 /\ Aligned(a) /\ Aligned(b) /\ Len(a) = p - 1
      /\ Len(b) > 0 => i < Len(S)
  BY <1>3, <1>4, DeletedSteps
<1>8. Len(b) > 0 /\ SubSeq(less, 1, p - 1) = a
  <2>1. a \in Seq(Words) /\ b \in Seq(Words)
    BY <1>7 DEF Aligned
  <2>2. PartsOf(a, b, less)
    BY <1>6, <2>1, WordParts
  <2>3. Len(less) >= p
    BY <1>5, LenProperties DEF IsStep
  <2>4. Len(a) = p - 1
    BY <1>7
  <2> HIDE DEF a, b, less
  <2>5. Len(a) \in Nat /\ Len(b) \in Nat /\ Len(less) = Len(a) + Len(b)
        /\ SubSeq(less, 1, Len(a)) = a
    BY <2>2, Zenon DEF PartsOf
  <2>6. Len(b) > 0
    BY <1>4, <2>3, <2>4, <2>5
  <2> QED BY <2>4, <2>5, <2>6, Zenon
<1> HIDE DEF less, n, i, S
<1>9. Len(less) <= NUMPROG_LIMIT /\ Aligned(less)
  <2>1. Aligned(less)
    BY <1>5, WholeAligned
  <2> QED BY <1>3, <1>5, <2>1, SizesAre
<1>10. Readable(m) /\ m.ram = less /\ m.runmode = 0 /\ Place(m, p)
  BY <1>1, <1>2, <1>3, <1>4, <1>5, <1>9, NewRam
<1>11. w \in [pc : Nat, begin : Nat, end : Int] /\ w.pc = p
  BY <1>2, <1>5
<1> HIDE DEF m, w
<1>12. q = StepOf(m, 0, p - 1)
  <2>1. Section(m, w, p, TRUE) = [top |-> m.runmode, bottom |-> Len(m.ram)]
    BY <1>4, <1>10 DEF Section
  <2>2. ~ (p <= 0)
    BY <1>1
  <2>3. q = Backward(m, Section(m, w, p, TRUE), p).pc
    BY <1>11 DEF do_dec
  <2>4. Section(m, w, p, TRUE).top = 0
    <3>1. m.runmode = 0
      BY <1>10
    <3>2. [top |-> m.runmode, bottom |-> Len(m.ram)].top = m.runmode
      OBVIOUS
    <3> QED BY <2>1, <3>1, <3>2, Zenon
  <2> HIDE DEF q
  <2> QED BY <2>2, <2>3, <2>4 DEF Backward
<1>13. q \in Nat /\ ((q = 0 /\ p = 1) \/ (IsStep(less, q) /\ q + Width(less, q) = p))
  <2>1. CASE p = 1
    <3>1. p - 1 = 0 /\ ~ (0 > 0)
      BY <2>1
    <3>2. StepOf(m, 0, 0) = 0
      BY DEF StepOf
    <3> HIDE DEF q
    <3> QED BY <1>12, <2>1, <3>1, <3>2
  <2>2. CASE p # 1
    <3> DEFINE r == StepOf(m, 0, p - 1)
    <3>1. InStep(m, p) /\ Origin(p) = 0
      <4>1. Region(m, p) = less /\ offset(p) = p /\ Origin(p) = 0
        BY <1>4, <1>10 DEF Region, offset, Origin
      <4> QED BY <1>4, <1>5, <4>1 DEF InStep
    <3>2. 0 < p /\ p - 1 > Origin(p) /\ 0 = Origin(p)
      BY <1>1, <2>2, <3>1
    <3>3. InStep(m, r) /\ r < p /\ r + Len(getprog(m, r)) = p /\ Region(m, r) = Region(m, p)
          /\ Origin(r) = Origin(p)
      BY <1>10, <3>1, <3>2, DecIs
    <3> HIDE DEF r
    <3>4. r \in Nat
      BY <1>10, <3>3, StepFacts
    <3>5. isRAM(r)
      BY <3>1, <3>3, SizesAre DEF Origin
    <3>6. Region(m, r) = less /\ offset(r) = r
      BY <1>10, <3>5 DEF Region, offset
    <3>7. IsStep(less, r) /\ IsStep(m.ram, r)
      BY <1>10, <3>3, <3>6 DEF InStep
    <3>8. Len(getprog(m, r)) = Width(less, r)
      BY <1>10, <3>4, <3>7, RamStep DEF Width
    <3>9. q = r
      BY <1>12 DEF r
    <3> HIDE DEF q
    <3> QED BY <3>3, <3>4, <3>7, <3>8, <3>9
  <2> QED BY <2>1, <2>2
<1>14. at'.pc = q
  <2> HIDE DEF q
  <2>1. at' = raw_set_pc(m, w, q)
    BY <1>1 DEF decpc, q
  <2>2. q = IF q = 0 /\ m.runmode = 1 THEN 1 ELSE q
    BY <1>10
  <2>3. raw_set_pc(m, w, q).pc = q
    <3>1. [w EXCEPT !.pc = q].pc = q
      BY <1>11
    <3>2. Bounds(m, q).pc = q
      BY <2>2 DEF Bounds
    <3>3. raw_set_pc(m, w, q) = [w EXCEPT !.pc = q] \/ raw_set_pc(m, w, q) = Bounds(m, q)
      BY <2>2 DEF raw_set_pc
    <3> QED BY <3>1, <3>2, <3>3
  <2> QED BY <2>1, <2>3
<1> HIDE DEF q
<1>15. StepCount(less, q) = Len(StepsOf(a))
  <2>1. StepCount(less, q) = Len(StepsOf(SubSeq(less, 1, p - 1)))
    BY <1>5, <1>9, <1>13, NumberBefore
  <2> QED BY <1>8, <2>1
<1> HIDE DEF a, b
<1>16. Cursor = i /\ Cursor' = i - 1
  <2>1. Cursor = i
    BY <1>4, CursorIs DEF CursorOf, i
  <2>2. isRAM(q)
    <3>1. Len(less) \in Nat
      BY <1>5, LenProperties
    <3>2. q = 0 \/ q <= Len(less)
      BY <1>13, <3>1 DEF IsStep
    <3>3. q \in Nat
      BY <1>13
    <3> QED BY <1>9, <3>1, <3>2, <3>3, SizesAre DEF isRAM
  <2>3. Cursor' = StepCount(less, q)
    BY <1>1, <1>14, <2>2, CursorIs DEF CursorOf
  <2>4. Len(StepsOf(a)) \in Nat
    BY <1>7, ListBegins
  <2> QED BY <1>7, <1>15, <2>1, <2>3, <2>4
<1>17. StepsOf(ram)' = RemoveAt(S, i)
  <2>1. StepsOf(ram)' = StepsOf(ram')
    BY DEF StepsOf, isDBL
  <2> QED BY <1>1, <1>6, <1>7, <2>1
<1>18. i \in 1 .. Len(S) - 1
  BY <1>7, <1>8
<1> QED BY <1>16, <1>17, <1>18, Zenon DEF L!Delete, L!RemoveAt, RemoveAt, S

-----------------------------------------------------------------------------
(* Programs removed *)

LEMMA EndShows ==
    ASSUME NEW s, Aligned(s), NEW q, IsStep(s, q)
    PROVE  StepFrom(s, q) = <<END>> <=> s[q] = END
<1> DEFINE c == StepFrom(s, q)
           n == Width(s, q)
           d == <<END>>
<1>1. /\ n \in {1, 2} /\ c \in Seq(Words) /\ Len(c) = n /\ q \in 1 .. Len(s)
      /\ Len(s) \in Nat /\ Copies(c, s, q)
  BY StepFromIs
<1>2. n = (IF isDBL(s[q]) THEN 2 ELSE 1)
  BY DEF Width
<1>3. d \in Seq(Words) /\ Len(d) = 1 /\ d[1] = END
  BY LoneEnd
<1> HIDE DEF c, n, d
<1>4. c[1] = s[q]
  <2>1. 1 \in 1 .. Len(c) /\ q + 1 - 1 = q
    BY <1>1
  <2> QED BY <1>1, <2>1 DEF Copies
<1>5. ASSUME s[q] = END PROVE c = d
  <2>1. Len(c) = 1
    BY <1>1, <1>2, <1>5, KindsOfWords
  <2>2. \A i \in 1 .. Len(c) : c[i] = d[i]
    BY <1>3, <1>4, <1>5, <2>1
  <2> QED BY <1>1, <1>3, <2>1, <2>2, SeqEqual
<1>6. c = d => s[q] = END
  BY <1>3, <1>4
<1> QED BY <1>5, <1>6 DEF c, d

\* The steps of one program, listed, and the others without them.
Removed(s, b, e) ==
    LET x == SubSeq(s, 1, b - 1)
        z == SubSeq(s, e + 1, Len(s))
        i == StepCount(s, b)
        j == StepCount(s, e)
        S == StepsOf(s)
    IN  /\ i \in 1 .. j /\ j \in 1 .. Len(S) /\ Len(S) \in Nat
        /\ S[j] = <<END>> /\ \A l \in i .. j - 1 : S[l] # <<END>>
        /\ StepsOf(x \o z) = SubSeq(S, 1, i - 1) \o SubSeq(S, j + 1, Len(S))
        /\ i = Len(StepsOf(x)) + 1 /\ Aligned(x) /\ Aligned(z) /\ Len(x) = b - 1
        /\ SubSeq(S, 1, i - 1) = StepsOf(x) /\ SubSeq(S, j + 1, Len(S)) = StepsOf(z)

LEMMA RemovedSteps ==
    ASSUME NEW s, Aligned(s), NEW b, IsStep(s, b), NEW e, IsStep(s, e), s[e] = END, b <= e,
           \A q \in b .. e - 1 : ~ (IsStep(s, q) /\ s[q] = END)
    PROVE  Removed(s, b, e)
<1> DEFINE k == b - 1
           g == e - 1
           x == SubSeq(s, 1, k)
           z == SubSeq(s, e + 1, Len(s))
           y == SubSeq(s, b, g)
           t == SubSeq(s, 1, g)
           u == SubSeq(s, 1, e)
           i == StepCount(s, b)
           j == StepCount(s, e)
           S == StepsOf(s)
           X == StepsOf(x)
           Y == StepsOf(y)
           Z == StepsOf(z)
           T == StepsOf(t)
           U == StepsOf(u)
           d == <<StepFrom(s, e)>>
<1>1. Len(s) \in Nat /\ b \in 1 .. Len(s) /\ e \in 1 .. Len(s) /\ Boundary(s, Len(s))
      /\ s \in Seq(Words) /\ Boundary(s, 0)
  <2>1. Len(s) \in Nat /\ s \in Seq(Words)
    BY ListBegins DEF Aligned
  <2> QED BY <2>1 DEF Boundary, Aligned, IsStep
<1>2. Width(s, e) = 1 /\ e + Width(s, e) - 1 = e
  BY <1>1, KindsOfWords DEF Width
<1>3. /\ Boundary(s, k) /\ Boundary(s, g) /\ Boundary(s, e)
      /\ k \in Nat /\ g \in Nat /\ k + 1 = b /\ k <= g /\ g <= e /\ e <= Len(s)
  <2>1. Boundary(s, k) /\ Boundary(s, g) /\ Boundary(s, e + Width(s, e) - 1)
    BY StepBoundaries
  <2> QED BY <1>1, <1>2, <2>1
<1>4. Aligned(x) /\ Aligned(y) /\ Aligned(t) /\ T = X \o Y
  <2> HIDE DEF k, g
  <2>1. /\ Aligned(SubSeq(s, 1, k)) /\ Aligned(SubSeq(s, k + 1, g)) /\ Aligned(SubSeq(s, 1, g))
        /\ StepsOf(SubSeq(s, 1, g)) = StepsOf(SubSeq(s, 1, k)) \o StepsOf(SubSeq(s, k + 1, g))
    BY <1>3, SplitList
  <2> QED BY <1>3, <2>1
<1>5. Aligned(u) /\ U = T \o d
  <2>1. StepsOf(SubSeq(s, 1, e + Width(s, e) - 1)) = StepsOf(SubSeq(s, 1, e - 1)) \o <<StepFrom(s, e)>>
    BY OneStepMore
  <2>2. Aligned(SubSeq(s, 1, e + Width(s, e) - 1))
    BY OneStepMore
  <2> QED BY <1>2, <2>1, <2>2
<1>6. Aligned(z) /\ S = U \o Z
  <2> DEFINE n == Len(s)
  <2>1. SubSeq(s, 1, n) = s
    BY <1>1, SubSeqFull
  <2>2. Boundary(s, e) /\ Boundary(s, n) /\ e <= n
    BY <1>1, <1>3
  <2> HIDE DEF n
  <2>3. /\ Aligned(SubSeq(s, 1, e)) /\ Aligned(SubSeq(s, e + 1, n))
        /\ StepsOf(SubSeq(s, 1, n)) = StepsOf(SubSeq(s, 1, e)) \o StepsOf(SubSeq(s, e + 1, n))
    BY <2>2, SplitList
  <2> QED BY <2>1, <2>3, Zenon DEF n
<1>7. i = Len(X) + 1 /\ j = Len(T) + 1
  <2>1. StepCount(s, b) = Len(StepsOf(SubSeq(s, 1, b - 1))) + 1
    BY CursorAt
  <2>2. StepCount(s, e) = Len(StepsOf(SubSeq(s, 1, e - 1))) + 1
    BY CursorAt
  <2> QED BY <2>1, <2>2
<1>8. S[j] = <<END>> /\ d = <<<<END>>>>
  <2>1. StepFrom(s, e) = <<END>>
    BY EndShows
  <2>2. StepsOf(s)[StepCount(s, e)] = StepFrom(s, e)
    BY <1>1, CursorShows
  <2> QED BY <2>1, <2>2
<1>9. Len(x) = k
  <2>1. 1 \in Nat /\ 1 > 0 /\ 1 - 1 = 0
    OBVIOUS
  <2>2. Boundary(s, 1 - 1)
    BY <1>1, <2>1
  <2>3. Len(x) = (IF 1 <= k THEN k - 1 + 1 ELSE 0)
    BY <1>3, <2>1, <2>2, Segment
  <2> HIDE DEF x, k
  <2> QED BY <1>3, <2>3
<1>10. /\ X \in Seq(Seq(Words)) /\ Y \in Seq(Seq(Words)) /\ Z \in Seq(Seq(Words))
       /\ T \in Seq(Seq(Words)) /\ U \in Seq(Seq(Words))
       /\ Len(X) \in Nat /\ Len(Y) \in Nat /\ Len(Z) \in Nat
  BY <1>4, <1>5, <1>6, ListBegins
<1>11. \A l \in 1 .. Len(Y) : Y[l] # <<END>>
  <2> SUFFICES ASSUME NEW l \in 1 .. Len(Y), Y[l] = <<END>> PROVE FALSE
    OBVIOUS
  <2>1. Start(y, 1) /\ Y = Listed(y)[1]
    BY <1>4, ListBegins
  <2>2. \E q : IsStep(y, q) /\ 1 <= q /\ Listed(y)[1][l] = StepFrom(y, q)
    BY <1>4, <2>1, ListIs
  <2>3. PICK q : IsStep(y, q) /\ Y[l] = StepFrom(y, q)
    BY <2>1, <2>2
  <2>4. y[q] = END
    BY <1>4, <2>3, EndShows
  <2>5. /\ b \in Nat /\ b > 0 /\ Boundary(s, b - 1)
    BY <1>1, <1>3
  <2>6. Len(y) = (IF b <= g THEN g - b + 1 ELSE 0)
    BY <1>3, <2>5, Segment
  <2>7. \A o \in 1 .. Len(y) : y[o] = s[b + o - 1]
    BY <1>3, <2>5, Segment
  <2>8. q \in 1 .. Len(y) /\ (q = 1 \/ ~ isDBL(y[q - 1]))
    BY <2>3 DEF IsStep
  <2> DEFINE h == b + q - 1
  <2>9. h \in b .. g /\ q \in Nat /\ (q # 1 => q - 1 \in 1 .. Len(y) /\ b + (q - 1) - 1 = h - 1)
        /\ (q = 1 => h = b)
    <3> HIDE DEF y
    <3> QED BY <1>3, <2>5, <2>6, <2>8
  <2>10. s[h] = END
    BY <2>4, <2>7, <2>8
  <2>11. IsStep(s, h)
    <3>1. CASE q = 1
      BY <2>9, <3>1
    <3>2. CASE q # 1
      <4>1. y[q - 1] = s[h - 1]
        BY <2>7, <2>9, <3>2
      <4>2. ~ isDBL(s[h - 1])
        BY <2>8, <3>2, <4>1
      <4>3. h \in 1 .. Len(s)
        BY <1>1, <1>3, <2>9
      <4> QED BY <4>2, <4>3 DEF IsStep
    <3> QED BY <3>1, <3>2
  <2> HIDE DEF h, g
  <2> QED BY <2>9, <2>10, <2>11 DEF g
<1>12. StepsOf(x \o z) = X \o Z
  BY <1>4, <1>6, ListConcat
<1> HIDE DEF x, y, z, t, u, i, j, S, X, Y, Z, T, U, d, k, g
<1>13. d \in Seq(Seq(Words)) /\ Len(d) = 1
  <2>1. <<END>> \in Seq(Words)
    BY LoneEnd
  <2> QED BY <1>8, <2>1
<1>14. PartsOf(X, Y, T) /\ PartsOf(T, d, U) /\ PartsOf(U, Z, S)
  BY <1>4, <1>5, <1>6, <1>10, <1>13, StepParts
<1> DEFINE D == Y \o d
           E == D \o Z
<1>15. D \in Seq(Seq(Words)) /\ Len(D) = Len(Y) + 1
  <2>1. D \in Seq(Seq(Words)) /\ PartsOf(Y, d, D)
    BY <1>10, <1>13, StepParts
  <2> HIDE DEF D
  <2> QED BY <1>13, <2>1 DEF PartsOf
<1>16. U = X \o D
  <2>1. Associate(X, Y, d)
    BY <1>10, <1>13, StepsAssociate
  <2> QED BY <1>4, <1>5, <2>1, Zenon DEF Associate
<1> HIDE DEF D
<1>17. E \in Seq(Seq(Words)) /\ S = X \o E
  <2>1. S = X \o E
    <3>1. X \o D \o Z = X \o (D \o Z)
      <4>1. Associate(X, D, Z)
        BY <1>10, <1>15, StepsAssociate
      <4> QED BY <4>1, Zenon DEF Associate
    <3> QED BY <1>6, <1>16, <3>1, Zenon
  <2>2. E \in Seq(Seq(Words))
    BY <1>10, <1>15, StepParts
  <2> QED BY <2>1, <2>2
<1> HIDE DEF E
<1>18. PartsOf(X, E, S)
  BY <1>10, <1>17, StepParts
<1>19. /\ Len(T) = Len(X) + Len(Y) /\ Len(U) = Len(T) + 1 /\ Len(S) = Len(U) + Len(Z)
       /\ SubSeq(S, 1, Len(X)) = X /\ SubSeq(S, Len(U) + 1, Len(U) + Len(Z)) = Z
  BY <1>10, <1>13, <1>14, <1>18 DEF PartsOf
<1>20. \A l \in i .. j - 1 : S[l] # <<END>>
  <2> TAKE l \in i .. j - 1
  <2>1. /\ l \in 1 .. Len(U) + Len(Z) /\ l <= Len(U) /\ l \in 1 .. Len(T) + Len(d)
        /\ l <= Len(T) /\ l \in 1 .. Len(X) + Len(Y) /\ ~ (l <= Len(X))
        /\ l - Len(X) \in 1 .. Len(Y)
    <3> DEFINE nX == Len(X)
               nY == Len(Y)
               nZ == Len(Z)
               nT == Len(T)
               nU == Len(U)
    <3>1. /\ nX \in Nat /\ nY \in Nat /\ nZ \in Nat /\ nT = nX + nY /\ nU = nT + 1
          /\ Len(d) = 1 /\ l \in nX + 1 .. (nT + 1) - 1
      BY <1>7, <1>10, <1>13, <1>19
    <3> HIDE DEF nX, nY, nZ, nT, nU
    <3>2. /\ l \in 1 .. nU + nZ /\ l <= nU /\ l \in 1 .. nT + Len(d)
          /\ l <= nT /\ l \in 1 .. nX + nY /\ ~ (l <= nX)
          /\ l - nX \in 1 .. nY
      BY <3>1
    <3> QED BY <3>2 DEF nX, nY, nZ, nT, nU
  <2>2. S[l] = U[l]
    BY <1>14, <2>1 DEF PartsOf
  <2>3. U[l] = T[l]
    BY <1>14, <2>1 DEF PartsOf
  <2>4. T[l] = Y[l - Len(X)]
    BY <1>14, <2>1 DEF PartsOf
  <2> QED BY <1>11, <2>1, <2>2, <2>3, <2>4
<1>21. i - 1 = Len(X) /\ j + 1 = Len(U) + 1 /\ Len(S) = Len(U) + Len(Z)
  BY <1>7, <1>10, <1>19
<1>22. SubSeq(S, 1, i - 1) = X /\ SubSeq(S, j + 1, Len(S)) = Z
  BY <1>19, <1>21
<1>23. i \in 1 .. j /\ j \in 1 .. Len(S) /\ Len(S) \in Nat
  BY <1>7, <1>10, <1>19
<1>24. StepsOf(x \o z) = SubSeq(S, 1, i - 1) \o SubSeq(S, j + 1, Len(S))
  BY <1>12, <1>22
<1> QED BY <1>4, <1>6, <1>7, <1>8, <1>9, <1>20, <1>22, <1>23, <1>24 DEF Removed, x, z, i, j, S, X, Z, k

\* The first words of words.
LEMMA PrefixIs ==
    ASSUME NEW s, Aligned(s), NEW p \in Nat, Boundary(s, p), NEW x, x = SubSeq(s, 1, p)
    PROVE  \A q \in 1 .. p : x[q] = s[q]
<1>1. 1 \in Nat /\ 1 > 0 /\ Boundary(s, 1 - 1)
  BY LenProperties DEF Boundary, Aligned
<1>2. Len(x) = (IF 1 <= p THEN p - 1 + 1 ELSE 0)
  BY <1>1, Segment
<1>3. \A q \in 1 .. Len(x) : x[q] = s[1 + q - 1]
  BY <1>1, Segment
<1>4. Len(x) = p /\ \A q \in 1 .. p : 1 + q - 1 = q
  BY <1>2
<1> QED BY <1>3, <1>4

LEMMA CountsGrow ==
    ASSUME NEW s, NEW p \in Nat, NEW q \in Nat, p <= q
    PROVE  StepCount(s, p) <= StepCount(s, q)
<1> DEFINE A == {o \in 1 .. p : IsStep(s, o)}
           B == {o \in 1 .. q : IsStep(s, o)}
           I == 1 .. q
<1>1. A \subseteq B /\ B \subseteq I
  OBVIOUS
<1>2. IsFiniteSet(I)
  BY FS_Interval
<1> HIDE DEF A, B, I
<1>3. IsFiniteSet(B)
  BY <1>1, <1>2, FS_Subset
<1>4. Cardinality(A) <= Cardinality(B)
  BY <1>1, <1>3, FS_Subset
<1> QED BY <1>4 DEF StepCount, A, B

\* An END in RAM, as a word and as a step.
LEMMA EndIs ==
    ASSUME NEW m, Readable(m), NEW p \in Nat, isRAM(p)
    PROVE  /\ Ending(m, p) <=> IsStep(m.ram, p) /\ m.ram[p] = END
           /\ InStep(m, p) <=> IsStep(m.ram, p)
<1> DEFINE s == m.ram
<1>1. Region(m, p) = s /\ offset(p) = p
  BY DEF Region, offset
<1>2. ASSUME IsStep(s, p) PROVE getprog(m, p) = <<END>> <=> s[p] = END
  <2>1. p \in 1 .. Len(s)
    BY <1>2 DEF IsStep
  <2>2. getprog(m, p) = IF isDBL(s[p]) THEN SubSeq(s, p, p + 1) ELSE <<s[p]>>
    BY <1>1, <2>1 DEF getprog
  <2>3. Len(getprog(m, p)) = IF isDBL(s[p]) THEN 2 ELSE 1
    BY <1>2, RamStep
  <2>4. CASE isDBL(s[p])
    <3>1. Len(<<END>>) = 1
      BY LoneEnd
    <3>2. getprog(m, p) # <<END>>
      BY <2>3, <2>4, <3>1
    <3> QED BY <2>4, <3>2, KindsOfWords
  <2>5. CASE ~ isDBL(s[p])
    BY <2>2, <2>5
  <2> QED BY <2>4, <2>5
<1> QED BY <1>1, <1>2 DEF Ending, InStep

\* set_pc at a step, or at the place before the first one.
LEMMA SanePlace ==
    ASSUME NEW m, Readable(m), NEW w \in [pc : Nat, begin : Nat, end : Nat],
           NEW p \in Nat, p = 0 \/ IsStep(m.ram, p), isRAM(p)
    PROVE  set_pc(m, w, p).pc = (IF p = 0 /\ m.runmode = 1 THEN 1 ELSE p)
<1>1. Sane(m, p) = p
  <2>1. CASE p = 0
    <3>1. ~ (0 > Len(m.ram)) /\ ~ (0 > 1)
      BY LenProperties DEF Readable
    <3> QED BY <2>1, <3>1 DEF Sane, StepOf
  <2>2. CASE p # 0
    <3>1. IsStep(m.ram, p) /\ Len(m.ram) \in Nat
      BY <2>2, LenProperties DEF Readable
    <3>2. p \in 1 .. Len(m.ram) /\ ~ (p > Len(m.ram)) /\ (p = 1 \/ ~ isDBL(m.ram[p - 1]))
      BY <3>1 DEF IsStep
    <3>3. p > 1 => ~ isDBL(getprog(m, p - 1)[1])
      <4> SUFFICES ASSUME p > 1 PROVE ~ isDBL(getprog(m, p - 1)[1])
        OBVIOUS
      <4>1. p - 1 \in 1 .. Len(m.ram) /\ p - 1 \in Nat /\ isRAM(p - 1)
        BY <3>2, SizesAre DEF isRAM
      <4>2. Region(m, p - 1) = m.ram /\ offset(p - 1) = p - 1
        BY <4>1 DEF Region, offset
      <4>3. getprog(m, p - 1) = <<m.ram[p - 1]>>
        BY <3>2, <4>1, <4>2 DEF getprog
      <4> QED BY <3>2, <4>3
    <3>4. StepOf(m, 1, p) = p
      BY <3>2, <3>3 DEF StepOf
    <3> QED BY <3>2, <3>4 DEF Sane
  <2> QED BY <2>1, <2>2
<1> DEFINE h == IF p = 0 /\ m.runmode = 1 THEN 1 ELSE p
<1>2. set_pc(m, w, p).pc = h
  <2>1. set_pc(m, w, p) = IF h \in w.begin .. w.end THEN [w EXCEPT !.pc = h] ELSE Bounds(m, h)
    BY <1>1 DEF set_pc, raw_set_pc
  <2>2. [w EXCEPT !.pc = h].pc = h
    OBVIOUS
  <2>3. Bounds(m, h).pc = h
    BY DEF Bounds
  <2> QED BY <2>1, <2>2, <2>3
<1> QED BY <1>2

\* Where clrprog comes to: the last step before the program, or the beginning.
LEMMA BeforeIs ==
    ASSUME NEW m, Readable(m), NEW w \in [pc : Nat, begin : Nat, end : Nat],
           NEW p \in Nat, p = 0 \/ Ending(m, p), isRAM(p)
    PROVE  Bounds(m, set_pc(m, w, p).pc).pc = (IF p = 0 /\ m.runmode = 1 THEN 1 ELSE p)
<1> DEFINE h == IF p = 0 /\ m.runmode = 1 THEN 1 ELSE p
<1>1. p = 0 \/ IsStep(m.ram, p)
  BY EndIs
<1>2. set_pc(m, w, p).pc = h
  BY <1>1, SanePlace
<1>3. Bounds(m, h).pc = h
  BY DEF Bounds
<1> QED BY <1>2, <1>3

\* clrprog removes the program around the cursor, or changes nothing in RAM.
LEMMA RemovalShown ==
    ASSUME IInv, IInv', clrprog, ~ BeforeLibrary
    PROVE  L!Move \/ L!RemoveProgram
<1> DEFINE w   == Bounds(M, at.pc)
           inLib == ~ isRAM(w.begin)
           m   == IF inLib THEN [M EXCEPT !.lib = ClearedLib(w)]
                  ELSE [M EXCEPT !.ram = ClearedRam(w)]
           b   == w.begin
           e   == w.end
           S   == StepsOf(ram)
<1>1. Readable(M) /\ Located(M, at)
  BY DEF IInv
<1>2. /\ M.ram = ram /\ M.lib = lib /\ M.runmode = runmode /\ runmode \in {0, 1}
      /\ ram \in Seq(Words) /\ Whole(ram) /\ Len(ram) \in Nat /\ Len(ram) <= NUMPROG_LIMIT
      /\ Len(ram) > 0 /\ Aligned(ram) /\ ProgSize = Len(ram)
  BY <1>1, RamIs DEF ProgSize
<1>3. at.pc \in Nat /\ Place(M, at.pc)
  BY <1>1 DEF Located
<1>4. /\ offset(w.end) <= Len(Region(M, w.begin)) /\ (inLib => lib # << >>)
      /\ IF inLib \/ Deletable(w.begin)
         THEN ram' = m.ram /\ at' = Bounds(m, set_pc(m, w, w.begin - 1).pc)
         ELSE ram' = ram
  BY Zenon DEF clrprog
<1>5. /\ w \in [pc : Nat, begin : Nat, end : Nat]
      /\ at.pc # 0 => w.pc = at.pc /\ Delimited(M, w)
      /\ at.pc = 0 => w.begin = 1 /\ w.end = 0
  <2>1. /\ at.pc = 0 /\ runmode = 0 => w = [pc |-> 0, begin |-> 1, end |-> 0]
        /\ at.pc # 0 \/ runmode = 1 => Delimited(M, w)
        /\ w \in [pc : Nat, begin : Nat, end : Nat]
        /\ w.pc = (IF at.pc = 0 /\ runmode = 1 THEN 1 ELSE at.pc)
    BY <1>1, <1>2, <1>3, BoundsIs
  <2>2. at.pc = 0 => runmode = 0
    BY <1>1, <1>2, <1>3, Heads DEF Place
  <2> HIDE DEF w
  <2> QED BY <2>1, <2>2
<1> HIDE DEF w
<1>6. CASE ~ (inLib \/ Deletable(w.begin))
  BY <1>4, <1>6, MoveShown
<1>7. CASE inLib
  <2>1. m = [M EXCEPT !.lib = ClearedLib(w)]
    BY <1>7
  <2>2. m.ram = ram
    BY <2>1 DEF M
  <2> HIDE DEF m, inLib
  <2>3. ram' = ram
    BY <1>4, <1>7, <2>2
  <2> QED BY <2>3, MoveShown
<1>8. CASE ~ inLib /\ Deletable(w.begin)
  <2>1. m = [M EXCEPT !.ram = ClearedRam(w)] /\ isRAM(b)
    BY <1>8
  <2>2. m.ram = ClearedRam(w) /\ m.runmode = runmode
    BY <2>1 DEF M
  <2> HIDE DEF m, inLib
  <2>3. ram' = ClearedRam(w) /\ at' = Bounds(m, set_pc(m, w, b - 1).pc)
    BY <1>4, <1>8, <2>2
  <2>4. CASE at.pc = 0
    <3>1. SubSeq(ram, 1, 1 - 1) = << >>
      BY <1>2, SubSeqEmpty
    <3>2. SubSeq(ram, 0 + 1, Len(ram)) = ram
      BY <1>2, SubSeqFull
    <3>3. << >> \o ram = ram
      BY <1>2, ConcatEmptySeq
    <3>4. Cut(ram, 1, 0) = ram
      BY <3>1, <3>2, <3>3 DEF Cut
    <3>5. ram # << >>
      BY <1>2, EmptySeq
    <3>6. ClearedRam(w) = ram
      BY <1>5, <2>4, <3>4, <3>5 DEF ClearedRam
    <3> QED BY <2>3, <3>6, MoveShown
  <2>5. CASE at.pc # 0
    <3>1. w.pc = at.pc /\ Delimited(M, w)
      BY <1>5, <2>5
    <3>2. ~ AtHead(M, w.pc)
      <4> SUFFICES ASSUME AtHead(M, w.pc) PROVE FALSE
        OBVIOUS
      <4>1. b = w.pc
        BY <3>1 DEF Delimited
      <4> QED BY <1>1, <2>1, <4>1, Heads
    <3>3. /\ BeginsProgram(M, w.pc, b) /\ EndsProgram(M, w.pc, e)
          /\ b \in Nat /\ e \in Nat /\ at.pc \in Nat /\ b <= at.pc /\ at.pc <= e
      <4>1. BeginsProgram(M, w.pc, b) /\ EndsProgram(M, w.pc, e)
        BY <3>1, <3>2, Zenon DEF Delimited
      <4> QED BY <1>3, <3>1, <4>1 DEF BeginsProgram, EndsProgram
    <3>4. Origin(b) = 0 /\ Origin(at.pc) = 0 /\ Origin(e) = 0
      <4>1. Origin(b) = 0
        BY <2>1 DEF Origin
      <4> QED BY <3>1, <3>3, <4>1 DEF BeginsProgram, EndsProgram
    <3>5. \A x \in Nat : x <= e => isRAM(x)
      <4>1. isRAM(e)
        BY <3>4, SizesAre DEF Origin
      <4> QED BY <3>3, <4>1, SizesAre DEF isRAM
    <3>6. b > 0 /\ isRAM(b) /\ isRAM(e) /\ isRAM(at.pc) /\ IsStep(ram, b)
      <4>1. InStep(M, b) /\ isRAM(b) /\ isRAM(e) /\ isRAM(at.pc)
        BY <3>3, <3>5 DEF BeginsProgram
      <4>2. b # 0
        BY <1>1, <4>1, Heads
      <4> QED BY <1>1, <1>2, <3>3, <4>1, <4>2, EndIs
    <3>7. IsStep(ram, e) /\ ram[e] = END
      <4>1. Ending(M, e)
        BY <3>3 DEF EndsProgram
      <4> QED BY <1>1, <1>2, <3>3, <3>6, <4>1, EndIs
    <3>8. b = 1 \/ (IsStep(ram, b - 1) /\ ram[b - 1] = END)
      <4>1. b = 1 \/ Ending(M, b - 1)
        BY <3>3, <3>4 DEF BeginsProgram
      <4>2. b - 1 \in Nat /\ isRAM(b - 1)
        BY <3>3, <3>5, <3>6
      <4> QED BY <1>1, <1>2, <4>1, <4>2, EndIs
    <3>9. \A q \in b .. e - 1 : ~ (IsStep(ram, q) /\ ram[q] = END)
      <4> TAKE q \in b .. e - 1
      <4>1. q \in Nat /\ isRAM(q) /\ (q \in b .. w.pc - 1 \/ q \in w.pc .. e - 1)
        BY <3>1, <3>3, <3>5
      <4>2. ~ Ending(M, q)
        BY <3>3, <4>1 DEF BeginsProgram, EndsProgram
      <4> QED BY <1>1, <1>2, <4>1, <4>2, EndIs
    <3> DEFINE x == SubSeq(ram, 1, b - 1)
               z == SubSeq(ram, e + 1, Len(ram))
               i == StepCount(ram, b)
               j == StepCount(ram, e)
               rest == SubSeq(S, 1, i - 1) \o SubSeq(S, j + 1, Len(S))
               r == x \o z
               t == IF r = << >> THEN <<END>> ELSE r
    <3>10. /\ i \in 1 .. j /\ j \in 1 .. Len(S) /\ Len(S) \in Nat
           /\ S[j] = <<END>> /\ \A l \in i .. j - 1 : S[l] # <<END>>
           /\ StepsOf(r) = rest
           /\ i = Len(StepsOf(x)) + 1 /\ Aligned(x) /\ Aligned(z) /\ Len(x) = b - 1
           /\ SubSeq(S, 1, i - 1) = StepsOf(x)
      <4>1. b <= e
        BY <3>3
      <4> HIDE DEF b, e
      <4>2. Removed(ram, b, e)
        BY <1>2, <3>6, <3>7, <3>9, <4>1, RemovedSteps
      <4> QED BY <4>2, Zenon DEF Removed
    <3>11. ram' = t
      BY <2>3 DEF ClearedRam, Cut
    <3>12. Aligned(r)
      BY <3>10, ListConcat
    <3> HIDE DEF x, z, i, j, rest, S
    <3>13. StepsOf(t) = IF rest = << >> THEN <<<<END>>>> ELSE rest
      <4>1. CASE r = << >>
        <5>1. rest = << >>
          BY <3>10, <4>1, ListSingle
        <5> QED BY <4>1, <5>1, ListSingle
      <4>2. CASE r # << >>
        <5>1. Len(r) > 0
          <6>1. r \in Seq(Words)
            BY <3>12 DEF Aligned
          <6> HIDE DEF r
          <6> QED BY <4>2, <6>1, EmptySeq, LenProperties
        <5>2. Len(StepsOf(r)) > 0
          BY <3>12, <5>1, ListNonempty
        <5>3. rest # << >>
          <6>1. Len(<< >>) = 0
            OBVIOUS
          <6> QED BY <3>10, <5>2, <6>1
        <5>4. t = r
          BY <4>2
        <5> HIDE DEF t, r
        <5> QED BY <3>10, <5>3, <5>4
      <4> QED BY <4>1, <4>2
    <3>14. StepsOf(ram)' = IF rest = << >> THEN <<<<END>>>> ELSE rest
      <4>1. StepsOf(ram)' = StepsOf(ram')
        BY DEF StepsOf, isDBL
      <4> QED BY <3>11, <3>13, <4>1
    <3>15. Cursor = StepCount(ram, at.pc)
      BY <3>6, CursorIs DEF CursorOf
    <3>16. i \in 1 .. Cursor /\ j \in Cursor .. Len(S)
      <4>1. i <= Cursor /\ Cursor <= j
        BY <3>3, <3>15, CountsGrow DEF i, j
      <4>2. Cursor \in Nat
        <5>1. Cursor \in 0 .. Len(S)
          <6>1. at.pc = 0 \/ IsStep(ram, at.pc)
            BY <3>6, Listable
          <6> QED BY <1>2, <3>15, <6>1, CursorShows DEF S
        <5> QED BY <5>1
      <4> QED BY <3>10, <4>1, <4>2
    <3>17. i = 1 \/ S[i - 1] = <<END>>
      <4>1. CASE b = 1
        <5>1. x = << >>
          BY <1>2, <4>1, SubSeqEmpty DEF x
        <5>2. Len(StepsOf(<< >>)) = 0
          BY ListSingle
        <5> QED BY <3>10, <5>1, <5>2
      <4>2. CASE b # 1
        <5>1. IsStep(ram, b - 1) /\ ram[b - 1] = END
          BY <3>8, <4>2
        <5>2. b - 1 # 0
          BY <3>3, <4>2
        <5>3. S[StepCount(ram, b - 1)] = StepFrom(ram, b - 1)
          BY <1>2, <5>1, <5>2, CursorShows DEF S
        <5>4. StepCount(ram, b - 1) = i - 1
          <6>1. StepCount(ram, b - 1) = Len(StepsOf(SubSeq(ram, 1, b - 1)))
            BY <1>2, <3>6, CursorAt
          <6>2. Len(StepsOf(x)) \in Nat
            BY <3>10, ListBegins
          <6> QED BY <3>10, <6>1, <6>2 DEF x
        <5>5. StepFrom(ram, b - 1) = <<END>>
          BY <1>2, <5>1, EndShows
        <5> QED BY <5>3, <5>4, <5>5
      <4> QED BY <4>1, <4>2
    <3>18. Cursor' \in (IF i = 1 THEN {0, 1} ELSE {i - 1})
      <4>1. M'.ram = ram' /\ Readable(M')
        BY DEF M, IInv
      <4>2. ram' \in Seq(Words) /\ Whole(ram') /\ Len(ram') <= NUMPROG_LIMIT /\ Aligned(ram')
            /\ Len(ram') \in Nat
        BY <4>1, Listable DEF Readable
      <4>3. m = [M EXCEPT !.ram = ram']
        BY <2>1, <2>3
      <4>4. Readable(m) /\ m.ram = ram'
        BY <1>1, <4>2, <4>3, NewRam
      <4> DEFINE p == b - 1
      <4>5. p \in Nat /\ isRAM(p) /\ (p = 0 <=> b = 1)
        BY <3>3, <3>5, <3>6
      <4>6. CASE b = 1
        <5>1. p = 0
          BY <4>6
        <5>2. Bounds(m, set_pc(m, w, p).pc).pc = (IF p = 0 /\ m.runmode = 1 THEN 1 ELSE p)
          <6> HIDE DEF p
          <6> QED BY <1>5, <4>4, <4>5, <5>1, BeforeIs
        <5>3. at'.pc \in {0, 1}
          BY <2>3, <5>1, <5>2
        <5>4. x = << >> /\ Len(StepsOf(<< >>)) = 0
          BY <1>2, <4>6, SubSeqEmpty, ListSingle DEF x
        <5>5. i = 1
          BY <3>10, <5>4
        <5>6. StepCount(ram', 0) = 0
          BY <4>2, CursorShows
        <5>7. StepCount(ram', 1) = 1
          <6>1. IsStep(ram', 1)
            BY <4>2, WholeAligned DEF IsStep
          <6>2. StepCount(ram', 1) = Len(StepsOf(SubSeq(ram', 1, 1 - 1))) + 1
            BY <4>2, <6>1, CursorAt
          <6>3. SubSeq(ram', 1, 1 - 1) = << >>
            BY <4>2, SubSeqEmpty
          <6>4. 1 - 1 = 0
            OBVIOUS
          <6>5. StepCount(ram', 1) = Len(StepsOf(<< >>)) + 1
            BY <6>2, <6>3, Zenon
          <6> HIDE DEF x
          <6> DEFINE c == Len(StepsOf(<< >>))
          <6>6. c = 0
            BY <5>4
          <6> HIDE DEF c
          <6> QED BY <6>5, <6>6 DEF c
        <5>8. Cursor' = StepCount(ram', at'.pc)
          BY <5>3, CursorIs, SizesAre DEF CursorOf, isRAM
        <5> QED BY <5>3, <5>5, <5>6, <5>7, <5>8
      <4>7. CASE b # 1
        <5>0. IsStep(ram, p) /\ ram[p] = END
          BY <3>8, <4>7
        <5>1. IsStep(ram, p) /\ ram[p] = END /\ p > 0 /\ p \in Nat
          <6> HIDE DEF p
          <6> QED BY <4>5, <4>7, <5>0
        <5>2. x \in Seq(Words) /\ z \in Seq(Words) /\ Len(x) = p /\ x = SubSeq(ram, 1, p)
          BY <3>10 DEF Aligned, x
        <5> HIDE DEF p
        <5>3. PartsOf(x, z, r) /\ r \in Seq(Words)
          BY <5>2, WordParts
        <5>4. \A q \in 1 .. p : x[q] = ram[q]
          <6>2. Boundary(ram, p)
            <7>1. p \in 0 .. Len(ram)
              BY <5>1, <1>2 DEF IsStep
            <7> QED BY <5>1, <7>1, KindsOfWords DEF Boundary
          <6> QED BY <1>2, <5>2, <6>2, PrefixIs
        <5> HIDE DEF r
        <5>5. Len(r) \in Nat /\ Len(r) >= p /\ SubSeq(r, 1, p) = x
              /\ \A q \in 1 .. p : r[q] = ram[q]
          <6> DEFINE n == Len(z)
          <6>1. /\ n \in Nat /\ Len(r) = p + n /\ SubSeq(r, 1, p) = x
                /\ \A q \in 1 .. p + n : r[q] = IF q <= p THEN x[q] ELSE z[q - p]
            BY <5>2, <5>3, Zenon DEF PartsOf
          <6> HIDE DEF n
          <6>2. Len(r) \in Nat /\ Len(r) >= p
            BY <4>5, <6>1
          <6>3. \A q \in 1 .. p : r[q] = ram[q]
            <7> TAKE q \in 1 .. p
            <7>1. q \in 1 .. p + n /\ q <= p
              BY <4>5, <6>1
            <7> QED BY <5>4, <6>1, <7>1
          <6> QED BY <6>1, <6>2, <6>3
        <5>6. ram' = r
          <6>1. r # << >>
            <7>1. Len(r) > 0 /\ Len(<< >>) = 0
              BY <5>1, <5>5
            <7> QED BY <7>1
          <6> QED BY <3>11, <6>1
        <5>7. IsStep(ram', p) /\ ram'[p] = END
          <6>1. p \in 1 .. Len(r) /\ p \in 1 .. p /\ (p # 1 => p - 1 \in 1 .. p)
            BY <4>5, <5>1, <5>5
          <6>2. r[p] = ram[p] /\ (p # 1 => r[p - 1] = ram[p - 1])
            BY <5>5, <6>1
          <6> QED BY <5>1, <5>6, <6>1, <6>2 DEF IsStep
        <5>8. Ending(m, p)
          BY <4>4, <4>5, <5>7, EndIs
        <5>9. at'.pc = p
          <6>1. Bounds(m, set_pc(m, w, p).pc).pc = (IF p = 0 /\ m.runmode = 1 THEN 1 ELSE p)
            BY <1>5, <4>4, <4>5, <5>8, BeforeIs
          <6> QED BY <2>3, <5>1, <6>1 DEF p
        <5>10. StepCount(ram', p) = Len(StepsOf(SubSeq(ram', 1, p)))
          <6>1. Boundary(ram', p)
            <7>1. p \in 0 .. Len(ram')
              BY <4>2, <5>7 DEF IsStep
            <7> QED BY <5>7, <7>1, KindsOfWords DEF Boundary
          <6> QED BY <4>2, <6>1, CountIs
        <5>11. Cursor' = StepCount(ram', p)
          BY <4>5, <5>9, CursorIs DEF CursorOf
        <5>12. Cursor' = Len(StepsOf(x))
          BY <5>5, <5>6, <5>10, <5>11
        <5>13. Len(StepsOf(x)) \in Nat /\ Len(StepsOf(x)) > 0
          BY <3>10, <5>1, <5>2, ListBegins, ListNonempty
        <5> QED BY <3>10, <5>12, <5>13
      <4> QED BY <4>6, <4>7
    <3> QED BY <3>10, <3>14, <3>16, <3>17, <3>18, Zenon DEF L!RemoveProgram, S, rest
  <2> QED BY <2>4, <2>5
<1> QED BY <1>6, <1>7, <1>8

-----------------------------------------------------------------------------
(* Programs appended *)

\* The last step of a listing is an END.
LEMMA ListEnds ==
    ASSUME NEW s, Aligned(s), Whole(s)
    PROVE  L!Ends(StepsOf(s))
<1> DEFINE n == Len(s)
           S == StepsOf(s)
           k == Len(S)
<1>1. n \in Nat /\ s[n] = END /\ IsStep(s, n) /\ S \in Seq(Seq(Words)) /\ n > 0 /\ k \in Nat
  BY WholeAligned, ListBegins DEF Aligned
<1>2. Width(s, n) = 1 /\ n + 1 - 1 = n
  BY <1>1, KindsOfWords DEF Width
<1>3. SubSeq(s, 1, n) = s
  BY SubSeqFull DEF Aligned
<1>4. StepCount(s, n) = k
  <2>1. StepCount(s, n) = Len(StepsOf(SubSeq(s, 1, n + Width(s, n) - 1)))
    BY <1>1, CursorAt
  <2> QED BY <1>2, <1>3, <2>1
<1>5. S[k] = <<END>>
  <2>1. S[StepCount(s, n)] = StepFrom(s, n)
    BY <1>1, CursorShows
  <2>2. StepFrom(s, n) = <<END>>
    BY <1>1, EndShows
  <2> QED BY <1>4, <2>1, <2>2
<1>6. k > 0
  BY <1>1, ListNonempty
<1> HIDE DEF S
<1>7. S # << >>
  BY <1>6
<1>8. L!Last(S) = S[Len(S)]
  BY Zenon DEF L!Last
<1> QED BY <1>5, <1>7, <1>8, Zenon DEF L!Ends, S

\* Programs put behind those kept.
LEMMA AppendShown ==
    ASSUME IInv, IInv', NEW k, k = << >> \/ k = ram, NEW p \in Seq(Words), Whole(p),
           ram' = k \o p, at'.pc = Len(k) + 1
    PROVE  L!AppendPrograms
<1> DEFINE n == Len(k)
           K == StepsOf(k)
           P == StepsOf(p)
           R == StepsOf(ram')
<1>1. Aligned(k) /\ Aligned(p) /\ k \in Seq(Words) /\ n \in Nat /\ Len(p) \in Nat /\ Len(p) > 0
  <2>1. Aligned(k)
    BY EmptyAligned, Listable
  <2> QED BY <2>1, WholeAligned, LenProperties DEF Aligned
<1>2. Aligned(ram') /\ R = K \o P
  BY <1>1, ListConcat
<1>3. K \in Seq(Seq(Words)) /\ P \in Seq(Seq(Words)) /\ Len(K) \in Nat /\ Len(P) \in Nat
      /\ Len(P) > 0
  BY <1>1, ListBegins, ListNonempty
<1>4. PartsOf(k, p, ram')
  BY <1>1, WordParts
<1>5. PartsOf(K, P, R)
  <2> HIDE DEF K, P, R
  <2> QED BY <1>2, <1>3, StepParts
<1>6. M'.ram = ram' /\ Readable(M')
  BY DEF M, IInv
<1>7. Whole(ram') /\ Len(ram') <= NUMPROG_LIMIT
  BY <1>6 DEF Readable
<1>8. /\ Len(ram') = n + Len(p) /\ SubSeq(ram', 1, n) = k
      /\ \A i \in 1 .. n : ram'[i] = k[i]
  <2> DEFINE g == Len(p)
  <2>1. /\ Len(ram') = n + g /\ SubSeq(ram', 1, n) = k
        /\ \A i \in 1 .. n + g : ram'[i] = IF i <= n THEN k[i] ELSE p[i - n]
    BY <1>4, Zenon DEF PartsOf
  <2> HIDE DEF g, n
  <2>2. ASSUME NEW i \in 1 .. n PROVE ram'[i] = k[i]
    <3>1. i \in 1 .. n + g /\ i <= n
      BY <1>1 DEF g
    <3> QED BY <2>1, <3>1
  <2> QED BY <2>1, <2>2 DEF g
<1> HIDE DEF n, K, P, R
<1>9. IsStep(ram', n + 1) /\ n + 1 \in Nat /\ isRAM(n + 1)
  <2>1. n + 1 \in 1 .. Len(ram') /\ n + 1 \in Nat /\ (n + 1 = 1 \/ n > 0) /\ (n + 1) - 1 = n
    BY <1>1, <1>8
  <2>2. n > 0 => ~ isDBL(ram'[n])
    <3>1. n > 0 => n \in 1 .. n
      BY <1>1
    <3>2. n > 0 => ~ isDBL(k[n])
      BY <1>1 DEF Aligned, n
    <3> QED BY <1>8, <3>1, <3>2
  <2>3. isRAM(n + 1)
    BY <1>1, <1>7, <1>8, SizesAre DEF isRAM
  <2> QED BY <2>1, <2>2, <2>3 DEF IsStep
<1>10. Cursor' = Len(K) + 1
  <2>1. StepCount(ram', n + 1) = Len(StepsOf(SubSeq(ram', 1, (n + 1) - 1))) + 1
    BY <1>2, <1>9, CursorAt
  <2>2. (n + 1) - 1 = n
    BY <1>1
  <2>3. Cursor' = StepCount(ram', n + 1)
    BY <1>9, CursorIs DEF CursorOf, n
  <2> QED BY <1>8, <2>1, <2>2, <2>3 DEF K
<1>11. K \in {<< >>, StepsOf(ram)}
  BY ListSingle DEF K
<1>12. StepsOf(ram)' = R
  BY DEF StepsOf, isDBL, R
<1>13. Len(R) > Len(K) /\ SubSeq(R, 1, Len(K)) = K
  <2>1. Len(R) = Len(K) + Len(P) /\ SubSeq(R, 1, Len(K)) = K
    BY <1>5, Zenon DEF PartsOf
  <2> QED BY <1>3, <2>1
<1>14. L!Ends(R)
  BY <1>2, <1>7, ListEnds DEF R
<1> QED BY <1>10, <1>11, <1>12, <1>13, <1>14, Zenon DEF L!AppendPrograms

\* append_program to the memory m, whose programs or none are kept.
LEMMA AppendedShown ==
    ASSUME IInv, IInv', NEW m, NEW w \in [pc : Nat, begin : Nat, end : Nat],
           NEW p \in Seq(Words), Whole(p), NEW k, k = << >> \/ k = ram,
           k = Kept(m.ram), [m EXCEPT !.ram = k \o p] = [M EXCEPT !.ram = k \o p],
           append_program(m, w, p)
    PROVE  L!AppendPrograms
<1> DEFINE s == k \o p
           n == Len(k)
           more == [M EXCEPT !.ram = s]
<1>1. ram' = more.ram /\ at' = set_pc(more, w, n + 1)
  BY Zenon DEF append_program, Appended
<1>2. more.ram = s
  BY DEF M
<1>3. ram' = s
  BY <1>1, <1>2
<1>4. M'.ram = ram' /\ Readable(M') /\ Readable(M)
  BY DEF M, IInv
<1>5. s \in Seq(Words) /\ Whole(s) /\ Len(s) <= NUMPROG_LIMIT
  BY <1>3, <1>4 DEF Readable
<1>6. Readable(more)
  BY <1>4, <1>5, NewRam
<1>7. /\ Aligned(k) /\ k \in Seq(Words) /\ n \in Nat /\ Len(p) \in Nat /\ Len(p) > 0
  <2>1. Aligned(k)
    BY EmptyAligned, Listable
  <2> QED BY <2>1, WholeAligned, LenProperties DEF Aligned
<1>8. PartsOf(k, p, s)
  BY <1>7, WordParts
<1> HIDE DEF s
<1>9. Len(s) = n + Len(p) /\ \A i \in 1 .. n : s[i] = k[i]
  <2> DEFINE g == Len(p)
  <2>1. /\ Len(s) = n + g
        /\ \A i \in 1 .. n + g : s[i] = IF i <= n THEN k[i] ELSE p[i - n]
    BY <1>8, Zenon DEF PartsOf
  <2> HIDE DEF g, n
  <2>2. ASSUME NEW i \in 1 .. n PROVE s[i] = k[i]
    <3>1. i \in 1 .. n + g /\ i <= n
      BY <1>7 DEF g
    <3> QED BY <2>1, <3>1
  <2> QED BY <2>1, <2>2 DEF g
<1> HIDE DEF n
<1>10. IsStep(s, n + 1) /\ n + 1 \in Nat /\ isRAM(n + 1) /\ n + 1 # 0
  <2>1. n + 1 \in 1 .. Len(s) /\ n + 1 \in Nat /\ (n + 1 = 1 \/ n > 0) /\ (n + 1) - 1 = n
        /\ n + 1 # 0
    BY <1>7, <1>9
  <2>2. n > 0 => ~ isDBL(s[n])
    <3>1. n > 0 => n \in 1 .. n
      BY <1>7
    <3>2. n > 0 => ~ isDBL(k[n])
      BY <1>7 DEF Aligned, n
    <3> QED BY <1>9, <3>1, <3>2
  <2>3. isRAM(n + 1)
    BY <1>5, <1>7, <1>9, SizesAre DEF isRAM
  <2> QED BY <2>1, <2>2, <2>3 DEF IsStep
<1>11. at'.pc = n + 1
  <2> HIDE DEF more
  <2> DEFINE q == n + 1
  <2>1. q \in Nat /\ IsStep(more.ram, q) /\ isRAM(q) /\ q # 0
    BY <1>2, <1>10 DEF s
  <2> HIDE DEF q
  <2>2. set_pc(more, w, q).pc = q
    BY <1>6, <2>1, SanePlace
  <2> QED BY <1>1, <2>2 DEF q
<1> QED BY <1>3, <1>11, AppendShown DEF s, n

\* LOADP puts the backup's programs in the place of all.
LEMMA LoadShown ==
    ASSUME IInv, IInv', NEW p \in Backups, NEW ok \in BOOLEAN, load_program(p, ok), ~ LosesEnd
    PROVE  L!AppendPrograms
<1> DEFINE m == [M EXCEPT !.ram = <<END>>]
           w == Bounds(M, 0)
           z == << >>
<1>1. /\ ok => append_program(m, w, p)
      /\ ~ ok => ram' = Kept(m.ram)
  BY Zenon DEF load_program, append_fails
<1>2. p \in Seq(Words) /\ Whole(p)
  BY BackupsWhole
<1>3. m.ram = <<END>> /\ Kept(m.ram) = z
  <2>1. m.ram = <<END>> /\ Len(<<END>>) = 1
    BY DEF M
  <2> HIDE DEF m
  <2> QED BY <2>1 DEF Kept
<1>4. ok
  BY <1>1, <1>3 DEF LosesEnd
<1>5. w \in [pc : Nat, begin : Nat, end : Nat]
  BY BoundsIs DEF IInv
<1>6. [m EXCEPT !.ram = z \o p] = [M EXCEPT !.ram = z \o p]
  BY DEF M
<1> HIDE DEF m, w
<1> QED BY <1>1, <1>2, <1>3, <1>4, <1>5, <1>6, AppendedShown DEF z

\* PRCL puts the current program behind the others, or in the place of a lone
\* END; or it fails.
LEMMA RecallShown ==
    ASSUME IInv, IInv', NEW ok \in BOOLEAN, recall_program(ok), ~ LosesEnd
    PROVE  L!Move \/ L!AppendPrograms
<1> DEFINE w == Bounds(M, IF at.pc = 0 THEN 1 ELSE at.pc)
           p == CurrentProgram(w)
           k == Kept(ram)
<1>1. Readable(M) /\ Located(M, at)
  BY DEF IInv
<1>2. M.ram = ram /\ (k = << >> \/ k = ram)
  BY <1>1, RamIs DEF Kept
<1>3. /\ offset(w.begin) > 0 /\ offset(w.end) <= Len(Region(M, w.begin))
      /\ ok => append_program(M, w, p)
      /\ ~ ok => ram' = Kept(M.ram)
  BY Zenon DEF recall_program, append_fails
<1>4. CASE ~ ok
  <2>1. ram' = ram
    BY <1>2, <1>3, <1>4 DEF LosesEnd
  <2> QED BY <2>1, MoveShown
<1>5. CASE ok
  <2>1. w \in [pc : Nat, begin : Nat, end : Nat] /\ Delimited(M, w)
    <3> DEFINE q == IF at.pc = 0 THEN 1 ELSE at.pc
    <3>1. q # 0 /\ Place(M, q)
      BY <1>1, Heads DEF Place, Located
    <3> HIDE DEF q
    <3>2. Bounds(M, q) \in [pc : Nat, begin : Nat, end : Nat] /\ Delimited(M, Bounds(M, q))
      BY <1>1, <3>1, BoundsIs
    <3> QED BY <3>2 DEF q
  <2> HIDE DEF w
  <2>2. ~ AtHead(M, w.pc)
    <3> SUFFICES ASSUME AtHead(M, w.pc) PROVE FALSE
      OBVIOUS
    <3>1. w.begin = w.pc /\ w.end = w.pc
      BY <1>1, <2>1, WithinIs
    <3>2. ~ isRAM(w.pc) /\ offset(w.pc) \notin 1 .. Len(Region(M, w.pc)) /\ w.pc \in Nat
      BY <1>1, Heads
    <3>3. offset(w.pc) \in Nat /\ Len(Region(M, w.pc)) \in Nat
      BY <1>1, <3>2, RegionAligned
    <3> QED BY <1>3, <3>1, <3>2, <3>3
  <2>3. p \in Seq(Words) /\ Whole(p)
    BY <1>1, <2>1, <2>2, CurrentIs
  <2>4. append_program(M, w, p) /\ k = Kept(M.ram)
    BY <1>2, <1>3, <1>5
  <2> HIDE DEF p, k
  <2> QED BY <1>2, <2>1, <2>3, <2>4, AppendedShown
<1> QED BY <1>4, <1>5

\* Every command shows in the listing as one of its actions.
LEMMA StepShown ==
    ASSUME IInv, IInv', [CheckedNext]_vars
    PROVE  L!Next
<1>1. CASE UNCHANGED vars
  <2>1. ram' = ram
    BY <1>1 DEF vars
  <2> QED BY <2>1, MoveShown DEF L!Next
<1>2. CASE Navigate \/ Run \/ (store_program /\ ~ StoresNothing /\ ~ ReturnsMoved)
  <2>1. ram' = ram
    BY <1>2, RamStays
  <2> QED BY <2>1, MoveShown DEF L!Next
<1>3. CASE Edit /\ ~ LosesEnd
  <2>1. ASSUME NEW c \in Opcodes, NEW free \in 0 .. 3, stoprog(c, free) PROVE L!Next
    <3>1. free \in Nat
      OBVIOUS
    <3>2. L!Move \/ \E d \in Opcodes : L!Enter(d) \/ L!EnterProgram(d)
      BY <2>1, <3>1, EntryShown
    <3> QED BY <3>2, Zenon DEF L!Next
  <2>2. ASSUME NEW ok \in BOOLEAN, recall_program(ok) PROVE L!Next
    <3>1. L!Move \/ L!AppendPrograms
      BY <1>3, <2>2, RecallShown
    <3> QED BY <3>1, Zenon DEF L!Next
  <2>3. CASE reset
    <3> DEFINE m == [ram |-> <<END>>, lib |-> lib, runmode |-> 1]
    <3>1. ram' = <<END>> /\ at'.pc = 1
      BY <2>3 DEF reset, Bounds
    <3>2. isRAM(at'.pc)
      BY <3>1, SizesAre DEF isRAM
    <3>3. L!Clear
      BY <3>1, <3>2, ClearShown
    <3> QED BY <3>3, Zenon DEF L!Next
  <2> QED BY <1>3, <2>1, <2>2, <2>3 DEF Edit
<1>4. CASE Replace /\ ~ LosesEnd /\ BoundsRenewed'
  <2>1. CASE clpall
    <3>1. ram' = <<END>> /\ at'.pc \in {0, 1}
      BY <2>1 DEF clpall, Bounds
    <3>2. isRAM(at'.pc)
      BY <3>1, SizesAre DEF isRAM
    <3>3. L!Clear
      BY <3>1, <3>2, ClearShown
    <3> QED BY <3>3, Zenon DEF L!Next
  <2>2. ASSUME NEW p \in Backups, NEW ok \in BOOLEAN, load_program(p, ok) PROVE L!Next
    <3>1. L!AppendPrograms
      BY <1>4, <2>2, LoadShown
    <3> QED BY <3>1, Zenon DEF L!Next
  <2> QED BY <1>4, <2>1, <2>2 DEF Replace
<1>5. CASE TakeAway /\ ~ BeforeLibrary /\ ~ ReturnsMoved
  <2>1. CASE delprog
    BY <2>1, DeletionShown, Zenon DEF L!Next
  <2>2. CASE clrprog
    <3>1. L!Move \/ L!RemoveProgram
      BY <1>5, <2>2, RemovalShown
    <3> QED BY <3>1, Zenon DEF L!Next
  <2> QED BY <1>5, <2>1, <2>2 DEF TakeAway
<1> QED BY <1>1, <1>2, <1>3, <1>4, <1>5 DEF CheckedNext

\* The program of a lone END that begins is listed as one END.
LEMMA InitShown == Init => L!Init
<1> SUFFICES ASSUME Init PROVE L!Init
  OBVIOUS
<1> DEFINE d == <<END>>
           P == StepsOf(d)
           k == StepCount(ram, at.pc)
<1>1. P = <<d>> /\ Len(P) = 1
  BY ListSingle
<1>2. IInv /\ ram = d /\ at.pc = 1
  BY InitIs DEF Init
<1>3. isRAM(at.pc)
  BY <1>2, SizesAre DEF isRAM
<1>4. Aligned(ram) /\ (at.pc = 0 \/ IsStep(ram, at.pc))
  BY <1>2, <1>3, Listable
<1> HIDE DEF d
<1>5. k \in 0 .. Len(P)
  BY <1>2, <1>4, CursorShows
<1> HIDE DEF k, P
<1>6. k \in {0, 1}
  BY <1>1, <1>5
<1>7. Cursor = k
  BY <1>3, CursorIs DEF CursorOf, k
<1>8. StepsOf(ram) = P
  BY <1>2 DEF P
<1> QED BY <1>1, <1>6, <1>7, <1>8, Zenon DEF L!Init, d

\* The program memory implements the listing the user sees: whichever command
\* is executed in a case its code checks for, whole steps or whole programs are
\* entered, deleted, appended or removed at the cursor and nowhere else.
THEOREM ProgramIsListed == CheckedSpec => ListingSpec
<1>1. Init => L!Init
  BY InitShown
<1>2. IInv /\ IInv' /\ [CheckedNext]_vars => [L!Next]_(L!vars)
  BY StepShown
<1>3. Init => IInv
  BY InitIs
<1>4. IInv /\ [CheckedNext]_vars => IInv'
  BY NextKeeps
<1> QED BY <1>1, <1>2, <1>3, <1>4, PTL DEF CheckedSpec, ListingSpec, L!Spec
=============================================================================
