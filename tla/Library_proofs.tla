---------------------------- MODULE Library_proofs ----------------------------
(***************************************************************************)
(* What the commands of the library do to its words, for pages and libraries *)
(* of any size: adding a program leaves every word there is, in memory and   *)
(* file, whatever fails, and adds the program whole or not at all; between   *)
(* commands memory and file hold whole programs, each under a label of its   *)
(* own; after commands without a fault the file is what memory shows; and    *)
(* the programs listed, in memory and file, are those of a shelf.            *)
(***************************************************************************)
EXTENDS Library, SequenceTheorems, WellFoundedInduction, TLAPS

-----------------------------------------------------------------------------
(* Numbers *)

LEMMA SizesAre ==
    /\ PageWords \in Nat /\ PageWords > 0 /\ Pages \in Nat /\ Pages > 0
    /\ NUMPROG_FLASH_MAX \in Nat /\ Index = 0 .. NUMPROG_FLASH_MAX
    /\ \A p \in Programs : p[2] \in Nat /\ p[2] > 0 /\ p # NoProgram
<1>1. PageWords \in Nat /\ PageWords > 0 /\ Pages \in Nat /\ Pages > 0
  BY LibrarySizes, SMT
<1>2. PageWords * Pages \in Nat /\ PageWords * Pages > 0
  BY <1>1, SMT
<1>3. NUMPROG_FLASH_MAX \in Nat /\ Index = 0 .. NUMPROG_FLASH_MAX
  BY <1>2, SMT DEF NUMPROG_FLASH_MAX, Index
<1>4. ASSUME NEW p \in Programs
      PROVE  p[2] \in Nat /\ p[2] > 0 /\ p # NoProgram
  <2>1. p[2] \in Lengths
    BY Zenon DEF Programs
  <2>2. p[2] \in 1 .. 9
    BY <2>1, LibrarySizes
  <2>3. p # <<"none", 0>>
    BY <2>2, SMT
  <2>. QED  BY <2>2, <2>3, SMT DEF NoProgram
<1>. QED  BY <1>1, <1>3, <1>4

LEMMA LeastNatural ==
    ASSUME NEW T, T \subseteq Nat, T # {}
    PROVE  \E n \in T : \A m \in T : n <= m
<1>1. PICK n \in T : \A m \in T : ~(<<m, n>> \in OpToRel(<, Nat))
  BY WFMin, NatLessThanWellFounded
<1>2. ASSUME NEW m \in T
      PROVE  n <= m
  <2>1. m \in Nat /\ n \in Nat
    BY Zenon
  <2>2. ~(m < n)
    BY <1>1, <2>1, Zenon DEF OpToRel
  <2>. QED  BY <2>1, <2>2, SMT
<1>. QED  BY <1>2

(* A page has PageWords words.                                                *)
LEMMA PageBounds ==
    ASSUME NEW i \in Nat
    PROVE  /\ PageOf(i) \in Nat
           /\ PageWords * PageOf(i) <= i /\ i < PageWords * PageOf(i) + PageWords
  BY SizesAre, SMTT(30) DEF PageOf

LEMMA PageOfWord ==
    ASSUME NEW i \in Index
    PROVE  i \in Nat /\ PageOf(i) \in Nat
<1>1. i \in Nat
  BY SizesAre, SMT
<1>. QED  BY <1>1, PageBounds

LEMMA PagesBefore ==
    ASSUME NEW q \in Nat, NEW r \in Nat, q < r
    PROVE  PageWords * q + PageWords <= PageWords * r
<1>. DEFINE k == r - q - 1
<1>1. k \in Nat /\ r = q + 1 + k
  BY SMT
<1>. HIDE DEF k
<1>2. PageWords * (q + 1 + k) = PageWords * q + PageWords + PageWords * k
  BY <1>1, SizesAre, SMTT(30)
<1>3. PageWords * k \in Nat /\ PageWords * q \in Nat
  BY <1>1, SizesAre, SMTT(30)
<1>4. PageWords * r = PageWords * q + PageWords + PageWords * k
  BY <1>1, <1>2, Zenon
<1>. QED  BY <1>3, <1>4, SizesAre, SMT

LEMMA PageIs ==
    ASSUME NEW i \in Nat, NEW q \in Nat,
           PageWords * q <= i, i < PageWords * q + PageWords
    PROVE  PageOf(i) = q
<1>. DEFINE p == PageOf(i)
<1>1. /\ p \in Nat /\ PageWords * p <= i /\ i < PageWords * p + PageWords
      /\ PageWords * p \in Nat /\ PageWords * q \in Nat /\ PageWords \in Nat
  <2>1. p \in Nat /\ PageWords * p <= i /\ i < PageWords * p + PageWords
    BY PageBounds
  <2>. HIDE DEF p
  <2>. QED  BY <2>1, SizesAre, SMT
<1>. HIDE DEF p
<1>2. p < q => PageWords * p + PageWords <= PageWords * q
  BY <1>1, PagesBefore
<1>3. q < p => PageWords * q + PageWords <= PageWords * p
  BY <1>1, PagesBefore
<1>4. ~(p < q) /\ ~(q < p)
  BY <1>1, <1>2, <1>3, SMT
<1>5. p = q
  BY <1>1, <1>4, SMT
<1>. QED  BY <1>5 DEF p

LEMMA PageGrows ==
    ASSUME NEW i \in Nat, NEW j \in Nat, i <= j
    PROVE  PageOf(i) <= PageOf(j)
<1>. DEFINE p == PageOf(i)
            q == PageOf(j)
<1>1. /\ p \in Nat /\ PageWords * p <= i /\ i < PageWords * p + PageWords
      /\ q \in Nat /\ PageWords * q <= j /\ j < PageWords * q + PageWords
  BY PageBounds
<1>. HIDE DEF p, q
<1>2. PageWords * p \in Nat /\ PageWords * q \in Nat /\ PageWords \in Nat
  BY <1>1, SizesAre, SMT
<1>3. q < p => PageWords * q + PageWords <= PageWords * p
  BY <1>1, PagesBefore
<1>4. p <= q
  BY <1>1, <1>2, <1>3, SMT
<1>. QED  BY <1>4 DEF p, q

LEMMA PageSum ==
    ASSUME NEW q \in Nat, NEW k \in Nat
    PROVE  PageOf(PageWords * q + k) = q + PageOf(k)
<1>. DEFINE p == PageOf(k)
<1>1. p \in Nat /\ PageWords * p <= k /\ k < PageWords * p + PageWords
  BY PageBounds
<1>. HIDE DEF p
<1>2. /\ PageWords * (q + p) = PageWords * q + PageWords * p
      /\ PageWords * q \in Nat /\ PageWords * p \in Nat /\ PageWords \in Nat
  BY <1>1, SizesAre, SMTT(30)
<1>3. /\ PageWords * q + k \in Nat /\ q + p \in Nat
      /\ PageWords * (q + p) <= PageWords * q + k
      /\ PageWords * q + k < PageWords * (q + p) + PageWords
  BY <1>1, <1>2, SMT
<1>4. PageOf(PageWords * q + k) = q + p
  BY <1>3, PageIs
<1>. QED  BY <1>4 DEF p

-----------------------------------------------------------------------------
(* The calls of flash_append: pages from that of the first word to that of    *)
(* the last, one call after the other, and the header last.                   *)

(* Short lists.                                                               *)
LEMMA Joined ==
    ASSUME NEW a, NEW b, NEW c
    PROVE  /\ <<a>> \o <<b>> = <<a, b>>
           /\ <<a>> \o <<b>> \o <<c>> = <<a, b, c>>
           /\ <<a>> \o <<>> = <<a>> /\ <<>> \o <<a>> = <<a>>
<1>. DEFINE All == {a, b, c}
<1>1. <<a>> \in Seq(All) /\ <<b>> \in Seq(All) /\ <<c>> \in Seq(All) /\ <<a, b>> \in Seq(All)
      /\ <<a, b, c>> \in Seq(All)
  OBVIOUS
<1>. HIDE DEF All
<1>2. <<a>> \o <<b>> = <<a, b>>
  <2>. DEFINE u == <<a>> \o <<b>>
              v == <<a, b>>
  <2>1. /\ Len(<<a>>) = 1 /\ Len(<<b>>) = 1 /\ <<a>>[1] = a /\ <<b>>[1] = b
        /\ v[1] = a /\ v[2] = b /\ Len(v) = 2 /\ v \in Seq(All)
    BY <1>1
  <2>2. /\ u \in Seq(All) /\ Len(u) = 1 + 1
        /\ \A i \in 1 .. 1 + 1 : u[i] = IF i <= 1 THEN <<a>>[i] ELSE <<b>>[i - 1]
    BY <1>1, <2>1, ConcatProperties
  <2>. HIDE DEF u, v
  <2>3. Len(u) = Len(v) /\ \A i \in 1 .. Len(u) : u[i] = v[i]
    BY <2>1, <2>2, SMT
  <2>4. u = v
    BY <2>1, <2>2, <2>3, SeqEqual
  <2>. QED  BY <2>4 DEF u, v
<1>3. <<a, b>> \o <<c>> = <<a, b, c>>
  <2>. DEFINE u == <<a, b>> \o <<c>>
              v == <<a, b, c>>
  <2>1. /\ Len(<<a, b>>) = 2 /\ Len(<<c>>) = 1 /\ <<a, b>>[1] = a /\ <<a, b>>[2] = b
        /\ <<c>>[1] = c
        /\ v[1] = a /\ v[2] = b /\ v[3] = c /\ Len(v) = 3 /\ v \in Seq(All)
    BY <1>1
  <2>2. /\ u \in Seq(All) /\ Len(u) = 2 + 1
        /\ \A i \in 1 .. 2 + 1 : u[i] = IF i <= 2 THEN <<a, b>>[i] ELSE <<c>>[i - 2]
    BY <1>1, <2>1, ConcatProperties
  <2>. HIDE DEF u, v
  <2>3. Len(u) = Len(v) /\ \A i \in 1 .. Len(u) : u[i] = v[i]
    BY <2>1, <2>2, SMT
  <2>4. u = v
    BY <2>1, <2>2, <2>3, SeqEqual
  <2>. QED  BY <2>4 DEF u, v
<1>4. <<a>> \o <<>> = <<a>> /\ <<>> \o <<a>> = <<a>>
  BY <1>1, ConcatEmptySeq
<1>. QED  BY <1>2, <1>3, <1>4

Header == <<0, 0>>
Calls  == Nat \X Nat

(* The calls cs begin with the page of word dest, or behind it where nothing  *)
(* is left to do there, and reach the page of word last.                      *)
InOrder(cs, dest, last) ==
    \/ cs = <<Header>> /\ last < dest
    \/ \E d \in Calls :
           /\ cs = <<d, Header>>
           /\ \A i \in Nat : dest <= i => d[1] <= PageOf(i)
           /\ \A i \in Nat : dest <= i /\ i <= last => PageOf(i) <= d[2]
    \/ \E d, e \in Calls :
           /\ cs = <<d, e, Header>> /\ d[1] <= d[2] /\ e[1] = d[2] + 1
           /\ \A i \in Nat : dest <= i => d[1] <= PageOf(i)
           /\ \A i \in Nat : dest <= i /\ i <= last => PageOf(i) <= e[2]

LEMMA StagesInOrder ==
    ASSUME NEW dest \in Nat, NEW count \in Nat
    PROVE  InOrder(Stages(dest, count), dest, dest + count - 1)
<1>. DEFINE r == dest % PageWords
            q == PageOf(dest)
            tail == IF r = 0 THEN 0 ELSE PageWords - r
            next == PageOf(dest + tail)
            last == dest + count - 1
            end == next + PageOf(count - tail - 1)
            first == IF tail > 0 THEN << <<q, q>> >> ELSE <<>>
            rest == IF count > tail THEN << <<next, end>> >> ELSE <<>>
<1>1. Stages(dest, count) = first \o rest \o <<Header>>
  BY Zenon DEF Stages, Header
<1>2. /\ dest = PageWords * q + r /\ r \in Nat /\ r < PageWords
      /\ q \in Nat /\ PageWords * q \in Nat /\ PageWords \in Nat /\ PageWords > 0
  BY SizesAre, SMTT(30) DEF PageOf
<1>3. \A i \in Nat : dest <= i => q <= PageOf(i)
  BY PageGrows
<1>. HIDE DEF r, q
<1>4. /\ tail \in Nat /\ tail < PageWords /\ (tail = 0 <=> r = 0)
      /\ dest + tail = IF r = 0 THEN PageWords * q ELSE PageWords * q + PageWords
  BY <1>2, SMT
<1>5. PageWords * (q + 1) = PageWords * q + PageWords
  BY <1>2, SMT
<1>6. next \in Nat /\ next = (IF r = 0 THEN q ELSE q + 1) /\ dest + tail = PageWords * next
  <2>1. CASE r = 0
    <3>1. dest + tail = PageWords * q /\ dest + tail = dest
      BY <1>2, <1>4, <2>1, SMT
    <3>. QED  BY <1>2, <2>1, <3>1, Zenon DEF q
  <2>2. CASE r # 0
    <3>1. dest + tail = PageWords * (q + 1) /\ dest + tail \in Nat /\ q + 1 \in Nat
      BY <1>2, <1>4, <1>5, <2>2, SMT
    <3>2. PageWords * (q + 1) <= dest + tail /\ dest + tail < PageWords * (q + 1) + PageWords
      BY <1>2, <3>1, SMT
    <3>3. next = q + 1
      BY <3>1, <3>2, PageIs
    <3>. QED  BY <2>2, <3>1, <3>3, Zenon
  <2>. QED  BY <2>1, <2>2
<1>7. count > tail => /\ end \in Nat
                      /\ \A i \in Nat : dest <= i /\ i <= last => PageOf(i) <= end
  <2>. SUFFICES ASSUME count > tail PROVE end \in Nat /\ \A i \in Nat : dest <= i /\ i <= last => PageOf(i) <= end
    OBVIOUS
  <2>. DEFINE k == count - tail - 1
  <2>1. k \in Nat /\ last = dest + tail + k /\ last \in Nat
    BY <1>4, <1>6, SMT
  <2>2. last = PageWords * next + k
    BY <1>6, <2>1, Zenon
  <2>3. PageOf(last) = end
    BY <1>6, <2>1, <2>2, PageSum
  <2>4. end \in Nat
    BY <2>1, <2>3, PageBounds
  <2>. QED  BY <2>1, <2>3, <2>4, PageGrows
<1>8. ~(count > tail) => \A i \in Nat : dest <= i /\ i <= last => PageOf(i) <= q /\ tail > 0
  <2>1. ASSUME ~(count > tail), NEW i \in Nat, dest <= i, i <= last
        PROVE  PageOf(i) <= q /\ tail > 0
    <3>1. tail > 0 /\ r # 0 /\ i < PageWords * q + PageWords /\ PageWords * q <= i
      BY <1>2, <1>4, <2>1, SMT
    <3>2. PageOf(i) = q
      BY <1>2, <3>1, PageIs
    <3>. QED  BY <1>2, <3>1, <3>2, SMT
  <2>. QED  BY <2>1
<1>. HIDE DEF tail, next, end, last
<1>9. CASE tail > 0 /\ count > tail
  <2>. DEFINE d == <<q, q>>
              e == <<next, end>>
  <2>1. Stages(dest, count) = <<d, e, Header>>
    <3>1. first = <<d>> /\ rest = <<e>>
      BY <1>9, Zenon
    <3>. QED  BY <1>1, <3>1, Joined, Zenon
  <2>2. d \in Calls /\ e \in Calls /\ d[1] = q /\ d[2] = q /\ e[1] = next /\ e[2] = end
    BY <1>2, <1>6, <1>7, <1>9 DEF Calls
  <2>3. e[1] = d[2] + 1 /\ d[1] <= d[2]
    BY <1>2, <1>4, <1>6, <1>9, <2>2, SMT
  <2>. HIDE DEF d, e
  <2>. QED  BY <1>3, <1>7, <1>9, <2>1, <2>2, <2>3, Zenon DEF InOrder, last
<1>10. CASE tail > 0 /\ ~(count > tail)
  <2>. DEFINE d == <<q, q>>
  <2>1. Stages(dest, count) = <<d, Header>>
    <3>1. first = <<d>> /\ rest = <<>>
      BY <1>10, Zenon
    <3>. QED  BY <1>1, <3>1, Joined, Zenon
  <2>2. d \in Calls /\ d[1] = q /\ d[2] = q
    BY <1>2 DEF Calls
  <2>. HIDE DEF d
  <2>. QED  BY <1>3, <1>8, <1>10, <2>1, <2>2, Zenon DEF InOrder, last
<1>11. CASE ~(tail > 0) /\ count > tail
  <2>. DEFINE d == <<next, end>>
  <2>1. Stages(dest, count) = <<d, Header>>
    <3>1. first = <<>> /\ rest = <<d>>
      BY <1>11, Zenon
    <3>. QED  BY <1>1, <3>1, Joined, Zenon
  <2>2. d \in Calls /\ d[1] = q /\ d[2] = end
    BY <1>4, <1>6, <1>7, <1>11, SMT DEF Calls
  <2>. HIDE DEF d
  <2>. QED  BY <1>3, <1>7, <1>11, <2>1, <2>2, Zenon DEF InOrder, last
<1>12. CASE ~(tail > 0) /\ ~(count > tail)
  <2>1. Stages(dest, count) = <<Header>>
    BY <1>1, <1>12, SMT
  <2>2. last < dest
    BY <1>4, <1>12, SMT DEF last
  <2>. QED  BY <2>1, <2>2, Zenon DEF InOrder, last
<1>. QED  BY <1>9, <1>10, <1>11, <1>12

-----------------------------------------------------------------------------
(* The inductive invariant *)

(* Word i is the same in memory and file.                                     *)
Same(i) == libfile[i] = UserFlash[i]

(* Word i is that of the program that is added.                               *)
Delivered(i) ==
    job.prog # NoProgram /\ i - job.dest < job.prog[2]
        => UserFlash[i] = <<job.prog, i - job.dest + 1>>

(* The pages before q are done, as far as the job is concerned with them.      *)
Done(q) == \A i \in Index : job.dest <= i /\ PageOf(i) < q => Same(i) /\ Delivered(i)

Reaches(q) == \A i \in Index : job.dest <= i /\ i <= job.size => PageOf(i) <= q

(* What is left of the calls.                                                 *)
Progress ==
    \/ /\ job.stages = <<Header>>
       /\ \A i \in Index : job.dest <= i /\ i <= job.size => Same(i) /\ Delivered(i)
    \/ \E d \in Calls :
           job.stages = <<d, Header>> /\ Done(d[1]) /\ Reaches(d[2])
    \/ \E d, e \in Calls :
           /\ job.stages = <<d, e, Header>> /\ d[1] <= d[2] /\ e[1] = d[2] + 1
           /\ Done(d[1]) /\ Reaches(e[2])

Adding ==
    /\ job.prog \in Programs /\ job.then = NoProgram
    /\ job.dest = 1 + size(UserFlash) /\ job.size = size(UserFlash) + job.prog[2]

Taking ==
    /\ job.prog = NoProgram /\ job.then \in Programs \cup {NoProgram}
    /\ job.dest \in 1 .. size(UserFlash) /\ job.size < size(UserFlash)
    /\ job.then # NoProgram => job.size + job.then[2] <= NUMPROG_FLASH_MAX

UnderWay ==
    /\ Adding \/ Taking
    /\ job.size \in 0 .. NUMPROG_FLASH_MAX
    /\ Progress

Jobs == [dest : Int, prog : Programs \cup {NoProgram}, shift : Int, size : Int,
         stages : Seq(Calls), then : Programs \cup {NoProgram}]

LibInv ==
    /\ job \in Jobs
    /\ DOMAIN UserFlash = Index /\ DOMAIN libfile = Index
    /\ size(UserFlash) \in 0 .. NUMPROG_FLASH_MAX
    /\ size(libfile) \in 0 .. NUMPROG_FLASH_MAX
    /\ \A i \in 1 .. size(UserFlash) : Same(i)
    /\ ~Removing => size(libfile) <= size(UserFlash)
    /\ Idle /\ ~broken => size(libfile) = size(UserFlash)
    /\ Idle \/ UnderWay

LEMMA NoJobIdle ==
    ASSUME job' = NoJob
    PROVE  job' \in Jobs /\ Idle'
<1>1. <<>> \in Seq(Calls) /\ 0 \in Int
  BY EmptySeq
<1>. QED  BY <1>1, Zenon DEF NoJob, Jobs, Idle

LEMMA InvInit == Init => LibInv
<1>. SUFFICES ASSUME Init PROVE LibInv
  OBVIOUS
<1>1. /\ UserFlash = [i \in Index |-> IF i = 0 THEN 0 ELSE Junk] /\ libfile = UserFlash
      /\ job = NoJob
  BY DEF Init
<1>2. 0 \in Index /\ 0 \in 0 .. NUMPROG_FLASH_MAX
  BY SizesAre, SMT
<1>3. job \in Jobs /\ Idle
  <2>1. <<>> \in Seq(Calls) /\ 0 \in Int
    BY EmptySeq
  <2>. QED  BY <1>1, <2>1, Zenon DEF NoJob, Jobs, Idle
<1>4. UserFlash[0] = 0 /\ DOMAIN UserFlash = Index
  BY <1>1, <1>2
<1>5. size(UserFlash) = 0 /\ size(libfile) = 0
  BY <1>1, <1>4, Zenon DEF size
<1>6. \A i \in 1 .. size(UserFlash) : Same(i)
  BY <1>1, Zenon DEF Same
<1>. QED  BY <1>1, <1>2, <1>3, <1>4, <1>5, <1>6, SMT DEF LibInv

(* What a call does to the words of memory and file.                          *)
LEMMA CopiedWords ==
    ASSUME LibInv, ~Idle, Len(job.stages) # 1, NEW d \in Calls, job.stages[1] = d
    PROVE  /\ DOMAIN Copied = Index /\ Copied[0] = UserFlash[0]
           /\ \A i \in Index : Copied[i] =
                  IF job.dest <= i /\ d[1] <= PageOf(i) /\ PageOf(i) <= d[2]
                  THEN Source(i - job.dest) ELSE UserFlash[i]
<1>1. job.dest \in Int /\ job.dest >= 1
  <2>1. size(UserFlash) \in Nat
    BY SizesAre, SMT DEF LibInv
  <2>. QED  BY <2>1, SMT DEF LibInv, UnderWay, Adding, Taking
<1>2. Copied = [i \in Index |->
                   IF i >= job.dest /\ PageOf(i) \in d[1] .. d[2]
                   THEN Source(i - job.dest) ELSE UserFlash[i]]
  BY Zenon DEF Copied
<1>3. DOMAIN Copied = Index
  BY <1>2
<1>4. ASSUME NEW i \in Index
      PROVE  Copied[i] = IF job.dest <= i /\ d[1] <= PageOf(i) /\ PageOf(i) <= d[2]
                         THEN Source(i - job.dest) ELSE UserFlash[i]
  <2>1. i \in Nat /\ PageOf(i) \in Nat /\ d[1] \in Nat /\ d[2] \in Nat
    BY PageOfWord, Zenon DEF Calls
  <2>2. (i >= job.dest /\ PageOf(i) \in d[1] .. d[2])
           <=> (job.dest <= i /\ d[1] <= PageOf(i) /\ PageOf(i) <= d[2])
    BY <1>1, <2>1, SMT
  <2>. QED  BY <1>2, <2>2, Zenon
<1>5. 0 \in Index /\ ~(job.dest <= 0)
  BY <1>1, SizesAre, SMT
<1>. QED  BY <1>3, <1>4, <1>5, Zenon

LEMMA CopiedHeader ==
    ASSUME LibInv, Len(job.stages) = 1
    PROVE  /\ DOMAIN Copied = Index /\ Copied[0] = job.size
           /\ \A i \in Index : i # 0 => Copied[i] = UserFlash[i]
<1>1. 0 \in Index
  BY SizesAre, SMT
<1>. QED  BY <1>1, SMT DEF Copied, LibInv

LEMMA WrittenWords ==
    ASSUME NEW n \in Int, NEW d \in Calls, job.stages[1] = d
    PROVE  /\ DOMAIN Written(n) = Index
           /\ \A i \in Index : Written(n)[i] =
                  IF d[1] <= PageOf(i) /\ PageOf(i) <= d[1] + n - 1
                  THEN Copied[i] ELSE libfile[i]
<1>1. Written(n) = [i \in Index |-> IF PageOf(i) \in d[1] .. d[1] + n - 1
                                    THEN Copied[i] ELSE libfile[i]]
  BY Zenon DEF Written
<1>2. ASSUME NEW i \in Index
      PROVE  PageOf(i) \in d[1] .. d[1] + n - 1
                <=> d[1] <= PageOf(i) /\ PageOf(i) <= d[1] + n - 1
  <2>1. i \in Nat /\ PageOf(i) \in Nat /\ d[1] \in Nat
    BY PageOfWord, Zenon DEF Calls
  <2>. QED  BY <2>1, SMT
<1>. QED  BY <1>1, <1>2, Zenon

(* A call of several: its pages become the same in memory and file, and words *)
(* below the job's first keep their value in memory.                          *)
LEMMA CallsLeft ==
    ASSUME LibInv, ~Idle
    PROVE  \/ job.stages = <<Header>> /\ Len(job.stages) = 1 /\ job.stages[1] = Header
           \/ \E d \in Calls :
                 /\ job.stages = <<d, Header>> /\ Len(job.stages) = 2
                 /\ job.stages[1] = d /\ Tail(job.stages) = <<Header>>
                 /\ Done(d[1]) /\ Reaches(d[2])
           \/ \E d, e \in Calls :
                 /\ job.stages = <<d, e, Header>> /\ Len(job.stages) = 3
                 /\ job.stages[1] = d /\ Tail(job.stages) = <<e, Header>>
                 /\ d[1] <= d[2] /\ e[1] = d[2] + 1 /\ Done(d[1]) /\ Reaches(e[2])
<1>1. CASE job.stages = <<Header>>
  BY <1>1
<1>2. ASSUME NEW d \in Calls, job.stages = <<d, Header>>
      PROVE  Len(job.stages) = 2 /\ job.stages[1] = d /\ Tail(job.stages) = <<Header>>
  BY <1>2
<1>3. ASSUME NEW d \in Calls, NEW e \in Calls, job.stages = <<d, e, Header>>
      PROVE  /\ Len(job.stages) = 3 /\ job.stages[1] = d
             /\ Tail(job.stages) = <<e, Header>>
  BY <1>3
<1>. QED  BY <1>1, <1>2, <1>3 DEF LibInv, UnderWay, Progress

LEMMA DataCall ==
    ASSUME LibInv, program_flash, Len(job.stages) # 1
    PROVE  LibInv'
<1>1. /\ ~Idle /\ UserFlash' = Copied /\ libfile' = Written(PagesToWrite)
      /\ broken' = broken
  BY DEF program_flash
<1>2. PICK d \in Calls :
        /\ job.stages[1] = d /\ Len(job.stages) > 1
        /\ Tail(job.stages) \in Seq(Calls) /\ Tail(job.stages) # <<>> /\ Done(d[1])
        /\ \/ Tail(job.stages) = <<Header>> /\ Reaches(d[2])
           \/ \E e \in Calls : /\ Tail(job.stages) = <<e, Header>>
                              /\ e[1] = d[2] + 1 /\ Reaches(e[2])
  <2>1. Header \in Calls
    BY SMT DEF Header, Calls
  <2>2. <<Header>> \in Seq(Calls) /\ \A e \in Calls : <<e, Header>> \in Seq(Calls)
    BY <2>1
  <2>3. <<Header>> # <<>> /\ \A e \in Calls : <<e, Header>> # <<>>
    OBVIOUS
  <2>4. 2 > 1 /\ 3 > 1
    OBVIOUS
  <2>. QED  BY <1>1, <2>2, <2>3, <2>4, CallsLeft
<1>3. job' = [job EXCEPT !.stages = Tail(job.stages)]
  BY <1>2 DEF program_flash
<1>4. /\ job' \in Jobs /\ job'.dest = job.dest /\ job'.prog = job.prog
      /\ job'.size = job.size /\ job'.then = job.then /\ job'.stages = Tail(job.stages)
  BY <1>2, <1>3, Zenon DEF LibInv, Jobs
<1>5. d[1] \in Nat /\ d[2] \in Nat /\ PagesToWrite \in Int
  BY <1>2, SMT DEF Calls, PagesToWrite
<1>6. /\ DOMAIN UserFlash' = Index /\ UserFlash'[0] = UserFlash[0]
      /\ \A i \in Index : UserFlash'[i] =
            IF job.dest <= i /\ d[1] <= PageOf(i) /\ PageOf(i) <= d[2]
            THEN Source(i - job.dest) ELSE UserFlash[i]
  BY <1>1, <1>2, CopiedWords
<1>7. /\ DOMAIN libfile' = Index
      /\ \A i \in Index : libfile'[i] =
            IF d[1] <= PageOf(i) /\ PageOf(i) <= d[2] THEN UserFlash'[i] ELSE libfile[i]
  <2>1. d[1] + PagesToWrite - 1 = d[2]
    BY <1>2, <1>5, SMT DEF PagesToWrite
  <2>. QED  BY <1>1, <1>2, <1>5, <2>1, WrittenWords, Zenon
<1>8. \A i \in Index : Same(i) => Same(i)'
  BY <1>6, <1>7, Zenon DEF Same
<1>9. \A i \in Index : Delivered(i) => Delivered(i)'
  <2>1. ASSUME NEW i \in Index, Delivered(i), job.prog # NoProgram, i - job.dest < job.prog[2]
        PROVE  UserFlash'[i] = <<job.prog, i - job.dest + 1>>
    <3>1. UserFlash[i] = <<job.prog, i - job.dest + 1>>
      BY <2>1 DEF Delivered
    <3>2. Source(i - job.dest) = <<job.prog, i - job.dest + 1>>
      BY <2>1, Zenon DEF Source
    <3>. QED  BY <1>6, <3>1, <3>2, Zenon
  <2>. QED  BY <1>4, <2>1, Zenon DEF Delivered
<1>10. ASSUME NEW i \in Index, job.dest <= i, d[1] <= PageOf(i), PageOf(i) <= d[2]
       PROVE  Same(i)' /\ Delivered(i)'
  <2>1. Same(i)'
    BY <1>7, <1>10, Zenon DEF Same
  <2>2. ASSUME job.prog # NoProgram, i - job.dest < job.prog[2]
        PROVE  UserFlash'[i] = <<job.prog, i - job.dest + 1>>
    <3>1. Source(i - job.dest) = <<job.prog, i - job.dest + 1>>
      BY <2>2, Zenon DEF Source
    <3>. QED  BY <1>6, <1>10, <3>1, Zenon
  <2>. QED  BY <1>4, <2>1, <2>2, Zenon DEF Delivered
<1>11. Done(d[2] + 1)'
  <2>1. ASSUME NEW i \in Index, job.dest <= i, PageOf(i) < d[2] + 1
        PROVE  Same(i)' /\ Delivered(i)'
    <3>1. CASE PageOf(i) < d[1]
      BY <1>2, <1>8, <1>9, <2>1, <3>1 DEF Done
    <3>2. CASE ~(PageOf(i) < d[1])
      <4>1. PageOf(i) \in Nat
        BY PageOfWord
      <4>2. d[1] <= PageOf(i) /\ PageOf(i) <= d[2]
        BY <1>5, <2>1, <3>2, <4>1, SMT
      <4>. QED  BY <1>10, <2>1, <4>2
    <3>. QED  BY <3>1, <3>2
  <2>. QED  BY <1>4, <2>1, Zenon DEF Done
<1>12. Progress'
  <2>1. CASE Tail(job.stages) = <<Header>> /\ Reaches(d[2])
    <3>1. ASSUME NEW i \in Index, job.dest <= i, i <= job.size
          PROVE  Same(i)' /\ Delivered(i)'
      <4>1. PageOf(i) <= d[2] /\ PageOf(i) \in Nat
        BY <2>1, <3>1, PageOfWord DEF Reaches
      <4>2. PageOf(i) < d[2] + 1
        BY <1>5, <4>1, SMT
      <4>. QED  BY <1>4, <1>11, <3>1, <4>2, Zenon DEF Done
    <3>. QED  BY <1>4, <2>1, <3>1, Zenon DEF Progress
  <2>2. ASSUME NEW e \in Calls, Tail(job.stages) = <<e, Header>>, e[1] = d[2] + 1,
               Reaches(e[2])
        PROVE  Progress'
    <3>1. Done(e[1])'
      BY <1>11, <2>2, Zenon DEF Done
    <3>2. Reaches(e[2])'
      BY <1>4, <2>2, Zenon DEF Reaches
    <3>. QED  BY <1>4, <2>2, <3>1, <3>2, Zenon DEF Progress
  <2>. QED  BY <1>2, <2>1, <2>2
<1>13. /\ size(UserFlash') = size(UserFlash)
       /\ size(libfile') = size(libfile) \/ size(libfile') = size(UserFlash)
  <2>1. 0 \in Index
    BY SizesAre, SMT
  <2>. QED  BY <1>6, <1>7, <2>1, Zenon DEF size
<1>14. UnderWay'
  <2>1. (Adding \/ Taking) /\ job.size \in 0 .. NUMPROG_FLASH_MAX
    BY <1>1 DEF LibInv, UnderWay
  <2>2. (Adding \/ Taking)'
    BY <1>4, <1>13, <2>1, Zenon DEF Adding, Taking
  <2>. QED  BY <1>4, <1>12, <2>1, <2>2, Zenon DEF UnderWay
<1>15. ~Idle' /\ (Removing' <=> Removing)
  BY <1>1, <1>2, <1>4, Zenon DEF Idle, Removing
<1>16. \A i \in 1 .. size(UserFlash') : Same(i)'
  <2>1. \A i \in 1 .. size(UserFlash) : i \in Index
    BY SizesAre, SMT DEF LibInv
  <2>. QED  BY <1>8, <1>13, <2>1 DEF LibInv
<1>17. /\ size(libfile') \in 0 .. NUMPROG_FLASH_MAX
       /\ ~Removing' => size(libfile') <= size(UserFlash')
  BY <1>13, <1>15, SizesAre, SMT DEF LibInv
<1>. QED  BY <1>4, <1>6, <1>7, <1>13, <1>14, <1>15, <1>16, <1>17, Zenon DEF LibInv

-----------------------------------------------------------------------------
(* Commands begin with the calls in order *)

LEMMA ProgressStarts ==
    ASSUME NEW dest \in Nat, NEW count \in Nat,
           job'.dest = dest, job'.stages = Stages(dest, count), job'.size = dest + count - 1
    PROVE  Progress' /\ ~Idle' /\ job'.stages \in Seq(Calls)
<1>. DEFINE last == dest + count - 1
<1>0. InOrder(job'.stages, dest, last) /\ job'.size = last /\ last \in Int
  BY StagesInOrder, SMT
<1>. HIDE DEF last
<1>1. Header \in Calls
  BY SMT DEF Header, Calls
<1>2. CASE job'.stages = <<Header>> /\ last < dest
  <2>1. \A i \in Index : ~(dest <= i /\ i <= last)
    BY <1>0, <1>2, SizesAre, SMT
  <2>2. Progress'
    BY <1>0, <1>2, <2>1, Zenon DEF Progress
  <2>. QED  BY <1>1, <1>2, <2>2 DEF Idle
<1>3. ASSUME NEW d \in Calls, job'.stages = <<d, Header>>,
             \A i \in Nat : dest <= i => d[1] <= PageOf(i),
             \A i \in Nat : dest <= i /\ i <= last => PageOf(i) <= d[2]
      PROVE  Progress' /\ ~Idle' /\ job'.stages \in Seq(Calls)
  <2>1. Done(d[1])'
    <3>1. ASSUME NEW i \in Index, dest <= i
          PROVE  ~(PageOf(i) < d[1])
      <4>1. i \in Nat /\ PageOf(i) \in Nat /\ d[1] \in Nat
        BY PageOfWord, Zenon DEF Calls
      <4>2. d[1] <= PageOf(i)
        BY <1>3, <3>1, <4>1
      <4>. QED  BY <4>1, <4>2, SMT
    <3>. QED  BY <3>1, Zenon DEF Done
  <2>2. Reaches(d[2])'
    BY <1>0, <1>3, PageOfWord, Zenon DEF Reaches
  <2>3. Progress'
    BY <1>3, <2>1, <2>2, Zenon DEF Progress
  <2>. QED  BY <1>1, <1>3, <2>3 DEF Idle
<1>4. ASSUME NEW d \in Calls, NEW e \in Calls,
             job'.stages = <<d, e, Header>>, d[1] <= d[2], e[1] = d[2] + 1,
             \A i \in Nat : dest <= i => d[1] <= PageOf(i),
             \A i \in Nat : dest <= i /\ i <= last => PageOf(i) <= e[2]
      PROVE  Progress' /\ ~Idle' /\ job'.stages \in Seq(Calls)
  <2>1. Done(d[1])'
    <3>1. ASSUME NEW i \in Index, dest <= i
          PROVE  ~(PageOf(i) < d[1])
      <4>1. i \in Nat /\ PageOf(i) \in Nat /\ d[1] \in Nat
        BY PageOfWord, Zenon DEF Calls
      <4>2. d[1] <= PageOf(i)
        BY <1>4, <3>1, <4>1
      <4>. QED  BY <4>1, <4>2, SMT
    <3>. QED  BY <3>1, Zenon DEF Done
  <2>2. Reaches(e[2])'
    BY <1>0, <1>4, PageOfWord, Zenon DEF Reaches
  <2>3. Progress'
    BY <1>4, <2>1, <2>2, Zenon DEF Progress
  <2>. QED  BY <1>1, <1>4, <2>3 DEF Idle
<1>. QED  BY <1>0, <1>2, <1>3, <1>4 DEF InOrder

LEMMA AddStarts ==
    ASSUME NEW p \in Programs, size(UserFlash') \in Nat,
           size(UserFlash') + p[2] <= NUMPROG_FLASH_MAX,
           job' = flash_append(1 + size(UserFlash'), p, size(UserFlash') + p[2], NoProgram)
    PROVE  UnderWay' /\ ~Idle' /\ ~Removing' /\ job' \in Jobs
<1>. DEFINE n == size(UserFlash')
<1>1. /\ job'.dest = 1 + n /\ job'.prog = p /\ job'.shift = 0 /\ job'.size = n + p[2]
      /\ job'.stages = Stages(1 + n, p[2]) /\ job'.then = NoProgram
      /\ job' = [dest |-> job'.dest, prog |-> job'.prog, shift |-> job'.shift,
                 size |-> job'.size, stages |-> job'.stages, then |-> job'.then]
  BY Zenon DEF flash_append
<1>2. p[2] \in Nat /\ p[2] > 0 /\ p # NoProgram
  BY SizesAre
<1>. HIDE DEF n
<1>3. /\ n \in Nat /\ 1 + n \in Nat /\ n + p[2] = 1 + n + p[2] - 1 /\ n + p[2] \in 0 .. NUMPROG_FLASH_MAX
      /\ 1 + n \in Int /\ n + p[2] \in Int /\ 0 \in Int
  BY <1>2, SizesAre, SMT DEF n
<1>4. Progress' /\ ~Idle' /\ job'.stages \in Seq(Calls)
  BY <1>1, <1>2, <1>3, ProgressStarts
<1>5. Adding'
  BY <1>1, Zenon DEF Adding, n
<1>6. job' \in Jobs
  BY <1>1, <1>3, <1>4, Zenon DEF Jobs
<1>. QED  BY <1>1, <1>2, <1>3, <1>4, <1>5, <1>6, Zenon DEF UnderWay, Removing

LEMMA TakeStarts ==
    ASSUME size(UserFlash) \in 0 .. NUMPROG_FLASH_MAX, UserFlash' = UserFlash,
           NEW b \in Int, NEW e \in Int, 1 <= b, b <= e, e <= size(UserFlash),
           NEW then \in Programs \cup {NoProgram},
           then # NoProgram => size(UserFlash) - (e + 1 - b) + then[2] <= NUMPROG_FLASH_MAX,
           job' = flash_remove(b, e, then)
    PROVE  UnderWay' /\ ~Idle' /\ Removing' /\ job' \in Jobs
<1>. DEFINE n == size(UserFlash)
            m == n - (e + 1 - b)
            count == n - e
<1>1. /\ job'.dest = b /\ job'.prog = NoProgram /\ job'.shift = e + 1 - b /\ job'.size = m
      /\ job'.stages = Stages(b, count) /\ job'.then = then
      /\ job' = [dest |-> job'.dest, prog |-> job'.prog, shift |-> job'.shift,
                 size |-> job'.size, stages |-> job'.stages, then |-> job'.then]
  BY Zenon DEF flash_remove
<1>2. /\ b \in Nat /\ count \in Nat /\ m = b + count - 1 /\ m \in 0 .. NUMPROG_FLASH_MAX
      /\ m < n /\ b \in 1 .. n /\ m \in Int /\ e + 1 - b \in Int
  BY SizesAre, SMT
<1>. HIDE DEF m, count
<1>3. Progress' /\ ~Idle' /\ job'.stages \in Seq(Calls)
  BY <1>1, <1>2, ProgressStarts
<1>4. Taking'
  <2>1. then # NoProgram => m + then[2] <= NUMPROG_FLASH_MAX
    BY Zenon DEF m
  <2>. QED  BY <1>1, <1>2, <2>1, Zenon DEF Taking
<1>5. job' \in Jobs
  BY <1>1, <1>2, <1>3, Zenon DEF Jobs
<1>. QED  BY <1>1, <1>2, <1>3, <1>4, <1>5, Zenon DEF UnderWay, Removing

(* The program around a word begins before it and ends behind it, with the    *)
(* only END but that of the last program.                                    *)
LEMMA ProgramAround ==
    ASSUME size(UserFlash) \in Nat, NEW i \in 1 .. size(UserFlash)
    PROVE  /\ ProgBegin(i) \in Int /\ ProgEnd(i) \in Int
           /\ 1 <= ProgBegin(i) /\ ProgBegin(i) <= ProgEnd(i)
           /\ ProgBegin(i) <= i /\ i <= ProgEnd(i) /\ ProgEnd(i) <= size(UserFlash)
           /\ ProgBegin(i) = 1 \/ IsEND(UserFlash[ProgBegin(i) - 1])
           /\ ProgEnd(i) = size(UserFlash) \/ IsEND(UserFlash[ProgEnd(i)])
           /\ \A j \in ProgBegin(i) .. ProgEnd(i) - 1 : ~IsEND(UserFlash[j])
<1>1. \E b \in 1 .. i : /\ b = 1 \/ IsEND(UserFlash[b - 1])
                        /\ \A j \in b .. i - 1 : ~IsEND(UserFlash[j])
  <2>. DEFINE T == {k \in 0 .. i - 1 : i - k = 1 \/ IsEND(UserFlash[i - k - 1])}
  <2>1. T \subseteq Nat /\ i - 1 \in T
    BY SMT
  <2>2. PICK k \in T : \A m \in T : k <= m
    BY <2>1, LeastNatural
  <2>3. k \in 0 .. i - 1 /\ (i - k = 1 \/ IsEND(UserFlash[i - k - 1]))
    OBVIOUS
  <2>4. ASSUME NEW j \in (i - k) .. i - 1, IsEND(UserFlash[j])
        PROVE  FALSE
    <3>1. i - j - 1 \in 0 .. i - 1 /\ i - (i - j - 1) - 1 = j /\ ~(k <= i - j - 1)
      BY <2>3, <2>4, SMT
    <3>2. i - j - 1 \in T
      BY <2>4, <3>1, Zenon
    <3>. QED  BY <2>2, <3>1, <3>2
  <2>5. i - k \in 1 .. i
    BY <2>3, SMT
  <2>. QED  BY <2>3, <2>4, <2>5
<1>2. \E e \in i .. size(UserFlash) :
          /\ e = size(UserFlash) \/ IsEND(UserFlash[e])
          /\ \A j \in i .. e - 1 : ~IsEND(UserFlash[j])
  <2>. DEFINE T == {e \in i .. size(UserFlash) : e = size(UserFlash) \/ IsEND(UserFlash[e])}
  <2>1. T \subseteq Nat /\ size(UserFlash) \in T
    BY SMT
  <2>2. PICK e \in T : \A m \in T : e <= m
    BY <2>1, LeastNatural
  <2>3. e \in i .. size(UserFlash) /\ (e = size(UserFlash) \/ IsEND(UserFlash[e]))
    OBVIOUS
  <2>4. ASSUME NEW j \in i .. e - 1, IsEND(UserFlash[j])
        PROVE  FALSE
    <3>1. j \in i .. size(UserFlash) /\ ~(e <= j)
      BY <2>3, <2>4, SMT
    <3>2. j \in T
      BY <2>4, <3>1, Zenon
    <3>. QED  BY <2>2, <3>1, <3>2
  <2>. QED  BY <2>3, <2>4
<1>3. /\ ProgBegin(i) \in 1 .. i
      /\ ProgBegin(i) = 1 \/ IsEND(UserFlash[ProgBegin(i) - 1])
      /\ \A j \in ProgBegin(i) .. i - 1 : ~IsEND(UserFlash[j])
  BY <1>1, Zenon DEF ProgBegin
<1>4. /\ ProgEnd(i) \in i .. size(UserFlash)
      /\ ProgEnd(i) = size(UserFlash) \/ IsEND(UserFlash[ProgEnd(i)])
      /\ \A j \in i .. ProgEnd(i) - 1 : ~IsEND(UserFlash[j])
  BY <1>2, Zenon DEF ProgEnd
<1>5. ASSUME NEW j \in ProgBegin(i) .. ProgEnd(i) - 1
      PROVE  ~IsEND(UserFlash[j])
  <2>1. j \in ProgBegin(i) .. i - 1 \/ j \in i .. ProgEnd(i) - 1
    BY <1>3, <1>4, SMT
  <2>. QED  BY <1>3, <1>4, <2>1
<1>6. /\ ProgBegin(i) \in Int /\ ProgEnd(i) \in Int
      /\ 1 <= ProgBegin(i) /\ ProgBegin(i) <= ProgEnd(i)
      /\ ProgBegin(i) <= i /\ i <= ProgEnd(i) /\ ProgEnd(i) <= size(UserFlash)
  BY <1>3, <1>4, SMT
<1>. QED  BY <1>3, <1>4, <1>5, <1>6

LEMMA CommandStarts ==
    ASSUME LibInv, Commands
    PROVE  LibInv'
<1>1. /\ Idle /\ UserFlash' = UserFlash /\ libfile' = libfile
      /\ size(UserFlash) \in 0 .. NUMPROG_FLASH_MAX /\ size(UserFlash) \in Nat
  BY SizesAre, SMT DEF Commands, store_program, clrprog, LibInv
<1>2. UnderWay' /\ ~Idle' /\ job' \in Jobs
  <2>1. ASSUME NEW i \in 1 .. size(UserFlash), clrprog(i)
        PROVE  UnderWay' /\ ~Idle' /\ job' \in Jobs
    <3>1. job' = flash_remove(ProgBegin(i), ProgEnd(i), NoProgram)
      BY <2>1 DEF clrprog
    <3>. QED  BY <1>1, <3>1, ProgramAround, TakeStarts
  <2>2. ASSUME NEW p \in Programs, store_program(p)
        PROVE  UnderWay' /\ ~Idle' /\ job' \in Jobs
    <3>. DEFINE free == NUMPROG_FLASH_MAX - size(UserFlash)
                old  == Found(p[1])
                at   == CHOOSE i \in old : \A j \in old : i <= j
    <3>1. p[2] \in Nat /\ p # NoProgram
      BY SizesAre
    <3>2. CASE old = {}
      <4>1. /\ p[2] <= free
            /\ job' = flash_append(1 + size(UserFlash), p, size(UserFlash) + p[2], NoProgram)
        BY <2>2, <3>2, Zenon DEF store_program
      <4>2. size(UserFlash) + p[2] <= NUMPROG_FLASH_MAX
        BY <1>1, <3>1, <4>1, SizesAre, SMT
      <4>. QED  BY <1>1, <4>1, <4>2, AddStarts
    <3>3. CASE old # {}
      <4>1. /\ p[2] - (1 + ProgEnd(at) - ProgBegin(at)) <= free
            /\ job' = flash_remove(ProgBegin(at), ProgEnd(at), p)
        BY <2>2, <3>3, Zenon DEF store_program
      <4>2. at \in old
        <5>1. old \subseteq Nat
          BY <1>1, SMT DEF Found
        <5>2. \E i \in old : \A j \in old : i <= j
          BY <3>3, <5>1, LeastNatural
        <5>. QED  BY <5>2, Zenon
      <4>3. at \in 1 .. size(UserFlash)
        BY <4>2, Zenon DEF Found
      <4>. HIDE DEF at, old
      <4>. DEFINE b == ProgBegin(at)
                  e == ProgEnd(at)
      <4>4. b \in Int /\ e \in Int /\ 1 <= b /\ b <= e /\ e <= size(UserFlash)
        BY <1>1, <4>3, ProgramAround
      <4>. HIDE DEF b, e
      <4>5. size(UserFlash) - (e + 1 - b) + p[2] <= NUMPROG_FLASH_MAX
        <5>1. p[2] - (1 + e - b) <= NUMPROG_FLASH_MAX - size(UserFlash)
          BY <4>1, Zenon DEF b, e
        <5>. QED  BY <1>1, <3>1, <4>4, <5>1, SizesAre, SMT
      <4>6. job' = flash_remove(b, e, p)
        BY <4>1 DEF b, e
      <4>. QED  BY <1>1, <4>4, <4>5, <4>6, TakeStarts
    <3>. QED  BY <3>2, <3>3
  <2>. QED  BY <2>1, <2>2 DEF Commands
<1>3. ~Removing /\ \A i \in 1 .. size(UserFlash') : Same(i)'
  BY <1>1, Zenon DEF LibInv, Removing, Same
<1>. QED  BY <1>1, <1>2, <1>3, Zenon DEF LibInv

-----------------------------------------------------------------------------
(* The last call writes the header *)

(* When only the header is left, all words of the new size are in the file.   *)
LEMMA HeaderLeft ==
    ASSUME LibInv, ~Idle, Len(job.stages) = 1
    PROVE  /\ job.stages = <<Header>> /\ job.stages[1] = Header /\ PagesToWrite = 1
           /\ Header \in Calls /\ Header[1] = 0 /\ Header[2] = 0
           /\ \A i \in Index : job.dest <= i /\ i <= job.size => Same(i) /\ Delivered(i)
<1>1. Header \in Calls /\ Header[1] = 0 /\ Header[2] = 0
  BY SMT DEF Header, Calls
<1>2. \A d \in Calls : Len(<<d, Header>>) = 2
  BY <1>1
<1>3. \A d, e \in Calls : Len(<<d, e, Header>>) = 3
  BY <1>1
<1>4. \A d \in Calls : job.stages # <<d, Header>>
  BY <1>2, SMT
<1>5. \A d, e \in Calls : job.stages # <<d, e, Header>>
  BY <1>3, SMT
<1>6. Progress
  BY DEF LibInv, UnderWay
<1>7. /\ job.stages = <<Header>>
      /\ \A i \in Index : job.dest <= i /\ i <= job.size => Same(i) /\ Delivered(i)
  BY <1>4, <1>5, <1>6, Zenon DEF Progress
<1>8. job.stages[1] = Header
  BY <1>7
<1>9. PagesToWrite = 1
  BY <1>1, <1>8, SMT DEF PagesToWrite
<1>. QED  BY <1>1, <1>7, <1>8, <1>9

(* The new size is that of the words in front of dest and of those moved there. *)
LEMMA JobSizes ==
    ASSUME LibInv, ~Idle
    PROVE  /\ job.dest \in Int /\ job.dest >= 1 /\ job.dest <= 1 + size(UserFlash)
           /\ job.size \in 0 .. NUMPROG_FLASH_MAX
           /\ size(UserFlash) \in Int /\ size(libfile) \in Int
           /\ ~Removing => /\ Adding /\ size(libfile) <= size(UserFlash)
                           /\ job.dest = 1 + size(UserFlash) /\ size(UserFlash) < job.size
<1>1. UnderWay /\ size(UserFlash) \in Int /\ size(libfile) \in Int
  BY SMT DEF LibInv
<1>2. CASE Adding
  <2>1. /\ job.prog[2] \in Nat /\ job.prog[2] > 0
        /\ job.dest = 1 + size(UserFlash) /\ job.size = size(UserFlash) + job.prog[2]
    BY <1>2, SizesAre DEF Adding
  <2>. QED  BY <1>1, <1>2, <2>1, SizesAre, SMT DEF LibInv, UnderWay
<1>3. CASE Taking
  <2>1. Removing
    BY <1>3 DEF Taking, Removing
  <2>. QED  BY <1>1, <1>3, <2>1, SizesAre, SMT DEF LibInv, UnderWay, Taking
<1>. QED  BY <1>1, <1>2, <1>3 DEF UnderWay

LEMMA HeaderCall ==
    ASSUME LibInv, program_flash, Len(job.stages) = 1
    PROVE  LibInv'
<1>1. /\ ~Idle /\ UserFlash' = Copied /\ libfile' = Written(1)
      /\ job' = NextCall(Copied)
  <2>1. ~(1 > 1)
    OBVIOUS
  <2>2. ~Idle
    BY DEF program_flash
  <2>. QED  BY <2>1, <2>2, HeaderLeft, Zenon DEF program_flash
<1>2. /\ DOMAIN UserFlash' = Index /\ UserFlash'[0] = job.size
      /\ \A i \in Index : i # 0 => UserFlash'[i] = UserFlash[i]
  BY <1>1, CopiedHeader
<1>3. /\ DOMAIN libfile' = Index
      /\ \A i \in Index : libfile'[i] =
            IF 0 <= PageOf(i) /\ PageOf(i) <= 0 + 1 - 1 THEN UserFlash'[i] ELSE libfile[i]
  BY <1>1, HeaderLeft, WrittenWords
<1>4. 0 \in Index /\ PageOf(0) = 0
  BY SizesAre, SMT DEF PageOf
<1>5. UserFlash'[0] = job.size /\ libfile'[0] = job.size /\ job.size \in 0 .. NUMPROG_FLASH_MAX
  <2>1. 0 <= 0 /\ 0 <= 0 + 1 - 1
    OBVIOUS
  <2>. QED  BY <1>1, <1>2, <1>3, <1>4, <2>1, JobSizes
<1>6. size(UserFlash') = job.size /\ size(libfile') = job.size
  BY <1>5, Zenon DEF size
<1>7. ASSUME NEW i \in 1 .. job.size
      PROVE  Same(i)'
  <2>1. i \in Index /\ i # 0 /\ i \in Int
    BY <1>5, <1>7, SizesAre, SMT
  <2>2. Same(i)
    <3>1. CASE job.dest <= i
      BY <1>1, <1>5, <1>7, <2>1, <3>1, HeaderLeft, SMT
    <3>2. CASE ~(job.dest <= i)
      <4>1. i \in 1 .. size(UserFlash)
        BY <1>1, <1>7, <3>2, JobSizes, SMT
      <4>. QED  BY <4>1 DEF LibInv
    <3>. QED  BY <3>1, <3>2
  <2>. QED  BY <1>2, <1>3, <2>1, <2>2, Zenon DEF Same
<1>8. job' \in Jobs /\ (Idle' \/ (UnderWay' /\ ~Idle'))
  <2>1. CASE job.then = NoProgram
    <3>1. job' = NoJob
      BY <1>1, <2>1, Zenon DEF NextCall
    <3>. QED  BY <3>1, NoJobIdle
  <2>2. CASE job.then # NoProgram
    <3>1. /\ job.then \in Programs /\ job.size + job.then[2] <= NUMPROG_FLASH_MAX
      BY <1>1, <2>2, Zenon DEF LibInv, UnderWay, Adding, Taking
    <3>2. job' = flash_append(1 + size(UserFlash'), job.then,
                              size(UserFlash') + job.then[2], NoProgram)
      BY <1>1, <2>2, Zenon DEF NextCall
    <3>3. size(UserFlash') \in Nat /\ size(UserFlash') + job.then[2] <= NUMPROG_FLASH_MAX
      BY <1>5, <1>6, <3>1, SizesAre, SMT
    <3>. QED  BY <3>1, <3>2, <3>3, AddStarts
  <2>. QED  BY <2>1, <2>2
<1>9. size(libfile') <= size(UserFlash')
  BY <1>5, <1>6, SMT
<1>. QED  BY <1>2, <1>3, <1>5, <1>6, <1>7, <1>8, <1>9, Zenon DEF LibInv

-----------------------------------------------------------------------------
(* Faults *)

(* The words of a are the first of b.                                         *)
Prefix(a, b) == size(a) <= size(b) /\ \A i \in 1 .. size(a) : b[i] = a[i]

(* A call of an addition, whether it ends or not, leaves the words there are. *)
LEMMA AddingKeeps ==
    ASSUME LibInv, ~Idle, ~Removing, NEW n \in Int
    PROVE  /\ DOMAIN Copied = Index /\ DOMAIN Written(n) = Index
           /\ Copied[0] = IF Len(job.stages) = 1 THEN job.size ELSE UserFlash[0]
           /\ Written(n)[0] \in {libfile[0], Copied[0]}
           /\ Prefix(UserFlash, Copied) /\ Prefix(libfile, Written(n))
<1>1. /\ job.dest \in Int /\ job.dest = 1 + size(UserFlash) /\ size(UserFlash) < job.size
      /\ size(UserFlash) \in Int /\ size(libfile) \in Int /\ job.size \in Int
      /\ size(libfile) <= size(UserFlash)
      /\ size(UserFlash) \in 0 .. NUMPROG_FLASH_MAX
  <2>1. job.size \in 0 .. NUMPROG_FLASH_MAX
    BY JobSizes
  <2>2. job.size \in Int
    BY <2>1, SMT
  <2>. QED  BY <2>2, JobSizes DEF LibInv
<1>2. PICK d \in Calls : job.stages[1] = d
  BY CallsLeft, HeaderLeft
<1>3. /\ DOMAIN Copied = Index
      /\ Copied[0] = IF Len(job.stages) = 1 THEN job.size ELSE UserFlash[0]
      /\ \A i \in Index : 1 <= i /\ i < job.dest => Copied[i] = UserFlash[i]
  <2>1. CASE Len(job.stages) = 1
    <3>1. \A i \in Index : 1 <= i => i # 0
      BY SMT
    <3>. QED  BY <2>1, <3>1, CopiedHeader
  <2>2. CASE Len(job.stages) # 1
    <3>1. \A i \in Index : i < job.dest => ~(job.dest <= i)
      BY <1>1, SizesAre, SMT
    <3>. QED  BY <1>2, <2>2, <3>1, CopiedWords
  <2>. QED  BY <2>1, <2>2
<1>4. DOMAIN Written(n) = Index
      /\ \A i \in Index : Written(n)[i] \in {libfile[i], Copied[i]}
  BY <1>2, WrittenWords
<1>5. 0 \in Index /\ \A i \in 1 .. size(UserFlash) : i \in Index /\ 1 <= i /\ i < job.dest
  BY <1>1, SizesAre, SMT
<1>6. Written(n)[0] \in {libfile[0], Copied[0]}
  BY <1>4, <1>5
<1>7. Prefix(UserFlash, Copied)
  <2>1. size(UserFlash) <= size(Copied)
    BY <1>1, <1>3, SMT DEF size
  <2>. QED  BY <1>3, <1>5, <2>1 DEF Prefix
<1>8. Prefix(libfile, Written(n))
  <2>1. size(libfile) <= size(Written(n))
    BY <1>1, <1>3, <1>6, SMT DEF size
  <2>2. ASSUME NEW i \in 1 .. size(libfile)
        PROVE  Written(n)[i] = libfile[i]
    <3>1. i \in 1 .. size(UserFlash)
      BY <1>1, <2>2, SMT
    <3>2. Same(i) /\ Copied[i] = UserFlash[i] /\ Written(n)[i] \in {libfile[i], Copied[i]}
      BY <1>3, <1>4, <1>5, <3>1 DEF LibInv
    <3>. QED  BY <3>2, Zenon DEF Same
  <2>. QED  BY <2>1, <2>2 DEF Prefix
<1>. QED  BY <1>3, <1>4, <1>6, <1>7, <1>8

LEMMA DiskFailsKeeps ==
    ASSUME LibInv, ~Removing, NEW n \in Nat, DiskFails(n)
    PROVE  LibInv'
<1>1. /\ ~Idle /\ n < PagesToWrite /\ UserFlash' = Copied /\ libfile' = Written(n)
      /\ broken' = TRUE
  BY DEF DiskFails
<1>2. Adding /\ n \in Int
  BY <1>1, JobSizes, SMT
<1>3. job' = NoJob
  BY <1>2, Zenon DEF DiskFails, NextCall, Adding
<1>4. /\ DOMAIN UserFlash' = Index /\ DOMAIN libfile' = Index
      /\ UserFlash'[0] = (IF Len(job.stages) = 1 THEN job.size ELSE UserFlash[0])
      /\ libfile'[0] \in {libfile[0], UserFlash'[0]}
      /\ Prefix(UserFlash, UserFlash') /\ Prefix(libfile, libfile')
  BY <1>1, <1>2, AddingKeeps
<1>5. /\ size(UserFlash') \in 0 .. NUMPROG_FLASH_MAX
      /\ size(libfile') \in 0 .. NUMPROG_FLASH_MAX
      /\ size(libfile') <= size(UserFlash')
  <2>1. /\ job.size \in 0 .. NUMPROG_FLASH_MAX
        /\ UserFlash[0] < job.size /\ libfile[0] <= UserFlash[0]
        /\ UserFlash[0] \in 0 .. NUMPROG_FLASH_MAX /\ libfile[0] \in 0 .. NUMPROG_FLASH_MAX
    BY <1>1, JobSizes DEF size, LibInv
  <2>. QED  BY <1>4, <2>1, SizesAre, SMT DEF size
<1>6. ASSUME NEW i \in 1 .. size(UserFlash')
      PROVE  Same(i)'
  <2>1. i \in Index /\ i \in Int /\ 1 <= i /\ i # 0
    BY <1>5, <1>6, SizesAre, SMT
  <2>2. CASE Len(job.stages) = 1
    <3>1. job.stages[1] = Header /\ Header \in Calls /\ Header[1] = 0 /\ n = 0
      BY <1>1, <2>2, HeaderLeft, SMT
    <3>2. PageOf(i) \in Nat
      BY <2>1, PageOfWord
    <3>3. ~(0 <= PageOf(i) /\ PageOf(i) <= 0 + n - 1)
      BY <3>1, <3>2, SMT
    <3>4. libfile'[i] = libfile[i] /\ UserFlash'[i] = UserFlash[i]
      BY <1>1, <1>2, <2>1, <2>2, <3>1, <3>3, WrittenWords, CopiedHeader
    <3>5. i <= job.size
      BY <1>4, <1>6, <2>2, SMT DEF size
    <3>6. Same(i)
      <4>1. CASE job.dest <= i
        BY <1>1, <2>1, <2>2, <3>5, <4>1, HeaderLeft
      <4>2. CASE ~(job.dest <= i)
        <5>1. i \in 1 .. size(UserFlash)
          BY <1>1, <2>1, <4>2, JobSizes, SMT
        <5>. QED  BY <5>1 DEF LibInv
      <4>. QED  BY <4>1, <4>2
    <3>. QED  BY <3>4, <3>6, Zenon DEF Same
  <2>3. CASE Len(job.stages) # 1
    <3>1. size(UserFlash') = size(UserFlash)
      BY <1>4, <2>3, Zenon DEF size
    <3>2. i \in 1 .. size(UserFlash)
      BY <1>6, <3>1, Zenon
    <3>3. PICK d \in Calls : job.stages[1] = d
      BY <1>1, CallsLeft, HeaderLeft
    <3>4. libfile'[i] \in {libfile[i], UserFlash'[i]}
      BY <1>1, <1>2, <2>1, <3>3, WrittenWords
    <3>5. UserFlash'[i] = UserFlash[i] /\ Same(i)
      BY <1>4, <3>2 DEF Prefix, LibInv
    <3>. QED  BY <3>4, <3>5, Zenon DEF Same
  <2>. QED  BY <2>2, <2>3
<1>7. job' \in Jobs /\ Idle'
  BY <1>3, NoJobIdle
<1>. QED  BY <1>1, <1>4, <1>5, <1>6, <1>7, Zenon DEF LibInv

LEMMA PowerLossKeeps ==
    ASSUME LibInv, ~Removing, NEW n \in Nat, PowerLoss(n)
    PROVE  LibInv'
<1>1. /\ UserFlash' = libfile' /\ job' = NoJob
      /\ libfile' = (IF Idle THEN libfile ELSE Written(n))
  BY Zenon DEF PowerLoss
<1>2. DOMAIN libfile' = Index /\ size(libfile') \in 0 .. NUMPROG_FLASH_MAX
  <2>1. CASE Idle
    BY <1>1, <2>1, Zenon DEF LibInv
  <2>2. CASE ~Idle
    <3>1. n \in Int /\ libfile' = Written(n)
      BY <1>1, <2>2, SMT
    <3>2. /\ DOMAIN libfile' = Index
          /\ Copied[0] = (IF Len(job.stages) = 1 THEN job.size ELSE UserFlash[0])
          /\ libfile'[0] \in {libfile[0], Copied[0]}
      BY <2>2, <3>1, AddingKeeps
    <3>3. /\ job.size \in 0 .. NUMPROG_FLASH_MAX
          /\ UserFlash[0] \in 0 .. NUMPROG_FLASH_MAX /\ libfile[0] \in 0 .. NUMPROG_FLASH_MAX
      BY <2>2, JobSizes DEF size, LibInv
    <3>. QED  BY <3>2, <3>3, Zenon DEF size
  <2>. QED  BY <2>1, <2>2
<1>3. job' \in Jobs /\ Idle'
  BY <1>1, NoJobIdle
<1>4. size(libfile') <= size(libfile') /\ size(libfile') = size(UserFlash')
  BY <1>1, <1>2, SizesAre, SMT
<1>. QED  BY <1>1, <1>2, <1>3, <1>4, Zenon DEF LibInv, Same

-----------------------------------------------------------------------------
(* Every step *)

LEMMA InvStep ==
    ASSUME LibInv, [CheckedNext]_vars
    PROVE  LibInv'
<1>1. CASE Commands
  BY <1>1, CommandStarts
<1>2. CASE program_flash
  BY <1>2, HeaderCall, DataCall
<1>3. ASSUME NEW n \in 0 .. Pages, ~Removing, Faults(n)
      PROVE  LibInv'
  <2>1. n \in Nat
    BY SizesAre, SMT
  <2>. QED  BY <1>3, <2>1, DiskFailsKeeps, PowerLossKeeps DEF Faults
<1>4. CASE UNCHANGED vars
  <2>1. UserFlash' = UserFlash /\ libfile' = libfile /\ job' = job /\ broken' = broken
    BY <1>4 DEF vars
  <2>2. Progress => Progress'
    BY <2>1, Zenon DEF Progress, Done, Reaches, Same, Delivered
  <2>3. (Adding \/ Taking) => (Adding \/ Taking)'
    BY <2>1, Zenon DEF Adding, Taking
  <2>4. Idle \/ UnderWay => Idle' \/ UnderWay'
    BY <2>1, <2>2, <2>3, Zenon DEF Idle, UnderWay
  <2>. QED  BY <2>1, <2>4, Zenon DEF LibInv, Idle, Removing, Same
<1>. QED  BY <1>1, <1>2, <1>3, <1>4 DEF CheckedNext

(* Memory and file agree on the words of the library, and the calls that are  *)
(* left deliver the rest: whatever commands and faults of CheckedNext come    *)
(* between two calls of program_flash.                                       *)
THEOREM LibraryIsSound == CheckedSpec => []LibInv
<1>1. Init => LibInv
  BY InvInit
<1>2. LibInv /\ [CheckedNext]_vars => LibInv'
  BY InvStep
<1>. QED  BY <1>1, <1>2, PTL DEF CheckedSpec

(* Between commands none of which a fault has cut short, a program lookup in  *)
(* memory sees the words that the file of the library holds: the two writes   *)
(* of program_flash never come apart.                                        *)
THEOREM FileIsMemory == CheckedSpec => []FileFollows
<1>1. ASSUME LibInv
      PROVE  FileFollows
  <2>. SUFFICES ASSUME Idle, ~broken
                PROVE  Content(libfile) = Content(UserFlash)
    BY DEF FileFollows
  <2>1. size(libfile) = size(UserFlash) /\ \A i \in 1 .. size(UserFlash) : Same(i)
    BY <1>1 DEF LibInv
  <2>2. \A i \in 1 .. size(UserFlash) : libfile[i] = UserFlash[i]
    BY <2>1 DEF Same
  <2>. QED  BY <2>1, <2>2, Zenon DEF Content
<1>. QED  BY <1>1, LibraryIsSound, PTL

(* Unless a removal is under way, no step takes or changes a word of a        *)
(* program, in memory or file: flash_append writes behind what the header     *)
(* counts, and the header last.  Only a restart may take from memory what a   *)
(* failed write kept from the file.                                          *)
ProgramsKept ==
    [][~Removing => /\ Prefix(libfile, libfile')
                    /\ Prefix(UserFlash, UserFlash') \/ UserFlash' = libfile']_vars

LEMMA PrefixOfItself ==
    ASSUME LibInv
    PROVE  Prefix(libfile, libfile) /\ Prefix(UserFlash, UserFlash)
<1>1. size(libfile) <= size(libfile) /\ size(UserFlash) <= size(UserFlash)
  BY SizesAre, SMT DEF LibInv
<1>. QED  BY <1>1 DEF Prefix

LEMMA KeptStep ==
    ASSUME LibInv, [CheckedNext]_vars, ~Removing
    PROVE  /\ Prefix(libfile, libfile')
           /\ Prefix(UserFlash, UserFlash') \/ UserFlash' = libfile'
<1>1. CASE Commands \/ UNCHANGED vars
  <2>1. UserFlash' = UserFlash /\ libfile' = libfile
    BY <1>1 DEF Commands, store_program, clrprog, vars
  <2>. QED  BY <2>1, PrefixOfItself
<1>2. CASE program_flash
  <2>1. ~Idle /\ UserFlash' = Copied /\ libfile' = Written(PagesToWrite)
    BY <1>2 DEF program_flash
  <2>2. PagesToWrite \in Int
    <3>1. PICK d \in Calls : job.stages[1] = d
      BY <2>1, CallsLeft, HeaderLeft
    <3>. QED  BY <3>1, SMT DEF PagesToWrite, Calls
  <2>. QED  BY <2>1, <2>2, AddingKeeps
<1>3. ASSUME NEW n \in 0 .. Pages, DiskFails(n)
      PROVE  Prefix(libfile, libfile') /\ Prefix(UserFlash, UserFlash')
  <2>1. ~Idle /\ UserFlash' = Copied /\ libfile' = Written(n) /\ n \in Int
    BY <1>3, SizesAre, SMT DEF DiskFails
  <2>. QED  BY <2>1, AddingKeeps
<1>4. ASSUME NEW n \in 0 .. Pages, PowerLoss(n)
      PROVE  Prefix(libfile, libfile') /\ UserFlash' = libfile'
  <2>1. UserFlash' = libfile' /\ libfile' = (IF Idle THEN libfile ELSE Written(n))
    BY <1>4, Zenon DEF PowerLoss
  <2>2. n \in Int
    BY SMT
  <2>. QED  BY <2>1, <2>2, AddingKeeps, PrefixOfItself
<1>. QED  BY <1>1, <1>2, <1>3, <1>4 DEF CheckedNext, Faults

(* Whatever fault meets PSTO or the loading of a program, the programs that   *)
(* were in the library stay in memory and in the file.                       *)
THEOREM ProgramsAreKept == CheckedSpec => ProgramsKept
<1>1. LibInv /\ [CheckedNext]_vars =>
        [~Removing => /\ Prefix(libfile, libfile')
                      /\ Prefix(UserFlash, UserFlash') \/ UserFlash' = libfile']_vars
  BY KeptStep
<1>. QED  BY <1>1, LibraryIsSound, PTL DEF CheckedSpec, ProgramsKept

(* A program that comes into the memory's library comes with all its words,   *)
(* behind those that were there: the size is written when the words are.      *)
AddedWhole ==
    [][~Removing /\ size(UserFlash') > size(UserFlash) =>
         \E p \in Programs :
             /\ size(UserFlash') = size(UserFlash) + p[2]
             /\ \A k \in 1 .. p[2] : UserFlash'[size(UserFlash) + k] = <<p, k>>]_vars

(* Behind the header that only is left lie the words of the program.          *)
LEMMA AddingDelivers ==
    ASSUME LibInv, ~Idle, ~Removing, Len(job.stages) = 1, NEW k \in 1 .. job.prog[2]
    PROVE  /\ size(UserFlash) + k \in Index
           /\ Copied[size(UserFlash) + k] = <<job.prog, k>>
           /\ libfile[size(UserFlash) + k] = <<job.prog, k>>
<1>. DEFINE i == size(UserFlash) + k
<1>1. /\ job.prog \in Programs /\ job.dest = 1 + size(UserFlash)
      /\ job.size = size(UserFlash) + job.prog[2] /\ job.size \in 0 .. NUMPROG_FLASH_MAX
      /\ size(UserFlash) \in 0 .. NUMPROG_FLASH_MAX
  BY JobSizes DEF Adding, LibInv
<1>2. job.prog # NoProgram /\ job.prog[2] \in Nat
  BY <1>1, SizesAre
<1>3. /\ i \in Index /\ i # 0 /\ job.dest <= i /\ i <= job.size
      /\ i - job.dest < job.prog[2] /\ i - job.dest + 1 = k
  <2>. DEFINE m == job.prog[2]
              n == size(UserFlash)
  <2>1. /\ m \in Nat /\ k \in 1 .. m /\ n \in 0 .. NUMPROG_FLASH_MAX
        /\ n + m \in 0 .. NUMPROG_FLASH_MAX /\ job.dest = 1 + n /\ job.size = n + m
    BY <1>1, <1>2, Zenon
  <2>. HIDE DEF m, n
  <2>2. /\ n + k \in Index /\ n + k # 0 /\ job.dest <= n + k /\ n + k <= job.size
        /\ n + k - job.dest < m /\ n + k - job.dest + 1 = k
    BY <2>1, SizesAre, SMT
  <2>3. i = n + k
    BY Zenon DEF n
  <2>. HIDE DEF i
  <2>4. /\ i \in Index /\ i # 0 /\ job.dest <= i /\ i <= job.size
        /\ i - job.dest < m /\ i - job.dest + 1 = k
    BY <2>1, <2>2, <2>3, SizesAre, SMT
  <2>. QED  BY <2>4, Zenon DEF m
<1>. HIDE DEF i
<1>4. Same(i) /\ Delivered(i) /\ Copied[i] = UserFlash[i]
  BY <1>3, HeaderLeft, CopiedHeader
<1>5. UserFlash[i] = <<job.prog, k>>
  <2>1. UserFlash[i] = <<job.prog, i - job.dest + 1>>
    BY <1>2, <1>3, <1>4, Zenon DEF Delivered
  <2>. QED  BY <1>3, <2>1, Zenon
<1>6. libfile[i] = <<job.prog, k>> /\ Copied[i] = <<job.prog, k>>
  BY <1>4, <1>5, Zenon DEF Same
<1>. QED  BY <1>3, <1>6 DEF i

LEMMA AddedStep ==
    ASSUME LibInv, [CheckedNext]_vars, ~Removing, size(UserFlash') > size(UserFlash)
    PROVE  \E p \in Programs :
             /\ size(UserFlash') = size(UserFlash) + p[2]
             /\ \A k \in 1 .. p[2] : UserFlash'[size(UserFlash) + k] = <<p, k>>
<1>0. size(UserFlash) \in Int /\ size(libfile) \in Int /\ size(libfile) <= size(UserFlash)
  BY SMT DEF LibInv
<1>1. ~Idle /\ (UserFlash' = Copied \/ \E n \in 0 .. Pages : UserFlash' = Written(n))
  <2>1. CASE Commands \/ UNCHANGED vars
    <3>1. UserFlash' = UserFlash
      BY <2>1 DEF Commands, store_program, clrprog, vars
    <3>. QED  BY <1>0, <3>1, SMT
  <2>2. CASE program_flash
    BY <2>2 DEF program_flash
  <2>3. ASSUME NEW n \in 0 .. Pages, DiskFails(n)
        PROVE  ~Idle /\ UserFlash' = Copied
    BY <2>3 DEF DiskFails
  <2>4. ASSUME NEW n \in 0 .. Pages, PowerLoss(n)
        PROVE  ~Idle /\ UserFlash' = Written(n)
    <3>1. UserFlash' = (IF Idle THEN libfile ELSE Written(n))
      BY <2>4, Zenon DEF PowerLoss
    <3>. QED  BY <1>0, <3>1, SMT
  <2>. QED  BY <2>1, <2>2, <2>3, <2>4, Zenon DEF CheckedNext, Faults
<1>2. /\ job.prog \in Programs /\ job.size = size(UserFlash) + job.prog[2]
      /\ 0 \in Index
  BY <1>1, JobSizes, SizesAre, SMT DEF Adding
<1>3. CASE UserFlash' = Copied
  <2>1. Copied[0] = IF Len(job.stages) = 1 THEN job.size ELSE UserFlash[0]
    BY <1>1, <1>0, AddingKeeps
  <2>2. Len(job.stages) = 1 /\ size(UserFlash') = job.size
    BY <1>0, <1>3, <2>1, SMT DEF size
  <2>3. \A k \in 1 .. job.prog[2] : UserFlash'[size(UserFlash) + k] = <<job.prog, k>>
    BY <1>1, <1>3, <2>2, AddingDelivers
  <2>. QED  BY <1>2, <2>2, <2>3
<1>4. ASSUME NEW n \in 0 .. Pages, UserFlash' = Written(n)
      PROVE  \E p \in Programs :
             /\ size(UserFlash') = size(UserFlash) + p[2]
             /\ \A k \in 1 .. p[2] : UserFlash'[size(UserFlash) + k] = <<p, k>>
  <2>0. n \in Int
    BY SMT
  <2>1. /\ Copied[0] = IF Len(job.stages) = 1 THEN job.size ELSE UserFlash[0]
        /\ UserFlash'[0] \in {libfile[0], Copied[0]}
    BY <1>1, <1>4, <2>0, AddingKeeps
  <2>2. Len(job.stages) = 1 /\ size(UserFlash') = job.size
    BY <1>0, <2>1, SMT DEF size
  <2>3. PICK d \in Calls : job.stages[1] = d
    BY <1>1, CallsLeft, HeaderLeft
  <2>4. ASSUME NEW k \in 1 .. job.prog[2]
        PROVE  UserFlash'[size(UserFlash) + k] = <<job.prog, k>>
    <3>1. /\ size(UserFlash) + k \in Index
          /\ Copied[size(UserFlash) + k] = <<job.prog, k>>
          /\ libfile[size(UserFlash) + k] = <<job.prog, k>>
      BY <1>1, <2>2, AddingDelivers
    <3>2. UserFlash'[size(UserFlash) + k] \in
              {libfile[size(UserFlash) + k], Copied[size(UserFlash) + k]}
      BY <1>4, <2>0, <2>3, <3>1, WrittenWords
    <3>. QED  BY <3>1, <3>2
  <2>. QED  BY <1>2, <2>2, <2>4
<1>. QED  BY <1>1, <1>3, <1>4

(* No fault lets a piece of a program into the library.                       *)
THEOREM AddedIsWhole == CheckedSpec => AddedWhole
<1>1. LibInv /\ [CheckedNext]_vars =>
        [~Removing /\ size(UserFlash') > size(UserFlash) =>
           \E p \in Programs :
             /\ size(UserFlash') = size(UserFlash) + p[2]
             /\ \A k \in 1 .. p[2] : UserFlash'[size(UserFlash) + k] = <<p, k>>]_vars
  BY AddedStep
<1>. QED  BY <1>1, LibraryIsSound, PTL DEF CheckedSpec, AddedWhole

-----------------------------------------------------------------------------
(* Words of whole programs *)

(* The first n words of X are those of whole programs, whose labels differ.   *)
Fine(X, n) ==
    /\ \A i \in 1 .. n : IsWord(X[i])
    /\ \A i \in 2 .. n : Follows(X[i - 1], X[i])
    /\ n > 0 => IsLabel(X[1]) /\ IsEND(X[n])
    /\ \A i, j \in 1 .. n :
          IsLabel(X[i]) /\ IsLabel(X[j]) /\ X[i][1][1] = X[j][1][1] => i = j

(* None of them has this label.                                               *)
Lacks(X, n, name) == \A i \in 1 .. n : IsLabel(X[i]) => X[i][1][1] # name

(* What LibraryWhole says of an image, said of its words.                     *)
LEMMA FineIsWhole ==
    ASSUME NEW X, size(X) \in 0 .. NUMPROG_FLASH_MAX, Fine(X, size(X))
    PROVE  Whole(X) /\ Distinct(X)
<1>. DEFINE n == size(X)
            w == Content(X)
<1>1. n \in Nat /\ \A i \in 1 .. n : i \in Index
  BY SizesAre, SMT
<1>2. \A i \in 1 .. n : w[i] = X[i]
  BY <1>1, Zenon DEF Content
<1>3. (\A i \in 2 .. n : i \in 1 .. n /\ i - 1 \in 1 .. n) /\ (n > 0 => 1 \in 1 .. n /\ n \in 1 .. n)
  BY <1>1, SMT
<1>4. /\ \A i \in 1 .. n : IsWord(w[i])
      /\ \A i \in 2 .. n : Follows(w[i - 1], w[i])
      /\ n > 0 => IsLabel(w[1]) /\ IsEND(w[n])
      /\ \A i, j \in 1 .. n :
            IsLabel(w[i]) /\ IsLabel(w[j]) /\ w[i][1][1] = w[j][1][1] => i = j
  BY <1>2, <1>3, Zenon DEF Fine
<1>. QED  BY <1>4, Zenon DEF Whole, Distinct

LEMMA SameFine ==
    ASSUME NEW X, NEW Y, NEW n \in Nat, \A i \in 1 .. n : Y[i] = X[i]
    PROVE  /\ Fine(X, n) => Fine(Y, n)
           /\ \A name : Lacks(X, n, name) => Lacks(Y, n, name)
<1>1. (\A i \in 2 .. n : i \in 1 .. n /\ i - 1 \in 1 .. n) /\ (n > 0 => 1 \in 1 .. n /\ n \in 1 .. n)
  BY SMT
<1>2. Fine(X, n) => Fine(Y, n)
  BY <1>1, Zenon DEF Fine
<1>. QED  BY <1>2, Zenon DEF Lacks

LEMMA FollowsEnd ==
    ASSUME NEW v, NEW w, IsEND(v)
    PROVE  Follows(v, w) <=> IsLabel(w)
BY Zenon DEF Follows

(* A program of another label behind them.                                    *)
LEMMA Appended ==
    ASSUME NEW X, NEW Y, NEW n \in Nat, NEW p \in Programs,
           Fine(X, n), Lacks(X, n, p[1]),
           \A i \in 1 .. n : Y[i] = X[i], \A k \in 1 .. p[2] : Y[n + k] = <<p, k>>
    PROVE  Fine(Y, n + p[2])
<1>. DEFINE m == p[2]
<1>1. m \in Nat /\ m > 0 /\ p # NoProgram
  BY SizesAre
<1>2. ASSUME NEW k \in 1 .. m
      PROVE  /\ IsWord(<<p, k>>) /\ (IsLabel(<<p, k>>) <=> k = 1)
             /\ (IsEND(<<p, k>>) <=> k = m)
             /\ Y[n + k] = <<p, k>> /\ Y[n + k][1][1] = p[1]
  <2>1. <<p, k>> # Junk
    BY <1>1, Zenon DEF Junk
  <2>. QED  BY <2>1 DEF IsWord, IsLabel, IsEND
<1>3. ASSUME NEW k \in 1 .. m, k # m
      PROVE  Follows(<<p, k>>, <<p, k + 1>>)
  BY <1>2, <1>3 DEF Follows
<1>. HIDE DEF m
<1>4. ASSUME NEW i \in 1 .. n + m
      PROVE  \/ i \in 1 .. n /\ Y[i] = X[i]
             \/ \E k \in 1 .. m : i = n + k /\ Y[i] = <<p, k>>
  <2>1. CASE i <= n
    BY <2>1, SMT
  <2>2. CASE i > n
    <3>1. i - n \in 1 .. m /\ i = n + (i - n)
      BY <1>1, <2>2, SMT
    <3>2. Y[n + (i - n)] = <<p, i - n>>
      BY <1>2, <3>1
    <3>. QED  BY <3>1, <3>2
  <2>. QED  BY <2>1, <2>2, SMT
<1>5. ASSUME NEW i \in 1 .. n + m
      PROVE  IsWord(Y[i])
  <2>1. CASE i \in 1 .. n /\ Y[i] = X[i]
    BY <2>1, Zenon DEF Fine
  <2>2. ASSUME NEW k \in 1 .. m, Y[i] = <<p, k>>
        PROVE  IsWord(Y[i])
    BY <1>2, <2>2, Zenon
  <2>. QED  BY <1>4, <2>1, <2>2
<1>6. ASSUME NEW i \in 2 .. n + m
      PROVE  Follows(Y[i - 1], Y[i])
  <2>1. CASE i <= n
    <3>1. i \in 2 .. n /\ i \in 1 .. n /\ i - 1 \in 1 .. n
      BY <2>1, SMT
    <3>. QED  BY <3>1, Zenon DEF Fine
  <2>2. CASE i = n + 1
    <3>1. n \in 1 .. n /\ n > 0 /\ i - 1 = n /\ 1 \in 1 .. m
      BY <1>1, <2>2, SMT
    <3>2. IsEND(Y[i - 1]) /\ IsLabel(Y[i])
      BY <1>2, <2>2, <3>1, Zenon DEF Fine
    <3>. QED  BY <3>2, FollowsEnd
  <2>3. CASE i > n + 1
    <3>. DEFINE k == i - 1 - n
    <3>1. k \in 1 .. m /\ k + 1 \in 1 .. m /\ k # m /\ n + k = i - 1 /\ n + (k + 1) = i
      BY <1>1, <2>3, SMT
    <3>. HIDE DEF k
    <3>2. Y[i - 1] = <<p, k>> /\ Y[i] = <<p, k + 1>>
      BY <1>2, <3>1, Zenon
    <3>. QED  BY <1>3, <3>1, <3>2
  <2>. QED  BY <2>1, <2>2, <2>3, SMT
<1>7. IsLabel(Y[1]) /\ IsEND(Y[n + m])
  <2>1. m \in 1 .. m /\ 1 \in 1 .. m /\ (n = 0 => n + 1 = 1) /\ (n # 0 => n > 0 /\ 1 \in 1 .. n)
    BY <1>1, SMT
  <2>2. IsEND(Y[n + m])
    BY <1>2, <2>1, Zenon
  <2>3. IsLabel(Y[n + 1])
    BY <1>2, <2>1, Zenon
  <2>4. IsLabel(Y[1])
    BY <2>1, <2>3, Zenon DEF Fine
  <2>. QED  BY <2>2, <2>4
<1>8. ASSUME NEW i \in 1 .. n + m, NEW j \in 1 .. n + m,
             IsLabel(Y[i]), IsLabel(Y[j]), Y[i][1][1] = Y[j][1][1]
      PROVE  i = j
  <2>1. ASSUME NEW h \in 1 .. n + m, IsLabel(Y[h])
        PROVE  \/ h \in 1 .. n /\ Y[h] = X[h] /\ Y[h][1][1] # p[1]
               \/ h = n + 1 /\ Y[h][1][1] = p[1]
    <3>1. CASE h \in 1 .. n /\ Y[h] = X[h]
      BY <2>1, <3>1, Zenon DEF Lacks
    <3>2. ASSUME NEW k \in 1 .. m, h = n + k, Y[h] = <<p, k>>
          PROVE  h = n + 1 /\ Y[h][1][1] = p[1]
      BY <1>2, <2>1, <3>2, Zenon
    <3>. QED  BY <1>4, <3>1, <3>2
  <2>. QED  BY <1>8, <2>1, Zenon DEF Fine
<1>9. Fine(Y, n + m)
  BY <1>5, <1>6, <1>7, <1>8, Zenon DEF Fine
<1>. QED  BY <1>9 DEF m

(* Words b .. e of them taken away, whole programs themselves.                *)
LEMMA CutFine ==
    ASSUME NEW X, NEW Y, NEW n \in Nat, Fine(X, n),
           NEW b \in Nat, NEW e \in Nat, 1 <= b, b <= e, e <= n,
           b = 1 \/ IsEND(X[b - 1]), IsEND(X[e]),
           \A i \in 1 .. n - (e + 1 - b) :
               Y[i] = IF i < b THEN X[i] ELSE X[i + (e + 1 - b)]
    PROVE  Fine(Y, n - (e + 1 - b))
<1>. DEFINE s == e + 1 - b
            m == n - s
            at(i) == IF i < b THEN i ELSE i + s
<1>1. s \in Nat /\ s > 0 /\ m \in Nat /\ b - 1 <= m /\ m + s = n /\ b + s = e + 1
  BY SMT
<1>2. \A i \in 1 .. m : Y[i] = X[at(i)]
  BY SMT
<1>. HIDE DEF s, m
<1>3. /\ \A i \in 1 .. m : at(i) \in 1 .. n
      /\ \A i, j \in 1 .. m : at(i) = at(j) => i = j
  BY <1>1, SMT
<1>4. \A i \in 1 .. m : IsWord(Y[i])
  BY <1>2, <1>3, Zenon DEF Fine
<1>5. ASSUME NEW i \in 2 .. m
      PROVE  Follows(Y[i - 1], Y[i])
  <2>0. i \in 1 .. m /\ i - 1 \in 1 .. m /\ Y[i] = X[at(i)] /\ Y[i - 1] = X[at(i - 1)]
    <3>1. i \in 1 .. m /\ i - 1 \in 1 .. m
      BY <1>1, SMT
    <3>. QED  BY <1>2, <3>1
  <2>1. CASE i # b
    <3>1. at(i) \in 2 .. n /\ at(i - 1) = at(i) - 1
      BY <1>1, <2>1, SMT
    <3>. QED  BY <2>0, <3>1, Zenon DEF Fine
  <2>2. CASE i = b
    <3>1. /\ at(i - 1) = b - 1 /\ at(i) = e + 1 /\ e + 1 \in 2 .. n /\ b # 1
          /\ (e + 1) - 1 = e
      BY <1>1, <2>2, SMT
    <3>2. IsEND(X[b - 1]) /\ Follows(X[e], X[e + 1])
      <4>1. Follows(X[(e + 1) - 1], X[e + 1])
        BY <3>1, Zenon DEF Fine
      <4>. QED  BY <3>1, <4>1, Zenon
    <3>3. IsLabel(X[e + 1])
      BY <3>2, FollowsEnd
    <3>4. IsEND(Y[i - 1]) /\ IsLabel(Y[i])
      BY <2>0, <3>1, <3>2, <3>3, Zenon
    <3>. QED  BY <3>4, FollowsEnd
  <2>. QED  BY <2>1, <2>2
<1>6. ASSUME m > 0
      PROVE  IsLabel(Y[1]) /\ IsEND(Y[m])
  <2>0. 1 \in 1 .. m /\ m \in 1 .. m /\ n > 0
    BY <1>1, <1>6, SMT
  <2>1. IsLabel(Y[1])
    <3>1. CASE b = 1
      <4>1. at(1) = e + 1 /\ e + 1 \in 2 .. n /\ (e + 1) - 1 = e
        BY <1>1, <1>6, <3>1, SMT
      <4>2. Follows(X[(e + 1) - 1], X[e + 1])
        BY <4>1, Zenon DEF Fine
      <4>3. IsLabel(X[e + 1])
        BY <4>1, <4>2, FollowsEnd, Zenon
      <4>. QED  BY <1>2, <2>0, <4>1, <4>3, Zenon
    <3>2. CASE b # 1
      <4>1. at(1) = 1
        BY <3>2, SMT
      <4>. QED  BY <1>2, <2>0, <4>1, Zenon DEF Fine
    <3>. QED  BY <3>1, <3>2
  <2>2. IsEND(Y[m])
    <3>1. CASE m < b
      <4>1. at(m) = b - 1 /\ b # 1
        BY <1>1, <1>6, <3>1, SMT
      <4>. QED  BY <1>2, <2>0, <4>1, Zenon
    <3>2. CASE ~(m < b)
      <4>1. at(m) = n
        BY <1>1, <3>2, SMT
      <4>. QED  BY <1>2, <2>0, <4>1, Zenon DEF Fine
    <3>. QED  BY <3>1, <3>2
  <2>. QED  BY <2>1, <2>2
<1>7. ASSUME NEW i \in 1 .. m, NEW j \in 1 .. m,
             IsLabel(Y[i]), IsLabel(Y[j]), Y[i][1][1] = Y[j][1][1]
      PROVE  i = j
  <2>1. Y[i] = X[at(i)] /\ Y[j] = X[at(j)] /\ at(i) \in 1 .. n /\ at(j) \in 1 .. n
    BY <1>2, <1>3
  <2>. HIDE DEF at
  <2>2. at(i) = at(j)
    BY <1>7, <2>1, Zenon DEF Fine
  <2>. QED  BY <1>3, <2>2, Zenon DEF at
<1>8. Fine(Y, m)
  BY <1>4, <1>5, <1>6, <1>7, Zenon DEF Fine
<1>. QED  BY <1>8 DEF m, s

-----------------------------------------------------------------------------
(* The library is whole between commands, and while a program is added.       *)
(* While one is removed the words are whole that the removal will leave: those *)
(* it has moved where they now lie, and the others shift words behind.        *)

Goal == [i \in 1 .. job.size |->
            IF i < job.dest \/ Len(job.stages) = 1 \/ PageOf(i) < job.stages[1][1]
            THEN UserFlash[i] ELSE UserFlash[i + job.shift]]

WholeInv ==
    /\ ~Removing => Fine(UserFlash, size(UserFlash)) /\ Fine(libfile, size(libfile))
    /\ ~Idle /\ ~Removing => Lacks(UserFlash, size(UserFlash), job.prog[1])
    /\ Removing => /\ job.shift \in Nat /\ size(UserFlash) = job.size + job.shift
                   /\ Fine(Goal, job.size)
                   /\ job.then # NoProgram => Lacks(Goal, job.size, job.then[1])

(* A call of an addition, whether it ends or not.                             *)
LEMMA AddingFine ==
    ASSUME LibInv, WholeInv, ~Idle, ~Removing, NEW n \in Int
    PROVE  /\ Fine(Copied, size(Copied)) /\ Fine(Written(n), size(Written(n)))
           /\ Prefix(UserFlash, Copied)
           /\ Len(job.stages) # 1 => size(Copied) = size(UserFlash)
           /\ \A i \in 1 .. size(Copied) : Written(n)[i] = Copied[i]
<1>. DEFINE m == size(UserFlash)
            p == job.prog
<1>1. /\ m \in Nat /\ size(libfile) \in Nat /\ \A i \in 1 .. m : i \in Index /\ Same(i)
      /\ Adding /\ p \in Programs /\ job.size = m + p[2]
      /\ Fine(UserFlash, m) /\ Fine(libfile, size(libfile)) /\ Lacks(UserFlash, m, p[1])
  <2>1. m \in 0 .. NUMPROG_FLASH_MAX /\ size(libfile) \in 0 .. NUMPROG_FLASH_MAX
    BY DEF LibInv
  <2>2. \A i \in 1 .. m : i \in Index
    BY <2>1, SizesAre, SMT
  <2>3. m \in Nat /\ size(libfile) \in Nat
    BY <2>1, SizesAre, SMT
  <2>4. Adding
    BY JobSizes
  <2>. QED  BY <2>2, <2>3, <2>4 DEF LibInv, WholeInv, Adding
<1>2. /\ Copied[0] = (IF Len(job.stages) = 1 THEN job.size ELSE UserFlash[0])
      /\ Written(n)[0] \in {libfile[0], Copied[0]}
      /\ Prefix(UserFlash, Copied) /\ Prefix(libfile, Written(n))
  BY AddingKeeps
<1>3. \A i \in 1 .. m : Copied[i] = UserFlash[i]
  BY <1>2 DEF Prefix
<1>4. PICK d \in Calls : job.stages[1] = d
  BY CallsLeft, HeaderLeft
<1>5. \A i \in Index : Written(n)[i] \in {libfile[i], Copied[i]}
  BY <1>4, WrittenWords
<1>6. \A i \in 1 .. m : Written(n)[i] = Copied[i]
  BY <1>1, <1>3, <1>5, Zenon DEF Same
<1>7. Fine(Copied, size(Copied)) /\ \A i \in 1 .. size(Copied) : Written(n)[i] = Copied[i]
  <2>1. CASE Len(job.stages) # 1
    <3>1. size(Copied) = m
      BY <1>2, <2>1, Zenon DEF size
    <3>. QED  BY <1>1, <1>3, <1>6, <3>1, SameFine
  <2>2. CASE Len(job.stages) = 1
    <3>1. size(Copied) = m + p[2]
      BY <1>1, <1>2, <2>2, Zenon DEF size
    <3>2. ASSUME NEW k \in 1 .. p[2]
          PROVE  Copied[m + k] = <<p, k>> /\ Written(n)[m + k] = Copied[m + k]
      <4>1. m + k \in Index /\ Copied[m + k] = <<p, k>> /\ libfile[m + k] = <<p, k>>
        BY <2>2, AddingDelivers
      <4>. QED  BY <1>5, <4>1, Zenon
    <3>3. Fine(Copied, m + p[2])
      BY <1>1, <1>3, <3>2, Appended
    <3>4. ASSUME NEW i \in 1 .. m + p[2]
          PROVE  Written(n)[i] = Copied[i]
      <4>. DEFINE q == p[2]
      <4>1. q \in Nat
        BY <1>1, SizesAre
      <4>2. q = p[2]
        OBVIOUS
      <4>. HIDE DEF q, m, p
      <4>3. i \in 1 .. m \/ (i - m \in 1 .. q /\ m + (i - m) = i)
        BY <1>1, <3>4, <4>1, <4>2, SMT
      <4>. QED  BY <1>6, <3>2, <4>2, <4>3
    <3>. QED  BY <3>1, <3>3, <3>4
  <2>. QED  BY <2>1, <2>2
<1>8. Fine(Written(n), size(Written(n)))
  <2>1. CASE Written(n)[0] = libfile[0]
    <3>1. /\ size(Written(n)) = size(libfile)
          /\ \A i \in 1 .. size(libfile) : Written(n)[i] = libfile[i]
      BY <1>2, <2>1, Zenon DEF size, Prefix
    <3>. QED  BY <1>1, <3>1, SameFine
  <2>2. CASE Written(n)[0] = Copied[0]
    <3>1. size(Written(n)) = size(Copied)
      BY <2>2, Zenon DEF size
    <3>2. size(Copied) \in Nat
      <4>1. job.size \in 0 .. NUMPROG_FLASH_MAX /\ UserFlash[0] \in Nat
        BY <1>1, JobSizes DEF size
      <4>. QED  BY <1>2, <4>1, SizesAre, SMT DEF size
    <3>. QED  BY <1>7, <3>1, <3>2, SameFine
  <2>. QED  BY <1>2, <2>1, <2>2
<1>9. Len(job.stages) # 1 => size(Copied) = m
  BY <1>2, Zenon DEF size
<1>. QED  BY <1>2, <1>7, <1>8, <1>9

(* A call of several of a removal leaves its goal.                            *)
LEMMA GoalStays ==
    ASSUME LibInv, WholeInv, Removing, program_flash, Len(job.stages) # 1
    PROVE  /\ Removing' /\ job'.shift = job.shift /\ job'.size = job.size /\ job'.then = job.then
           /\ size(UserFlash') = size(UserFlash)
           /\ job.size \in Nat /\ \A i \in 1 .. job.size : Goal'[i] = Goal[i]
<1>. DEFINE n == job.size
            s == job.shift
            g == job.dest
<1>1. ~Idle /\ UserFlash' = Copied /\ job.prog = NoProgram
  BY DEF Removing, program_flash
<1>2. PICK d \in Calls :
        /\ job.stages[1] = d /\ Len(job.stages) > 1
        /\ Tail(job.stages) # <<>>
        /\ \/ /\ Len(Tail(job.stages)) = 1 /\ Reaches(d[2])
           \/ /\ Len(Tail(job.stages)) # 1 /\ d[1] <= d[2]
              /\ Tail(job.stages)[1][1] = d[2] + 1
  <2>1. Header \in Calls
    BY SMT DEF Header, Calls
  <2>2. /\ Len(<<Header>>) = 1 /\ <<Header>> # <<>>
        /\ \A e \in Calls : /\ Len(<<e, Header>>) # 1 /\ <<e, Header>> # <<>>
                            /\ <<e, Header>>[1] = e
    BY <2>1
  <2>3. 2 > 1 /\ 3 > 1
    OBVIOUS
  <2>. QED  BY <1>1, <2>2, <2>3, CallsLeft
<1>3. job' = [job EXCEPT !.stages = Tail(job.stages)]
  BY <1>2 DEF program_flash
<1>4. /\ job'.dest = g /\ job'.prog = NoProgram /\ job'.shift = s
      /\ job'.size = n /\ job'.then = job.then /\ job'.stages = Tail(job.stages)
  BY <1>1, <1>3, Zenon DEF LibInv, Jobs
<1>5. /\ UserFlash'[0] = UserFlash[0]
      /\ \A i \in Index : UserFlash'[i] =
            IF g <= i /\ d[1] <= PageOf(i) /\ PageOf(i) <= d[2]
            THEN Source(i - g) ELSE UserFlash[i]
  BY <1>1, <1>2, CopiedWords
<1>6. /\ g \in Int /\ g >= 1 /\ n \in 0 .. NUMPROG_FLASH_MAX /\ s \in Nat
      /\ size(UserFlash) = n + s /\ size(UserFlash) \in 0 .. NUMPROG_FLASH_MAX
      /\ d[1] \in Nat /\ d[2] \in Nat
  BY <1>1, <1>2, JobSizes DEF LibInv, WholeInv, Calls
<1>7. \A k \in Int : Source(k) = IF g + s + k \in Index THEN UserFlash[g + s + k] ELSE Junk
  BY <1>1, Zenon DEF Source
<1>8. /\ Goal = [i \in 1 .. n |-> IF i < g \/ PageOf(i) < d[1]
                                  THEN UserFlash[i] ELSE UserFlash[i + s]]
      /\ Goal' = [i \in 1 .. n |->
                     IF i < g \/ Len(Tail(job.stages)) = 1 \/ PageOf(i) < Tail(job.stages)[1][1]
                     THEN UserFlash'[i] ELSE UserFlash'[i + s]]
  BY <1>2, <1>4, Zenon DEF Goal
<1>. HIDE DEF n, s, g
<1>9. ASSUME NEW i \in 1 .. n
      PROVE  /\ i \in Index /\ i + s \in Index /\ i \in Int /\ i + s \in Int
             /\ PageOf(i) \in Nat /\ PageOf(i + s) \in Nat /\ PageOf(i) <= PageOf(i + s)
             /\ Source(i - g) = UserFlash[i + s]
  <2>1. i \in Index /\ i + s \in Index /\ i \in Nat /\ i + s \in Nat /\ i <= i + s
    BY <1>6, SizesAre, SMT
  <2>2. i - g \in Int /\ g + s + (i - g) = i + s
    BY <1>6, SMT
  <2>3. Source(i - g) = UserFlash[i + s]
    BY <1>7, <2>1, <2>2, Zenon
  <2>. QED  BY <2>1, <2>3, PageBounds, PageGrows
<1>10. ASSUME NEW i \in 1 .. n
       PROVE  Goal'[i] = Goal[i]
  <2>. DEFINE q == PageOf(i)
              r == PageOf(i + s)
              a == d[1]
              c == d[2]
              t == Tail(job.stages)
              moved == g <= i /\ a <= q /\ q <= c
              done == i < g \/ q < a
  <2>1. /\ Goal[i] = IF done THEN UserFlash[i] ELSE UserFlash[i + s]
        /\ Goal'[i] = IF i < g \/ Len(t) = 1 \/ q < t[1][1]
                      THEN UserFlash'[i] ELSE UserFlash'[i + s]
    BY <1>8, Zenon
  <2>2. /\ UserFlash'[i] = IF moved THEN UserFlash[i + s] ELSE UserFlash[i]
        /\ UserFlash'[i + s] = IF g <= i + s /\ a <= r /\ r <= c
                               THEN Source((i + s) - g) ELSE UserFlash[i + s]
    <3>1. i \in Index /\ i + s \in Index /\ Source(i - g) = UserFlash[i + s]
      BY <1>9
    <3>2. UserFlash'[i] = IF moved THEN Source(i - g) ELSE UserFlash[i]
      BY <1>5, <3>1, Zenon
    <3>3. UserFlash'[i + s] = IF g <= i + s /\ a <= r /\ r <= c
                              THEN Source((i + s) - g) ELSE UserFlash[i + s]
      BY <1>5, <3>1, Zenon
    <3>. QED  BY <3>1, <3>2, <3>3, Zenon
  <2>3. /\ i \in Int /\ g \in Int /\ q \in Nat /\ r \in Nat /\ q <= r /\ a \in Nat /\ c \in Nat
    BY <1>6, <1>9
  <2>4. \/ Len(t) = 1 /\ (g <= i => q <= c)
        \/ Len(t) # 1 /\ a <= c /\ t[1][1] = c + 1
    <3>1. Reaches(c) => (g <= i => q <= c)
      <4>1. i <= n
        BY <1>6, SMT
      <4>. QED  BY <1>9, <4>1 DEF Reaches, g, n
    <3>. QED  BY <1>2, <3>1, Zenon
  <2>. HIDE DEF q, r, a, c, t
  <2>5. /\ done => ~moved
        /\ ~done => moved \/ (~moved /\ q > c /\ g <= i)
        /\ q > c => ~(r <= c)
        /\ a <= c /\ done => i < g \/ q < c + 1
        /\ moved => q < c + 1 /\ ~done
        /\ q > c /\ g <= i => ~(i < g) /\ ~(q < c + 1) /\ ~(q <= c)
    BY <2>3, SMT
  <2>6. CASE done
    <3>1. Goal[i] = UserFlash[i] /\ UserFlash'[i] = UserFlash[i]
      BY <2>1, <2>2, <2>5, <2>6
    <3>2. i < g \/ Len(t) = 1 \/ q < t[1][1]
      BY <2>4, <2>5, <2>6, Zenon
    <3>. QED  BY <2>1, <3>1, <3>2
  <2>7. CASE moved
    <3>1. Goal[i] = UserFlash[i + s] /\ UserFlash'[i] = UserFlash[i + s]
      BY <2>1, <2>2, <2>5, <2>7
    <3>2. i < g \/ Len(t) = 1 \/ q < t[1][1]
      BY <2>4, <2>5, <2>7, Zenon
    <3>. QED  BY <2>1, <3>1, <3>2
  <2>8. CASE ~done /\ q > c /\ g <= i
    <3>1. Goal[i] = UserFlash[i + s] /\ UserFlash'[i + s] = UserFlash[i + s]
      BY <2>1, <2>2, <2>5, <2>8
    <3>2. ~(i < g \/ Len(t) = 1 \/ q < t[1][1])
      BY <2>4, <2>5, <2>8, Zenon
    <3>. QED  BY <2>1, <3>1, <3>2
  <2>. QED  BY <2>5, <2>6, <2>7, <2>8, Zenon
<1>11. Removing'
  BY <1>2, <1>4, Zenon DEF Removing, Idle
<1>12. size(UserFlash') = size(UserFlash)
  BY <1>5, Zenon DEF size
<1>13. n \in Nat
  BY <1>6, SizesAre, SMT
<1>. QED  BY <1>4, <1>10, <1>11, <1>12, <1>13, Zenon DEF n, s

LEMMA MovingKeepsGoal ==
    ASSUME LibInv, WholeInv, Removing, program_flash, Len(job.stages) # 1
    PROVE  WholeInv'
<1>. DEFINE n == job.size
<1>1. /\ Removing' /\ job'.shift = job.shift /\ job'.size = n /\ job'.then = job.then
      /\ size(UserFlash') = size(UserFlash)
      /\ n \in Nat /\ \A i \in 1 .. n : Goal'[i] = Goal[i]
  BY GoalStays
<1>. HIDE DEF n
<1>2. /\ Fine(Goal, n) => Fine(Goal', n)
      /\ \A name : Lacks(Goal, n, name) => Lacks(Goal', n, name)
  BY <1>1, SameFine
<1>. QED  BY <1>1, <1>2, Zenon DEF WholeInv, n

(* The header makes the goal of a removal the library.                        *)
LEMMA GoalReached ==
    ASSUME LibInv, WholeInv, Removing, program_flash, Len(job.stages) = 1
    PROVE  /\ job' = NextCall(UserFlash') /\ job.size \in Nat /\ ~Removing'
           /\ size(UserFlash') = job.size /\ size(libfile') = job.size
           /\ \A i \in 1 .. job.size : UserFlash'[i] = Goal[i] /\ libfile'[i] = Goal[i]
<1>. DEFINE n == job.size
<1>1. /\ ~Idle /\ UserFlash' = Copied /\ libfile' = Written(1)
      /\ job' = NextCall(Copied)
  <2>1. ~(1 > 1)
    OBVIOUS
  <2>2. ~Idle
    BY DEF program_flash
  <2>. QED  BY <2>1, <2>2, HeaderLeft, Zenon DEF program_flash
<1>2. n \in 0 .. NUMPROG_FLASH_MAX /\ n \in Nat /\ \A i \in 1 .. n : i \in Index /\ i # 0
  <2>1. n \in 0 .. NUMPROG_FLASH_MAX
    BY <1>1, JobSizes
  <2>. HIDE DEF n
  <2>. QED  BY <2>1, SizesAre, SMT
<1>3. UserFlash'[0] = n /\ \A i \in Index : i # 0 => UserFlash'[i] = UserFlash[i]
  BY <1>1, CopiedHeader
<1>4. libfile'[0] = UserFlash'[0]
  <2>1. 0 \in Index /\ PageOf(0) = 0 /\ 0 <= 0 /\ 0 <= 0 + 1 - 1 /\ 1 \in Int
    BY SizesAre, SMT DEF PageOf
  <2>. QED  BY <1>1, <2>1, HeaderLeft, WrittenWords
<1>5. size(UserFlash') = n /\ size(libfile') = n
  BY <1>3, <1>4, Zenon DEF size
<1>6. LibInv'
  BY HeaderCall
<1>7. /\ \A i \in 1 .. n : UserFlash'[i] = Goal[i]
      /\ \A i \in 1 .. n : libfile'[i] = Goal[i]
  <2>1. \A i \in 1 .. n : UserFlash'[i] = Goal[i]
    BY <1>2, <1>3, Zenon DEF Goal
  <2>2. \A i \in 1 .. n : Same(i)'
    BY <1>5, <1>6 DEF LibInv
  <2>. QED  BY <2>1, <2>2, Zenon DEF Same
<1>8. ~Removing'
  <2>1. CASE job.then = NoProgram
    <3>1. job' = NoJob
      BY <1>1, <2>1, Zenon DEF NextCall
    <3>. QED  BY <3>1, Zenon DEF NoJob, Idle, Removing
  <2>2. CASE job.then # NoProgram
    <3>1. job' = flash_append(1 + n, job.then, n + job.then[2], NoProgram)
      BY <1>1, <1>5, <2>2, Zenon DEF NextCall
    <3>2. job'.prog = job.then
      BY <3>1, Zenon DEF flash_append
    <3>. QED  BY <2>2, <3>2, Zenon DEF Removing
  <2>. QED  BY <2>1, <2>2
<1>. QED  BY <1>1, <1>2, <1>5, <1>7, <1>8 DEF n

LEMMA HeaderReachesGoal ==
    ASSUME LibInv, WholeInv, Removing, program_flash, Len(job.stages) = 1
    PROVE  WholeInv'
<1>. DEFINE n == job.size
<1>1. /\ job' = NextCall(UserFlash') /\ n \in Nat /\ ~Removing'
      /\ size(UserFlash') = n /\ size(libfile') = n
      /\ \A i \in 1 .. n : UserFlash'[i] = Goal[i]
      /\ \A i \in 1 .. n : libfile'[i] = Goal[i]
  BY GoalReached
<1>2. Fine(UserFlash', n) /\ Fine(libfile', n)
  BY <1>1, SameFine DEF WholeInv
<1>3. CASE job.then = NoProgram
  <2>1. job' = NoJob
    BY <1>1, <1>3, Zenon DEF NextCall
  <2>2. Idle'
    BY <2>1, Zenon DEF NoJob, Idle
  <2>. QED  BY <1>1, <1>2, <2>2, Zenon DEF WholeInv
<1>4. CASE job.then # NoProgram
  <2>1. job' = flash_append(1 + n, job.then, n + job.then[2], NoProgram)
    BY <1>1, <1>4, Zenon DEF NextCall
  <2>2. job'.prog = job.then
    BY <2>1, Zenon DEF flash_append
  <2>3. Lacks(UserFlash', n, job.then[1])
    <3>1. \A name : Lacks(Goal, n, name) => Lacks(UserFlash', n, name)
      BY <1>1, SameFine
    <3>. QED  BY <1>4, <3>1, Zenon DEF WholeInv
  <2>. QED  BY <1>1, <1>2, <2>2, <2>3, Zenon DEF WholeInv
<1>. QED  BY <1>3, <1>4

(* The goal of a removal that begins: the program at b .. e is gone, and with *)
(* it any label that stood in there.                                         *)
LEMMA RemovalBegins ==
    ASSUME LibInv, WholeInv, Idle, UserFlash' = UserFlash,
           NEW i \in 1 .. size(UserFlash), NEW then \in Programs \cup {NoProgram},
           job' = flash_remove(ProgBegin(i), ProgEnd(i), then)
    PROVE  /\ job'.shift \in Nat /\ size(UserFlash') = job'.size + job'.shift
           /\ Fine(Goal', job'.size) /\ job'.prog = NoProgram /\ job'.then = then
           /\ IsLabel(UserFlash[i]) => Lacks(Goal', job'.size, UserFlash[i][1][1])
           /\ job'.size = size(UserFlash) - (ProgEnd(i) + 1 - ProgBegin(i))
           /\ \A k \in 1 .. job'.size :
                  Goal'[k] = IF k < ProgBegin(i) THEN UserFlash[k]
                             ELSE UserFlash[k + (ProgEnd(i) + 1 - ProgBegin(i))]
<1>. DEFINE n == size(UserFlash)
            b == ProgBegin(i)
            e == ProgEnd(i)
            s == e + 1 - b
            m == n - s
            count == n - e
<1>1. /\ job'.dest = b /\ job'.prog = NoProgram /\ job'.shift = s /\ job'.size = m
      /\ job'.stages = Stages(b, count) /\ job'.then = then
  BY Zenon DEF flash_remove
<1>2. n \in Nat /\ n \in 0 .. NUMPROG_FLASH_MAX
  BY SizesAre, SMT DEF LibInv
<1>3. /\ b \in Int /\ e \in Int /\ 1 <= b /\ b <= i /\ i <= e /\ e <= n
      /\ b = 1 \/ IsEND(UserFlash[b - 1])
      /\ e = n \/ IsEND(UserFlash[e])
  BY <1>2, ProgramAround
<1>4. Fine(UserFlash, n)
  BY DEF WholeInv, Removing
<1>. HIDE DEF b, e, n
<1>5. /\ b \in Nat /\ e \in Nat /\ b <= e /\ count \in Nat /\ s \in Nat /\ m \in Nat
      /\ m + s = n /\ b + count - 1 = m /\ n > 0 /\ m <= n
  BY <1>2, <1>3, SMT
<1>6. IsEND(UserFlash[e])
  BY <1>3, <1>4, <1>5, Zenon DEF Fine
<1>7. InOrder(Stages(b, count), b, m)
  BY <1>5, StagesInOrder
<1>. HIDE DEF count
<1>8. ASSUME NEW k \in 1 .. m, ~(k < b)
      PROVE  Len(Stages(b, count)) # 1 /\ ~(PageOf(k) < Stages(b, count)[1][1])
  <2>1. k \in Nat /\ b <= k /\ k <= m /\ ~(m < b) /\ PageOf(k) \in Nat
    <3>1. k \in Nat /\ b <= k /\ k <= m /\ ~(m < b)
      BY <1>5, <1>8, SMT
    <3>. QED  BY <3>1, PageBounds
  <2>2. PICK cs : cs = Stages(b, count)
    OBVIOUS
  <2>3. ASSUME NEW d \in Calls, d[1] <= PageOf(k)
        PROVE  ~(PageOf(k) < d[1])
    <3>1. d[1] \in Nat
      BY DEF Calls
    <3>. QED  BY <2>1, <2>3, <3>1, SMT
  <2>4. Header \in Calls
    BY SMT DEF Header, Calls
  <2>5. /\ \A d \in Calls : Len(<<d, Header>>) # 1 /\ <<d, Header>>[1] = d
        /\ \A d, f \in Calls : Len(<<d, f, Header>>) # 1 /\ <<d, f, Header>>[1] = d
    BY <2>4
  <2>6. InOrder(cs, b, m)
    BY <1>7, <2>2
  <2>7. Len(cs) # 1 /\ ~(PageOf(k) < cs[1][1])
    <3>1. CASE \E d \in Calls : cs = <<d, Header>> /\ \A j \in Nat : b <= j => d[1] <= PageOf(j)
      <4>1. PICK d \in Calls : cs = <<d, Header>> /\ \A j \in Nat : b <= j => d[1] <= PageOf(j)
        BY <3>1
      <4>. QED  BY <2>1, <2>3, <2>5, <4>1
    <3>2. CASE \E d, f \in Calls : cs = <<d, f, Header>> /\ \A j \in Nat : b <= j => d[1] <= PageOf(j)
      <4>1. PICK d, f \in Calls : cs = <<d, f, Header>> /\ \A j \in Nat : b <= j => d[1] <= PageOf(j)
        BY <3>2
      <4>. QED  BY <2>1, <2>3, <2>5, <4>1
    <3>. QED  BY <2>1, <2>6, <3>1, <3>2, Zenon DEF InOrder
  <2>. QED  BY <2>2, <2>7
<1>9. \A k \in 1 .. m : Goal'[k] = IF k < b THEN UserFlash[k] ELSE UserFlash[k + s]
  <2>. HIDE DEF m, s
  <2>1. Goal' = [k \in 1 .. m |->
                   IF k < b \/ Len(Stages(b, count)) = 1 \/ PageOf(k) < Stages(b, count)[1][1]
                   THEN UserFlash[k] ELSE UserFlash[k + s]]
    BY <1>1, Zenon DEF Goal
  <2>. QED  BY <1>8, <2>1, Zenon
<1>10. Fine(Goal', m)
  BY <1>2, <1>3, <1>4, <1>5, <1>6, <1>9, CutFine
<1>11. ASSUME IsLabel(UserFlash[i]), NEW k \in 1 .. m, IsLabel(Goal'[k]),
              Goal'[k][1][1] = UserFlash[i][1][1]
       PROVE  FALSE
  <2>1. PICK j \in 1 .. n : Goal'[k] = UserFlash[j] /\ j # i
    <3>. HIDE DEF s, m
    <3>1. CASE k < b
      <4>1. k \in 1 .. n /\ k # i /\ Goal'[k] = UserFlash[k]
        BY <1>3, <1>5, <1>9, <3>1, SMT
      <4>. QED  BY <4>1
    <3>2. CASE ~(k < b)
      <4>1. b + s = e + 1
        BY <1>5 DEF s
      <4>2. k + s \in 1 .. n /\ k + s # i
        BY <1>3, <1>5, <3>2, <4>1, SMT
      <4>. QED  BY <1>9, <3>2, <4>2
    <3>. QED  BY <3>1, <3>2
  <2>2. i \in 1 .. n
    BY DEF n
  <2>. QED  BY <1>4, <1>11, <2>1, <2>2, Zenon DEF Fine
<1>12. IsLabel(UserFlash[i]) => Lacks(Goal', m, UserFlash[i][1][1])
  BY <1>11, Zenon DEF Lacks
<1>13. /\ job'.size = n - (e + 1 - b)
       /\ \A k \in 1 .. job'.size : Goal'[k] = IF k < b THEN UserFlash[k] ELSE UserFlash[k + (e + 1 - b)]
  BY <1>1, <1>9, Zenon
<1>. QED  BY <1>1, <1>5, <1>10, <1>12, <1>13, Zenon DEF n, b, e

LEMMA WholeCommands ==
    ASSUME LibInv, WholeInv, Commands
    PROVE  WholeInv'
<1>1. /\ Idle /\ UserFlash' = UserFlash /\ libfile' = libfile
      /\ size(UserFlash) \in 0 .. NUMPROG_FLASH_MAX /\ size(UserFlash) \in Nat
      /\ Fine(UserFlash, size(UserFlash)) /\ Fine(libfile, size(libfile))
  BY SizesAre, SMT DEF Commands, store_program, clrprog, LibInv, WholeInv, Removing
<1>2. ~Idle'
  <2>1. UnderWay' \/ Idle'
    BY CommandStarts DEF LibInv
  <2>2. \A dest, count : Stages(dest, count) # <<>>
    <3>1. ASSUME NEW dest, NEW count
          PROVE  Stages(dest, count) # <<>>
      BY DEF Stages
    <3>. QED  BY <3>1
  <2>3. \E dest, count : job'.stages = Stages(dest, count)
    <3>. DEFINE Begun == \E dest, count : job'.stages = Stages(dest, count)
    <3>1. ASSUME NEW dest, NEW q, NEW n, NEW then, job' = flash_append(dest, q, n, then)
          PROVE  Begun
      <4>1. job'.stages = Stages(dest, q[2])
        BY <3>1, Zenon DEF flash_append
      <4>. QED  BY <4>1
    <3>2. ASSUME NEW b, NEW e, NEW then, job' = flash_remove(b, e, then)
          PROVE  Begun
      <4>1. job'.stages = Stages(b, size(UserFlash) - e)
        BY <3>2, Zenon DEF flash_remove
      <4>. QED  BY <4>1
    <3>. HIDE DEF Begun
    <3>3. ASSUME NEW i \in 1 .. size(UserFlash), clrprog(i)
          PROVE  Begun
      BY <3>2, <3>3, Zenon DEF clrprog
    <3>4. ASSUME NEW p \in Programs, store_program(p)
          PROVE  Begun
      BY <3>1, <3>2, <3>4, Zenon DEF store_program
    <3>5. Begun
      BY <3>3, <3>4, Zenon DEF Commands
    <3>. QED  BY <3>5 DEF Begun
  <2>. QED  BY <2>2, <2>3 DEF Idle
<1>3. ASSUME NEW i \in 1 .. size(UserFlash), clrprog(i)
      PROVE  WholeInv'
  <2>1. job' = flash_remove(ProgBegin(i), ProgEnd(i), NoProgram)
    BY <1>3 DEF clrprog
  <2>2. /\ job'.shift \in Nat /\ size(UserFlash') = job'.size + job'.shift
        /\ Fine(Goal', job'.size) /\ job'.prog = NoProgram /\ job'.then = NoProgram
    BY <1>1, <2>1, RemovalBegins
  <2>3. Removing'
    BY <1>2, <2>2, Zenon DEF Removing
  <2>. QED  BY <2>2, <2>3, Zenon DEF WholeInv
<1>4. ASSUME NEW p \in Programs, store_program(p), Found(p[1]) = {}
      PROVE  WholeInv'
  <2>1. job' = flash_append(1 + size(UserFlash), p, size(UserFlash) + p[2], NoProgram)
    BY <1>4, Zenon DEF store_program
  <2>2. job'.prog = p
    BY <2>1, Zenon DEF flash_append
  <2>3. ~Removing'
    <3>1. p # NoProgram
      BY SizesAre
    <3>. QED  BY <2>2, <3>1, Zenon DEF Removing
  <2>4. Lacks(UserFlash, size(UserFlash), p[1])
    <3>1. \A i \in 1 .. size(UserFlash) : i \in Index
      BY <1>1, SizesAre, SMT
    <3>. QED  BY <1>4, <3>1, Zenon DEF Found, Lacks
  <2>. QED  BY <1>1, <2>2, <2>3, <2>4, Zenon DEF WholeInv
<1>5. ASSUME NEW p \in Programs, store_program(p), Found(p[1]) # {}
      PROVE  WholeInv'
  <2>. DEFINE old == Found(p[1])
              at == CHOOSE i \in old : \A j \in old : i <= j
  <2>1. job' = flash_remove(ProgBegin(at), ProgEnd(at), p)
    BY <1>5, Zenon DEF store_program
  <2>2. at \in old
    <3>1. old \subseteq Nat
      BY <1>1, SMT DEF Found
    <3>2. \E i \in old : \A j \in old : i <= j
      BY <1>5, <3>1, LeastNatural
    <3>. QED  BY <3>2, Zenon
  <2>3. at \in 1 .. size(UserFlash) /\ IsLabel(UserFlash[at]) /\ UserFlash[at][1][1] = p[1]
    BY <2>2, Zenon DEF Found
  <2>. HIDE DEF at, old
  <2>4. /\ job'.shift \in Nat /\ size(UserFlash') = job'.size + job'.shift
        /\ Fine(Goal', job'.size) /\ job'.prog = NoProgram /\ job'.then = p
        /\ Lacks(Goal', job'.size, p[1])
    BY <1>1, <2>1, <2>3, RemovalBegins
  <2>5. Removing'
    BY <1>2, <2>4, Zenon DEF Removing
  <2>. QED  BY <2>4, <2>5, Zenon DEF WholeInv
<1>. QED  BY <1>3, <1>4, <1>5 DEF Commands

LEMMA WholeStep ==
    ASSUME LibInv, WholeInv, [CheckedNext]_vars
    PROVE  WholeInv'
<1>1. CASE Commands
  BY <1>1, WholeCommands
<1>2. CASE program_flash /\ Removing
  BY <1>2, MovingKeepsGoal, HeaderReachesGoal
<1>3. ASSUME ~Idle, ~Removing, job' = NoJob,
             Fine(UserFlash', size(UserFlash')), Fine(libfile', size(libfile'))
      PROVE  WholeInv'
  <2>1. Idle' /\ ~Removing'
    BY <1>3, Zenon DEF NoJob, Idle, Removing
  <2>. QED  BY <1>3, <2>1, Zenon DEF WholeInv
<1>4. CASE program_flash /\ ~Removing
  <2>1. ~Idle /\ UserFlash' = Copied /\ libfile' = Written(PagesToWrite)
    BY <1>4 DEF program_flash
  <2>2. PagesToWrite \in Int /\ job.then = NoProgram /\ job.prog # NoProgram
    <3>1. PICK d \in Calls : job.stages[1] = d
      BY <2>1, CallsLeft, HeaderLeft
    <3>2. Adding
      BY <1>4, <2>1, JobSizes
    <3>3. \A p \in Programs : p # NoProgram
      BY SizesAre
    <3>. QED  BY <3>1, <3>2, <3>3, SMT DEF PagesToWrite, Calls, Adding
  <2>3. /\ Fine(UserFlash', size(UserFlash')) /\ Fine(libfile', size(libfile'))
        /\ Prefix(UserFlash, UserFlash')
        /\ Len(job.stages) # 1 => size(UserFlash') = size(UserFlash)
    BY <1>4, <2>1, <2>2, AddingFine
  <2>4. CASE Len(job.stages) = 1
    <3>1. job' = NoJob
      <4>1. ~(1 > 1)
        OBVIOUS
      <4>. QED  BY <1>4, <2>2, <2>4, <4>1, Zenon DEF program_flash, NextCall
    <3>. QED  BY <1>3, <1>4, <2>1, <2>3, <3>1
  <2>5. CASE Len(job.stages) # 1
    <3>1. Len(job.stages) > 1
      <4>1. 2 > 1 /\ 3 > 1
        OBVIOUS
      <4>. QED  BY <2>1, <2>5, <4>1, CallsLeft
    <3>2. job'.prog = job.prog
      BY <1>4, <3>1, Zenon DEF program_flash, LibInv, Jobs
    <3>3. ~Removing'
      BY <2>2, <3>2, Zenon DEF Removing
    <3>4. size(UserFlash) \in Nat
      BY SizesAre, SMT DEF LibInv
    <3>5. Lacks(UserFlash', size(UserFlash'), job'.prog[1])
      BY <1>4, <2>1, <2>3, <2>5, <3>2, <3>4, SameFine DEF WholeInv, Prefix
    <3>. QED  BY <2>3, <3>3, <3>5, Zenon DEF WholeInv
  <2>. QED  BY <2>4, <2>5
<1>5. ASSUME NEW n \in 0 .. Pages, ~Removing, DiskFails(n)
      PROVE  WholeInv'
  <2>1. ~Idle /\ UserFlash' = Copied /\ libfile' = Written(n) /\ n \in Int
    BY <1>5, SizesAre, SMT DEF DiskFails
  <2>2. Adding
    BY <1>5, <2>1, JobSizes
  <2>3. job' = NoJob
    BY <1>5, <2>2, Zenon DEF DiskFails, NextCall, Adding
  <2>. QED  BY <1>3, <1>5, <2>1, <2>3, AddingFine
<1>6. ASSUME NEW n \in 0 .. Pages, ~Removing, PowerLoss(n)
      PROVE  WholeInv'
  <2>1. /\ UserFlash' = libfile' /\ job' = NoJob /\ n \in Int
        /\ libfile' = (IF Idle THEN libfile ELSE Written(n))
    BY <1>6, SizesAre, SMT DEF PowerLoss
  <2>2. Fine(libfile', size(libfile'))
    BY <1>6, <2>1, AddingFine DEF WholeInv
  <2>3. Idle' /\ ~Removing'
    BY <2>1, Zenon DEF NoJob, Idle, Removing
  <2>. QED  BY <2>1, <2>2, <2>3, Zenon DEF WholeInv
<1>7. CASE UNCHANGED vars
  BY <1>7, Zenon DEF vars, WholeInv, Removing, Idle, Goal
<1>. QED  BY <1>1, <1>2, <1>4, <1>5, <1>6, <1>7, Zenon DEF CheckedNext, Faults

LEMMA WholeInit == Init => WholeInv
<1>. SUFFICES ASSUME Init PROVE WholeInv
  OBVIOUS
<1>1. UserFlash[0] = 0 /\ libfile = UserFlash /\ Idle /\ ~Removing
  <2>1. 0 \in Index
    BY SizesAre, SMT
  <2>. QED  BY <2>1, Zenon DEF Init, NoJob, Idle, Removing
<1>2. size(UserFlash) = 0 /\ size(libfile) = 0
  BY <1>1, Zenon DEF size
<1>3. Fine(UserFlash, 0) /\ Fine(libfile, 0)
  BY SMT DEF Fine
<1>. QED  BY <1>1, <1>2, <1>3, Zenon DEF WholeInv

(* Between commands, and as long as a program is being added, whichever of    *)
(* its writes fails and wherever the power goes: memory and file hold nothing *)
(* but whole programs, no two with one label.                                *)
THEOREM LibraryStaysWhole == CheckedSpec => []LibraryWhole
<1>1. Init => WholeInv
  BY WholeInit
<1>2. LibInv /\ WholeInv /\ [CheckedNext]_vars => WholeInv'
  BY WholeStep
<1>3. LibInv /\ WholeInv => LibraryWhole
  <2>. SUFFICES ASSUME LibInv, WholeInv, ~Removing, NEW img \in {UserFlash, libfile}
                PROVE  size(img) <= NUMPROG_FLASH_MAX /\ Whole(img) /\ Distinct(img)
    BY DEF LibraryWhole
  <2>1. size(img) \in 0 .. NUMPROG_FLASH_MAX /\ Fine(img, size(img))
    BY DEF LibInv, WholeInv
  <2>2. size(img) <= NUMPROG_FLASH_MAX
    BY <2>1, SizesAre, SMT
  <2>. QED  BY <2>1, <2>2, FineIsWhole
<1>. QED  BY <1>1, <1>2, <1>3, LibraryIsSound, PTL DEF CheckedSpec

-----------------------------------------------------------------------------
(* The list of programs that words make *)

LEMMA AllNaturals ==
    ASSUME NEW T, 0 \in T, \A n \in Nat : n \in T => n + 1 \in T
    PROVE  \A n \in Nat : n \in T
<1>. SUFFICES ASSUME NEW k \in Nat, k \notin T
              PROVE  FALSE
  OBVIOUS
<1>. DEFINE U == {n \in Nat : n \notin T}
<1>1. U \subseteq Nat /\ U # {}
  OBVIOUS
<1>2. PICK n \in U : \A m \in U : n <= m
  BY <1>1, LeastNatural
<1>3. n \in Nat /\ n \notin T /\ n # 0
  OBVIOUS
<1>4. n - 1 \in Nat /\ ~(n <= n - 1) /\ (n - 1) + 1 = n
  BY <1>3, SMT
<1>. QED  BY <1>2, <1>3, <1>4

(* Steps that start at a and go on by g make a function of their number.      *)
Stepped(f, Z, g, a) ==
    f \in [Nat -> Z] /\ f[0] = a /\ \A n \in Nat : f[n + 1] = g[<<n, f[n]>>]

LEMMA StepsAreFunction ==
    ASSUME NEW Z, NEW g \in [Nat \X Z -> Z], NEW a \in Z
    PROVE  \E f : Stepped(f, Z, g, a)
<1>. DEFINE Run(f, n) == /\ f \in [0 .. n -> Z] /\ f[0] = a
                         /\ \A i \in Nat : i < n => f[i + 1] = g[<<i, f[i]>>]
            Runs == {n \in Nat : \E f : Run(f, n)}
            Agreed == {n \in Nat : \A m, k \in Nat : n <= m /\ n <= k =>
                          \A f, h : Run(f, m) /\ Run(h, k) => f[n] = h[n]}
<1>1. \A n \in Nat : n \in Runs
  <2>1. 0 \in Runs
    <3>1. [i \in 0 .. 0 |-> a] \in [0 .. 0 -> Z] /\ [i \in 0 .. 0 |-> a][0] = a
      BY SMT
    <3>2. \A i \in Nat : ~(i < 0)
      BY SMT
    <3>3. Run([i \in 0 .. 0 |-> a], 0)
      BY <3>1, <3>2
    <3>. QED  BY <3>3
  <2>2. ASSUME NEW n \in Nat, n \in Runs
        PROVE  n + 1 \in Runs
    <3>1. PICK f : Run(f, n)
      BY <2>2
    <3>. DEFINE h == [i \in 0 .. n + 1 |-> IF i = n + 1 THEN g[<<n, f[n]>>] ELSE f[i]]
    <3>2. n \in 0 .. n /\ 0 \in 0 .. n + 1 /\ 0 # n + 1 /\ n + 1 \in 0 .. n + 1 /\ n + 1 \in Nat
      BY SMT
    <3>3. g[<<n, f[n]>>] \in Z
      <4>1. f[n] \in Z
        BY <3>1, <3>2
      <4>. QED  BY <4>1
    <3>4. h \in [0 .. n + 1 -> Z]
      <4>1. ASSUME NEW i \in 0 .. n + 1
            PROVE  (IF i = n + 1 THEN g[<<n, f[n]>>] ELSE f[i]) \in Z
        <5>1. i # n + 1 => i \in 0 .. n
          BY SMT
        <5>. QED  BY <3>1, <3>3, <5>1
      <4>. QED  BY <4>1
    <3>5. h[0] = a
      BY <3>1, <3>2
    <3>6. ASSUME NEW i \in Nat, i < n + 1
          PROVE  h[i + 1] = g[<<i, h[i]>>]
      <4>1. /\ i \in 0 .. n + 1 /\ i + 1 \in 0 .. n + 1 /\ i # n + 1
            /\ (i + 1 = n + 1 <=> i = n) /\ (i # n => i < n)
        BY <3>6, SMT
      <4>2. h[i] = f[i] /\ h[i + 1] = IF i + 1 = n + 1 THEN g[<<n, f[n]>>] ELSE f[i + 1]
        BY <4>1
      <4>3. i # n => f[i + 1] = g[<<i, f[i]>>]
        BY <3>1, <4>1
      <4>. HIDE DEF h
      <4>. QED  BY <4>1, <4>2, <4>3, Zenon
    <3>. HIDE DEF h
    <3>7. Run(h, n + 1)
      BY <3>4, <3>5, <3>6
    <3>. QED  BY <3>2, <3>7
  <2>. HIDE DEF Runs
  <2>. QED  BY <2>1, <2>2, AllNaturals
<1>2. \A n \in Nat : n \in Agreed
  <2>1. 0 \in Agreed
    BY Zenon
  <2>2. ASSUME NEW n \in Nat, n \in Agreed
        PROVE  n + 1 \in Agreed
    <3>1. ASSUME NEW m \in Nat, NEW k \in Nat, n + 1 <= m, n + 1 <= k, NEW f, NEW h,
                 Run(f, m), Run(h, k)
          PROVE  f[n + 1] = h[n + 1]
      <4>1. n <= m /\ n <= k /\ n < m /\ n < k
        BY <3>1, SMT
      <4>2. f[n] = h[n]
        <5>. HIDE DEF Run
        <5>. QED  BY <2>2, <3>1, <4>1, Zenon
      <4>3. f[n + 1] = g[<<n, f[n]>>] /\ h[n + 1] = g[<<n, h[n]>>]
        BY <3>1, <4>1
      <4>. QED  BY <4>2, <4>3
    <3>2. n + 1 \in Nat
      BY SMT
    <3>. HIDE DEF Run
    <3>. QED  BY <3>1, <3>2
  <2>. HIDE DEF Agreed
  <2>. QED  BY <2>1, <2>2, AllNaturals
<1>. DEFINE R(n) == CHOOSE f : Run(f, n)
            k == [n \in Nat |-> R(n)[n]]
<1>3. ASSUME NEW n \in Nat
      PROVE  Run(R(n), n)
  <2>1. \E f : Run(f, n)
    BY <1>1
  <2>. HIDE DEF Run
  <2>. QED  BY <2>1
<1>4. ASSUME NEW n \in Nat
      PROVE  R(n)[n] \in Z /\ n \in 0 .. n /\ n + 1 \in Nat /\ n < n + 1 /\ n <= n + 1 /\ n <= n
             /\ n + 1 <= n + 1
  <2>1. n \in 0 .. n /\ n + 1 \in Nat /\ n < n + 1 /\ n <= n + 1 /\ n <= n /\ n + 1 <= n + 1
    BY SMT
  <2>2. R(n) \in [0 .. n -> Z]
    <3>. HIDE DEF R
    <3>. QED  BY <1>3
  <2>. HIDE DEF R
  <2>. QED  BY <2>1, <2>2
<1>5. k \in [Nat -> Z]
  <2>. HIDE DEF R
  <2>. QED  BY <1>4
<1>6. k[0] = a
  <2>1. R(0)[0] = a
    <3>. HIDE DEF R
    <3>. QED  BY <1>3
  <2>. HIDE DEF R
  <2>. QED  BY <2>1
<1>7. ASSUME NEW n \in Nat
      PROVE  k[n + 1] = g[<<n, k[n]>>]
  <2>1. R(n + 1)[n + 1] = g[<<n, R(n + 1)[n]>>]
    <3>1. Run(R(n + 1), n + 1)
      <4>. HIDE DEF R, Run
      <4>. QED  BY <1>3, <1>4
    <3>. HIDE DEF R
    <3>. QED  BY <1>4, <3>1
  <2>2. R(n + 1)[n] = R(n)[n]
    <3>1. Run(R(n + 1), n + 1) /\ Run(R(n), n)
      <4>. HIDE DEF R, Run
      <4>. QED  BY <1>3, <1>4
    <3>. HIDE DEF R, Run
    <3>. QED  BY <1>2, <1>4, <3>1
  <2>3. k[n] = R(n)[n] /\ k[n + 1] = R(n + 1)[n + 1]
    <3>. HIDE DEF R
    <3>. QED  BY <1>4
  <2>. HIDE DEF R, k
  <2>. QED  BY <2>1, <2>2, <2>3
<1>. HIDE DEF k
<1>. QED  BY <1>5, <1>6, <1>7 DEF Stepped

LEMMA ListedGrows ==
    ASSUME NEW X
    PROVE  /\ ListedTo(X)[0] = <<>>
           /\ \A n \in Nat : ListedTo(X)[n + 1] =
                  IF IsLabel(X[n + 1]) THEN Append(ListedTo(X)[n], X[n + 1][1])
                  ELSE ListedTo(X)[n]
<1>. DEFINE Fix(f) == f = [n \in Nat |->
                              IF n = 0 THEN <<>>
                              ELSE IF IsLabel(X[n]) THEN Append(f[n - 1], X[n][1])
                              ELSE f[n - 1]]
            V == {X[n][1] : n \in Nat}
            Z == Seq(V)
            g == [p \in Nat \X Z |-> IF IsLabel(X[p[1] + 1]) THEN Append(p[2], X[p[1] + 1][1])
                                     ELSE p[2]]
<1>1. g \in [Nat \X Z -> Z]
  <2>1. ASSUME NEW p \in Nat \X Z
        PROVE  (IF IsLabel(X[p[1] + 1]) THEN Append(p[2], X[p[1] + 1][1]) ELSE p[2]) \in Z
    <3>1. p[1] + 1 \in Nat /\ p[2] \in Z
      BY SMT
    <3>2. X[p[1] + 1][1] \in V
      BY <3>1
    <3>. HIDE DEF V
    <3>3. Append(p[2], X[p[1] + 1][1]) \in Z
      BY <3>1, <3>2
    <3>. QED  BY <3>1, <3>3
  <2>. HIDE DEF Z
  <2>. QED  BY <2>1
<1>2. <<>> \in Z
  BY EmptySeq
<1>3. PICK f : Stepped(f, Z, g, <<>>)
  <2>. HIDE DEF Z, g
  <2>. QED  BY <1>1, <1>2, StepsAreFunction
<1>4. /\ f \in [Nat -> Z] /\ f[0] = <<>>
      /\ \A n \in Nat : f[n + 1] = IF IsLabel(X[n + 1]) THEN Append(f[n], X[n + 1][1]) ELSE f[n]
  <2>1. f \in [Nat -> Z] /\ f[0] = <<>> /\ \A n \in Nat : f[n + 1] = g[<<n, f[n]>>]
    <3>. HIDE DEF Z, g
    <3>. QED  BY <1>3 DEF Stepped
  <2>2. ASSUME NEW n \in Nat
        PROVE  f[n + 1] = IF IsLabel(X[n + 1]) THEN Append(f[n], X[n + 1][1]) ELSE f[n]
    <3>1. <<n, f[n]>> \in Nat \X Z
      <4>. HIDE DEF Z, g
      <4>. QED  BY <2>1
    <3>2. g[<<n, f[n]>>] = IF IsLabel(X[<<n, f[n]>>[1] + 1])
                           THEN Append(<<n, f[n]>>[2], X[<<n, f[n]>>[1] + 1][1])
                           ELSE <<n, f[n]>>[2]
      <4>. HIDE DEF Z
      <4>. QED  BY <3>1, Zenon
    <3>3. <<n, f[n]>>[1] = n /\ <<n, f[n]>>[2] = f[n]
      OBVIOUS
    <3>. HIDE DEF Z, g
    <3>. QED  BY <2>1, <3>2, <3>3, Zenon
  <2>. HIDE DEF Z, g
  <2>. QED  BY <2>1, <2>2
<1>5. Fix(f)
  <2>1. ASSUME NEW n \in Nat
        PROVE  f[n] = IF n = 0 THEN <<>>
                      ELSE IF IsLabel(X[n]) THEN Append(f[n - 1], X[n][1])
                      ELSE f[n - 1]
    <3>1. n # 0 => n - 1 \in Nat /\ (n - 1) + 1 = n
      BY SMT
    <3>2. n # 0 => f[(n - 1) + 1] = IF IsLabel(X[(n - 1) + 1])
                                    THEN Append(f[n - 1], X[(n - 1) + 1][1]) ELSE f[n - 1]
      BY <1>4, <3>1, Zenon
    <3>. QED  BY <1>4, <3>1, <3>2, Zenon
  <2>2. f = [n \in Nat |-> f[n]]
    <3>. HIDE DEF Z
    <3>. QED  BY <1>4
  <2>. QED  BY <2>1, <2>2, Zenon
<1>6. ListedTo(X) = CHOOSE h : Fix(h)
  BY DEF ListedTo
<1>7. Fix(ListedTo(X))
  <2>. HIDE DEF Fix
  <2>. QED  BY <1>5, <1>6
<1>8. \A n \in Nat : ListedTo(X)[n] = IF n = 0 THEN <<>>
                                      ELSE IF IsLabel(X[n]) THEN Append(ListedTo(X)[n - 1], X[n][1])
                                      ELSE ListedTo(X)[n - 1]
  <2>. DEFINE L == ListedTo(X)
  <2>1. Fix(L)
    BY <1>7
  <2>. HIDE DEF L
  <2>2. \A n \in Nat : L[n] = IF n = 0 THEN <<>>
                              ELSE IF IsLabel(X[n]) THEN Append(L[n - 1], X[n][1])
                              ELSE L[n - 1]
    BY <2>1, Zenon
  <2>. QED  BY <2>2 DEF L
<1>9. ASSUME NEW n \in Nat
      PROVE  ListedTo(X)[n + 1] = IF IsLabel(X[n + 1]) THEN Append(ListedTo(X)[n], X[n + 1][1])
                                  ELSE ListedTo(X)[n]
  <2>1. n + 1 \in Nat /\ n + 1 # 0 /\ (n + 1) - 1 = n
    BY SMT
  <2>. QED  BY <1>8, <2>1, Zenon
<1>. QED  BY <1>8, <1>9

(* The list is one of programs, each with its label among the words.          *)
LEMMA ListedPrograms ==
    ASSUME NEW X, NEW n \in Nat, \A i \in 1 .. n : IsWord(X[i])
    PROVE  /\ ListedTo(X)[n] \in Seq(Programs)
           /\ \A k \in DOMAIN ListedTo(X)[n] :
                  \E i \in 1 .. n : IsLabel(X[i]) /\ ListedTo(X)[n][k] = X[i][1]
<1>. DEFINE L == ListedTo(X)
            Labels(m) == /\ L[m] \in Seq(Programs)
                        /\ \A k \in DOMAIN L[m] :
                               \E i \in 1 .. m : IsLabel(X[i]) /\ L[m][k] = X[i][1]
            T == {m \in Nat : m <= n => Labels(m)}
<1>1. L[0] = <<>> /\ \A m \in Nat : L[m + 1] = IF IsLabel(X[m + 1]) THEN Append(L[m], X[m + 1][1])
                                               ELSE L[m]
  BY ListedGrows
<1>. HIDE DEF L
<1>2. 0 \in T
  <2>1. <<>> \in Seq(Programs) /\ DOMAIN <<>> = {}
    BY EmptySeq
  <2>. QED  BY <1>1, <2>1
<1>3. ASSUME NEW m \in Nat, m \in T
      PROVE  m + 1 \in T
  <2>. SUFFICES ASSUME m + 1 <= n
                PROVE  Labels(m + 1)
    BY SMT
  <2>1. m <= n /\ m + 1 \in 1 .. n /\ m + 1 \in 1 .. m + 1 /\ \A i \in 1 .. m : i \in 1 .. m + 1
    BY SMT
  <2>2. Labels(m)
    <3>. HIDE DEF Labels
    <3>. QED  BY <1>3, <2>1
  <2>3. X[m + 1][1] \in Programs
    BY <2>1 DEF IsWord
  <2>4. CASE ~IsLabel(X[m + 1])
    <3>1. L[m + 1] = L[m]
      BY <1>1, <2>4
    <3>. QED  BY <2>1, <2>2, <3>1, Zenon
  <2>5. CASE IsLabel(X[m + 1])
    <3>. DEFINE l == L[m]
                p == X[m + 1][1]
    <3>1. L[m + 1] = Append(l, p) /\ l \in Seq(Programs) /\ p \in Programs
      BY <1>1, <2>2, <2>3, <2>5
    <3>2. \A k \in DOMAIN l : \E i \in 1 .. m : IsLabel(X[i]) /\ l[k] = X[i][1]
      BY <2>2
    <3>3. p = X[m + 1][1]
      OBVIOUS
    <3>. HIDE DEF l, p
    <3>4. /\ Append(l, p) \in Seq(Programs)
          /\ \A k \in DOMAIN Append(l, p) : \/ k \in DOMAIN l /\ Append(l, p)[k] = l[k]
                                            \/ Append(l, p)[k] = p
      BY <3>1, AppendProperties, SMT
    <3>. QED  BY <2>1, <2>5, <3>1, <3>2, <3>3, <3>4, Zenon
  <2>. QED  BY <2>4, <2>5
<1>4. n \in T
  <2>. HIDE DEF T
  <2>. QED  BY <1>2, <1>3, AllNaturals
<1>5. n <= n
  BY SMT
<1>. QED  BY <1>4, <1>5 DEF L

(* It depends on no other word than the first n.                              *)
LEMMA ListedSame ==
    ASSUME NEW X, NEW Y, NEW n \in Nat, \A i \in 1 .. n : Y[i] = X[i]
    PROVE  ListedTo(Y)[n] = ListedTo(X)[n]
<1>. DEFINE T == {m \in Nat : m <= n => ListedTo(Y)[m] = ListedTo(X)[m]}
<1>1. 0 \in T
  BY ListedGrows
<1>2. ASSUME NEW m \in Nat, m \in T
      PROVE  m + 1 \in T
  <2>. SUFFICES ASSUME m + 1 <= n
                PROVE  ListedTo(Y)[m + 1] = ListedTo(X)[m + 1]
    BY SMT
  <2>1. m <= n /\ m + 1 \in 1 .. n
    BY SMT
  <2>2. ListedTo(Y)[m] = ListedTo(X)[m] /\ Y[m + 1] = X[m + 1]
    BY <1>2, <2>1
  <2>. QED  BY <2>2, ListedGrows, Zenon
<1>3. n \in T /\ n <= n
  <2>1. n \in T
    <3>. HIDE DEF T
    <3>. QED  BY <1>1, <1>2, AllNaturals
  <2>. QED  BY <2>1, SMT
<1>. QED  BY <1>3

(* Words without a label add nothing to it.                                   *)
LEMMA ListedBare ==
    ASSUME NEW X, NEW b \in Nat, NEW e \in Nat, b <= e,
           \A j \in b + 1 .. e : ~IsLabel(X[j])
    PROVE  ListedTo(X)[e] = ListedTo(X)[b]
<1>. DEFINE T == {m \in Nat : b + m <= e => ListedTo(X)[b + m] = ListedTo(X)[b]}
<1>1. 0 \in T
  <2>1. b + 0 = b
    BY SMT
  <2>. QED  BY <2>1
<1>2. ASSUME NEW m \in Nat, m \in T
      PROVE  m + 1 \in T
  <2>. SUFFICES ASSUME b + (m + 1) <= e
                PROVE  ListedTo(X)[b + (m + 1)] = ListedTo(X)[b]
    BY SMT
  <2>1. /\ b + m <= e /\ b + m \in Nat /\ b + (m + 1) = (b + m) + 1
        /\ (b + m) + 1 \in b + 1 .. e
    BY SMT
  <2>2. ListedTo(X)[b + m] = ListedTo(X)[b] /\ ~IsLabel(X[(b + m) + 1])
    BY <1>2, <2>1
  <2>3. ListedTo(X)[(b + m) + 1] = ListedTo(X)[b + m]
    BY <2>1, <2>2, ListedGrows, Zenon
  <2>. QED  BY <2>1, <2>2, <2>3, Zenon
<1>3. e - b \in T /\ b + (e - b) = e /\ e <= e
  <2>1. e - b \in Nat /\ b + (e - b) = e /\ e <= e
    BY SMT
  <2>2. \A m \in Nat : m \in T
    <3>. HIDE DEF T
    <3>. QED  BY <1>1, <1>2, AllNaturals
  <2>. QED  BY <2>1, <2>2
<1>. QED  BY <1>3

(* A program behind the words comes last in it.                               *)
LEMMA ListedAppended ==
    ASSUME NEW X, NEW Y, NEW n \in Nat, NEW p \in Programs,
           \A i \in 1 .. n : Y[i] = X[i], \A k \in 1 .. p[2] : Y[n + k] = <<p, k>>
    PROVE  ListedTo(Y)[n + p[2]] = Append(ListedTo(X)[n], p)
<1>. DEFINE m == p[2]
<1>1. m \in Nat /\ m > 0
  BY SizesAre
<1>2. \A k \in 1 .. m : Y[n + k] = <<p, k>>
  OBVIOUS
<1>3. ListedTo(Y)[n] = ListedTo(X)[n]
  BY ListedSame
<1>. HIDE DEF m
<1>4. 1 \in 1 .. m /\ n + 1 \in Nat /\ n + m \in Nat /\ n + 1 <= n + m
  BY <1>1, SMT
<1>5. ListedTo(Y)[n + 1] = Append(ListedTo(X)[n], p)
  <2>1. Y[n + 1] = <<p, 1>>
    BY <1>2, <1>4
  <2>2. IsLabel(Y[n + 1]) /\ Y[n + 1][1] = p
    BY <2>1 DEF IsLabel
  <2>. QED  BY <1>3, <2>2, ListedGrows
<1>6. ASSUME NEW j \in (n + 1) + 1 .. n + m
      PROVE  ~IsLabel(Y[j])
  <2>1. j - n \in 1 .. m /\ n + (j - n) = j /\ j - n # 1
    BY <1>1, SMT
  <2>2. Y[n + (j - n)] = <<p, j - n>>
    BY <1>2, <2>1
  <2>. QED  BY <2>1, <2>2 DEF IsLabel
<1>7. ListedTo(Y)[n + m] = ListedTo(Y)[n + 1]
  BY <1>4, <1>6, ListedBare
<1>. QED  BY <1>5, <1>7 DEF m

(* A list without its k-th program, p, is what is before and behind it.       *)
LEMMA RemovedBetween ==
    ASSUME NEW V, NEW l \in Seq(V), NEW p \in V, NEW t \in Seq(V)
    PROVE  /\ RemoveAt(Append(l, p) \o t, Len(l) + 1) = l \o t
           /\ Len(l) + 1 \in DOMAIN (Append(l, p) \o t)
<1>. DEFINE s == Append(l, p) \o t
            n == Len(l)
            m == Len(t)
<1>1. /\ Append(l, p) \in Seq(V) /\ Len(Append(l, p)) = n + 1
      /\ \A i \in 1 .. n : Append(l, p)[i] = l[i]
  BY AppendProperties, SMT
<1>2. n \in Nat /\ m \in Nat
  BY LenProperties
<1>3. /\ s \in Seq(V) /\ Len(s) = n + 1 + m
      /\ \A i \in 1 .. n + 1 + m : s[i] = IF i <= n + 1 THEN Append(l, p)[i] ELSE t[i - (n + 1)]
  BY <1>1, ConcatProperties
<1>. HIDE DEF s, n, m
<1>4. SubSeq(s, 1, (n + 1) - 1) = l
  <2>. DEFINE u == SubSeq(s, 1, (n + 1) - 1)
  <2>1. (n + 1) - 1 = n /\ n <= n + 1 + m
    BY <1>2, SMT
  <2>2. u = [i \in 1 .. n |-> s[i]]
    BY <1>2, <1>3, <2>1, SMT
  <2>3. \A i \in 1 .. n : i \in 1 .. n + 1 + m /\ i <= n + 1
    BY <1>2, SMT
  <2>4. l = [i \in 1 .. n |-> l[i]]
    BY LenProperties DEF n
  <2>. QED  BY <1>1, <1>3, <2>2, <2>3, <2>4, Zenon
<1>5. SubSeq(s, (n + 1) + 1, Len(s)) = t
  <2>. DEFINE u == SubSeq(s, (n + 1) + 1, Len(s))
  <2>1. u = [i \in 1 .. m |-> s[i + (n + 1)]]
    BY <1>2, <1>3, SMT
  <2>2. ASSUME NEW i \in 1 .. m
        PROVE  s[i + (n + 1)] = t[i]
    <3>1. PICK j \in 1 .. n + 1 + m : j = i + (n + 1) /\ ~(j <= n + 1) /\ j - (n + 1) = i
      <4>1. /\ i + (n + 1) \in 1 .. n + 1 + m
            /\ ~(i + (n + 1) <= n + 1) /\ (i + (n + 1)) - (n + 1) = i
        BY <1>2, SMT
      <4>. QED  BY <4>1
    <3>2. s[j] = IF j <= n + 1 THEN Append(l, p)[j] ELSE t[j - (n + 1)]
      BY <1>3
    <3>. QED  BY <3>1, <3>2, Zenon
  <2>3. t = [i \in 1 .. m |-> t[i]]
    BY LenProperties DEF m
  <2>. QED  BY <2>1, <2>2, <2>3, Zenon
<1>6. RemoveAt(s, n + 1) = l \o t
  BY <1>4, <1>5, Zenon DEF RemoveAt
<1>7. n + 1 \in DOMAIN s
  BY <1>2, <1>3, SMT
<1>. QED  BY <1>6, <1>7 DEF s, n

LEMMA CutNumbers ==
    ASSUME NEW n \in Nat, NEW b \in Nat, NEW e \in Nat, 1 <= b, b <= e, e <= n,
           NEW a, a = b - 1, NEW s, s = e + 1 - b
    PROVE  /\ a \in Nat /\ a + 1 = b /\ s \in Nat /\ a + s = e /\ a <= n /\ b \in 1 .. n
           /\ n - s \in Nat /\ a <= n - s
           /\ \A i \in 1 .. a : i \in 1 .. n - s /\ i < b /\ i \in 1 .. n
BY SMT

(* Y is X without its words b .. e, of which only the first is a label.       *)
IsCut(X, Y, n, b, e) ==
    /\ n \in Nat /\ \A i \in 1 .. n : IsWord(X[i])
    /\ b \in Nat /\ e \in Nat /\ 1 <= b /\ b <= e /\ e <= n
    /\ IsLabel(X[b]) /\ \A j \in b + 1 .. e : ~IsLabel(X[j])
    /\ \A i \in 1 .. n - (e + 1 - b) : Y[i] = IF i < b THEN X[i] ELSE X[i + (e + 1 - b)]

(* A program goes from the list, the others keep their order.                 *)
LEMMA ListedCut ==
    ASSUME NEW X, NEW Y, NEW n, NEW b, NEW e, IsCut(X, Y, n, b, e)
    PROVE  \E k \in DOMAIN ListedTo(X)[n] :
               ListedTo(Y)[n - (e + 1 - b)] = RemoveAt(ListedTo(X)[n], k)
<1>. USE DEF IsCut
<1>. DEFINE s == e + 1 - b
            a == b - 1
            h == ListedTo(X)[a]
            p == X[b][1]
            Tails(m) == \E t \in Seq(Programs) : /\ ListedTo(X)[e + m] = Append(h, p) \o t
                                                 /\ ListedTo(Y)[a + m] = h \o t
            T == {m \in Nat : e + m <= n => Tails(m)}
<1>1. /\ a \in Nat /\ a + 1 = b /\ s \in Nat /\ a + s = e /\ a <= n /\ b \in 1 .. n
      /\ n - s \in Nat /\ a <= n - s
      /\ \A i \in 1 .. a : i \in 1 .. n - s /\ i < b /\ i \in 1 .. n
  <2>1. a = b - 1 /\ s = e + 1 - b
    OBVIOUS
  <2>. HIDE DEF a, s
  <2>. QED  BY <2>1, CutNumbers
<1>2. \A i \in 1 .. n - s : Y[i] = IF i < b THEN X[i] ELSE X[i + s]
  BY DEF IsCut
<1>3. p \in Programs /\ h \in Seq(Programs)
  <2>1. p \in Programs
    BY <1>1 DEF IsWord
  <2>2. h \in Seq(Programs)
    BY <1>1, ListedPrograms
  <2>. QED  BY <2>1, <2>2
<1>. HIDE DEF a, s
<1>4. ListedTo(X)[e] = Append(h, p) /\ ListedTo(Y)[a] = h
  <2>1. ListedTo(X)[a + 1] = Append(h, X[a + 1][1])
    BY <1>1, ListedGrows
  <2>2. ListedTo(X)[e] = ListedTo(X)[b]
    BY ListedBare
  <2>3. ListedTo(Y)[a] = h
    <3>1. \A i \in 1 .. a : Y[i] = X[i]
      BY <1>1, <1>2, Zenon
    <3>. QED  BY <1>1, <3>1, ListedSame
  <2>. QED  BY <1>1, <2>1, <2>2, <2>3
<1>. HIDE DEF h, p
<1>5. Append(h, p) \in Seq(Programs)
  BY <1>3, AppendProperties
<1>6. 0 \in T
  <2>1. e + 0 = e /\ a + 0 = a
    BY <1>1, SMT
  <2>2. <<>> \in Seq(Programs) /\ Append(h, p) \o <<>> = Append(h, p) /\ h \o <<>> = h
    BY <1>3, <1>5, EmptySeq, ConcatEmptySeq
  <2>. QED  BY <1>4, <2>1, <2>2
<1>7. ASSUME NEW m \in Nat, m \in T
      PROVE  m + 1 \in T
  <2>. SUFFICES ASSUME e + (m + 1) <= n
                PROVE  Tails(m + 1)
    <3>1. m + 1 \in Nat
      BY SMT
    <3>. HIDE DEF Tails
    <3>. QED  BY <3>1
  <2>. DEFINE i == a + m
              j == e + m
  <2>1. /\ i \in Nat /\ j \in Nat /\ a + (m + 1) = i + 1 /\ e + (m + 1) = j + 1 /\ j <= n
        /\ i + 1 \in 1 .. n - s /\ ~(i + 1 < b) /\ i + 1 + s = j + 1 /\ j + 1 \in 1 .. n
    BY <1>1, SMT
  <2>2. PICK t \in Seq(Programs) : ListedTo(X)[j] = Append(h, p) \o t /\ ListedTo(Y)[i] = h \o t
    <3>1. Tails(m)
      <4>. HIDE DEF Tails
      <4>. QED  BY <1>7, <2>1
    <3>. QED  BY <3>1
  <2>. HIDE DEF i, j
  <2>3. Y[i + 1] = X[j + 1]
    BY <1>2, <2>1
  <2>4. CASE ~IsLabel(X[j + 1])
    <3>1. ListedTo(X)[j + 1] = ListedTo(X)[j] /\ ListedTo(Y)[i + 1] = ListedTo(Y)[i]
      <4>1. i \in Nat /\ j \in Nat
        BY <2>1
      <4>. QED  BY <4>1, <2>3, <2>4, ListedGrows, Zenon
    <3>. QED  BY <2>1, <2>2, <3>1, Zenon
  <2>5. CASE IsLabel(X[j + 1])
    <3>. DEFINE q == X[j + 1][1]
    <3>1. /\ ListedTo(X)[j + 1] = Append(ListedTo(X)[j], q)
          /\ ListedTo(Y)[i + 1] = Append(ListedTo(Y)[i], q)
      <4>1. i \in Nat /\ j \in Nat
        BY <2>1
      <4>2. ListedTo(X)[j + 1] = Append(ListedTo(X)[j], q)
        BY <4>1, <2>5, ListedGrows, Zenon
      <4>3. ListedTo(Y)[i + 1] = Append(ListedTo(Y)[i], Y[i + 1][1])
        BY <4>1, <2>3, <2>5, ListedGrows, Zenon
      <4>. QED  BY <2>3, <4>2, <4>3, Zenon
    <3>2. q \in Programs
      BY <2>1 DEF IsWord
    <3>. HIDE DEF q
    <3>3. \A u \in Seq(Programs) : Append(u \o t, q) = u \o Append(t, q)
      <4>1. ASSUME NEW u \in Seq(Programs)
            PROVE  Append(u \o t, q) = u \o Append(t, q)
        <5>1. /\ Append(t, q) = t \o <<q>> /\ Append(u \o t, q) = (u \o t) \o <<q>>
              /\ <<q>> \in Seq(Programs)
          <6>1. u \o t \in Seq(Programs)
            BY ConcatProperties
          <6>. QED  BY <3>2, <6>1, AppendIsConcat
        <5>2. (u \o t) \o <<q>> = u \o (t \o <<q>>)
          BY <5>1, ConcatAssociative
        <5>. QED  BY <5>1, <5>2
      <4>. QED  BY <4>1
    <3>4. Append(t, q) \in Seq(Programs)
      BY <3>2, AppendProperties
    <3>. QED  BY <1>3, <1>5, <2>1, <2>2, <3>1, <3>3, <3>4, Zenon
  <2>. QED  BY <2>4, <2>5
<1>8. Tails(n - e)
  <2>1. n - e \in Nat /\ e + (n - e) <= n
    BY SMT
  <2>2. \A m \in Nat : m \in T
    <3>. HIDE DEF T
    <3>. QED  BY <1>6, <1>7, AllNaturals
  <2>. HIDE DEF Tails
  <2>. QED  BY <2>1, <2>2
<1>9. e + (n - e) = n /\ a + (n - e) = n - s
  BY <1>1, SMT
<1>10. PICK t \in Seq(Programs) : ListedTo(X)[n] = Append(h, p) \o t /\ ListedTo(Y)[n - s] = h \o t
  BY <1>8, <1>9
<1>11. \E k \in DOMAIN ListedTo(X)[n] : ListedTo(Y)[n - s] = RemoveAt(ListedTo(X)[n], k)
  <2>1. /\ RemoveAt(Append(h, p) \o t, Len(h) + 1) = h \o t
        /\ Len(h) + 1 \in DOMAIN (Append(h, p) \o t)
    BY <1>3, RemovedBetween
  <2>. QED  BY <1>10, <2>1, Zenon
<1>. QED  BY <1>11 DEF s

-----------------------------------------------------------------------------
(* The library as a shelf of programs                                        *)

ListOf(img) == ListedTo(img)[size(img)]

LEMMA ListIs ==
    ASSUME NEW X, size(X) \in 0 .. NUMPROG_FLASH_MAX
    PROVE  Listed(Content(X)) = ListOf(X)
<1>. DEFINE n == size(X)
            w == Content(X)
<1>1. n \in Nat /\ \A i \in 1 .. n : i \in Index
  BY SizesAre, SMT
<1>2. w = [i \in 1 .. n |-> IF i \in Index THEN X[i] ELSE Junk]
  BY DEF Content
<1>. HIDE DEF n, w
<1>3. Len(w) = n /\ \A i \in 1 .. n : w[i] = X[i]
  BY <1>1, <1>2
<1>4. ListedTo(w)[n] = ListedTo(X)[n]
  BY <1>1, <1>3, ListedSame
<1>. QED  BY <1>3, <1>4 DEF Listed, ListOf, n, w

(* The first word of a program is its only label.                             *)
LEMMA OneLabel ==
    ASSUME NEW X, NEW n \in Nat, Fine(X, n),
           NEW b \in Nat, NEW e \in Nat, 1 <= b, b <= e, e <= n,
           b = 1 \/ IsEND(X[b - 1]), \A j \in b .. e - 1 : ~IsEND(X[j])
    PROVE  IsLabel(X[b]) /\ \A j \in b + 1 .. e : ~IsLabel(X[j])
<1>1. /\ n > 0 /\ (b # 1 => b \in 2 .. n)
      /\ \A j \in b + 1 .. e : j - 1 \in b .. e - 1 /\ j - 1 \in 1 .. n /\ j \in 2 .. n
  BY SMT
<1>2. IsLabel(X[b])
  <2>1. CASE b = 1
    BY <1>1, <2>1, Zenon DEF Fine
  <2>2. CASE b # 1
    <3>1. Follows(X[b - 1], X[b])
      BY <1>1, <2>2, Zenon DEF Fine
    <3>. QED  BY <2>2, <3>1, FollowsEnd
  <2>. QED  BY <2>1, <2>2
<1>3. ASSUME NEW j \in b + 1 .. e
      PROVE  ~IsLabel(X[j])
  <2>1. Follows(X[j - 1], X[j]) /\ ~IsEND(X[j - 1]) /\ IsWord(X[j - 1])
    BY <1>1, Zenon DEF Fine
  <2>2. X[j] = <<X[j - 1][1], X[j - 1][2] + 1>>
    BY <2>1, Zenon DEF Follows
  <2>3. X[j - 1][2] \in 1 .. X[j - 1][1][2]
    BY <2>1, Zenon DEF IsWord
  <2>4. X[j][2] = X[j - 1][2] + 1 /\ X[j - 1][2] \in Int /\ X[j - 1][2] >= 1
    <3>1. \A m, k : k \in 1 .. m => k \in Int /\ k >= 1
      BY SMT
    <3>. QED  BY <2>2, <2>3, <3>1
  <2>5. X[j][2] # 1
    BY <2>4, SMT
  <2>. QED  BY <2>5 DEF IsLabel
<1>. QED  BY <1>2, <1>3

(* What a removal will leave is the list before it without one program.       *)
ShelfInv ==
    Removing => \E k \in DOMAIN was[1] : ListedTo(Goal)[job.size] = RemoveAt(was[1], k)

LEMMA RemovalLists ==
    ASSUME LibInv, WholeInv, Idle, UserFlash' = UserFlash,
           NEW i \in 1 .. size(UserFlash), NEW then \in Programs \cup {NoProgram},
           job' = flash_remove(ProgBegin(i), ProgEnd(i), then)
    PROVE  \E k \in DOMAIN ListOf(UserFlash) :
               ListedTo(Goal')[job'.size] = RemoveAt(ListOf(UserFlash), k)
<1>1. PICK X : X = UserFlash
  OBVIOUS
<1>2. PICK n : n = size(X)
  OBVIOUS
<1>3. PICK b : b = ProgBegin(i)
  OBVIOUS
<1>4. PICK e : e = ProgEnd(i)
  OBVIOUS
<1>5. PICK G : G = Goal'
  OBVIOUS
<1>6. n \in Nat
  BY <1>1, <1>2, SizesAre, SMT DEF LibInv
<1>7. /\ b \in Int /\ e \in Int /\ 1 <= b /\ b <= e /\ e <= n
      /\ b = 1 \/ IsEND(X[b - 1])
      /\ \A j \in b .. e - 1 : ~IsEND(X[j])
  BY <1>1, <1>2, <1>3, <1>4, <1>6, ProgramAround
<1>8. Fine(X, n)
  BY <1>1, <1>2 DEF WholeInv, Removing
<1>9. /\ job'.size = n - (e + 1 - b)
      /\ \A k \in 1 .. job'.size : G[k] = IF k < b THEN X[k] ELSE X[k + (e + 1 - b)]
  BY <1>1, <1>2, <1>3, <1>4, <1>5, RemovalBegins
<1>10. b \in Nat /\ e \in Nat
  BY <1>7, SMT
<1>11. IsLabel(X[b]) /\ \A j \in b + 1 .. e : ~IsLabel(X[j])
  BY <1>6, <1>7, <1>8, <1>10, OneLabel
<1>12. \A j \in 1 .. n : IsWord(X[j])
  BY <1>8 DEF Fine
<1>13. \A k \in 1 .. n - (e + 1 - b) : G[k] = IF k < b THEN X[k] ELSE X[k + (e + 1 - b)]
  BY <1>9, Zenon
<1>14. IsCut(X, G, n, b, e)
  BY <1>6, <1>7, <1>10, <1>11, <1>12, <1>13 DEF IsCut
<1>15. \E k \in DOMAIN ListedTo(X)[n] :
           ListedTo(G)[n - (e + 1 - b)] = RemoveAt(ListedTo(X)[n], k)
  BY <1>14, ListedCut
<1>. QED  BY <1>1, <1>2, <1>5, <1>9, <1>15, Zenon DEF ListOf

(* A call of an addition puts the program on the list or changes nothing; the  *)
(* file's list is then the memory's, or what it was.                         *)
LEMMA AddingLists ==
    ASSUME LibInv, WholeInv, ~Idle, ~Removing, NEW n \in Int
    PROVE  /\ ListOf(Copied) = IF Len(job.stages) = 1 THEN Append(ListOf(UserFlash), job.prog)
                               ELSE ListOf(UserFlash)
           /\ ListOf(Written(n)) \in {ListOf(libfile), ListOf(Copied)}
           /\ job.prog \in Programs
           /\ \A k \in DOMAIN ListOf(UserFlash) : ListOf(UserFlash)[k][1] # job.prog[1]
<1>1. PICK F : F = UserFlash
  OBVIOUS
<1>2. PICK D : D = libfile
  OBVIOUS
<1>3. PICK C : C = Copied
  OBVIOUS
<1>4. PICK W : W = Written(n)
  OBVIOUS
<1>5. PICK p : p = job.prog
  OBVIOUS
<1>6. PICK m : m = size(F)
  OBVIOUS
<1>7. /\ m \in Nat /\ size(D) \in Nat /\ p \in Programs /\ job.size = m + p[2]
      /\ Fine(F, m) /\ Lacks(F, m, p[1]) /\ job.size \in Nat
  <2>1. /\ m \in 0 .. NUMPROG_FLASH_MAX /\ size(D) \in 0 .. NUMPROG_FLASH_MAX
        /\ job.size \in 0 .. NUMPROG_FLASH_MAX
    BY <1>1, <1>2, <1>6, JobSizes DEF LibInv
  <2>2. \A j \in 0 .. NUMPROG_FLASH_MAX : j \in Nat
    BY SizesAre, SMT
  <2>3. Adding
    BY JobSizes
  <2>. QED  BY <1>1, <1>5, <1>6, <2>1, <2>2, <2>3 DEF WholeInv, Adding
<1>8. /\ C[0] = IF Len(job.stages) = 1 THEN job.size ELSE F[0]
      /\ W[0] \in {D[0], C[0]} /\ Prefix(F, C) /\ Prefix(D, W)
  BY <1>1, <1>2, <1>3, <1>4, AddingKeeps
<1>9. \A i \in 1 .. size(C) : W[i] = C[i]
  BY <1>3, <1>4, AddingFine
<1>10. \A i \in 1 .. m : C[i] = F[i]
  BY <1>6, <1>8 DEF Prefix
<1>11. /\ size(C) \in Nat
       /\ ListOf(C) = IF Len(job.stages) = 1 THEN Append(ListOf(F), p) ELSE ListOf(F)
  <2>1. CASE Len(job.stages) = 1
    <3>1. size(C) = m + p[2]
      BY <1>7, <1>8, <2>1, Zenon DEF size
    <3>2. \A k \in 1 .. p[2] : C[m + k] = <<p, k>>
      BY <1>1, <1>3, <1>5, <1>6, <2>1, AddingDelivers
    <3>3. ListedTo(C)[m + p[2]] = Append(ListedTo(F)[m], p)
      <4>1. m \in Nat /\ p \in Programs
        BY <1>7
      <4>. QED  BY <4>1, <1>10, <3>2, ListedAppended, Zenon
    <3>. QED  BY <1>6, <1>7, <2>1, <3>1, <3>3, Zenon DEF ListOf
  <2>2. CASE Len(job.stages) # 1
    <3>1. size(C) = m
      BY <1>6, <1>8, <2>2, Zenon DEF size
    <3>2. ListedTo(C)[m] = ListedTo(F)[m]
      BY <1>7, <1>10, ListedSame, Zenon
    <3>. QED  BY <1>6, <1>7, <2>2, <3>1, <3>2, Zenon DEF ListOf
  <2>. QED  BY <2>1, <2>2
<1>12. ListOf(W) \in {ListOf(D), ListOf(C)}
  <2>1. CASE W[0] = D[0]
    <3>1. size(W) = size(D) /\ \A i \in 1 .. size(D) : W[i] = D[i]
      BY <1>8, <2>1, Zenon DEF Prefix, size
    <3>2. ListedTo(W)[size(D)] = ListedTo(D)[size(D)]
      BY <1>7, <3>1, ListedSame, Zenon
    <3>. QED  BY <3>1, <3>2, Zenon DEF ListOf
  <2>2. CASE W[0] = C[0]
    <3>1. size(W) = size(C)
      BY <2>2, Zenon DEF size
    <3>2. ListedTo(W)[size(C)] = ListedTo(C)[size(C)]
      BY <1>9, <1>11, ListedSame, Zenon
    <3>. QED  BY <3>1, <3>2, Zenon DEF ListOf
  <2>. QED  BY <1>8, <2>1, <2>2, Zenon
<1>13. ASSUME NEW k \in DOMAIN ListOf(F)
       PROVE  ListOf(F)[k][1] # p[1]
  <2>1. \A i \in 1 .. m : IsWord(F[i])
    BY <1>7 DEF Fine
  <2>2. k \in DOMAIN ListedTo(F)[m] /\ ListOf(F) = ListedTo(F)[m]
    BY <1>6, <1>13, Zenon DEF ListOf
  <2>3. PICK i \in 1 .. m : IsLabel(F[i]) /\ ListedTo(F)[m][k] = F[i][1]
    <3>1. \A j \in DOMAIN ListedTo(F)[m] :
              \E i \in 1 .. m : IsLabel(F[i]) /\ ListedTo(F)[m][j] = F[i][1]
      BY <1>7, <2>1, ListedPrograms
    <3>. QED  BY <2>2, <3>1, Zenon
  <2>4. F[i][1][1] # p[1]
    BY <1>7, <2>3, Zenon DEF Lacks
  <2>. QED  BY <2>2, <2>3, <2>4, Zenon
<1>. QED  BY <1>1, <1>2, <1>3, <1>4, <1>5, <1>7, <1>11, <1>12, <1>13, Zenon

(* The shelf's steps in terms of the library's.                               *)
LEMMA ShelfStutters ==
    ASSUME Shown' = Shown, Kept' \in {Kept, Shown}
    PROVE  [S!Next]_<<Shown, Kept>>
BY Zenon DEF S!Next, S!Keep

LEMMA ShelfTakes ==
    ASSUME NEW p \in Programs, \A k \in DOMAIN Shown : Shown[k][1] # p[1],
           Shown' = Append(Shown, p), Kept' \in {Kept, Shown'}
    PROVE  S!Next
<1>1. PICK name \in Names, len \in Lengths : p = <<name, len>>
  BY DEF Programs
<1>2. len \in 1 .. 9
  BY LibrarySizes
<1>3. name \notin S!Labelled(Shown)
  <2>1. p[1] = name
    BY <1>1
  <2>. QED  BY <2>1, Zenon DEF S!Labelled
<1>4. S!Put
  BY <1>1, <1>2, <1>3, Zenon DEF S!Put
<1>. QED  BY <1>4 DEF S!Next

LEMMA ShelfGives ==
    ASSUME NEW k \in DOMAIN Shown, Shown' = RemoveAt(Shown, k), Kept' \in {Kept, Shown'}
    PROVE  S!Next
BY Zenon DEF S!Next, S!Drop, S!RemoveAt, RemoveAt

LEMMA ShelfRestarts ==
    ASSUME Shown' = Kept, Kept' = Kept
    PROVE  S!Next
BY Zenon DEF S!Next, S!Restart

(* What is shown and kept, before a step and after it.                        *)
LEMMA ShownBefore ==
    ASSUME LibInv
    PROVE  /\ Lists = <<ListOf(UserFlash), ListOf(libfile)>>
           /\ Removing => Shown = was[1] /\ Kept = was[2]
           /\ ~Removing => Shown = ListOf(UserFlash) /\ Kept = ListOf(libfile)
<1>1. size(UserFlash) \in 0 .. NUMPROG_FLASH_MAX /\ size(libfile) \in 0 .. NUMPROG_FLASH_MAX
  BY DEF LibInv
<1>2. Listed(Content(UserFlash)) = ListOf(UserFlash) /\ Listed(Content(libfile)) = ListOf(libfile)
  BY <1>1, ListIs
<1>3. Lists = <<ListOf(UserFlash), ListOf(libfile)>>
  BY <1>2, Zenon DEF Lists
<1>4. Lists[1] = ListOf(UserFlash) /\ Lists[2] = ListOf(libfile)
  BY <1>3
<1>. QED  BY <1>3, <1>4, Zenon DEF Shown, Kept

LEMMA ShownAfter ==
    ASSUME LibInv, [CheckedNext]_vars
    PROVE  /\ Removing' => Shown' = was'[1] /\ Kept' = was'[2]
           /\ ~Removing' => Shown' = ListOf(UserFlash') /\ Kept' = ListOf(libfile')
<1>1. /\ size(UserFlash') \in 0 .. NUMPROG_FLASH_MAX
      /\ size(libfile') \in 0 .. NUMPROG_FLASH_MAX
  BY InvStep DEF LibInv
<1>2. PICK F, D : F = UserFlash' /\ D = libfile'
  OBVIOUS
<1>3. Listed(Content(F)) = ListOf(F) /\ Listed(Content(D)) = ListOf(D)
  BY <1>1, <1>2, ListIs
<1>4. Lists' = <<Listed(Content(F)), Listed(Content(D))>>
  BY <1>2, Zenon DEF Lists
<1>5. Lists'[1] = ListOf(UserFlash') /\ Lists'[2] = ListOf(libfile')
  BY <1>2, <1>3, <1>4
<1>. QED  BY <1>5, Zenon DEF Shown, Kept

(* A command that begins shows nothing yet.                                   *)
LEMMA CommandsOnShelf ==
    ASSUME LibInv, WholeInv, Commands
    PROVE  ShelfInv' /\ Shown' = Shown /\ Kept' = Kept
<1>1. /\ Idle /\ UserFlash' = UserFlash /\ libfile' = libfile /\ was' = Lists
      /\ ~Removing /\ size(UserFlash) \in Nat
  BY SizesAre, SMT DEF Commands, store_program, clrprog, Removing, LibInv
<1>2. was' = <<ListOf(UserFlash), ListOf(libfile)>>
  BY <1>1, ShownBefore
<1>3. was'[1] = ListOf(UserFlash) /\ was'[2] = ListOf(libfile)
  BY <1>2
<1>4. Shown' = Shown /\ Kept' = Kept
  BY <1>1, <1>3, ShownBefore, ShownAfter, Zenon DEF CheckedNext
<1>5. ASSUME NEW i \in 1 .. size(UserFlash), NEW then \in Programs \cup {NoProgram},
             job' = flash_remove(ProgBegin(i), ProgEnd(i), then)
      PROVE  ShelfInv'
  <2>1. \E k \in DOMAIN ListOf(UserFlash) :
            ListedTo(Goal')[job'.size] = RemoveAt(ListOf(UserFlash), k)
    BY <1>1, <1>5, RemovalLists
  <2>. QED  BY <1>3, <2>1, Zenon DEF ShelfInv
<1>6. ASSUME NEW i \in 1 .. size(UserFlash), clrprog(i)
      PROVE  ShelfInv'
  BY <1>5, <1>6, Zenon DEF clrprog
<1>7. ASSUME NEW p \in Programs, store_program(p), Found(p[1]) = {}
      PROVE  ShelfInv'
  <2>1. job' = flash_append(1 + size(UserFlash), p, size(UserFlash) + p[2], NoProgram)
    BY <1>7, Zenon DEF store_program
  <2>2. job'.prog = p /\ p # NoProgram
    BY <2>1, SizesAre, Zenon DEF flash_append
  <2>. QED  BY <2>2, Zenon DEF ShelfInv, Removing
<1>8. ASSUME NEW p \in Programs, store_program(p), Found(p[1]) # {}
      PROVE  ShelfInv'
  <2>. DEFINE old == Found(p[1])
              at == CHOOSE i \in old : \A j \in old : i <= j
  <2>1. job' = flash_remove(ProgBegin(at), ProgEnd(at), p)
    BY <1>8, Zenon DEF store_program
  <2>2. at \in old
    <3>1. old \subseteq Nat
      BY <1>1, SMT DEF Found
    <3>2. \E i \in old : \A j \in old : i <= j
      BY <1>8, <3>1, LeastNatural
    <3>. QED  BY <3>2, Zenon
  <2>3. at \in 1 .. size(UserFlash)
    BY <2>2, Zenon DEF Found
  <2>. HIDE DEF at, old
  <2>. QED  BY <1>5, <2>1, <2>3
<1>9. ShelfInv'
  BY <1>6, <1>7, <1>8 DEF Commands
<1>. QED  BY <1>4, <1>9

(* A removal shows the list without the program when the header is written.   *)
LEMMA RemovalOnShelf ==
    ASSUME LibInv, WholeInv, ShelfInv, Removing, program_flash
    PROVE  ShelfInv' /\ [S!Next]_<<Shown, Kept>>
<1>1. was' = was /\ Shown = was[1] /\ Kept = was[2]
  BY ShownBefore, Zenon DEF program_flash
<1>2. PICK k \in DOMAIN was[1] : ListedTo(Goal)[job.size] = RemoveAt(was[1], k)
  BY DEF ShelfInv
<1>3. CASE Len(job.stages) # 1
  <2>1. /\ Removing' /\ job'.size = job.size
        /\ job.size \in Nat /\ \A i \in 1 .. job.size : Goal'[i] = Goal[i]
    BY <1>3, GoalStays
  <2>2. PICK G, H, n : G = Goal /\ H = Goal' /\ n = job.size
    OBVIOUS
  <2>3. n \in Nat /\ \A i \in 1 .. n : H[i] = G[i]
    BY <2>1, <2>2, Zenon
  <2>4. ListedTo(H)[n] = ListedTo(G)[n]
    BY <2>3, ListedSame, Zenon
  <2>5. ShelfInv'
    BY <1>1, <1>2, <2>1, <2>2, <2>4, Zenon DEF ShelfInv
  <2>6. Shown' = Shown /\ Kept' = Kept
    BY <1>1, <2>1, ShownAfter, Zenon DEF CheckedNext
  <2>. QED  BY <2>5, <2>6, ShelfStutters
<1>4. CASE Len(job.stages) = 1
  <2>1. /\ ~Removing' /\ job.size \in Nat
        /\ size(UserFlash') = job.size /\ size(libfile') = job.size
        /\ \A i \in 1 .. job.size : UserFlash'[i] = Goal[i] /\ libfile'[i] = Goal[i]
    BY <1>4, GoalReached
  <2>2. PICK F, D, G, n : F = UserFlash' /\ D = libfile' /\ G = Goal /\ n = job.size
    OBVIOUS
  <2>3. /\ n \in Nat /\ \A i \in 1 .. n : F[i] = G[i]
        /\ \A i \in 1 .. n : D[i] = G[i]
    BY <2>1, <2>2, Zenon
  <2>4. ListedTo(F)[n] = ListedTo(G)[n] /\ ListedTo(D)[n] = ListedTo(G)[n]
    BY <2>3, ListedSame, Zenon
  <2>5. ListOf(UserFlash') = RemoveAt(was[1], k) /\ ListOf(libfile') = RemoveAt(was[1], k)
    BY <1>2, <2>1, <2>2, <2>4, Zenon DEF ListOf
  <2>6. Shown' = RemoveAt(Shown, k) /\ Kept' = Shown' /\ k \in DOMAIN Shown
    BY <1>1, <2>1, <2>5, ShownAfter, Zenon DEF CheckedNext
  <2>7. S!Next
    BY <2>6, ShelfGives
  <2>. QED  BY <2>1, <2>7, Zenon DEF ShelfInv
<1>. QED  BY <1>3, <1>4

(* A call of an addition, whether it ends or not, and what a restart takes.   *)
LEMMA AdditionOnShelf ==
    ASSUME LibInv, WholeInv, ~Idle, ~Removing, [CheckedNext]_vars, ~Removing', NEW n \in Int,
           libfile' = Written(n), UserFlash' \in {Copied, libfile'}
    PROVE  [S!Next]_<<Shown, Kept>>
<1>1. PICK p : p = job.prog
  OBVIOUS
<1>2. PICK c, w : c = ListOf(Copied) /\ w = ListOf(Written(n))
  OBVIOUS
<1>3. Shown = ListOf(UserFlash) /\ Kept = ListOf(libfile)
  BY ShownBefore
<1>4. /\ c = IF Len(job.stages) = 1 THEN Append(Shown, p) ELSE Shown
      /\ w \in {Kept, c} /\ p \in Programs /\ \A k \in DOMAIN Shown : Shown[k][1] # p[1]
  BY <1>1, <1>2, <1>3, AddingLists
<1>5. Kept' = w /\ Shown' \in {c, w}
  BY <1>2, ShownAfter, Zenon
<1>6. CASE Shown' = c
  <2>1. CASE Len(job.stages) = 1
    BY <1>4, <1>5, <1>6, <2>1, ShelfTakes
  <2>2. CASE Len(job.stages) # 1
    BY <1>4, <1>5, <1>6, <2>2, ShelfStutters
  <2>. QED  BY <2>1, <2>2
<1>7. CASE Shown' = w /\ w # c
  <2>1. Shown' = Kept /\ Kept' = Kept
    BY <1>4, <1>5, <1>7, Zenon
  <2>. QED  BY <2>1, ShelfRestarts
<1>. QED  BY <1>5, <1>6, <1>7

LEMMA ShelfStep ==
    ASSUME LibInv, WholeInv, ShelfInv, [CheckedNext]_vars
    PROVE  ShelfInv' /\ [S!Next]_<<Shown, Kept>>
<1>1. CASE Commands
  BY <1>1, CommandsOnShelf, ShelfStutters
<1>2. CASE program_flash /\ Removing
  BY <1>2, RemovalOnShelf
<1>3. CASE program_flash /\ ~Removing
  <2>1. ~Idle /\ UserFlash' = Copied /\ libfile' = Written(PagesToWrite)
    BY <1>3 DEF program_flash
  <2>2. PagesToWrite \in Int /\ job.then = NoProgram /\ job.prog # NoProgram
    <3>1. PICK d \in Calls : job.stages[1] = d
      BY <2>1, CallsLeft, HeaderLeft
    <3>2. Adding
      BY <1>3, <2>1, JobSizes
    <3>3. \A p \in Programs : p # NoProgram
      BY SizesAre
    <3>. QED  BY <3>1, <3>2, <3>3, SMT DEF PagesToWrite, Calls, Adding
  <2>3. ~Removing'
    <3>1. CASE Len(job.stages) > 1
      <4>1. job'.prog = job.prog
        BY <1>3, <3>1, Zenon DEF program_flash, LibInv, Jobs
      <4>. QED  BY <2>2, <4>1, Zenon DEF Removing
    <3>2. CASE ~(Len(job.stages) > 1)
      <4>1. job' = NoJob
        BY <1>3, <2>2, <3>2, Zenon DEF program_flash, NextCall
      <4>. QED  BY <4>1, Zenon DEF NoJob, Idle, Removing
    <3>. QED  BY <3>1, <3>2
  <2>4. [S!Next]_<<Shown, Kept>>
    BY <1>3, <2>1, <2>2, <2>3, AdditionOnShelf
  <2>. QED  BY <2>3, <2>4, Zenon DEF ShelfInv
<1>4. ASSUME NEW n \in 0 .. Pages, ~Removing, DiskFails(n)
      PROVE  ShelfInv' /\ [S!Next]_<<Shown, Kept>>
  <2>1. ~Idle /\ UserFlash' = Copied /\ libfile' = Written(n) /\ n \in Int
    BY <1>4, SizesAre, SMT DEF DiskFails
  <2>2. Adding
    BY <1>4, <2>1, JobSizes
  <2>3. job' = NoJob
    BY <1>4, <2>2, Zenon DEF DiskFails, NextCall, Adding
  <2>4. ~Removing'
    BY <2>3, Zenon DEF NoJob, Idle, Removing
  <2>5. [S!Next]_<<Shown, Kept>>
    BY <1>4, <2>1, <2>4, AdditionOnShelf
  <2>. QED  BY <2>4, <2>5, Zenon DEF ShelfInv
<1>5. ASSUME NEW n \in 0 .. Pages, ~Removing, PowerLoss(n)
      PROVE  ShelfInv' /\ [S!Next]_<<Shown, Kept>>
  <2>1. /\ UserFlash' = libfile' /\ job' = NoJob /\ n \in Int
        /\ libfile' = (IF Idle THEN libfile ELSE Written(n))
    BY <1>5, SizesAre, SMT DEF PowerLoss
  <2>2. ~Removing'
    BY <2>1, Zenon DEF NoJob, Idle, Removing
  <2>3. CASE Idle
    <3>1. Shown' = Kept /\ Kept' = Kept
      BY <1>5, <2>1, <2>2, <2>3, ShownBefore, ShownAfter, Zenon
    <3>. QED  BY <2>2, <3>1, ShelfRestarts, Zenon DEF ShelfInv
  <2>4. CASE ~Idle
    <3>1. [S!Next]_<<Shown, Kept>>
      BY <1>5, <2>1, <2>2, <2>4, AdditionOnShelf
    <3>. QED  BY <2>2, <3>1, Zenon DEF ShelfInv
  <2>. QED  BY <2>3, <2>4
<1>6. CASE UNCHANGED vars
  <2>1. Shown' = Shown /\ Kept' = Kept
    BY <1>6, Zenon DEF vars, Shown, Kept, Removing, Idle, Lists
  <2>2. ShelfInv'
    BY <1>6, Zenon DEF vars, ShelfInv, Removing, Idle, Goal
  <2>. QED  BY <2>1, <2>2, ShelfStutters
<1>. QED  BY <1>1, <1>2, <1>3, <1>4, <1>5, <1>6, Zenon DEF CheckedNext, Faults

(* In memory the library is a list of programs with labels of their own, to   *)
(* which PSTO, CLP and loading add one at the end or from which they take     *)
(* one, at the moment the header is written; the list in the file follows, or *)
(* stays as it was until then, whichever write fails while a program is added *)
(* and wherever the power goes.                                              *)
THEOREM LibraryIsShelf == CheckedSpec => ShelfSpec
<1>1. Init => S!Init /\ ShelfInv
  <2>. SUFFICES ASSUME Init
                PROVE  S!Init /\ ShelfInv
    OBVIOUS
  <2>1. ~Removing
    BY Zenon DEF Init, NoJob, Idle, Removing
  <2>2. UserFlash[0] = 0 /\ libfile[0] = 0
    <3>1. 0 \in Index
      BY SizesAre, SMT
    <3>. QED  BY <3>1, Zenon DEF Init
  <2>3. ListOf(UserFlash) = <<>> /\ ListOf(libfile) = <<>>
    BY <2>2, ListedGrows, Zenon DEF ListOf, size
  <2>4. Shown = <<>> /\ Kept = <<>>
    BY <2>1, <2>3, InvInit, ShownBefore
  <2>. QED  BY <2>1, <2>4, Zenon DEF S!Init, ShelfInv
<1>2. LibInv /\ WholeInv /\ ShelfInv /\ [CheckedNext]_vars =>
          ShelfInv' /\ [S!Next]_<<Shown, Kept>>
  BY ShelfStep
<1>3. Init => WholeInv
  BY WholeInit
<1>4. LibInv /\ WholeInv /\ [CheckedNext]_vars => WholeInv'
  BY WholeStep
<1>. QED  BY <1>1, <1>2, <1>3, <1>4, LibraryIsSound, PTL DEF CheckedSpec, ShelfSpec, S!Spec
=============================================================================
