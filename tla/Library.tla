------------------------------ MODULE Library ------------------------------
(***************************************************************************)
(* The program library: its image in memory, the file that stands for the    *)
(* flash, and what a power failure or a failing write leaves of both.        *)
(*                                                                          *)
(* The image is an array of words in pages.  Word 0 is the header with the   *)
(* number of words in use (its other half, the crc, is written but never     *)
(* read by this build); the programs follow, each as long as its length      *)
(* says, and behind them lies junk.  A word is <<p, i>>: the i-th of program *)
(* p = <<label, length>>; its first word is the label, its last one END.     *)
(*                                                                          *)
(* program_flash copies whole pages to memory and then to the file.  It is   *)
(* one action; a fault cuts it short between two pages of the file.          *)
(***************************************************************************)
EXTENDS Integers, SequencesExt

CONSTANTS
    Names,              \* the labels of programs
    Lengths,            \* bound: the lengths of programs, in words
    PageWords,          \* words of a page
    Pages               \* pages of the library

ASSUME LibrarySizes ==
    /\ Lengths \subseteq 1 .. 9
    /\ PageWords \in Nat \ {0} /\ Pages \in Nat \ {0}

VARIABLES
    UserFlash,    \* the library in memory
    libfile,      \* the library's file
    job,          \* what the command under way has still to write
    broken,       \* a fault has cut the last command short
    was           \* history: the lists before the last removal

vars == <<UserFlash, libfile, job, broken, was>>

NUMPROG_FLASH_MAX == PageWords * Pages - 1
Programs  == Names \X Lengths
NoProgram == <<"none", 0>>
Junk      == <<NoProgram, 0>>
Index     == 0 .. PageWords * Pages - 1
PageOf(i) == i \div PageWords

-----------------------------------------------------------------------------
(* The image of the library *)

size(img)    == img[0]
Content(img) == [i \in 1 .. size(img) |-> IF i \in Index THEN img[i] ELSE Junk]
IsLabel(w)   == w[2] = 1
IsEND(w)     == w # Junk /\ w[2] = w[1][2]

(* The programs whose labels occur, among the first n words for each n. *)
ListedTo(words) ==
    LET list[n \in Nat] ==
            IF n = 0 THEN <<>>
            ELSE IF IsLabel(words[n]) THEN Append(list[n - 1], words[n][1])
            ELSE list[n - 1]
    IN  list
Listed(words) == ListedTo(words)[Len(words)]

(* Are the words those of whole programs, one behind the other? *)
IsWord(w)     == w[1] \in Programs /\ w[2] \in 1 .. w[1][2]
Follows(v, w) == IF IsEND(v) THEN IsLabel(w) ELSE w = <<v[1], v[2] + 1>>
Whole(img) ==
    LET words == Content(img)
        n     == size(img)
    IN  /\ \A i \in 1 .. n : IsWord(words[i])
        /\ \A i \in 2 .. n : Follows(words[i - 1], words[i])
        /\ n > 0 => IsLabel(words[1]) /\ IsEND(words[n])

(* Has each of them a label of its own? *)
Distinct(img) ==
    LET words == Content(img)
    IN  \A i, j \in 1 .. size(img) :
            IsLabel(words[i]) /\ IsLabel(words[j]) /\ words[i][1][1] = words[j][1][1] => i = j

(* The first and the last word of the program around word i. *)
ProgBegin(i) == CHOOSE b \in 1 .. i :
                    /\ b = 1 \/ IsEND(UserFlash[b - 1])
                    /\ \A j \in b .. i - 1 : ~IsEND(UserFlash[j])
ProgEnd(i)   == CHOOSE e \in i .. size(UserFlash) :
                    /\ e = size(UserFlash) \/ IsEND(UserFlash[e])
                    /\ \A j \in i .. e - 1 : ~IsEND(UserFlash[j])

-----------------------------------------------------------------------------
(* flash_append(dest, source, count, size) is a list of program_flash calls. *)
(* The source is a program in RAM, or for a removal the library itself from   *)
(* shift words behind dest.                                                   *)

NoJob    == [dest |-> 0, prog |-> NoProgram, shift |-> 0, size |-> 0,
             stages |-> <<>>, then |-> NoProgram]
Idle     == job.stages = <<>>
Removing == ~Idle /\ job.prog = NoProgram

(* Mutant of Stages: the header before the whole pages. *)
StagesHeaderFirst(dest, count) ==
    LET tail == IF dest % PageWords = 0 THEN 0 ELSE PageWords - (dest % PageWords)
        next == PageOf(dest + tail)
    IN  (IF tail > 0 THEN << <<PageOf(dest), PageOf(dest)>> >> ELSE <<>>)
        \o << <<0, 0>> >>
        \o (IF count > tail
            THEN << <<next, next + PageOf(count - tail - 1)>> >> ELSE <<>>)

(* The page dest lies in the middle of, the whole pages, the header's page. *)
Stages(dest, count) ==
    LET tail == IF dest % PageWords = 0 THEN 0 ELSE PageWords - (dest % PageWords)
        next == PageOf(dest + tail)
    IN  (IF tail > 0 THEN << <<PageOf(dest), PageOf(dest)>> >> ELSE <<>>)
        \o (IF count > tail
            THEN << <<next, next + PageOf(count - tail - 1)>> >> ELSE <<>>)
        \o << <<0, 0>> >>

flash_append(dest, p, newsize, then) ==
    [dest |-> dest, prog |-> p, shift |-> 0, size |-> newsize,
     stages |-> Stages(dest, p[2]), then |-> then]

(* The removal of the words b .. e, after which program then is stored. *)
flash_remove(b, e, then) ==
    [dest |-> b, prog |-> NoProgram, shift |-> e + 1 - b,
     size |-> size(UserFlash) - (e + 1 - b),
     stages |-> Stages(b, size(UserFlash) - e), then |-> then]

(* Word k of the source; count is rounded up to pages and over-reads it. *)
Source(k) == IF job.prog # NoProgram
             THEN IF k < job.prog[2] THEN <<job.prog, k + 1>> ELSE Junk
             ELSE IF job.dest + job.shift + k \in Index
                  THEN UserFlash[job.dest + job.shift + k] ELSE Junk

(* The memory after the xcopy of the next call. *)
Copied ==
    IF Len(job.stages) = 1 THEN [UserFlash EXCEPT ![0] = job.size]
    ELSE [i \in Index |->
             IF i >= job.dest /\ PageOf(i) \in job.stages[1][1] .. job.stages[1][2]
             THEN Source(i - job.dest) ELSE UserFlash[i]]

(* The file after the next call has written n pages of it. *)
Written(n) == [i \in Index |->
                  IF PageOf(i) \in job.stages[1][1] .. job.stages[1][1] + n - 1
                  THEN Copied[i] ELSE libfile[i]]
PagesToWrite == job.stages[1][2] - job.stages[1][1] + 1

(* Mutant of NextCall: the program is not stored once the old one is removed. *)
NextCallForgets(img) == NoJob

(* A removal done or failed, store_program appends at the size it finds. *)
NextCall(img) == IF job.then = NoProgram THEN NoJob
                 ELSE flash_append(1 + size(img), job.then,
                                   size(img) + job.then[2], NoProgram)

-----------------------------------------------------------------------------
Init ==
    /\ UserFlash = [i \in Index |-> IF i = 0 THEN 0 ELSE Junk]
    /\ libfile = UserFlash
    /\ job = NoJob
    /\ broken = FALSE
    /\ was = << <<>>, <<>> >>

Lists == <<Listed(Content(UserFlash)), Listed(Content(libfile))>>
Found(name) == {i \in 1 .. size(UserFlash) : i \in Index /\ IsLabel(UserFlash[i])
                                              /\ UserFlash[i][1][1] = name}

(* Mutant of store_program: a program with the same label is kept. *)
store_programTwice(p) ==
    /\ Idle
    /\ p[2] <= NUMPROG_FLASH_MAX - size(UserFlash)
    /\ job' = flash_append(1 + size(UserFlash), p, size(UserFlash) + p[2], NoProgram)
    /\ broken' = FALSE /\ was' = Lists
    /\ UNCHANGED <<UserFlash, libfile>>

(* PSTO, and loading a program file: a program with the same label goes      *)
(* first, then p comes last; refused, without any change, for want of room.  *)
store_program(p) ==
    /\ Idle
    /\ LET free == NUMPROG_FLASH_MAX - size(UserFlash)
           old  == Found(p[1])
           at   == CHOOSE i \in old : \A j \in old : i <= j
       IN  IF old = {}
           THEN /\ p[2] <= free
                /\ job' = flash_append(1 + size(UserFlash), p,
                                       size(UserFlash) + p[2], NoProgram)
           ELSE /\ p[2] - (1 + ProgEnd(at) - ProgBegin(at)) <= free
                /\ job' = flash_remove(ProgBegin(at), ProgEnd(at), p)
    /\ broken' = FALSE /\ was' = Lists
    /\ UNCHANGED <<UserFlash, libfile>>

(* CLP with the program counter at word i of the library. *)
clrprog(i) ==
    /\ Idle
    /\ job' = flash_remove(ProgBegin(i), ProgEnd(i), NoProgram)
    /\ broken' = FALSE /\ was' = Lists
    /\ UNCHANGED <<UserFlash, libfile>>

(* Mutant of program_flash: the last of several pages does not reach the file. *)
program_flashShort ==
    /\ ~Idle
    /\ UserFlash' = Copied
    /\ libfile' = Written(IF PagesToWrite = 1 THEN 1 ELSE PagesToWrite - 1)
    /\ job' = IF Len(job.stages) > 1 THEN [job EXCEPT !.stages = Tail(@)]
              ELSE NextCall(Copied)
    /\ UNCHANGED <<broken, was>>

(* One call: the source to memory, and from there to the file. *)
program_flash ==
    /\ ~Idle
    /\ UserFlash' = Copied
    /\ libfile' = Written(PagesToWrite)
    /\ job' = IF Len(job.stages) > 1 THEN [job EXCEPT !.stages = Tail(@)]
              ELSE NextCall(Copied)
    /\ UNCHANGED <<broken, was>>

(* f_open or f_write fails after n pages: flash_append returns 1, which its  *)
(* callers ignore.  (A write the full disk cuts short, x < count in f_write,  *)
(* is taken for a good one; the model leaves it out.)                        *)
DiskFails(n) ==
    /\ ~Idle /\ n < PagesToWrite
    /\ UserFlash' = Copied
    /\ libfile' = Written(n)
    /\ job' = NextCall(Copied)
    /\ broken' = TRUE
    /\ UNCHANGED was

(* The power goes, n pages of the present call written; load_lib_file(0)     *)
(* then takes the file as it is.                                             *)
PowerLoss(n) ==
    /\ IF Idle THEN n = 0 ELSE n <= PagesToWrite
    /\ libfile' = IF Idle THEN libfile ELSE Written(n)
    /\ UserFlash' = libfile'
    /\ broken' = (broken \/ ~Idle)
    /\ job' = NoJob
    /\ UNCHANGED was

(* The library as another session left it, from a file of the user's. *)
load_lib_file ==
    /\ Idle
    /\ \E p \in Programs :
           UserFlash' = [i \in Index |-> IF i = 0 THEN p[2]
                                         ELSE IF i <= p[2] THEN <<p, i>> ELSE Junk]
    /\ UNCHANGED <<libfile, job, broken, was>>

Commands == (\E p \in Programs : store_program(p))
            \/ (\E i \in 1 .. size(UserFlash) : clrprog(i))
Faults(n) == DiskFails(n) \/ PowerLoss(n)

(* The steps under which the library stays whole: a removal is not cut short, *)
(* and no other library is loaded over this one.                             *)
CheckedNext == \/ Commands
               \/ program_flash
               \/ \E n \in 0 .. Pages : ~Removing /\ Faults(n)
CheckedSpec == Init /\ [][CheckedNext]_vars /\ WF_vars(program_flash)

(* A disk that never fails, the program left and started again between        *)
(* commands, and libraries loaded from the menu.                             *)
LoadingSpec == Init /\ [][\/ Commands
                          \/ program_flash
                          \/ Idle /\ PowerLoss(0)
                          \/ load_lib_file]_vars

-----------------------------------------------------------------------------
(* Properties *)

(* While no removal is under way, memory and file each hold whole programs   *)
(* with distinct labels: neither a command whose writes failed nor a loss of  *)
(* power while a program was added leaves a piece of one (flash_append        *)
(* writes the size last).                                                    *)
LibraryWhole ==
    ~Removing => \A img \in {UserFlash, libfile} :
                     size(img) <= NUMPROG_FLASH_MAX /\ Whole(img) /\ Distinct(img)

(* Between commands of which none has failed, the file is what memory shows. *)
FileFollows == Idle /\ ~broken => Content(libfile) = Content(UserFlash)

(* A program that PSTO or loading a program file has begun to store reaches   *)
(* the file, last of the list, unless a fault intervenes.                    *)
StoredAtLast ==
    \A p \in Programs :
        (p \in {job.prog, job.then}) ~>
            (broken \/ (Lists[2] # <<>> /\ Last(Lists[2]) = p))

(* What the abstract library shows and keeps: during a removal, what it did  *)
(* before, until the header is written.                                      *)
Shown == IF Removing THEN was[1] ELSE Lists[1]
Kept  == IF Removing THEN was[2] ELSE Lists[2]
S == INSTANCE Shelf WITH shown <- Shown, kept <- Kept
ShelfSpec == S!Spec

(* What init_library's comment promises at a restart; it does not hold of     *)
(* LoadingSpec.                                                              *)
LoadedWhole == Idle => Whole(UserFlash)
=============================================================================
