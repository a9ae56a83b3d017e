------------------------------ MODULE Program ------------------------------
(***************************************************************************)
(* Program memory: the steps, the program counter, the bounds of the        *)
(* current program, and the commands that enter, edit, move and execute     *)
(* programs.                                                                 *)
(*                                                                          *)
(* RAM holds the user's programs, each closed by END; the library in flash  *)
(* holds more.  A step is one word, or two: a first word out of Doubles and  *)
(* a second one, which may look like any single step, END included, but not *)
(* like a first word (forbidden_alpha, keys.c).  Address p is RAM's word p   *)
(* up to LIB and the library's word p - LIB from there on; word 0 of either  *)
(* is the place before the first step.                                      *)
(*                                                                          *)
(* Left out: programs executed in the backup region and in XROM, local       *)
(* frames (module Memory), and what a command does apart from the program   *)
(* counter.  Writes to flash succeed.                                       *)
(***************************************************************************)
EXTENDS Integers, SequencesExt

CONSTANTS
    END,                \* the step that closes a program
    LBL,                \* a numeric label
    Singles,            \* one-word steps; the others stand for any command
    Doubles,            \* first words of two-word steps
    LabelWords,         \* those of them that are global labels
    Seconds,            \* second words
    LIB,                \* the library's address 0
    NUMPROG_LIMIT,      \* words of program RAM could hold
    NUMPROG_FLASH_MAX,  \* words of program the library could hold
    Backups,            \* bound: programs the backup may hold
    Withheld,           \* bound: words that registers and local frames may keep
                        \* from a program that is appended
    MAX_RETURNS,        \* bound: return addresses on the stack
    MAX_ARG             \* bound: arguments of SKIP and BACK considered

ASSUME ProgramWords ==
    /\ END \in Singles /\ LBL \in Singles /\ END # LBL
    /\ LabelWords \subseteq Doubles
    /\ Singles \cap Doubles = {}
    /\ Seconds \cap Doubles = {}
ASSUME ProgramSizes ==
    /\ NUMPROG_LIMIT \in Nat \ {0}
    /\ NUMPROG_FLASH_MAX \in Nat
    /\ LIB \in Nat /\ LIB > NUMPROG_LIMIT + 1
    /\ Withheld \subseteq Nat
    /\ MAX_RETURNS \in Nat \ {0}
    /\ MAX_ARG \in Nat

VARIABLES
    ram,      \* the words of RAM's programs; ProgSize of them
    lib,      \* the words of the library's programs
    runmode,  \* 1; 0 while programs are entered
    at,       \* pc, ProgBegin and ProgEnd
    Running,  \* a program is running
    rets      \* the return addresses, the oldest first

vars == <<ram, lib, runmode, at, Running, rets>>

Words    == Singles \cup Doubles \cup Seconds
Labels   == {<<d, s>> : d \in LabelWords, s \in Seconds}
Opcodes  == {<<s>> : s \in Singles} \cup {<<d, s>> : d \in Doubles, s \in Seconds}
isDBL(w) == w \in Doubles

ProgSize == Len(ram)
M == [ram |-> ram, lib |-> lib, runmode |-> runmode]
-----------------------------------------------------------------------------
(* Reading the memory m *)

isRAM(p)     == p < LIB
offset(p)    == IF isRAM(p) THEN p ELSE p - LIB
Region(m, p) == IF isRAM(p) THEN m.ram ELSE m.lib

\* The step at p; END outside the programs.
getprog(m, p) ==
    LET words == Region(m, p)
        o     == offset(p)
    IN  IF o \in 1 .. Len(words)
        THEN IF isDBL(words[o]) THEN SubSeq(words, o, o + 1) ELSE <<words[o]>>
        ELSE <<END>>

\* find_section_bounds: the steps that count from p on; those of the current
\* program of w when endp asks for it and none is being entered.
Section(m, w, p, endp) ==
    IF endp /\ m.runmode = 1
    THEN [top |-> IF w.begin = 0 THEN 1 ELSE w.begin, bottom |-> w.end]
    ELSE IF isRAM(p) THEN [top |-> m.runmode, bottom |-> Len(m.ram)]
    ELSE [top |-> LIB + 1, bottom |-> LIB + Len(m.lib)]

\* The step behind p, or the top again.
Forward(s, npc) ==
    IF npc > s.bottom THEN [pc |-> s.top, wrapped |-> TRUE]
    ELSE [pc |-> npc, wrapped |-> FALSE]

\* Mutant of do_inc: a second word counts as a step.
do_incWord(m, w, p, endp) == Forward(Section(m, w, p, endp), p + 1)

do_inc(m, w, p, endp) == Forward(Section(m, w, p, endp), p + Len(getprog(m, p)))

\* The step that holds word p, not before the top.
StepOf(m, top, p) == IF p > top /\ isDBL(getprog(m, p - 1)[1]) THEN p - 1 ELSE p

\* Mutant of Backward: after wrapping, the top is taken for the last step.
BackwardTop(m, s, p) ==
    [pc      |-> IF p <= s.top THEN s.top ELSE StepOf(m, s.top, p - 1),
     wrapped |-> p <= s.top]

\* The step before p, or the last one.
Backward(m, s, p) ==
    [pc      |-> StepOf(m, s.top, IF p <= s.top THEN s.bottom ELSE p - 1),
     wrapped |-> p <= s.top]

do_dec(m, w, p, endp) == Backward(m, Section(m, w, p, endp), p)

Addresses == 0 .. LIB + NUMPROG_FLASH_MAX + 2
Nowhere == [pc |-> 0, begin |-> 0, end |-> 0]

\* The END behind each place, and the beginning of the program before it, as the
\* loops of update_program_bounds find them.
ProgEnd(m) ==
    LET last[q \in Addresses] ==
            LET next == do_inc(m, Nowhere, q, FALSE)
            IN  IF getprog(m, q) = <<END>> \/ next.wrapped THEN q ELSE last[next.pc]
    IN  last
ProgBegin(m) ==
    LET first[q \in Addresses] ==
            LET back == do_dec(m, Nowhere, q, FALSE)
            IN  IF back.wrapped \/ getprog(m, back.pc) = <<END>> THEN q
                ELSE first[back.pc]
    IN  first

\* update_program_bounds(1) with the program counter at p.
Bounds(m, p) ==
    LET here == IF p = 0 /\ m.runmode = 1 THEN 1 ELSE p
    IN  [pc |-> here, begin |-> Max({1, ProgBegin(m)[here]}), end |-> ProgEnd(m)[here]]

\* The bounds are renewed only when pc leaves them.
raw_set_pc(m, w, p) ==
    LET here == IF p = 0 /\ m.runmode = 1 THEN 1 ELSE p
    IN  IF here \in w.begin .. w.end THEN [w EXCEPT !.pc = here]
        ELSE Bounds(m, here)

\* set_pc: within the memory, and on a first word.
Sane(m, p) ==
    LET last == IF isRAM(p) THEN Len(m.ram) ELSE LIB + Len(m.lib)
    IN  StepOf(m, IF isRAM(p) THEN 1 ELSE LIB + 1, IF p > last THEN last ELSE p)
set_pc(m, w, p) == raw_set_pc(m, w, Sane(m, p))

incpc(m, w) == raw_set_pc(m, w, do_inc(m, w, w.pc, TRUE).pc)
decpc(m, w) == raw_set_pc(m, w, do_dec(m, w, w.pc, TRUE).pc)

\* "if (incpc()) decpc()": the next step, unless there is none.
IncUnlessLast(m, w) ==
    IF do_inc(m, w, w.pc, TRUE).wrapped THEN decpc(m, incpc(m, w)) ELSE incpc(m, w)

\* The next place to look at: the same one, once op is there.
Probe(m, w, op, endp, q) == IF getprog(m, q) = op THEN q ELSE do_inc(m, w, q, endp).pc

\* Mutant of Search: the search ends where the section does.
SearchBelow(m, w, p, op, endp) ==
    LET probe[k \in Nat] ==
            IF k = 0 THEN p
            ELSE LET q == probe[k - 1]
                     next == do_inc(m, w, q, endp)
                 IN  IF getprog(m, q) = op \/ next.wrapped THEN q ELSE next.pc
    IN  probe

\* The places probed for the step op, from p on and no further than to one.
Search(m, w, p, op, endp) ==
    LET probe[k \in Nat] == IF k = 0 THEN p ELSE Probe(m, w, op, endp, probe[k - 1]) IN probe

\* The first step op met from p on, in as many probes as the section has words;
\* 0: there is none.
find_opcode_from(m, w, p, op, endp) ==
    LET s     == Section(m, w, p, endp)
        probe == Search(m, w, p, op, endp)[s.bottom - s.top]
    IN  IF s.bottom >= s.top /\ getprog(m, probe) = op THEN probe ELSE 0

\* A global label, in RAM or else in the library.
findmultilbl(m, w, label) ==
    LET inRAM == find_opcode_from(m, w, 0, label, FALSE)
    IN  IF inRAM # 0 THEN inRAM ELSE find_opcode_from(m, w, LIB, label, FALSE)

\* The number of the step at p, as it is displayed.
Numbers(m, p) ==
    LET number[q \in Addresses] ==
            LET next == do_inc(m, Nowhere, q, FALSE)
            IN  IF q >= p \/ next.wrapped THEN 1 ELSE 1 + number[next.pc]
    IN  number
user_pc(m, p) == IF p = 0 THEN 0 ELSE Numbers(m, p)[IF isRAM(p) THEN 1 ELSE LIB + 1]

\* The steps from base on, numbered from 0; the last one has all other numbers.
NextOf(m, q) ==
    LET next == do_inc(m, Nowhere, q, FALSE) IN IF next.wrapped THEN q ELSE next.pc
Walk(m, base) ==
    LET step[n \in Nat] == IF n = 0 THEN base ELSE NextOf(m, step[n - 1]) IN step

\* Mutant of find_user_pc: RAM, too, is counted from its first step.
find_user_pc_from1(m, p, target) == Walk(m, IF isRAM(p) THEN 1 ELSE LIB + 1)[target]

\* The step of that number in the region of p.
find_user_pc(m, p, target) ==
    IF isRAM(p) THEN Walk(m, 0)[target]
    ELSE Walk(m, LIB + 1)[IF target = 0 THEN 0 ELSE target - 1]
-----------------------------------------------------------------------------
(* Entering and deleting steps *)

\* The words with c put after the step at p.
Inserted(words, p, c) ==
    LET n == IF p = 0 THEN 0 ELSE p + Len(getprog([M EXCEPT !.ram = words], p)) - 1
    IN  SubSeq(words, 1, n) \o c \o SubSeq(words, n + 1, Len(words))

\* stoprog with free words left: c goes after the step at pc; after the last
\* END, a new program is begun with an END of its own.  What does not fit is
\* left out without a word; the END may have been entered by then.  A pc behind
\* the memory, where the code overwrites ProgSize, is not followed.
stoprog(c, free) ==
    LET pc     == at.pc
        begins == pc = ProgSize /\ c # <<END>>
        ended  == IF begins /\ free > 0 THEN Inserted(ram, pc, <<END>>) ELSE ram
        left   == IF begins /\ free > 0 THEN free - 1 ELSE free
        fits   == left >= Len(c)
        grown  == IF fits THEN Inserted(ended, pc, c) ELSE ended
        moved  == IF fits \/ (begins /\ free > 0)
                  THEN IF pc = 0 THEN 1 ELSE pc + Len(getprog(M, pc)) ELSE pc
    IN  /\ runmode = 0 /\ ~ Running
        /\ isRAM(pc) /\ pc <= ProgSize
        /\ free <= NUMPROG_LIMIT - ProgSize
        /\ ram' = grown
        /\ at' = [at EXCEPT !.pc = moved, !.end = @ + Len(grown) - ProgSize]
        /\ rets' = << >>
        /\ UNCHANGED <<lib, runmode, Running>>

\* check_delete_prog lets only RAM be changed, and not its last END.
Deletable(p) == isRAM(p) /\ ~ (p = ProgSize /\ getprog(M, p) = <<END>>)

\* Mutant of Without: one word of a step goes.
WithoutWord(words, p) == RemoveAt(words, p)

Without(words, p) ==
    SubSeq(words, 1, p - 1) \o
        SubSeq(words, p + (IF isDBL(words[p]) THEN 2 ELSE 1), Len(words))

\* delprog: the backspace key in program mode.  The return stack stays.  A pc
\* behind the memory, as in stoprog, is not followed.
delprog ==
    LET off == Len(getprog(M, at.pc))
        less == Without(ram, at.pc)
    IN  /\ runmode = 0 /\ ~ Running
        /\ Deletable(at.pc) /\ at.pc \in 1 .. ProgSize
        /\ ram' = less
        /\ at' = decpc([M EXCEPT !.ram = less], [at EXCEPT !.end = @ - off])
        /\ UNCHANGED <<lib, runmode, Running, rets>>
-----------------------------------------------------------------------------
(* Whole programs *)

\* The words without those from step b to step e.
Cut(words, b, e) == SubSeq(words, 1, b - 1) \o SubSeq(words, e + 1, Len(words))

\* Mutant of ClearedRam: the next program's first word goes, too.
ClearedOneMore(w) == Cut(ram, w.begin, w.end + 1)

\* What clrprog leaves of RAM: the programs before and after, or an END.
ClearedRam(w) ==
    LET rest == Cut(ram, w.begin, w.end) IN IF rest = << >> THEN <<END>> ELSE rest

\* What it leaves of the library; the header word before it is not followed.
ClearedLib(w) ==
    IF w.begin = LIB THEN Cut(lib, 1, 1) ELSE Cut(lib, w.begin - LIB, w.end - LIB)

\* clrprog, confirmed: the current program is removed.  From a place behind
\* the programs sizes become negative; that is not followed.
clrprog ==
    LET w   == Bounds(M, at.pc)
        inLib == ~ isRAM(w.begin)
        m   == IF inLib THEN [M EXCEPT !.lib = ClearedLib(w)]
               ELSE [M EXCEPT !.ram = ClearedRam(w)]
    IN  /\ ~ Running
        /\ offset(w.end) <= Len(Region(M, w.begin))
        /\ inLib => lib # << >>
        /\ IF inLib \/ Deletable(w.begin)
           THEN /\ ram' = m.ram /\ lib' = m.lib
                /\ rets' = IF inLib THEN rets ELSE << >>
                /\ at' = Bounds(m, set_pc(m, w, w.begin - 1).pc)
           ELSE at' = w /\ UNCHANGED <<ram, lib, rets>>
        /\ UNCHANGED <<runmode, Running>>

\* clpall, confirmed: the bounds are renewed before the programs are gone.
clpall ==
    /\ ~ Running
    /\ ram' = <<END>>
    /\ rets' = << >>
    /\ at' = Bounds(M, 0)
    /\ UNCHANGED <<lib, runmode, Running>>

\* A lone END gives way to the program appended.
Kept(words) == IF Len(words) = 1 THEN << >> ELSE words

\* Mutant of Appended: the program is appended to a lone END.
AppendedAfterEnd(m, w, p) == [m |-> [m EXCEPT !.ram = @ \o p], at |-> w]

\* append_program of p to the memory m, with registers and statistics giving
\* way where it needs the room.
Appended(m, w, p) ==
    LET more == [m EXCEPT !.ram = Kept(m.ram) \o p]
    IN  [m |-> more, at |-> set_pc(more, w, Len(Kept(m.ram)) + 1)]

\* The words missing, with the programs and the stack counted that the key
\* press found, more than registers and statistics can give.
NoRoom(m, p, kept) ==
    ProgSize + Len(rets) + Len(p) - Len(m.ram) + Len(Kept(m.ram)) > NUMPROG_LIMIT - kept
TooLong(m, p) == Len(p) > NUMPROG_LIMIT - Len(Kept(m.ram))

append_program(m, w, p) ==
    /\ ~ TooLong(m, p)
    /\ \E kept \in Withheld : ~ NoRoom(m, p, kept)
    /\ LET after == Appended(m, w, p) IN ram' = after.m.ram /\ at' = after.at
    /\ rets' = << >>

\* It fails, but a lone END is gone.
append_fails(m, w, p) ==
    /\ TooLong(m, p) \/ \E kept \in Withheld : NoRoom(m, p, kept)
    /\ ram' = Kept(m.ram)
    /\ at' = w

CurrentProgram(w) ==
    SubSeq(Region(M, w.begin), offset(w.begin), offset(w.end))

\* PRCL: the current program, of RAM or of the library, is appended to RAM.
\* When the command failed xeq() puts the program counter back, and in single
\* precision the stack and the bounds, too.
recall_program(ok) ==
    LET w    == Bounds(M, IF at.pc = 0 THEN 1 ELSE at.pc)
        less == [M EXCEPT !.ram = Kept(ram)]
    IN  /\ ~ Running
        /\ offset(w.begin) > 0 /\ offset(w.end) <= Len(Region(M, w.begin))
        /\ IF ok THEN append_program(M, w, CurrentProgram(w))
           ELSE \E single \in BOOLEAN :
                   /\ append_fails(M, raw_set_pc(less, IF single THEN at ELSE w, at.pc),
                                   CurrentProgram(w))
                   /\ rets' = IF single \/ TooLong(M, CurrentProgram(w)) THEN rets ELSE << >>
        /\ UNCHANGED <<lib, runmode, Running>>

\* LOADP: the programs are replaced by those of the backup.
load_program(p, ok) ==
    LET m    == [M EXCEPT !.ram = <<END>>]
        less == [M EXCEPT !.ram = << >>]
        w    == Bounds(M, 0)
    IN  /\ ~ Running
        /\ IF ok THEN append_program(m, w, p)
           ELSE \E single \in BOOLEAN :
                   /\ append_fails(m, raw_set_pc(less, IF single THEN at ELSE w, at.pc), p)
                   /\ rets' = IF single THEN rets ELSE << >>
        /\ UNCHANGED <<lib, runmode, Running>>

\* LOADSS: the bounds of the backup's programs are renewed at once.
load_state ==
    /\ ~ Running
    /\ runmode' = 1
    /\ at' = Bounds([M EXCEPT !.runmode = 1], 0)
    /\ rets' = << >>
    /\ UNCHANGED <<ram, lib, Running>>

\* The program in the library that has the label of w's program; 0: none.
Duplicate(w) == find_opcode_from(M, w, LIB, getprog(M, w.begin), FALSE)

\* PSTO: the current program is added to the library, in the place of the
\* program there that holds its label, if one does.  An error changes nothing
\* but the bounds.
store_program ==
    LET w      == Bounds(M, at.pc)
        label  == getprog(M, w.begin)
        dup    == Duplicate(w)
        old    == Bounds(M, dup)
        needed == 1 + w.end - w.begin - (IF dup = 0 THEN 0 ELSE 1 + old.end - old.begin)
    IN  /\ ~ Running
        /\ isRAM(at.pc)
        /\ at' = w
        /\ lib' = IF label \in Labels /\ needed <= NUMPROG_FLASH_MAX - Len(lib)
                  THEN (IF dup = 0 THEN lib ELSE ClearedLib(old)) \o CurrentProgram(w)
                  ELSE lib
        /\ UNCHANGED <<ram, runmode, Running, rets>>

\* RESET: the programs are gone, the library stays.
reset ==
    /\ ~ Running
    /\ ram' = <<END>>
    /\ runmode' = 1
    /\ at' = Bounds([ram |-> <<END>>, lib |-> lib, runmode |-> 1], 0)
    /\ rets' = << >>
    /\ UNCHANGED <<lib, Running>>
-----------------------------------------------------------------------------
(* Moving about *)

\* Is word o the first of a step?
IsStep(words, o) == o \in 1 .. Len(words) /\ (o = 1 \/ ~ isDBL(words[o - 1]))

Move(w) == ~ Running /\ at' = w /\ UNCHANGED <<ram, lib, runmode, Running, rets>>

\* Mutant of toggle: the bounds are not renewed when entry ends.
toggleOnly ==
    /\ ~ Running
    /\ runmode' = 1 - runmode
    /\ at' = raw_set_pc([M EXCEPT !.runmode = 1 - runmode], at, at.pc)
    /\ UNCHANGED <<ram, lib, Running, rets>>

\* P/R: between executing and entering programs; entry into an empty memory
\* starts before its END.
toggle ==
    LET m == [M EXCEPT !.runmode = 1 - runmode]
        w == Bounds(m, at.pc)
    IN  /\ ~ Running
        /\ runmode' = 1 - runmode
        /\ at' = IF runmode' = 0 /\ w.pc = 1 /\ w.end = 1 THEN set_pc(m, w, 0) ELSE w
        /\ UNCHANGED <<ram, lib, Running, rets>>

\* EXIT: init_state, after which program mode returns when only an entry was
\* abandoned.
soft_init_state(soft) ==
    /\ ~ Running
    /\ runmode' = IF soft THEN runmode ELSE 1
    /\ at' = Bounds([M EXCEPT !.runmode = 1], at.pc)
    /\ UNCHANGED <<ram, lib, Running, rets>>

\* BST in either mode, SST in program mode.
xeq_bst == Move(decpc(M, at))
xeq_sst == runmode = 0 /\ Move(incpc(M, at))

\* GTO . with a step number, with a second point, with a label, ...
gtodot(n)   == Move(set_pc(M, at, find_user_pc(M, at.pc, n)))
gtodot_end  == Move(set_pc(M, at, ProgSize))
gtodot_fkey ==
    LET lbl == find_opcode_from(M, at, at.pc, <<LBL>>, TRUE)
    IN  Move(set_pc(M, at, IF lbl > 0 THEN lbl ELSE at.pc))
\* ... with the arrows: the beginning of the program before, ...
gtodot_up ==
    LET back == set_pc(M, at, do_dec(M, at, IF at.pc = 1 THEN 0 ELSE at.pc, FALSE).pc)
        w    == Bounds(M, back.pc)
    IN  Move(set_pc(M, w, w.begin))
\* ... and of the one behind.
gtodot_down ==
    LET w    == Bounds(M, at.pc)
        next == do_inc(M, w, w.end, FALSE).pc
    IN  Move(set_pc(M, w, IF next = 0 /\ ProgSize > 0 THEN 1 ELSE next))

\* What the label browser shows: the labels and ENDs of a region.
Browsed ==
    {p \in (1 .. ProgSize) \cup (LIB + 1 .. LIB + Len(lib)) :
        /\ IsStep(Region(M, p), offset(p))
        /\ getprog(M, p) \in Labels \cup {<<END>>}}
    \cup (IF lib = << >> THEN {LIB + 1} ELSE {})

\* ENTER there goes to the step, P/R enters program mode as well.
process_labellist(p, enter) ==
    LET m == [M EXCEPT !.runmode = IF enter THEN runmode ELSE 0]
    IN  /\ ~ Running
        /\ runmode' = m.runmode
        /\ at' = set_pc(m, at, p)
        /\ UNCHANGED <<ram, lib, Running, rets>>
-----------------------------------------------------------------------------
(* Executing steps.  A command is executed from a key, by a running program     *)
(* or by SST, which sets Running for the time of the step; w is where it         *)
(* starts: at the step behind the one executed.                                  *)

Behind(by) == IF by = "key" THEN at ELSE incpc(M, at)
Executes(by) ==
    /\ runmode = 1
    /\ (by = "run") = Running
    /\ UNCHANGED <<ram, lib, runmode>>

\* A command that leaves the program counter alone, or a test that skips.
Plain(by) == at' = Behind(by) /\ Running' = (by = "run") /\ UNCHANGED rets

fin_tst(by) ==
    /\ by # "key"
    /\ at' = IncUnlessLast(M, Behind(by))
    /\ Running' = (by = "run") /\ UNCHANGED rets

\* Mutant of ErrorAt: a failed step is not stepped back to.
ErrorBehind(by, w) == w

\* xeq() after an error: back to the step that failed.
ErrorAt(by, w) == IF by = "key" THEN w ELSE decpc(M, w)
Fail(by) == at' = ErrorAt(by, Behind(by)) /\ Running' = FALSE /\ UNCHANGED rets

\* Mutant of Pushed: the word behind the step's first one is pushed.
PushedWord(by, w, w1) == Append(rets, at.pc + 1)

\* The stack with the return address; a program started by a key returns to
\* its label if that is in another program.
Pushed(by, w, w1) ==
    IF by = "key" THEN <<IF w1.begin # w.begin THEN w1.pc ELSE w.pc>>
    ELSE Append(rets, w.pc)

\* gsbgto, from w to w1.
Jump(by, gsb, w, w1) ==
    /\ gsb /\ by # "key" => Len(rets) < MAX_RETURNS
    /\ at' = w1
    /\ rets' = IF gsb THEN Pushed(by, w, w1) ELSE rets
    /\ Running' = (by = "run" \/ (by = "key" /\ gsb))
gsbgto(by, gsb, p) == Jump(by, gsb, Behind(by), raw_set_pc(M, Behind(by), p))

\* GTO and XEQ with a numeric label, and with a global one.
Reach(by, gsb, lbl) == lbl # 0 /\ gsbgto(by, gsb, lbl)
cmdgto(by, gsb) ==
    Reach(by, gsb, find_opcode_from(M, Behind(by), Behind(by).pc, <<LBL>>, TRUE))
cmdmultigto(by, gsb, label) == Reach(by, gsb, findmultilbl(M, Behind(by), label))

\* The place n steps behind w; wrapping ends the way.
Unmoved(w) == [at |-> w, wrapped |-> FALSE]
OneOn(x) ==
    IF x.wrapped THEN x
    ELSE [at |-> incpc(M, x.at), wrapped |-> do_inc(M, x.at, x.at.pc, TRUE).wrapped]
StepsAhead(w) ==
    LET go[k \in Nat] == IF k = 0 THEN Unmoved(w) ELSE OneOn(go[k - 1]) IN go
Ahead(w, n) == StepsAhead(w)[n]

\* SKIP and BSF: n steps forwards, from w to dest.  When they do not exist the
\* address is pushed all the same.  For n = 0 PcWrapped is that of the step, or
\* for a key that of anything done before.
SkipTo(by, gsb, n, w, dest) ==
    \/ ~ dest.wrapped /\ gsbgto(by, gsb, dest.at.pc)
    \/ /\ dest.wrapped \/ (n = 0 /\ by = "key")
       /\ gsb /\ by # "key" => Len(rets) < MAX_RETURNS
       /\ at' = ErrorAt(IF gsb THEN "run" ELSE by, w)
       /\ rets' = IF gsb THEN Pushed(by, w, w) ELSE rets
       /\ Running' = FALSE
cmdskip(by, gsb, n) == SkipTo(by, gsb, n, Behind(by), Ahead(Behind(by), n))

\* The place n steps before the one executed.
OwnStep(by, w) == [pc |-> IF by = "key" THEN w.pc ELSE do_dec(M, w, w.pc, TRUE).pc,
                   wrapped |-> FALSE]
OneBack(w, x) == IF x.wrapped THEN x ELSE do_dec(M, w, x.pc, TRUE)

\* Mutant of StepsBack: the step executed is not stepped over.
FromBehind(by, w) ==
    LET go[k \in Nat] == IF k = 0 THEN OwnStep("key", w) ELSE OneBack(w, go[k - 1]) IN go

StepsBack(by, w) ==
    LET go[k \in Nat] == IF k = 0 THEN OwnStep(by, w) ELSE OneBack(w, go[k - 1]) IN go

\* BACK and BSB: n steps backwards.
BackTo(by, gsb, dest) == ~ dest.wrapped /\ gsbgto(by, gsb, dest.pc)
cmdback(by, gsb, n) ==
    IF n = 0 THEN gsbgto(by, gsb, Behind(by).pc)
    ELSE BackTo(by, gsb, StepsBack(by, Behind(by))[n])

\* RTN, RTN+1 and END in a program; the last one goes to its beginning and stops.
do_rtn(by, plus1) ==
    IF rets = << >>
    THEN at' = raw_set_pc(M, Behind(by), Behind(by).begin) /\ Running' = FALSE
         /\ UNCHANGED rets
    ELSE LET back == raw_set_pc(M, Behind(by), Last(rets))
         IN  /\ at' = IF plus1 THEN IncUnlessLast(M, back) ELSE back
             /\ rets' = Front(rets)
             /\ Running' = (by = "run" /\ Len(rets) > 1)

\* RTN from a key: to the beginning of the memory.
RtnKey == at' = Bounds(M, 0) /\ rets' = << >> /\ Running' = FALSE

\* R/S starts the program, in a program it stops.
op_rs(by) ==
    /\ at' = Behind(by)
    /\ Running' = (by = "key")
    /\ rets' = IF by = "key" /\ rets = << >> THEN <<at.pc>> ELSE rets

\* What a command may be.
Command(by) ==
    \/ Plain(by) \/ fin_tst(by) \/ Fail(by) \/ op_rs(by)
    \/ \E gsb \in BOOLEAN : cmdgto(by, gsb)
    \/ \E gsb \in BOOLEAN, label \in Labels : cmdmultigto(by, gsb, label)
    \/ \E gsb \in BOOLEAN, n \in 0 .. MAX_ARG : cmdskip(by, gsb, n) \/ cmdback(by, gsb, n)
    \/ IF by = "key" THEN RtnKey ELSE \E plus1 \in BOOLEAN : do_rtn(by, plus1)

\* The step at pc: END returns, labels do nothing, any other is some command.
xeq_single(by) ==
    LET op == getprog(M, at.pc)
    IN  /\ by # "key"
        /\ Executes(by)
        /\ IF op = <<END>> THEN do_rtn(by, FALSE)
           ELSE IF op = <<LBL>> \/ op \in Labels THEN Plain(by)
           ELSE Command(by)

\* A command from the keyboard, XEQ in the label browser included.
xeq_key ==
    /\ Executes("key")
    /\ Command("key") \/ \E p \in Browsed : getprog(M, p) \in Labels /\ gsbgto("key", TRUE, p)

\* R/S or EXIT while a program runs, between two of its steps.
KeyStop == Running /\ Running' = FALSE /\ UNCHANGED <<ram, lib, runmode, at, rets>>
-----------------------------------------------------------------------------
Init ==
    /\ ram = <<END>>
    /\ lib = << >>
    /\ runmode = 1
    /\ at = [pc |-> 1, begin |-> 1, end |-> 1]
    /\ Running = FALSE
    /\ rets = << >>

\* Commands that hold no check against one case of theirs: the bounds taken
\* before the programs are replaced hold none of the new ones, ...
BoundsRenewed == runmode = 1 => at = Bounds(M, at.pc)
\* ... an append that fails after a lone END has given way, ...
LosesEnd == ram' = << >>
\* ... removal at word 0 of the library, ...
BeforeLibrary == at.pc = LIB
\* ... PSTO at step 000, whose bounds hold no step, ...
StoresNothing == runmode = 0 /\ at.pc = 0
\* ... deleting steps before one that a return address on the stack leads to, or
\* taking a program out of the library that a return leads to or behind: unlike
\* stoprog and CLP in RAM, these keep the stack.
LeadsFrom(p) == \E i \in 1 .. Len(rets) : rets[i] >= p
ReturnsMoved ==
    LET gone == IF isRAM(at.pc) THEN Duplicate(Bounds(M, at.pc)) ELSE at.pc
    IN  /\ rets' = rets
        /\ \/ ram' # ram /\ LeadsFrom(at.pc + 1)
           \/ lib' # lib /\ gone # 0 /\ LeadsFrom(Bounds(M, gone).begin)

Replace ==
    \/ clpall
    \/ \E p \in Backups, ok \in BOOLEAN : load_program(p, ok)

\* A step and its END take three words: more free ones make no difference.
Edit ==
    \/ \E c \in Opcodes, free \in 0 .. 3 : stoprog(c, free)
    \/ \E ok \in BOOLEAN : recall_program(ok)
    \/ reset

TakeAway == delprog \/ clrprog

Navigate ==
    \/ toggle
    \/ \E soft \in BOOLEAN : soft_init_state(soft)
    \/ load_state
    \/ xeq_bst \/ xeq_sst
    \/ \E n \in 0 .. NUMPROG_LIMIT + 1 : gtodot(n)
    \/ gtodot_end \/ gtodot_fkey \/ gtodot_up \/ gtodot_down
    \/ \E p \in Browsed, enter \in BOOLEAN : process_labellist(p, enter)

Run ==
    \/ \E by \in {"run", "sst"} : xeq_single(by)
    \/ xeq_key
    \/ KeyStop

CheckedNext ==
    \/ Navigate
    \/ Run
    \/ Edit /\ ~ LosesEnd
    \/ Replace /\ ~ LosesEnd /\ BoundsRenewed'
    \/ TakeAway /\ ~ BeforeLibrary /\ ~ ReturnsMoved
    \/ store_program /\ ~ StoresNothing /\ ~ ReturnsMoved

Next == Navigate \/ Run \/ Edit \/ Replace \/ TakeAway \/ store_program

\* Every command of the program ...
Spec == Init /\ [][Next]_vars
\* ... and those executed in a case their code checks for.
CheckedSpec == Init /\ [][CheckedNext]_vars
-----------------------------------------------------------------------------
(* Properties *)

\* Every variable has its type, and the memories do not outgrow their space.
TypeOK ==
    /\ ram \in Seq(Words) /\ ProgSize <= NUMPROG_LIMIT
    /\ lib \in Seq(Words) /\ Len(lib) <= NUMPROG_FLASH_MAX
    /\ runmode \in {0, 1}
    /\ at \in [pc : Nat, begin : Nat, end : Nat]
    /\ Running \in BOOLEAN /\ (Running => runmode = 1)
    /\ rets \in Seq(Nat) /\ Len(rets) <= MAX_RETURNS

\* Words that consist of whole steps, the last of them an END.
Whole(words) ==
    /\ \A o \in 1 .. Len(words) :
          IF o > 1 /\ isDBL(words[o - 1]) THEN words[o] \in Seconds
          ELSE words[o] \in Singles \cup Doubles
    /\ IsStep(words, Len(words)) /\ words[Len(words)] = END

\* The backup is written from the programs in RAM, and checked when it is read.
ASSUME BackupsWhole == \A p \in Backups : p \in Seq(Words) /\ Whole(p)

\* Entering, deleting, removing and appending never take a step apart and never
\* lose the last END ("Helper to store final END in empty program space").
RamWhole == Whole(ram)
LibWhole == lib = << >> \/ Whole(lib)
ProgramsWhole == RamWhole /\ LibWhole

\* A place the program counter may be at: a step, or before the first one; an
\* empty library is browsed at its word 1.
AtPlace(p) ==
    \/ p = 0 /\ runmode = 0
    \/ p = LIB
    \/ p = LIB + 1 /\ lib = << >>
    \/ IsStep(Region(M, p), offset(p))

\* The program counter is never on a second word or outside the programs,
\* whichever way it was moved (set_pc, "Set PC with sanity check").
PcAtStep == AtPlace(at.pc)

\* In RAM it is not behind the last END.
PcInMemory == isRAM(at.pc) /\ ram # << >> => at.pc <= ProgSize

\* A return leads to a step, through calls and returns and whatever clears the
\* stack, and where the stack is kept (delprog, CLP in the library, PSTO) as long as
\* what is taken away lies behind.  In front of a return it is not so (ReturnsMoved).
ReturnsAtStep == \A i \in 1 .. Len(rets) : rets[i] > 0 /\ AtPlace(rets[i])

EndsAt(p) == IsStep(Region(M, p), offset(p)) /\ getprog(M, p) = <<END>>

\* While programs are executed, ProgBegin and ProgEnd delimit the program the
\* counter is in ("Update the pointers to the current program delimited by END
\* statements").
Exact ==
    IF at.pc = LIB \/ (at.pc = LIB + 1 /\ lib = << >>)
    THEN at.begin = at.pc /\ at.end = at.pc
    ELSE /\ at.pc \in at.begin .. at.end
         /\ EndsAt(at.end)
         /\ \A p \in at.begin .. at.end - 1 : ~ EndsAt(p)
         /\ offset(at.begin) = 1 \/ EndsAt(at.begin - 1)
BoundsExact == runmode = 1 => Exact

\* Going one step forwards and one back leads to where one was, in the whole
\* memory and in the current program, over its ends, too.
Steps == {p \in (1 .. ProgSize) \cup (LIB + 1 .. LIB + Len(lib)) :
              IsStep(Region(M, p), offset(p))}
StepsInvert ==
    \A p \in Steps, endp \in BOOLEAN :
        (endp /\ runmode = 1 => p \in at.begin .. at.end)
            => do_dec(M, at, do_inc(M, at, p, endp).pc, endp).pc = p

\* The number shown for a step leads to that step (GTO . nnn).
NumbersLead ==
    \A p \in Steps : isRAM(p) = isRAM(at.pc) => find_user_pc(M, at.pc, user_pc(M, p)) = p

\* The nearest numeric label of the current program, from pc on and then from its
\* beginning, and the first global label are found, and no other (find_opcode_from,
\* "we just limit the search to the number of possible steps").
Least(S) == IF S = {} THEN 0 ELSE CHOOSE p \in S : \A q \in S : p <= q
LabelsFound ==
    /\ runmode = 1 =>
         LET own    == {p \in Steps \cap (at.begin .. at.end) : getprog(M, p) = <<LBL>>}
             ahead  == {p \in own : p >= at.pc}
         IN  find_opcode_from(M, at, at.pc, <<LBL>>, TRUE)
                 = (IF ahead = {} THEN Least(own) ELSE Least(ahead))
    /\ \A label \in Labels :
         findmultilbl(M, at, label) = Least({p \in Steps : getprog(M, p) = label})

\* A step that fails is the one the program stops at (xeq, "Back to error
\* instruction").
BackToError ==
    [][\A by \in {"run", "sst"} : Executes(by) /\ Fail(by) => at'.pc = at.pc]_vars

\* A running program leaves its bounds by RTN or a global label only: skipping,
\* branching and numeric labels stay within them.  SKIP and BACK count steps, not
\* words: n steps from the next one on, n steps back from their own.
CountedSteps ==
    [][/\ Running /\ (\/ Plain("run") \/ fin_tst("run")
                      \/ \E gsb \in BOOLEAN : cmdgto("run", gsb)
                      \/ \E gsb \in BOOLEAN, n \in 0 .. MAX_ARG :
                            cmdskip("run", gsb, n) \/ cmdback("run", gsb, n))
          => /\ at'.begin = at.begin /\ at'.end = at.end
             /\ at'.pc \in at.begin .. at.end
       /\ Running /\ Running' =>
             \A n \in 1 .. MAX_ARG :
                /\ cmdskip("run", FALSE, n)
                     => user_pc(M, at'.pc) = user_pc(M, at.pc) + 1 + n
                /\ cmdback("run", FALSE, n)
                     => user_pc(M, at'.pc) = user_pc(M, at.pc) - n]_vars
=============================================================================
