------------------------------- MODULE Memory -------------------------------
(***************************************************************************)
(* The calculator's RAM and the commands that divide it.                    *)
(*                                                                          *)
(* One array of 16-bit words holds, from the bottom, the program steps, the *)
(* free space, the return stack (growing down), the statistics block and    *)
(* the global registers (growing down from a fixed top):                    *)
(*                                                                          *)
(*   0 .. ProgSize | free | RetStk+RetStkPtr .. RetStk | Sigma | registers  *)
(*                                                                          *)
(* RetStk is kept as its offset from RetStkBase = RET_STACK_SIZE.  A        *)
(* command is executed from the keyboard ("key"), by the running program    *)
(* ("step") or by single-stepping ("sst"), the latter with Running set for  *)
(* the time of the command.  XROM code has stacks of its own and is not     *)
(* modelled here: no hidden frame (0x3nnn) occurs.                          *)
(***************************************************************************)
EXTENDS Integers, Sequences

CONSTANTS
    RET_STACK_SIZE,          \* words of program and return stack
    MINIMUM_RET_STACK_SIZE,  \* headroom left to the stack by program entry
    TOPREALREG,              \* global registers after a reset
    LETTERED,                \* STACK_SIZE + EXTRA_REG
    REG_WORDS,               \* words of a single precision register
    STAT_WORDS,              \* words of the statistics block
    LOCAL_MARKER,            \* a return stack word from here on marks a frame
    LOCAL_RANGE,             \* LocalRegs is kept in -LOCAL_RANGE .. LOCAL_RANGE - 1
    PCs,                     \* bound: the program steps considered; step 0 is
                             \* taken for step 1, as update_program_bounds does
    RegsArgs, LocArgs,       \* bounds: arguments of REGS and LocR considered
    DataWords,               \* bound: words stored into local registers
    MAX_LEN                  \* bound: length of a program that is appended

ASSUME SizesAssumption ==
    /\ RET_STACK_SIZE \in Nat
    /\ MINIMUM_RET_STACK_SIZE \in Nat \ {0}
    /\ TOPREALREG \in Nat
    /\ LETTERED \in 0 .. TOPREALREG
    /\ REG_WORDS \in Nat \ {0}
    /\ STAT_WORDS \in Nat \ {0}
    /\ (TOPREALREG + LETTERED) * REG_WORDS + STAT_WORDS < RET_STACK_SIZE
    /\ LOCAL_RANGE \in Nat
    /\ RET_STACK_SIZE + TOPREALREG * REG_WORDS < 2 * LOCAL_RANGE
    /\ MAX_LEN \in Nat
ASSUME WordsAssumption ==
    /\ LOCAL_MARKER \in Nat
    /\ PCs \subseteq 1 .. LOCAL_MARKER - 1
    /\ 1 \in PCs
    /\ DataWords \subseteq Nat
ASSUME ArgsAssumption ==
    /\ RegsArgs \subseteq 0 .. TOPREALREG
    /\ LocArgs \subseteq Nat

VARIABLES
    ProgSize,     \* words of program, the final END included
    NumRegs,      \* global registers, in single precision units
    have_stats,   \* is the statistics block allocated?
    mode_double,  \* double precision selected
    intm,         \* integer mode
    RetStkPtr,    \* top of the return stack, at most 0, in words from RetStk
    LocalRegs,    \* the visible local frame, in words from RetStk; 0: none
    stk,          \* the live words of the return stack, the oldest first
    pc,           \* program counter
    Running,      \* a user program is running
    ctx           \* what xeq_init_contexts computes and move_retstk adjusts

memory  == <<ProgSize, NumRegs, have_stats>>
modes   == <<mode_double, intm>>
stack   == <<RetStkPtr, LocalRegs, stk>>
vars    == <<memory, modes, stack, pc, Running, ctx>>

Sources == {"key", "step", "sst"}

NUMPROG_LIMIT == RET_STACK_SIZE - MINIMUM_RET_STACK_SIZE + TOPREALREG * REG_WORDS
-----------------------------------------------------------------------------
(* Words of the return stack *)

isLOCAL(s)      == s >= LOCAL_MARKER
LOCAL_LEVELS(s) == s - LOCAL_MARKER

\* RetStk[i] of a live word; i is negative.
Word(i) == stk[-i]

\* The first frame marker met going up from sp, 0 when there is none.
Innermost(sp) ==
    IF \E i \in sp .. -1 : isLOCAL(Word(i))
    THEN CHOOSE i \in sp .. -1 : /\ isLOCAL(Word(i))
                                 /\ \A j \in sp .. i - 1 : ~ isLOCAL(Word(j))
    ELSE 0

local_levels == IF LocalRegs < 0 THEN LOCAL_LEVELS(Word(LocalRegs)) ELSE 0

\* The offset of the flag word in a frame at sp of the given size.
FlagOffset(sp, size) == IF sp % 2 = 1 THEN size - 1 ELSE 1

\* What the bit field local_regs keeps of an offset: a frame too deep for it
\* is taken for one among the registers.
Narrow(sp) == IF sp < -LOCAL_RANGE THEN sp + 2 * LOCAL_RANGE ELSE sp

is_dblmode == mode_double /\ ~ intm
-----------------------------------------------------------------------------
(* The boundaries *)

\* xeq_init_contexts, executed for every key before its command.
Contexts(size, regs, stats) ==
    LET stat == IF stats THEN STAT_WORDS ELSE 0
        s    == (TOPREALREG - regs) * REG_WORDS - stat
    IN  [RetStk |-> s,
         RetStkSize |-> s + RET_STACK_SIZE - size,
         SizeStatRegs |-> stat]

\* Mutant of ProgFree: the headroom of the return stack is forgotten.
ProgFreeAll(size, rsp) ==
    (TOPREALREG - NumRegs) * REG_WORDS - (IF have_stats THEN STAT_WORDS ELSE 0)
        + RET_STACK_SIZE - size + rsp

\* ProgFree, which is computed there too.
ProgFree(size, rsp) ==
    (TOPREALREG - NumRegs) * REG_WORDS - (IF have_stats THEN STAT_WORDS ELSE 0)
        + RET_STACK_SIZE - MINIMUM_RET_STACK_SIZE - size + rsp

\* What a command finds: only a key press renews the boundaries.
View(by) == IF by = "step" THEN ctx ELSE Contexts(ProgSize, NumRegs, have_stats)

\* Mutant of CanMove: the words on the stack are not counted.
CanMoveEmpty(m, distance) == m.RetStkSize + distance >= 0

\* Mutant of move_retstk: the room left is not adjusted.
move_base_only(m, distance) ==
    [RetStk       |-> m.RetStk + distance,
     RetStkSize   |-> m.RetStkSize,
     SizeStatRegs |-> m.SizeStatRegs]

\* move_retstk: the check and the move; SizeStatRegs follows where it changes.
CanMove(m, distance) == m.RetStkSize + RetStkPtr + distance >= 0
move_retstk(m, distance) ==
    [RetStk       |-> m.RetStk + distance,
     RetStkSize   |-> m.RetStkSize + distance,
     SizeStatRegs |-> m.SizeStatRegs]
with_stats(m, size) ==
    [RetStk |-> m.RetStk, RetStkSize |-> m.RetStkSize, SizeStatRegs |-> size]
-----------------------------------------------------------------------------
(* Commands in general *)

Executes(by) == (by = "step") = Running

\* state_pc() inside a command.  A program step is any step of any program:
\* the steps between two that the model looks at are not followed.
At(by) == IF by = "key" THEN {pc} ELSE PCs

\* The common end of a command that does not jump, start or stop.
Done(by) ==
    /\ Executes(by)
    /\ pc' \in At(by)
    /\ UNCHANGED Running

\* A command that reports an error: its own checks refused it, or it is one of
\* those that do not touch the layout.  Keyboard commands leave the pc alone, a
\* program stops at the failing step with renewed boundaries.
Fail(by) ==
    /\ Executes(by)
    /\ pc' \in At(by)
    /\ Running' = FALSE
    /\ ctx' = Contexts(ProgSize, NumRegs, have_stats)
    /\ UNCHANGED <<memory, modes, stack>>

clrretstk == RetStkPtr' = 0 /\ LocalRegs' = 0 /\ stk' = << >>

\* What an error leaves of the stack a command has cleared and the statistics it
\* has dropped.  xeq puts ten REGISTERs from X on back: in double precision the
\* lettered ones, else these and what follows them in RAM, up to ProgEnd -
\* NumRegs, have_stats, RetStkPtr and LocalRegs among it.
GivenUp(stats) ==
    IF is_dblmode
    THEN clrretstk /\ have_stats' = stats
    ELSE UNCHANGED <<stack, have_stats>>
-----------------------------------------------------------------------------
(* Calls and returns *)

\* XEQ.  From the keyboard it starts with an empty stack, and the return
\* address is the target itself when that lies in another program.
Call(by, target, back) ==
    LET cleared == by = "key"
        ptr     == IF cleared THEN 0 ELSE RetStkPtr
        m       == View(by)
    IN  /\ Executes(by)
        /\ back \in At(by) \cup (IF by = "key" THEN {target} ELSE {})
        /\ -ptr < m.RetStkSize
        /\ RetStkPtr' = ptr - 1
        /\ LocalRegs' = IF cleared THEN 0 ELSE LocalRegs
        /\ stk' = Append(IF cleared THEN << >> ELSE stk, back)
        /\ pc' = target
        /\ Running' = (by # "sst")
        /\ ctx' = m
        /\ UNCHANGED <<memory, modes>>

\* XEQ from the keyboard without room for one word: the stack was cleared, the
\* program is stopped again and the pc moved back by decpc.
CallRefused ==
    LET m == View("key")
    IN  /\ ~ Running
        /\ m.RetStkSize <= 0
        /\ GivenUp(have_stats)
        /\ pc' \in PCs
        /\ ctx' = m
        /\ UNCHANGED <<ProgSize, NumRegs, modes, Running>>

Goto(by, target) ==
    /\ Executes(by)
    /\ pc' = target
    /\ ctx' = View(by)
    /\ UNCHANGED <<memory, modes, stack, Running>>

\* Mutant of UpLocal: the frame left stays the visible one.
LocalRegsKept == LocalRegs

\* retstk_up: the stack pointer and the visible frame after leaving a level.
UpPtr ==
    RetStkPtr + 1 + (IF isLOCAL(Word(RetStkPtr)) THEN LOCAL_LEVELS(Word(RetStkPtr)) ELSE 0)
UpLocal == IF isLOCAL(Word(RetStkPtr)) THEN Innermost(UpPtr) ELSE LocalRegs

\* The address RTN (plus1: RTN+1) continues at; a stack overrun reads a word
\* that is not on the stack.
Targets(plus1) ==
    IF UpPtr <= 0
    THEN LET ret == Word(UpPtr - 1)
         IN  IF plus1 THEN {ret, ret + 1, ret + 2} \cap PCs ELSE {ret}
    ELSE PCs

\* RTN in a program: leave the level, and stop when that was the last one.
Return(by, plus1) ==
    /\ Executes(by)
    /\ by # "key"
    /\ RetStkPtr < 0
    /\ RetStkPtr' = UpPtr
    /\ LocalRegs' = UpLocal
    /\ stk' = SubSeq(stk, 1, -UpPtr)
    /\ pc' \in Targets(plus1)
    /\ Running' = (Running /\ UpPtr # 0)
    /\ ctx' = View(by)
    /\ UNCHANGED <<memory, modes>>

\* RTN with nothing to return to: to the begin of the program (for a key: to
\* the first step), with the stack cleared.
StrayReturn(by) ==
    /\ Executes(by)
    /\ by = "key" \/ RetStkPtr >= 0
    /\ clrretstk
    /\ pc' \in IF by = "key" THEN {1} ELSE PCs
    /\ Running' = FALSE
    /\ ctx' = View(by)
    /\ UNCHANGED <<memory, modes>>

\* Mutant of RunStop: the program started gets no level of its own.
RunStopBare(by) ==
    /\ Executes(by)
    /\ pc' \in At(by)
    /\ Running' = (by = "key")
    /\ ctx' = View(by)
    /\ UNCHANGED <<memory, modes, stack>>

\* R/S: STOP in a program; from the keyboard it starts, giving the program a
\* level to return from.  There is no check for room.
RunStop(by) ==
    /\ Executes(by)
    /\ pc' \in At(by)
    /\ Running' = (by = "key")
    /\ ctx' = View(by)
    /\ IF by = "key" /\ RetStkPtr = 0
       THEN /\ stk' = << pc >>
            /\ RetStkPtr' = -1
            /\ UNCHANGED LocalRegs
       ELSE UNCHANGED stack
    /\ UNCHANGED <<memory, modes>>

\* A key while a program runs: R/S and EXIT stop it, others are noted.
KeyWhileRunning(c) ==
    /\ Running
    /\ Running' = (c # "stop")
    /\ ctx' = Contexts(ProgSize, NumRegs, have_stats)
    /\ UNCHANGED <<memory, modes, stack, pc>>
-----------------------------------------------------------------------------
(* Local registers *)

\* LocR: a frame of arg registers and a flag word, new or (at the level that
\* made it) resized.  Copying starts at the marker, also when the flag word
\* lies at the far end.  (Where the flag word goes when LocalRegs was too narrow
\* is not followed.)
LocR(by, arg) ==
    LET size  == arg * REG_WORDS * (IF is_dblmode THEN 2 ELSE 1) + 2
        m     == View(by)
        again == RetStkPtr # 0 /\ RetStkPtr = LocalRegs
        old   == IF again THEN local_levels ELSE 0
        flags == IF again THEN Word(LocalRegs + FlagOffset(LocalRegs, old)) ELSE 0
        sp    == RetStkPtr + old - size
        frame == [[k \in 0 .. size - 1 |-> IF k < old THEN Word(LocalRegs + k) ELSE 0]
                     EXCEPT ![0] = LOCAL_MARKER + size, ![FlagOffset(sp, size)] = flags]
    IN  /\ Done(by)
        /\ -sp <= m.RetStkSize
        /\ stk' = SubSeq(stk, 1, Len(stk) - old)
                    \o [j \in 1 .. size |-> frame[size - j]]
        /\ RetStkPtr' = sp
        /\ LocalRegs' = Narrow(sp)
        /\ ctx' = m
        /\ UNCHANGED <<memory, modes>>

\* Mutant of PopLR: one word too many is dropped from the pointer.
PopLRTooFar(by) ==
    /\ Done(by)
    /\ LocalRegs = RetStkPtr
    /\ RetStkPtr < 0
    /\ RetStkPtr' = UpPtr
    /\ LocalRegs' = UpLocal
    /\ stk' = SubSeq(stk, 1, 1 - UpPtr)
    /\ ctx' = View(by)
    /\ UNCHANGED <<memory, modes>>

\* PopLR: drop the frame of this level, keep its return address.
PopLR(by) ==
    /\ Done(by)
    /\ LocalRegs = RetStkPtr
    /\ RetStkPtr < 0
    /\ RetStkPtr' = UpPtr - 1
    /\ LocalRegs' = UpLocal
    /\ stk' = SubSeq(stk, 1, 1 - UpPtr)
    /\ ctx' = View(by)
    /\ UNCHANGED <<memory, modes>>

\* PopLR without a frame on an empty stack passes its check and exposes
\* whatever word lies below RetStk.
PopLREmpty(by, w) ==
    /\ Done(by)
    /\ LocalRegs = 0 /\ RetStkPtr = 0
    /\ RetStkPtr' = -1
    /\ stk' = << w >>
    /\ ctx' = View(by)
    /\ UNCHANGED <<memory, modes, LocalRegs>>

\* Mutant of StoreLocal: the index may reach one word past the frame.
StorePastFrame(by, k, w) ==
    /\ Done(by)
    /\ k \in 1 .. local_levels
    /\ stk' = [stk EXCEPT ![-(LocalRegs + k)] = w]
    /\ ctx' = View(by)
    /\ UNCHANGED <<memory, modes, RetStkPtr, LocalRegs>>

\* A store to a local register or a local flag: any word after the marker.
StoreLocal(by, k, w) ==
    /\ Done(by)
    /\ k \in 1 .. local_levels - 1
    /\ stk' = [stk EXCEPT ![-(LocalRegs + k)] = w]
    /\ ctx' = View(by)
    /\ UNCHANGED <<memory, modes, RetStkPtr, LocalRegs>>
-----------------------------------------------------------------------------
(* Registers, precision and statistics *)

\* The registers REGS asks for, in single precision units.
WantedRegs(n) == IF is_dblmode THEN 2 * n + LETTERED ELSE n

\* Mutant of RangeError: the lettered registers are not protected.
NeverRefused(n) == FALSE

\* In integer mode entered from double precision the lettered registers stay.
RangeError(n) == ~ is_dblmode /\ mode_double /\ n < LETTERED

cmdregs(by, n) ==
    LET m == View(by)
        distance == (NumRegs - WantedRegs(n)) * REG_WORDS
    IN  /\ Done(by)
        /\ ~ RangeError(n)
        /\ CanMove(m, distance)
        /\ NumRegs' = WantedRegs(n)
        /\ ctx' = move_retstk(m, distance)
        /\ UNCHANGED <<ProgSize, have_stats, modes, stack>>

\* The change of precision, intm being FALSE after it.  Double precision needs
\* the lettered registers' space, single precision has at most TOPREALREG.
RegsFor(old, new) ==
    IF ~ old /\ new /\ NumRegs < LETTERED
    THEN LETTERED
    ELSE IF old /\ ~ new /\ NumRegs > TOPREALREG THEN TOPREALREG ELSE NumRegs

Precision(by, old, new) ==
    LET m == View(by)
        distance == (NumRegs - RegsFor(old, new)) * REG_WORDS
    IN  /\ Done(by)
        /\ distance # 0 => CanMove(m, distance)
        /\ NumRegs' = RegsFor(old, new)
        /\ mode_double' = new
        /\ intm' = FALSE
        /\ ctx' = move_retstk(m, distance)
        /\ UNCHANGED <<ProgSize, have_stats, stack>>

\* DBLON and DBLOFF leave integer mode.
op_double(by, dbl) == Precision(by, mode_double, dbl)

\* BASE and DECM.
SetIntMode(by, i) ==
    /\ Done(by)
    /\ intm' = i
    /\ ctx' = View(by)
    /\ UNCHANGED <<memory, mode_double, stack>>

\* RCLM: the modes come from a register.  A precision that differs is switched
\* to properly in decimal mode, and taken over unchecked otherwise.
cmdrestm(by, i, dbl) ==
    IF ~ i /\ dbl # is_dblmode
    THEN Precision(by, is_dblmode, dbl)
    ELSE /\ Done(by)
         /\ intm' = i
         /\ mode_double' = dbl
         /\ ctx' = View(by)
         /\ UNCHANGED <<memory, stack>>

\* Sigma+, Sigma- and LOAD Sigma: the block is there already, or the stack moves
\* down to make room for it.
sigmaAllocate(by) ==
    LET m == View(by)
    IN  /\ Done(by)
        /\ have_stats' = TRUE
        /\ IF have_stats
           THEN ctx' = m
           ELSE /\ CanMove(m, -STAT_WORDS)
                /\ ctx' = with_stats(move_retstk(m, -STAT_WORDS), STAT_WORDS)
        /\ UNCHANGED <<ProgSize, NumRegs, modes, stack>>

sigmaDeallocate(by) ==
    LET m == View(by)
    IN  /\ Done(by)
        /\ have_stats' = FALSE
        /\ ctx' = with_stats(move_retstk(m, m.SizeStatRegs), 0)
        /\ UNCHANGED <<ProgSize, NumRegs, modes, stack>>
-----------------------------------------------------------------------------
(* Programs: keyboard commands, executed while nothing runs *)

\* Entering a step of off words.  Entered after the last step, it first adds an
\* END, and stays out when only the END fits.  The boundaries are not renewed.
stoprog(off, atEnd) ==
    LET withEnd == IF atEnd /\ ProgFree(ProgSize, 0) >= 1 THEN ProgSize + 1 ELSE ProgSize
    IN  /\ ~ Running
        /\ ProgSize' = IF ProgFree(withEnd, 0) >= off THEN withEnd + off ELSE withEnd
        /\ clrretstk
        /\ ctx' = Contexts(withEnd, NumRegs, have_stats)
        /\ pc' \in PCs
        /\ UNCHANGED <<NumRegs, have_stats, modes, Running>>

\* Deleting a step; the final END stays, and so does the return stack.
delprog(off) ==
    /\ ~ Running
    /\ off < ProgSize
    /\ ProgSize' = ProgSize - off
    /\ ctx' = View("key")
    /\ pc' \in PCs
    /\ UNCHANGED <<NumRegs, have_stats, modes, stack, Running>>

\* CLP: deleting a program of len words; a lone END is read-only.
clrprog(len) ==
    /\ ~ Running
    /\ ProgSize > 1
    /\ len \in 1 .. ProgSize
    /\ ProgSize' = IF len = ProgSize THEN 1 ELSE ProgSize - len
    /\ clrretstk
    /\ ctx' = View("key")
    /\ pc' \in PCs
    /\ UNCHANGED <<NumRegs, have_stats, modes, Running>>

clpall ==
    /\ ~ Running
    /\ ProgSize' = 1
    /\ clrretstk
    /\ ctx' = View("key")
    /\ pc' = 1
    /\ UNCHANGED <<NumRegs, have_stats, modes, Running>>

\* CLALL: the statistics block stays allocated.
clrall ==
    /\ ~ Running
    /\ NumRegs' = TOPREALREG
    /\ ProgSize' = 1
    /\ clrretstk
    /\ ctx' = Contexts(ProgSize, TOPREALREG, have_stats)
    /\ pc' = 1
    /\ UNCHANGED <<have_stats, modes, Running>>

\* RESET: all of the persistent RAM is zero before CLALL.
reset ==
    /\ ~ Running
    /\ NumRegs' = TOPREALREG
    /\ ProgSize' = 1
    /\ have_stats' = FALSE
    /\ mode_double' = FALSE
    /\ intm' = FALSE
    /\ clrretstk
    /\ ctx' = Contexts(0, TOPREALREG, FALSE)
    /\ pc' = 1
    /\ UNCHANGED Running

\* LOADSS: modes and the State that says whether there are statistics come from
\* the backup; programs, registers and statistics stay as they are.
load_state(stats, i, dbl) ==
    /\ ~ Running
    /\ have_stats' = stats
    /\ intm' = i
    /\ mode_double' = dbl
    /\ clrretstk
    /\ ctx' = View("key")
    /\ pc' = 1
    /\ UNCHANGED <<ProgSize, NumRegs, Running>>
-----------------------------------------------------------------------------
(* Appending a program: PRCL keeps the others, LOADP replaces them *)

\* The size append_program starts from: a lone END gives way.
SizeKept(size) == IF size = 1 THEN 0 ELSE size

\* The words missing, from the ProgFree of the key press.
SpaceNeeded(size, len) ==
    len - ProgFree(ProgSize, RetStkPtr) - (IF size = 1 THEN 1 ELSE 0)

DropsStats(size, len) == SpaceNeeded(size, len) > 0 /\ have_stats
StillNeeded(size, len) ==
    SpaceNeeded(size, len) - (IF DropsStats(size, len) THEN STAT_WORDS ELSE 0)

Ceiling(n, d) == (n + d - 1) \div d

\* The argument given to REGS; negative when there are too few registers.
RegsLeft(needed) ==
    IF is_dblmode
    THEN ((NumRegs - LETTERED) \div 2) - Ceiling(needed, 2 * REG_WORDS)
    ELSE NumRegs - Ceiling(needed, REG_WORDS)

\* The boundaries after the statistics were dropped, if they were.
AfterDrop(size, len) ==
    LET m == View("key")
    IN  IF DropsStats(size, len)
        THEN with_stats(move_retstk(m, m.SizeStatRegs), 0)
        ELSE m

\* The program fits once statistics and registers have given way.  REGS may
\* refuse, which append_program does not notice: the program is there and the
\* command has failed.  (What it overwrites of the stack is not followed.)
Appended(size, len) ==
    LET needed == StillNeeded(size, len)
        failed == needed > 0 /\ RangeError(RegsLeft(needed))
        regs   == IF needed > 0 /\ ~ failed THEN WantedRegs(RegsLeft(needed)) ELSE NumRegs
        stats  == have_stats /\ ~ DropsStats(size, len)
    IN  /\ ~ Running
        /\ len <= NUMPROG_LIMIT - SizeKept(size)
        /\ needed > 0 => RegsLeft(needed) >= 0
        /\ ProgSize' = SizeKept(size) + len
        /\ NumRegs' = regs
        /\ ctx' = move_retstk(AfterDrop(size, len), (NumRegs - regs) * REG_WORDS)
        /\ IF failed
           THEN GivenUp(stats) /\ UNCHANGED pc
           ELSE clrretstk /\ have_stats' = stats /\ pc' \in PCs
        /\ UNCHANGED <<modes, Running>>

\* Too few registers: noticed when stack, statistics and a lone END are gone.
\* RetStk stays where dropping the statistics moved it until the next key.
AppendRefused(size, len) ==
    LET needed == StillNeeded(size, len)
    IN  /\ ~ Running
        /\ len <= NUMPROG_LIMIT - SizeKept(size)
        /\ needed > 0 /\ RegsLeft(needed) < 0
        /\ ProgSize' = SizeKept(size)
        /\ GivenUp(have_stats /\ ~ DropsStats(size, len))
        /\ ctx' = AfterDrop(size, len)
        /\ UNCHANGED <<NumRegs, modes, pc, Running>>

\* Longer than any layout allows: a lone END is gone.
TooLong(size, len) ==
    /\ ~ Running
    /\ len > NUMPROG_LIMIT - SizeKept(size)
    /\ ProgSize' = SizeKept(size)
    /\ ctx' = View("key")
    /\ UNCHANGED <<NumRegs, modes, pc, Running>>

append_program(size, len) == Appended(size, len) \/ AppendRefused(size, len)

recall_program(len) ==
    \/ append_program(ProgSize, len)
    \/ TooLong(ProgSize, len) /\ UNCHANGED <<stack, have_stats>>

\* LOADP: CLPALL, then the program of the backup; ProgFree is still the old one.
load_program(len) ==
    \/ append_program(1, len)
    \/ TooLong(1, len) /\ GivenUp(have_stats)
-----------------------------------------------------------------------------
Init ==
    /\ ProgSize = 1
    /\ NumRegs = TOPREALREG
    /\ have_stats = FALSE
    /\ mode_double = FALSE
    /\ intm = FALSE
    /\ RetStkPtr = 0
    /\ LocalRegs = 0
    /\ stk = << >>
    /\ pc = 1
    /\ Running = FALSE
    /\ ctx = Contexts(0, TOPREALREG, FALSE)

\* Commands that hold no check against one case of theirs: a frame without a
\* level below it, ...
FrameWithoutLevel(by) == RetStkPtr = 0 /\ \E n \in LocArgs : LocR(by, n)
\* ... or one deeper than LocalRegs reaches, ...
FrameTooDeep(by) ==
    RetStkPtr < 0 /\ \E n \in LocArgs : LocR(by, n) /\ LocalRegs' # RetStkPtr'
\* ... dropping a frame that is not there, ...
NoFrameToPop(by) == \E w \in DataWords : PopLREmpty(by, w)
\* ... starting a program without room for its return address, ...
NoRoomToStart == RetStkPtr = 0 /\ View("key").RetStkSize <= 0
\* ... recalling a precision while integer mode is on, before or after, ...
PrecisionInIntMode(by, i, dbl) == \/ i /\ dbl # mode_double
                                  \/ ~ i /\ intm /\ mode_double /\ ~ dbl
\* ... loading the state of another memory, ...
OtherMemory(stats, dbl) ==
    \/ stats # have_stats
    \/ dbl /\ NumRegs < LETTERED
    \/ ~ dbl /\ NumRegs > TOPREALREG
\* ... appending a program to registers that REGS refuses to give up.
RegistersKept(size, len) ==
    StillNeeded(size, len) > 0 /\ RangeError(RegsLeft(StillNeeded(size, len)))

Levels(by) ==
    \/ \E target \in PCs, back \in PCs : Call(by, target, back)
    \/ \E target \in PCs : Goto(by, target)
    \/ \E plus1 \in BOOLEAN : Return(by, plus1)
    \/ StrayReturn(by)
    \/ (by = "key" => ~ NoRoomToStart) /\ RunStop(by)

Locals(by) ==
    \/ \E n \in LocArgs : RetStkPtr < 0 /\ LocR(by, n) /\ LocalRegs' = RetStkPtr'
    \/ PopLR(by)
    \/ \E k \in 1 .. Len(stk), w \in DataWords : StoreLocal(by, k, w)

Registers(by) ==
    \/ \E n \in RegsArgs : cmdregs(by, n)
    \/ \E dbl \in BOOLEAN : op_double(by, dbl)
    \/ \E i \in BOOLEAN : SetIntMode(by, i)
    \/ \E i, dbl \in BOOLEAN : ~ PrecisionInIntMode(by, i, dbl) /\ cmdrestm(by, i, dbl)
    \/ sigmaAllocate(by)
    \/ sigmaDeallocate(by)

Programs ==
    \/ \E off \in {1, 2}, atEnd \in BOOLEAN : stoprog(off, atEnd)
    \/ \E off \in {1, 2} : delprog(off)
    \/ \E len \in 1 .. ProgSize : clrprog(len)
    \/ clpall
    \/ clrall
    \/ reset
    \/ \E stats, i, dbl \in BOOLEAN : ~ OtherMemory(stats, dbl) /\ load_state(stats, i, dbl)
    \/ \E len \in 1 .. MAX_LEN : ~ RegistersKept(ProgSize, len) /\ recall_program(len)
    \/ \E len \in 1 .. MAX_LEN : ~ RegistersKept(1, len) /\ load_program(len)

CheckedNext ==
    \/ \E by \in Sources : Levels(by) \/ Locals(by) \/ Registers(by) \/ Fail(by)
    \/ Programs
    \/ CallRefused
    \/ \E c \in {"stop", "other"} : KeyWhileRunning(c)

UncheckedNext ==
    \/ \E by \in Sources : FrameWithoutLevel(by) \/ FrameTooDeep(by) \/ NoFrameToPop(by)
    \/ NoRoomToStart /\ RunStop("key")
    \/ \E by \in Sources, i, dbl \in BOOLEAN :
          PrecisionInIntMode(by, i, dbl) /\ cmdrestm(by, i, dbl)
    \/ \E stats, i, dbl \in BOOLEAN : OtherMemory(stats, dbl) /\ load_state(stats, i, dbl)
    \/ \E len \in 1 .. MAX_LEN :
          \/ RegistersKept(ProgSize, len) /\ recall_program(len)
          \/ RegistersKept(1, len) /\ load_program(len)

\* Once RetStkPtr or LocalRegs is positive, calls, frames and stores write to the
\* statistics or the registers; that is not followed.
Next == RetStkPtr <= 0 /\ LocalRegs <= 0 /\ (CheckedNext \/ UncheckedNext)

\* Every command of the program ...
Spec == Init /\ [][Next]_vars
\* ... and those executed in a case their code checks for.
CheckedSpec == Init /\ [][RetStkPtr <= 0 /\ CheckedNext]_vars
-----------------------------------------------------------------------------
(* Properties *)

\* Every variable has the type its declaration in the code gives it, and stk
\* holds exactly the words between RetStkPtr and RetStk.
TypeOK ==
    /\ ProgSize \in Nat
    /\ NumRegs \in Nat
    /\ have_stats \in BOOLEAN /\ mode_double \in BOOLEAN /\ intm \in BOOLEAN
    /\ RetStkPtr \in Int
    /\ LocalRegs \in Int
    /\ stk \in Seq(Nat)
    /\ RetStkPtr <= 0 => Len(stk) = -RetStkPtr
    /\ pc \in Nat
    /\ Running \in BOOLEAN
    /\ ctx \in [RetStk : Int, RetStkSize : Int, SizeStatRegs : Nat]

\* The return stack never reaches into the program, whatever sequence of REGS,
\* statistics, calls, local frames and program entry led here.
NoOverlap == ProgSize <= RET_STACK_SIZE + ctx.RetStk + RetStkPtr

\* Statistics and stack lie below the registers, however they were moved; while
\* a program runs, the boundaries move_retstk adjusts step by step are those
\* xeq_init_contexts would compute, which no key press renews.
LayoutCoherent ==
    /\ ctx.RetStk + ctx.SizeStatRegs = (TOPREALREG - NumRegs) * REG_WORDS
    /\ Running => /\ ctx.SizeStatRegs = (IF have_stats THEN STAT_WORDS ELSE 0)
                  /\ ctx.RetStkSize = RET_STACK_SIZE + ctx.RetStk - ProgSize

\* Double precision has the space of its lettered registers, and single
\* precision no more registers than REGS can name.
DoubleHasRoom ==
    IF mode_double THEN NumRegs >= LETTERED ELSE NumRegs <= TOPREALREG

\* LocalRegs, set by LocR and recomputed by retstk_up, is the innermost frame on
\* the stack: the frame of the nearest caller that has one ("position on return
\* stack where current local variables start").
LocalRegsInnermost == LocalRegs = Innermost(RetStkPtr)

\* A running program has a level to return from, so that its last RTN stops it
\* (do_rtn, "RTN with empty stack stops").
RunningHasBase == Running => RetStkPtr < 0

\* Entering and appending programs leaves the stack its headroom of
\* MINIMUM_RET_STACK_SIZE words (ProgMax); LOADP after a failed append, with no
\* program at all, is one word off.
GrowthKeepsHeadroom ==
    [][0 < ProgSize /\ ProgSize < ProgSize'
         => ProgSize' + MINIMUM_RET_STACK_SIZE <= RET_STACK_SIZE + ctx'.RetStk]_vars

\* A program started from the keyboard has room for the word it returns by: its
\* first level lies within the headroom (MINIMUM_RET_STACK_SIZE).
StartHasRoom ==
    [][~ Running /\ Running' /\ RetStkPtr' # RetStkPtr
         => -RetStkPtr' <= ctx'.RetStkSize]_vars

\* A program whose RTN empties the stack stops (do_rtn).
EmptyStackStops ==
    [][Running /\ RetStkPtr < RetStkPtr' /\ RetStkPtr' >= 0 => ~ Running']_vars
=============================================================================
