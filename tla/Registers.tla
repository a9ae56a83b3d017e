------------------------------ MODULE Registers ------------------------------
(***************************************************************************)
(* The contents of the registers: where numbers lie in each mode, the        *)
(* commands that move them, and the built-in programs that calculate on a    *)
(* copy of the stack.                                                        *)
(*                                                                          *)
(* A slot has the size of a decimal64, 8 bytes.  Slot 0 is Regs[TOPREALREG], *)
(* that of X; the numbered registers end at slot -1 and grow downwards.  In  *)
(* double precision every register takes two slots, and the lettered ones    *)
(* reach down to slot -LETTERED.  In integer mode all have one slot again,   *)
(* whatever the precision below.                                             *)
(*                                                                          *)
(* Numbers are counted in units of the last digit of double precision; the   *)
(* last digit of single precision is 2, an integer 4 units.  Zero stands for *)
(* all representations of zero.  Not modelled: local registers and flash     *)
(* registers, complex lock, rounding modes, infinities and NaN.              *)
(***************************************************************************)
EXTENDS Integers, SequencesExt

CONSTANTS
    TOPREALREG,         \* numbered registers at most; X is the next
    SMALL_STACK,        \* levels of the smaller stack
    STACK_SIZE,         \* levels of the larger stack
    EXTRA_REG,          \* L, I and those behind
    Keyed,              \* bound: the numbers keyed in
    Calculated,         \* bound: the numbers commands calculate
    Natives,            \* bound: what functions in C take and yield
    Routines,           \* bound: what built-in programs take and yield
    RegsArgs,           \* bound: the arguments of REGS
    Used,               \* bound: the registers commands name
    Restored            \* the memory the calculator may wake with

LETTERED == STACK_SIZE + EXTRA_REG
regL == STACK_SIZE
regI == STACK_SIZE + 1

ASSUME RegisterSizes ==
    /\ SMALL_STACK \in Nat /\ 4 <= SMALL_STACK
    /\ STACK_SIZE \in Nat /\ SMALL_STACK <= STACK_SIZE
    /\ EXTRA_REG \in Nat /\ 2 <= EXTRA_REG
    /\ TOPREALREG \in Nat /\ TOPREALREG % 2 = 0 /\ LETTERED <= TOPREALREG
    /\ RegsArgs \subseteq 0 .. TOPREALREG /\ Used \subseteq 0 .. TOPREALREG + LETTERED - 1

VARIABLES
    Regs,               \* the slots
    NumRegs,            \* slots of the numbered registers and what they gave up
    UState,             \* modes: intm, mode_double, stack_depth
    StackBase,          \* the slot X is taken to have
    state_lift,         \* the next number lifts the stack
    XromFlags,          \* what xIN keeps: XromParams
    XromStack           \* the private stack of a built-in program

vars == <<Regs, NumRegs, UState, StackBase, state_lift, XromFlags, XromStack>>

Letters   == 0 .. LETTERED - 1
FIRST     == 2 * TOPREALREG + LETTERED + 1          \* where slot 0 stands in Regs
Unknown   == -1
Zero      == <<"zero", 0>>
NoRoutine == [xIN |-> FALSE]
Nothing   == [j \in Letters |-> 0]

-----------------------------------------------------------------------------
(* Numbers in slots *)

(* decimal64 has half the digits, and rounds to even; integers truncate. *)
Single(v) == IF v # Unknown /\ v % 2 = 1 THEN (IF v % 4 = 1 THEN v - 1 ELSE v + 1) ELSE v
Whole(v)  == IF v = Unknown THEN v ELSE v - (v % 4)

packed64(v)  == << IF v = 0 THEN Zero ELSE <<"dec", v>> >>
packed128(v) == IF v = 0 THEN <<Zero, Zero>> ELSE << <<"high", v>>, <<"low", v>> >>
integer(v)   == << IF v = 0 THEN Zero ELSE <<"int", v>> >>

ReadDec(ws) ==
    IF \A k \in DOMAIN ws : ws[k] = Zero THEN 0
    ELSE IF ws = packed64(ws[1][2]) \/ ws = packed128(ws[1][2]) THEN ws[1][2]
    ELSE Unknown
ReadInt(ws) == IF ws = integer(ws[1][2]) THEN ws[1][2] ELSE Unknown

At(m, a, w)   == SubSeq(m, FIRST + a, FIRST + a + w - 1)
Put(m, a, ws) == SubSeq(m, 1, FIRST + a - 1) \o ws \o SubSeq(m, FIRST + a + Len(ws), Len(m))
Move(m, d, a, w) == Put(m, d, At(m, a, w))          \* xcopy

-----------------------------------------------------------------------------
(* Addresses in the modes u *)

dbl(u)   == u.mode_double /\ ~u.intm
width(u) == IF dbl(u) THEN 2 ELSE 1
stack_size(u) == IF u.stack_depth THEN STACK_SIZE ELSE SMALL_STACK

Letter(j, u) == IF dbl(u) THEN 2 * j - LETTERED ELSE j
Address(n, u) == IF n < TOPREALREG THEN n * width(u) - NumRegs
                 ELSE Letter(n - TOPREALREG, u)
global_regs(u) == IF dbl(u) THEN (NumRegs - LETTERED) \div 2 ELSE NumRegs

(* The registers a command may name, and those followed by another one. *)
Named == {n \in Used : n < global_regs(UState) \/ TOPREALREG <= n}
Paired == {n \in Named : IF n < TOPREALREG THEN n + 1 < global_regs(UState)
                                                /\ n # TOPREALREG - 1
                         ELSE n % 2 = 0 /\ n + 1 < TOPREALREG + LETTERED}

(* A number in the format of the modes u, and back. *)
Packed(v, u) == IF u.intm THEN integer(Whole(v))
                ELSE IF u.mode_double THEN packed128(v) ELSE packed64(Single(v))
LetterWords(m, j, u) == At(m, Letter(j, u), width(u))

-----------------------------------------------------------------------------
(* The stack in memory m under the modes u *)

copyreg(m, d, s, u) == Move(m, d, s, width(u))
copy_letter(m, d, s, u) == copyreg(m, Letter(d, u), Letter(s, u), u)

(* The loops run so that every level is read before it is overwritten. *)
lift(m, u)   == Move(m, Letter(1, u), Letter(0, u), (stack_size(u) - 1) * width(u))
lower(m, u)  == Move(m, Letter(0, u), Letter(1, u), (stack_size(u) - 1) * width(u))
lower2(m, u) == Move(m, Letter(0, u), Letter(2, u), (stack_size(u) - 2) * width(u))
lift_if_enabled(m, u) == IF state_lift THEN lift(m, u) ELSE m

Repeat(f(_), n, m) == FoldLeft(LAMBDA acc, i : f(acc), m, [i \in 1 .. n |-> i])

setX(m, v, u) == Put(m, Letter(0, u), Packed(v, u))
setlastX(m, u) == copy_letter(m, regL, 0, u)
setlastXY(m, u) == copy_letter(setlastX(m, u), regI, 1, u)

Zeros(n) == SubSeq([k \in 1 .. n |-> Zero], 1, n)
zero_regs(m, a, n, u) == Put(m, a, Zeros(n * width(u)))

(* A command of the user that changes memory and leaves the modes. *)
Command(m, liftAfter) ==
    /\ ~XromFlags.xIN
    /\ Regs' = m
    /\ state_lift' = liftAfter
    /\ UNCHANGED <<NumRegs, UState, StackBase, XromFlags, XromStack>>

-----------------------------------------------------------------------------
(* Keys and the stack *)

(* process_keycode renews the pointers, xeq_init_contexts. *)
xeq_init_contexts ==
    /\ ~XromFlags.xIN
    /\ StackBase' = Letter(0, UState)
    /\ UNCHANGED <<Regs, NumRegs, UState, state_lift, XromFlags, XromStack>>

process_cmdline == \E v \in Keyed :
    Command(setX(lift_if_enabled(Regs, UState), v, UState), TRUE)

enter == Command(lift(Regs, UState), FALSE)

cpx_enter == LET m == lift(lift(Regs, UState), UState)
             IN  Command(copy_letter(m, 1, 3, UState), TRUE)

rolled_down(m) == LET u == UState
                  IN  Put(lower(m, u), Letter(stack_size(u) - 1, u), At(m, StackBase, width(u)))
rolled_up(m)   == LET u == UState
                  IN  Put(lift(m, u), StackBase, LetterWords(m, stack_size(u) - 1, u))
roll == \E n \in {1, 2} : \/ Command(Repeat(rolled_down, n, Regs), TRUE)
                          \/ Command(Repeat(rolled_up, n, Regs), TRUE)

fill == Command(FoldLeft(LAMBDA m, i : copyreg(m, Letter(i, UState), StackBase, UState),
                         Regs, [i \in 1 .. stack_size(UState) - 1 |-> i]), TRUE)
cpx_fill == Command(FoldLeft(LAMBDA m, i :
                                copyreg(m, Letter(i + 1, UState),
                                        IF i % 2 = 0 THEN Letter(1, UState) ELSE StackBase,
                                        UState),
                             Regs, [i \in 1 .. stack_size(UState) - 2 |-> i]), TRUE)

drop == \/ Command(lower(Regs, UState), TRUE)
        \/ Command(lower2(Regs, UState), TRUE)

clrx   == Command(zero_regs(Regs, StackBase, 1, UState), FALSE)
clrstk == Command(zero_regs(Regs, StackBase, stack_size(UState), UState), TRUE)

clrreg ==
    LET u == UState
        nums == zero_regs(Regs, -NumRegs, global_regs(u), u)
        atod == IF stack_size(u) = STACK_SIZE THEN nums
                ELSE zero_regs(nums, Letter(SMALL_STACK, u), STACK_SIZE - SMALL_STACK, u)
    IN  Command(zero_regs(atod, Letter(regI + 1, u), LETTERED - (regI + 1), u), TRUE)

(* A function in C: monadic, dyadic, triadic and their complex forms. *)
calculate(f, v, w) ==
    LET u == UState
        kept == IF f.complex THEN setlastXY(Regs, u) ELSE setlastX(Regs, u)
        gone == IF f.complex THEN Repeat(LAMBDA m : lower2(m, u), (f.in - f.out) \div 2, kept)
                ELSE Repeat(LAMBDA m : lower(m, u), f.in - f.out, kept)
        x    == setX(gone, v, u)
    IN  IF f.complex THEN Put(x, Letter(1, u), Packed(w, u)) ELSE x
Calculation == \E f \in Natives, v, w \in Calculated :
    /\ f.complex => ~UState.intm
    /\ Command(calculate(f, v, w), TRUE)

-----------------------------------------------------------------------------
(* Registers *)

cmdsto(n)  == Command(copyreg(Regs, Address(n, UState), Letter(0, UState), UState), TRUE)
cmdcsto(n) == LET m == copyreg(Regs, Address(n, UState), StackBase, UState)
              IN  Command(copyreg(m, Address(n + 1, UState), Letter(1, UState), UState), TRUE)

Fetched(n) == At(Regs, Address(n, UState), width(UState))

cmdrcl(n) == Command(Put(lift_if_enabled(Regs, UState), StackBase, Fetched(n)), TRUE)
cmdcrcl(n) ==
    LET m == lift(lift_if_enabled(Regs, UState), UState)
    IN  Command(Put(Put(m, StackBase, Fetched(n)), Letter(1, UState), Fetched(n + 1)), TRUE)

swap_reg(m, a, b) == LET w == width(UState)
                     IN  Put(Put(m, a, At(m, b, w)), b, At(m, a, w))
cmdswap(n, j) == Command(swap_reg(Regs, Letter(j, UState), Address(n, UState)), TRUE)
cmdcswap(n, j) ==
    LET m == swap_reg(Regs, Letter(j, UState), Address(n, UState))
    IN  Command(swap_reg(m, Letter(j + 1, UState), Address(n + 1, UState)), TRUE)

cmdstostk(n) ==
    /\ n + stack_size(UState) <= global_regs(UState)
    /\ Command(FoldLeft(LAMBDA m, i : copyreg(m, Address(n + i - 1, UState),
                                              Letter(i - 1, UState), UState),
                        Regs, [i \in 1 .. stack_size(UState) |-> i]), TRUE)
cmdrclstk(n) ==
    /\ n + stack_size(UState) <= global_regs(UState)
    /\ Command(FoldLeft(LAMBDA m, i : copyreg(m, Letter(i - 1, UState),
                                              Address(n + i - 1, UState), UState),
                        Regs, [i \in 1 .. stack_size(UState) |-> i]), TRUE)

rargs == \/ \E n \in Named : cmdsto(n) \/ cmdrcl(n) \/ cmdstostk(n) \/ cmdrclstk(n)
         \/ \E n \in Named, j \in 0 .. 3 : cmdswap(n, j)
         \/ \E n \in Paired : cmdcsto(n) \/ cmdcrcl(n) \/ cmdcswap(n, 0) \/ cmdcswap(n, 2)

-----------------------------------------------------------------------------
(* Modes.  The operators return memory, NumRegs and modes; a refusal is an    *)
(* error, which xeq() undoes.                                                *)

(* cmdregs in the modes u, with the room it needs. *)
Resized(m, N, arg, u) ==
    LET size == IF dbl(u) THEN 2 * arg + LETTERED ELSE arg
        kept == At(m, -N, IF width(u) * arg <= N + LETTERED THEN width(u) * arg
                          ELSE N + LETTERED)
        moved == Put(m, -size, kept)
    IN  [regs |-> IF N < size THEN Put(moved, N - size, Zeros(size - N))
                  ELSE Put(moved, -N, Zeros(N - size)),
         N |-> size]

Become(r, u) ==
    /\ Regs' = r.regs /\ NumRegs' = r.N
    /\ UState' = u
    /\ state_lift' = TRUE
    /\ UNCHANGED <<XromFlags, XromStack>>

cmdregs(arg) ==
    /\ ~XromFlags.xIN
    /\ UState.intm /\ UState.mode_double => LETTERED <= arg
    /\ Become(Resized(Regs, NumRegs, arg, UState), UState)
    /\ UNCHANGED StackBase

Ascending == [i \in 1 .. LETTERED |-> i - 1]
Member(j, u) == j < stack_size(u) \/ j = regL       \* StackRegMask

Real(u) == [u EXCEPT !.intm = FALSE]
Integer(u) == [u EXCEPT !.intm = TRUE]

(* op_float in integer mode; the decimals lie in single slots. *)
Floated(m, u) ==
    FoldLeft(LAMBDA acc, j :
               IF Member(j, u)
               THEN Put(acc, Letter(j, Real(u)), Packed(ReadInt(At(acc, j, 1)), Real(u)))
               ELSE IF u.mode_double
               THEN Put(acc, Letter(j, Real(u)), packed128(ReadDec(At(acc, j, 1))))
               ELSE acc,
             m, Ascending)

(* switch_to_int: the first register of the stack it meets, L, leaves        *)
(* integer mode on.                                                          *)
Compressed(acc, j, u) ==
    LET now == IF acc.intm THEN Integer(u) ELSE u
    IN  IF Member(j, u)
        THEN [regs |-> Put(acc.regs, j, integer(Whole(ReadDec(LetterWords(acc.regs, j, u))))),
              intm |-> TRUE]
        ELSE IF u.mode_double
        THEN [acc EXCEPT !.regs =
                Put(@, j, packed64(Single(ReadDec(At(@, Letter(j, now), 2)))))]
        ELSE acc
Switched(m, u) == FoldLeft(LAMBDA acc, j : Compressed(acc, j, u),
                           [regs |-> m, intm |-> FALSE], Reverse(Ascending)).regs

(* Mutant of Widened: from K down to X. *)
WidenedFromTop(m) ==
    FoldLeft(LAMBDA acc, j : Put(acc, 2 * j - LETTERED, packed128(ReadDec(At(acc, j, 1)))),
             m, Reverse(Ascending))

Widened(m)  == FoldLeft(LAMBDA acc, j :
                          Put(acc, 2 * j - LETTERED, packed128(ReadDec(At(acc, j, 1)))),
                        m, Ascending)
Narrowed(m) == FoldLeft(LAMBDA acc, j :
                          Put(acc, j, packed64(Single(ReadDec(At(acc, 2 * j - LETTERED, 2))))),
                        m, Reverse(Ascending))

(* op_double, as far as the switch of precision goes. *)
Doubled(m, N, to, u) ==
    LET roomy  == IF N < LETTERED THEN Resized(m, N, LETTERED, u) ELSE [regs |-> m, N |-> N]
        narrow == IF u.intm THEN m ELSE Narrowed(m)
    IN  IF to = u.mode_double THEN [regs |-> m, N |-> N]
        ELSE IF to THEN [roomy EXCEPT !.regs = IF u.intm THEN @ ELSE Widened(@)]
        ELSE IF N > TOPREALREG
        THEN Resized(narrow, N, TOPREALREG, [u EXCEPT !.mode_double = FALSE])
        ELSE [regs |-> narrow, N |-> N]

op_double(to) ==
    LET u == [UState EXCEPT !.mode_double = to]
        r == Doubled(Regs, NumRegs, to, UState)
    IN  /\ ~XromFlags.xIN
        /\ Become(IF UState.intm THEN [r EXCEPT !.regs = Floated(@, u)] ELSE r, Real(u))
        /\ StackBase' = Letter(0, Real(u))

op_float ==
    /\ ~XromFlags.xIN
    /\ Become([regs |-> IF UState.intm THEN Floated(Regs, UState) ELSE Regs, N |-> NumRegs],
              Real(UState))
    /\ StackBase' = Letter(0, Real(UState))

set_base ==
    /\ ~XromFlags.xIN /\ ~UState.intm
    /\ Become([regs |-> Switched(Regs, UState), N |-> NumRegs], Integer(UState))
    /\ UNCHANGED StackBase

stack_levels(large) ==
    /\ ~XromFlags.xIN
    /\ Become([regs |-> Regs, N |-> NumRegs], [UState EXCEPT !.stack_depth = large])
    /\ UNCHANGED StackBase

(* RCLM of saved modes. *)
cmdrestm(saved) ==
    LET crossed == saved.intm # UState.intm
        u  == [saved EXCEPT !.intm = UState.intm]
        r  == [regs |-> IF ~crossed THEN Regs
                        ELSE IF UState.intm THEN Floated(Regs, u) ELSE Switched(Regs, u),
               N |-> NumRegs]
        was == dbl(UState)
        recode == ~saved.intm /\ was # saved.mode_double
    IN  /\ ~XromFlags.xIN
        /\ Become(IF recode THEN Doubled(r.regs, r.N, saved.mode_double,
                                         [saved EXCEPT !.mode_double = was])
                  ELSE r, saved)
        /\ StackBase' = IF (crossed /\ UState.intm) \/ recode THEN Letter(0, saved) ELSE StackBase

SavedModes == [intm : BOOLEAN, mode_double : BOOLEAN, stack_depth : BOOLEAN]

-----------------------------------------------------------------------------
(* Built-in programs between xIN and xOUT.  They work on XromStack, in double *)
(* precision with the larger stack, and are not interrupted by the user.      *)

(* The arguments of a command: those of a function switch the lift on. *)
cmdxin(f) ==
    /\ ~XromFlags.xIN
    /\ f.complex => ~UState.intm
    /\ UState.intm \/ UState.mode_double \/ LETTERED <= NumRegs
    /\ XromFlags' = [xIN |-> TRUE, in |-> f.in, out |-> f.out, complex |-> f.complex,
                     setLastX |-> f.last, state_lift_in |-> state_lift \/ ~f.niladic,
                     mode_int |-> UState.intm, mode_double |-> UState.mode_double,
                     stack_depth |-> UState.stack_depth]
    /\ XromStack' = [j \in Letters |->
                       IF UState.intm THEN IF Member(j, UState) THEN ReadInt(At(Regs, j, 1))
                                           ELSE ReadDec(At(Regs, j, 1))
                       ELSE IF UState.mode_double THEN ReadDec(At(Regs, StackBase + 2 * j, 2))
                       ELSE ReadDec(At(Regs, j, 1))]
    /\ UState' = [intm |-> FALSE, mode_double |-> TRUE, stack_depth |-> TRUE]
    /\ state_lift' = TRUE
    /\ UNCHANGED <<Regs, NumRegs, StackBase>>

Work == /\ XromFlags.xIN
        /\ \E res \in [0 .. XromFlags.out - 1 -> Calculated] :
             XromStack' = [j \in Letters |-> IF j < XromFlags.out THEN res[j] ELSE Unknown]
        /\ UNCHANGED <<Regs, NumRegs, UState, StackBase, state_lift, XromFlags>>

User == IF XromFlags.xIN
        THEN [intm |-> XromFlags.mode_int, mode_double |-> XromFlags.mode_double,
              stack_depth |-> XromFlags.stack_depth]
        ELSE UState

(* The stack as xOUT moves it before it copies the results. *)
Moved(m, u, keepsI) ==
    LET x == XromFlags
        more == x.out - x.in
        saved == IF ~x.setLastX THEN m
                 ELSE IF x.complex /\ ~keepsI THEN setlastXY(m, u) ELSE setlastX(m, u)
    IN  IF more < 0
        THEN IF x.complex THEN Repeat(LAMBDA n : lower2(n, u), (1 - more) \div 2, saved)
             ELSE Repeat(LAMBDA n : lower(n, u), -more, saved)
        ELSE Repeat(LAMBDA n : lift(n, u),
                    IF more > 0 /\ ~x.state_lift_in THEN more - 1 ELSE more, saved)

cmdxout(keepsI) ==
    LET u == User
        results == FoldLeft(LAMBDA m, i : Put(m, Letter(i - 1, u), Packed(XromStack[i - 1], u)),
                            Moved(Regs, u, keepsI), [i \in 1 .. XromFlags.out |-> i])
    IN  /\ XromFlags.xIN
        /\ \A i \in 0 .. XromFlags.out - 1 : XromStack[i] \in Calculated
        /\ Regs' = results
        /\ UState' = u
        /\ StackBase' = Letter(0, u)
        /\ state_lift' = TRUE
        /\ XromFlags' = NoRoutine /\ XromStack' = Nothing
        /\ UNCHANGED NumRegs

(* An error in the program: xeq() goes back to the user's stack and modes. *)
Fail == /\ XromFlags.xIN
        /\ UState' = User
        /\ StackBase' = Letter(0, User)
        /\ state_lift' = TRUE
        /\ XromFlags' = NoRoutine /\ XromStack' = Nothing
        /\ UNCHANGED <<Regs, NumRegs>>

-----------------------------------------------------------------------------
(* The calculator wakes with the memory it had. *)
Init ==
    /\ Regs \in Restored
    /\ NumRegs = TOPREALREG
    /\ UState = [intm |-> FALSE, mode_double |-> FALSE, stack_depth |-> FALSE]
    /\ StackBase = 0
    /\ state_lift = TRUE
    /\ XromFlags = NoRoutine
    /\ XromStack = Nothing

StackCommand == \/ process_cmdline \/ enter \/ cpx_enter \/ roll \/ fill \/ cpx_fill
                \/ drop \/ clrx \/ clrstk \/ clrreg \/ Calculation

Next ==
    \/ xeq_init_contexts
    \/ StackCommand
    \/ rargs
    \/ \E arg \in RegsArgs : cmdregs(arg)
    \/ \E to \in BOOLEAN : op_double(to)
    \/ op_float
    \/ set_base
    \/ \E large \in BOOLEAN : stack_levels(large)
    \/ \E saved \in SavedModes : cmdrestm(saved)
    \/ \E f \in Routines : cmdxin(f)
    \/ Work
    \/ \E keepsI \in BOOLEAN : cmdxout(keepsI)
    \/ Fail

Spec == Init /\ [][Next]_vars

(* What is excluded, because the code does something else: a program that     *)
(* goes on with the stack's old place after BASE; BASE in double precision    *)
(* with the smaller stack; new registers in double precision; saved modes of  *)
(* another precision where one of the modes is integer mode; a niladic        *)
(* built-in program that takes numbers, after ENTER.  And a new stack size in *)
(* integer mode, after which nothing is promised of the levels in question.   *)
Compatible(saved) ==
    \/ ~UState.intm /\ ~saved.intm
    \/ /\ saved.mode_double = UState.mode_double
       /\ UState.intm => saved.stack_depth = UState.stack_depth
                         /\ (saved.intm \/ ~saved.mode_double)
       /\ saved.mode_double /\ saved.intm /\ ~UState.intm => saved.stack_depth

(* Commands that change stack and registers, those that change modes, and the *)
(* rest.                                                                     *)
CheckedEdit ==
    /\ StackBase = Letter(0, UState)
    /\ \/ StackCommand
       \/ rargs
       \/ \E f \in Routines : /\ f.niladic /\ ~state_lift => f.in = 0
                              /\ cmdxin(f)

CheckedMode ==
    /\ StackBase = Letter(0, UState)
    /\ \/ \E arg \in RegsArgs : /\ dbl(UState) => arg <= global_regs(UState)
                                /\ cmdregs(arg)
       \/ \E to \in BOOLEAN : op_double(to)
       \/ op_float
       \/ (UState.mode_double => UState.stack_depth) /\ set_base
       \/ \E large \in BOOLEAN : ~UState.intm /\ stack_levels(large)
       \/ \E saved \in SavedModes : Compatible(saved) /\ cmdrestm(saved)

Goes == \/ xeq_init_contexts \/ Work \/ Fail
        \/ \E keepsI \in BOOLEAN : cmdxout(keepsI)

CheckedNext == CheckedEdit \/ CheckedMode \/ Goes
CheckedSpec == Init /\ [][CheckedNext]_vars

-----------------------------------------------------------------------------
(* The registers as the user sees them; during a built-in program those he   *)
(* will come back to.                                                        *)

(* Below the register area lies the return stack. *)
Content(a, u) == LET ws == At(Regs, a, width(u))
                 IN  [dec |-> IF a < -NumRegs THEN Unknown ELSE ReadDec(ws),
                      int |-> IF dbl(u) THEN Unknown ELSE ReadInt(ws)]

V == INSTANCE Values WITH
        reg    <- LET u == User IN [j \in Letters |-> Content(Letter(j, u), u)],
        nums   <- LET u == User IN [i \in 1 .. global_regs(u) |-> Content(Address(i - 1, u), u)],
        intm   <- User.intm,
        double <- User.mode_double,
        depth  <- stack_size(User),
        lifts  <- IF XromFlags.xIN THEN XromFlags.state_lift_in ELSE state_lift,
        Functions <- Natives \cup Routines

(* Each command does to stack and registers what it promises, in whatever     *)
(* mode and wherever they lie; a change of mode keeps the lettered registers; *)
(* built-in programs take and leave what they should, and nothing when they   *)
(* fail.                                                                     *)
ValuesSpec == V!Spec
=============================================================================
