------------------------------- MODULE Values -------------------------------
(***************************************************************************)
(* What the registers promise: a stack and registers that hold numbers,      *)
(* whatever the mode and wherever they lie.                                  *)
(*                                                                          *)
(* A content is read in two ways, as a decimal number and as an integer.     *)
(* What a register of the other kind reads as is Unknown, and of what is     *)
(* Unknown nothing is promised.  A change of precision renumbers the         *)
(* numbered registers; it promises nothing for them.                         *)
(***************************************************************************)
EXTENDS Integers, Sequences

CONSTANTS
    TOPREALREG,         \* the number of the first lettered register
    SMALL_STACK,        \* the levels of the smaller stack
    STACK_SIZE,         \* and of the larger; L and I follow it
    LETTERED,           \* lettered registers
    Used,               \* bound: the registers commands name
    Keyed,              \* bound: the numbers keyed in
    Calculated,         \* bound: the numbers commands calculate
    Functions,          \* what they take and yield: in, out, complex, last
    Unknown,            \* what a register of another kind reads as
    Single(_),          \* a number in single precision
    Whole(_)            \* its integer part

VARIABLES
    reg,                \* contents of the lettered registers, from X on
    nums,               \* contents of the numbered registers, from 0 on
    intm,               \* integer mode
    double,             \* double precision, perhaps below integer mode
    depth,              \* levels of the stack
    lifts                \* the next number lifts the stack

modes == <<intm, double, depth>>
vars  == <<reg, nums, modes, lifts>>

Letters == 0 .. LETTERED - 1
L == STACK_SIZE
I == STACK_SIZE + 1
OnStack(j) == j < depth
Converted(j) == OnStack(j) \/ j = L

Takes(new, v) == v # Unknown => new = v
Fit(v) == IF intm THEN Whole(v) ELSE IF double THEN v ELSE Single(v)
Shows(c, v) == Takes(IF intm THEN c.int ELSE c.dec, Fit(v))
Blank(c) == c.dec = 0 /\ (intm \/ ~double => c.int = 0)

Exists(n) == n \in 0 .. Len(nums) - 1 \/ n - TOPREALREG \in Letters
At(n) == IF n < TOPREALREG THEN nums[n + 1] ELSE reg[n - TOPREALREG]
ExistsPair(n) == Exists(n) /\ Exists(n + 1) /\ n # TOPREALREG - 1

-----------------------------------------------------------------------------
(* The stack *)

Stack == [i \in 1 .. depth |-> reg[i - 1]]
With(s) == [j \in Letters |-> IF OnStack(j) THEN s[j + 1] ELSE reg[j]]

Over(s, c)  == <<c>> \o SubSeq(s, 2, depth)
Push(s, c)  == <<c>> \o SubSeq(s, 1, depth - 1)
Drop(s, k)  == [i \in 1 .. depth |-> IF i + k <= depth THEN s[i + k] ELSE s[depth]]
DropPairs(s, k) == [i \in 1 .. depth |-> IF i + 2 * k <= depth THEN s[i + 2 * k]
                                         ELSE s[depth - ((depth - i) % 2)]]
Raise(s, k) == [i \in 1 .. depth |-> IF i > k THEN s[i - k] ELSE s[1]]
Turn(s, k)  == [i \in 1 .. depth |-> s[((i - 1 + k) % depth) + 1]]

(* A command of the stack alone. *)
StackBecomes(s) == /\ \A j \in Letters : reg'[j] = With(s)[j]
                   /\ UNCHANGED nums

Enter  == StackBecomes(Push(Stack, reg[0]))
EnterPair == StackBecomes(Push(Push(Stack, reg[1]), reg[0]))
Roll   == \E k \in {1, 2, depth - 1, depth - 2} : StackBecomes(Turn(Stack, k))
Fill   == \E k \in {1, 2} :
            StackBecomes([i \in 1 .. depth |-> Stack[((i - 1) % k) + 1]])
Lower  == StackBecomes(Drop(Stack, 1)) \/ StackBecomes(DropPairs(Stack, 1))

(* A number is keyed in. *)
Number == \E v \in Keyed :
            /\ Shows(reg'[0], v)
            /\ \A j \in Letters \ {0} :
                 reg'[j] = With(IF lifts THEN Push(Stack, reg[0]) ELSE Stack)[j]
            /\ UNCHANGED nums

(* A command or a built-in program takes numbers from the stack, which are   *)
(* forgotten but for the last x (and y), and leaves its results.              *)
Yield(f, res, saves) ==
    LET more == f.out - f.in
        s == IF more < 0 THEN IF f.complex THEN DropPairs(Stack, (-more) \div 2)
                                           ELSE Drop(Stack, -more)
             ELSE Raise(Stack, IF f.in = 0 /\ ~lifts THEN more - 1 ELSE more)
    IN  /\ \A j \in Letters :
             IF j < f.out THEN Shows(reg'[j], res[j + 1])
             ELSE reg'[j] = IF j \in saves THEN reg[j - L] ELSE With(s)[j]
        /\ UNCHANGED nums

Saved(f) == IF ~f.last THEN {{}} ELSE IF f.complex THEN {{L}, {L, I}} ELSE {{L}}

Calculate ==
    \E f \in Functions : \E saves \in Saved(f), res \in [1 .. f.out -> Calculated] :
      Yield(f, res, saves)

(* A built-in program stops with an error. *)
Stopped == UNCHANGED <<reg, nums>>

-----------------------------------------------------------------------------
(* Registers *)

(* What the register numbered n holds afterwards. *)
After(n) == IF n < TOPREALREG THEN nums'[n + 1] ELSE reg'[n - TOPREALREG]

Assign(f) ==
    /\ DOMAIN nums' = DOMAIN nums
    /\ \A n \in DOMAIN f : After(n) = f[n]
    /\ \A j \in Letters : TOPREALREG + j \notin DOMAIN f => reg'[j] = reg[j]
    /\ \A i \in DOMAIN nums : i - 1 \notin DOMAIN f => nums'[i] = nums[i]

Store == \E n \in Used :
           \/ Exists(n) /\ Assign([m \in {n} |-> reg[0]])
           \/ ExistsPair(n) /\ Assign([m \in {n, n + 1} |-> reg[m - n]])
           \/ /\ n + depth <= Len(nums)
              /\ Assign([m \in n .. n + depth - 1 |-> reg[m - n]])

Recall == \E n \in Used :
            \/ /\ Exists(n)
               /\ StackBecomes(IF lifts THEN Push(Stack, At(n))
                               ELSE Over(Stack, At(n)))
            \/ /\ ExistsPair(n)
               /\ StackBecomes(LET s == IF lifts THEN Push(Stack, At(n + 1))
                                        ELSE Over(Stack, At(n + 1))
                               IN  Push(s, At(n)))
            \/ /\ n + depth <= Len(nums)
               /\ StackBecomes([i \in 1 .. depth |-> nums[n + i]])

Exchange == \E n \in Used, j \in 0 .. 3, k \in {1, 2} :
              /\ Exists(n)
              /\ k = 2 => ExistsPair(n) /\ j % 2 = 0
              /\ Assign([m \in (n .. n + k - 1) \cup (TOPREALREG + j .. TOPREALREG + j + k - 1)
                           |-> IF m \in n .. n + k - 1 THEN reg[j + m - n]
                               ELSE At(n + m - TOPREALREG - j)])

Emptied(S) == /\ \A j \in Letters : IF j \in S THEN Blank(reg'[j]) ELSE reg'[j] = reg[j]
              /\ UNCHANGED nums
ClearX     == Emptied({0})
ClearStack == Emptied(Letters \cap (0 .. depth - 1))

ClearRegisters ==
    /\ \A j \in Letters : IF Converted(j) \/ j = I THEN reg'[j] = reg[j] ELSE Blank(reg'[j])
    /\ DOMAIN nums' = DOMAIN nums
    /\ \A i \in DOMAIN nums : Blank(nums'[i])

(* REGS keeps what there is room for; new registers are blank. *)
Resize == /\ UNCHANGED reg
          /\ \A i \in DOMAIN nums' : IF i \in DOMAIN nums THEN nums'[i] = nums[i]
                                     ELSE Blank(nums'[i])

-----------------------------------------------------------------------------
(* Modes.  The stack and L follow the mode; the other lettered registers     *)
(* wait for the decimal mode to come back.                                   *)

SetDepth == UNCHANGED <<intm, double, reg, nums>>

ToInteger ==
    /\ ~intm /\ intm'
    /\ double' = double
    /\ \A j \in Letters :
         IF j < depth' \/ j = L THEN Takes(reg'[j].int, Whole(reg[j].dec))
         ELSE Takes(reg'[j].dec, IF double THEN Single(reg[j].dec) ELSE reg[j].dec)
    /\ ~double => nums' = nums

(* The numbers kept while their precision becomes that of double'. *)
KeepDecimals ==
    \A j \in Letters :
      LET v == IF intm /\ Converted(j) THEN reg[j].int ELSE reg[j].dec
      IN  Takes(reg'[j].dec, IF double' THEN v ELSE Single(v))

ToDecimal == /\ ~intm' /\ depth' = depth
             /\ ~double' => Len(nums') <= TOPREALREG
             /\ KeepDecimals
             /\ intm /\ ~double' => \A i \in DOMAIN nums' : nums'[i] = nums[i]

(* RCLM in decimal mode: both a new precision and a new stack. *)
ToPrecision == /\ ~intm /\ ~intm' /\ KeepDecimals
               /\ ~double' => Len(nums') <= TOPREALREG
               /\ double' = double => nums' = nums

-----------------------------------------------------------------------------
Init == intm = FALSE /\ double = FALSE /\ lifts = TRUE

(* Only ENTER and CLx let the next number overwrite X. *)
NoLift == Enter \/ ClearX
Lifting == \/ Stopped \/ EnterPair \/ Roll \/ Fill \/ Lower \/ Number
           \/ ClearStack \/ Calculate
           \/ Store \/ Recall \/ Exchange \/ ClearRegisters \/ Resize

Next == \/ UNCHANGED modes /\ ~lifts' /\ NoLift
        \/ UNCHANGED modes /\ lifts' /\ Lifting
        \/ lifts' /\ (SetDepth \/ ToInteger \/ ToDecimal \/ ToPrecision)

Spec == Init /\ [][Next]_vars
=============================================================================
