---------------------------- MODULE MemoryCalls -----------------------------
(***************************************************************************)
(* The return stack of Memory, read as the levels of CallStack.             *)
(***************************************************************************)
EXTENDS Memory

\* A REGISTER fills an even number of words, so that a frame that is resized
\* keeps its flag word on the same side.
ASSUME EvenAssumption == REG_WORDS % 2 = 0

\* The word of s with the return address of the level that ends at n.
LevelStart(s, n) == IF isLOCAL(s[n]) THEN n - LOCAL_LEVELS(s[n]) ELSE n

\* The frame whose marker is the n-th word of s, with its return address.
FrameAt(s, n) ==
    LET size  == LOCAL_LEVELS(s[n])
        first == IF FlagOffset(-n, size) = 1 THEN 2 ELSE 1
    IN  [ret    |-> s[n - size],
         levels |-> size,
         flags  |-> s[n - FlagOffset(-n, size)],
         regs   |-> [i \in 1 .. size - 2 |-> s[n - first - (i - 1)]]]

\* A word that is not a marker is a return address without a frame.
LevelAt(s, n) ==
    IF isLOCAL(s[n])
    THEN FrameAt(s, n)
    ELSE [ret |-> s[n], levels |-> 0, flags |-> 0, regs |-> << >>]

\* The levels of s up to each of its words.
LevelsUpTo(s) ==
    LET upTo[n \in 0 .. Len(s)] ==
            IF n > 0 /\ LevelStart(s, n) \in 1 .. n
            THEN Append(upTo[LevelStart(s, n) - 1], LevelAt(s, n))
            ELSE << >>
    IN  upTo

LevelsOf(s) == LevelsUpTo(s)[Len(s)]

Calls == INSTANCE CallStack WITH calls <- LevelsOf(stk), running <- Running

\* Whatever the code does with RetStkPtr, LocalRegs and the markers among the
\* words of the return stack, a program sees properly nested levels.
CallsNest == Calls!Spec
=============================================================================
