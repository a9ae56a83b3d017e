------------------------------ MODULE Listing ------------------------------
(* What the user sees of program memory: a list of whole steps, the last of   *)
(* them an END, and the step the cursor is at; 0: before the first one.        *)
EXTENDS Integers, SequencesExt

CONSTANTS END, Opcodes, ELSEWHERE

VARIABLES steps, cursor
vars == <<steps, cursor>>

Ends(s) == s # << >> /\ Last(s) = END

\* A step is entered behind the cursor, which moves to it.
Enter(c) ==
    /\ cursor >= 0 /\ (cursor < Len(steps) \/ c = END)
    /\ steps' = InsertAt(steps, cursor + 1, c)
    /\ cursor' = cursor + 1

\* Behind the last END it begins a program of its own.
EnterProgram(c) ==
    /\ cursor = Len(steps)
    /\ steps' = steps \o <<c, END>>
    /\ cursor' = cursor + 1

\* The step at the cursor is deleted, but not the last END.
Delete ==
    /\ cursor \in 1 .. Len(steps) - 1
    /\ steps' = RemoveAt(steps, cursor)
    /\ cursor' = cursor - 1

\* The program around the cursor is removed, the step before it is next.
RemoveProgram ==
    \E b \in 1 .. cursor, e \in cursor .. Len(steps) :
        /\ steps[e] = END /\ \A i \in b .. e - 1 : steps[i] # END
        /\ b = 1 \/ steps[b - 1] = END
        /\ LET rest == SubSeq(steps, 1, b - 1) \o SubSeq(steps, e + 1, Len(steps))
           IN  steps' = IF rest = << >> THEN <<END>> ELSE rest
        /\ cursor' \in (IF b = 1 THEN {0, 1} ELSE {b - 1})

\* Programs are put behind the others, or in the place of a lone END or of all.
AppendPrograms ==
    \E kept \in {<< >>, steps} :
        /\ Len(steps') > Len(kept) /\ SubSeq(steps', 1, Len(kept)) = kept
        /\ Ends(steps')
        /\ cursor' = Len(kept) + 1

Clear == steps' = <<END>> /\ cursor' \in {0, 1}

Move == UNCHANGED steps /\ cursor' \in 0 .. Len(steps) \cup {ELSEWHERE}

Init == steps = <<END>> /\ cursor \in {0, 1}

Next ==
    \/ Move
    \/ \E c \in Opcodes : Enter(c) \/ EnterProgram(c)
    \/ Delete
    \/ RemoveProgram
    \/ AppendPrograms
    \/ Clear

Spec == Init /\ [][Next]_vars
=============================================================================
