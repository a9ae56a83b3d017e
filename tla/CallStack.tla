----------------------------- MODULE CallStack ------------------------------
(***************************************************************************)
(* What the return stack promises to a program: every call has a return     *)
(* address and at most one frame of local registers of its own; RTN comes   *)
(* back to where the call was made, and only the innermost frame - that of  *)
(* the nearest caller having one - can be seen and changed.                 *)
(***************************************************************************)
EXTENDS Integers, Sequences

CONSTANT PCs

VARIABLES calls, pc, running

vars == <<calls, pc, running>>

NoRegs == << >>

\* A level just called: no local frame yet.
Level(back) == [ret |-> back, levels |-> 0, flags |-> 0, regs |-> NoRegs]

Last == calls[Len(calls)]
Caller == SubSeq(calls, 1, Len(calls) - 1)

\* The level whose frame is seen; 0 when there is none.
Visible ==
    IF \E i \in 1 .. Len(calls) : calls[i].levels > 0
    THEN CHOOSE i \in 1 .. Len(calls) :
            /\ calls[i].levels > 0
            /\ \A j \in i + 1 .. Len(calls) : calls[j].levels = 0
    ELSE 0

Least(a, b) == IF a < b THEN a ELSE b

Init == calls = << >> /\ pc = 1 /\ running = FALSE

\* XEQ: one level more; from the keyboard it is the only one.
Call ==
    \/ \E back \in PCs : calls' = Append(calls, Level(back)) /\ UNCHANGED running
    \/ /\ ~ running
       /\ running'
       /\ calls' \in {<< Level(pc) >>, << Level(pc') >>}

\* RTN goes back behind the call (RTN+1: one step further) and stops the
\* program when no level is left.
Return ==
    /\ calls # << >>
    /\ calls' = Caller
    /\ pc' \in {Last.ret, Last.ret + 1, Last.ret + 2}
    /\ running' = (running /\ calls' # << >>)

\* LocR: the level's frame is made or resized; what fits of its registers, and
\* its flags, survive.
Frame ==
    /\ calls # << >>
    /\ Len(calls') = Len(calls)
    /\ SubSeq(calls', 1, Len(calls) - 1) = Caller
    /\ LET new == calls'[Len(calls)]
       IN  /\ new.ret = Last.ret
           /\ new.levels = Len(new.regs) + 2
           /\ new.flags = Last.flags
           /\ \A i \in 1 .. Least(Len(Last.regs), Len(new.regs)) : new.regs[i] = Last.regs[i]
    /\ UNCHANGED running

\* PopLR: the level's own frame goes, the level stays.
Drop ==
    /\ calls # << >>
    /\ Last.levels > 0
    /\ calls' = Append(Caller, Level(Last.ret))
    /\ UNCHANGED running

\* A store changes flags or one register of the visible frame, and no other.
Store ==
    /\ Visible # 0
    /\ Len(calls') = Len(calls)
    /\ \A i \in 1 .. Len(calls) : i # Visible => calls'[i] = calls[i]
    /\ LET old == calls[Visible]
           new == calls'[Visible]
       IN  \/ new = [old EXCEPT !.flags = new.flags]
           \/ \E k \in 1 .. Len(old.regs) : new = [old EXCEPT !.regs[k] = new.regs[k]]
    /\ UNCHANGED running

\* R/S and GTO.
Start ==
    /\ ~ running
    /\ running'
    /\ calls' = IF calls = << >> THEN << Level(pc) >> ELSE calls
    /\ UNCHANGED pc

Stop == ~ running' /\ UNCHANGED calls
Step == UNCHANGED <<running, calls>>

\* Everything that edits programs, and RTN from the keyboard.
Clear == ~ running' /\ calls' = << >>

Next == Step \/ Stop \/ Clear \/ Start \/ Call \/ Return \/ Drop \/ Frame \/ Store

Spec == Init /\ [][Next]_vars
=============================================================================
