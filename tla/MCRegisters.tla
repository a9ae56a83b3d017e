---------------------------- MODULE MCRegisters ----------------------------
(***************************************************************************)
(* A small calculator for TLC.  It wakes with a different number in every    *)
(* register: the commands move numbers whatever they are.  Modes    *)
(* change without a bound, EDITS commands change stack and registers, and    *)
(* one more where the last of them has switched the lift off.                *)
(***************************************************************************)
EXTENDS Registers

CONSTANT EDITS
VARIABLE edits

Fun(in, out, complex)  == [in |-> in, out |-> out, complex |-> complex, last |-> TRUE]
Rou(in, out, niladic, complex, last) ==
    [in |-> in, out |-> out, complex |-> complex, niladic |-> niladic, last |-> last]

MCNatives  == {Fun(2, 1, FALSE), Fun(4, 2, TRUE)}
MCRoutines == {Rou(0, 2, TRUE, FALSE, FALSE), Rou(1, 3, TRUE, FALSE, TRUE),
               Rou(3, 1, FALSE, FALSE, TRUE), Rou(4, 2, FALSE, TRUE, TRUE)}

Slots == 1 .. FIRST + LETTERED - 1
Blank == SubSeq([s \in Slots |-> Zero], 1, FIRST + LETTERED - 1)
MCRestored == {Put(Blank, -TOPREALREG,
                   [k \in 1 .. TOPREALREG + LETTERED |-> <<"dec", 4 * k>>])}

MCInit == Init /\ edits = 0
MayEdit == \/ edits < EDITS
           \/ edits = EDITS /\ ~state_lift
MCNext == \/ MayEdit /\ CheckedEdit /\ edits' = edits + 1
          \/ (CheckedMode \/ Goes) /\ edits' = edits
MCSpec == MCInit /\ [][MCNext]_<<vars, edits>>
=============================================================================
