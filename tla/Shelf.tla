------------------------------- MODULE Shelf -------------------------------
(***************************************************************************)
(* What the program library promises: a list of programs with distinct       *)
(* labels, one list in memory and one that survives a restart.  A command    *)
(* changes the list in memory by one program at a time; the kept list then   *)
(* becomes the same, all of it at once, or stays as it is.                   *)
(***************************************************************************)
EXTENDS Naturals, SequencesExt

CONSTANT Names          \* the labels of programs

VARIABLES
    shown,  \* the list in memory: sequence of <<label, length>>
    kept    \* the list on the disk

Labelled(list) == {list[i][1] : i \in DOMAIN list}

Init == shown = <<>> /\ kept = <<>>

(* A program with a new label joins the list at its end, or one leaves it;    *)
(* the disk follows at once or later.                                        *)
Put  == /\ \E name \in Names \ Labelled(shown), len \in 1 .. 9 :
               shown' = Append(shown, <<name, len>>)
        /\ kept' \in {kept, shown'}

Drop == /\ \E k \in DOMAIN shown : shown' = RemoveAt(shown, k)
        /\ kept' \in {kept, shown'}

Keep == kept' = shown /\ UNCHANGED shown

Restart == shown' = kept /\ UNCHANGED kept

Next == Put \/ Drop \/ Keep \/ Restart

Spec == Init /\ [][Next]_<<shown, kept>>
=============================================================================
