----------------------------- MODULE MCLibrary -----------------------------
(* Two labels, programs of one and three words, pages of two words.        *)
EXTENDS Library

MCLengths == {1, 3}
=============================================================================
