---------------------------- MODULE MCIntArith ----------------------------
(* Words of up to 8 bits on a machine of 8-bit words and 2-bit half-words.   *)
EXTENDS IntArith

MCLengths == {1, 2, 3, 4, 8}

\* every word of up to 4 bits; of 8 bits those at the edges and some between
MCOperands == (0 .. 15) \cup {61, 100, 127, 128, 129, 170, 241, 254, 255}
=============================================================================
