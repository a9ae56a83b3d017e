----------------------------- MODULE MCProgram -----------------------------
(* Small programs for TLC: one numeric label, one command, one global label   *)
(* of two words whose second word may be that of END.                         *)
EXTENDS ProgramListing

MCSingles == {"END", "LBL", "op"}
MCDoubles == {"glb"}
MCSeconds == {"a", "END"}
MCBackups == {<<"END">>, <<"op", "END">>, <<"END", "glb", "END", "END">>}
=============================================================================
