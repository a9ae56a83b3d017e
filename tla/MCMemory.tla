------------------------------ MODULE MCMemory ------------------------------
(***************************************************************************)
(* Small memories for TLC: the .cfg files choose the sizes, this module the *)
(* sets of arguments.                                                       *)
(***************************************************************************)
EXTENDS MemoryCalls

\* Every argument REGS takes.
AllRegs == 0 .. TOPREALREG
\* A word stored by a program may look like a frame marker.
Misleading == {LOCAL_MARKER + 2}
=============================================================================
