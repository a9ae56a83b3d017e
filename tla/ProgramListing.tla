--------------------------- MODULE ProgramListing ---------------------------
(* The words of RAM show as a listing: editing them edits whole steps.         *)
EXTENDS Program

\* The steps of the words, and how many begin before place p or at it.
StepsOf(words) ==
    LET rest[o \in 1 .. Len(words) + 2] ==
            IF o > Len(words) THEN << >>
            ELSE LET n == IF isDBL(words[o]) THEN 2 ELSE 1
                 IN  <<SubSeq(words, o, o + n - 1)>> \o rest[o + n]
    IN  rest[1]
StepNumber(p) == Cardinality({o \in 1 .. p : IsStep(ram, o)})

ELSEWHERE == -1
Cursor == IF isRAM(at.pc) THEN StepNumber(at.pc) ELSE ELSEWHERE

L == INSTANCE Listing WITH
        END     <- <<END>>,
        steps   <- StepsOf(ram),
        cursor  <- Cursor

\* Every command edits the listing as one expects, wherever double steps and
\* several programs lie: one step is entered or deleted, one program removed.
ListingSpec == L!Spec
=============================================================================
