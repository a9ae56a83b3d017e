-------------------------------- MODULE Keys --------------------------------
(***************************************************************************)
(* The keyboard of the WP 34S on the DM42 (keys.c): what a key means in    *)
(* each entry mode.  The modes are flags of one structure, State2; process *)
(* looks at them in a fixed order and hands the key to the first mode that *)
(* is open.  Soft keys that carry an op-code (K_OP) bypass process and act *)
(* in every mode.  Nearly all modes share digval and numdigit.             *)
(*                                                                         *)
(* Keys have the names of the source; one key stands for its kind (K01 for *)
(* the function keys A to D, K51 and K52 for digits that also name X and   *)
(* Y, ...).  Commands are classes by what they want: CMD is complete,      *)
(* DATA is dealt with when the key goes down.  Integer mode, complex lock, *)
(* the library regions of the label browser and the characters that are    *)
(* typed are left out; command lines are numbers that can be read.         *)
(***************************************************************************)
EXTENDS Naturals

CONSTANTS BASE,         \* 10 in the code
          GLOBALS,      \* registers allocated (global_regs)
          LOCALS,       \* local registers allocated (local_regs)
          LOCAL_LIM,    \* MAX_LOCAL_DIRECT
          DISP_LIM,     \* the greatest argument of FIX and the like
          STEPS,        \* a tenth of the program memory, for GTO .
          MAX_DIGITS    \* bound: digits counted in GTO .

TOPREALREG == BASE * BASE       \* the registers above have letters
regX_idx == TOPREALREG
regY_idx == TOPREALREG + 1
regA_idx == TOPREALREG + 2
NUMREG == TOPREALREG + 3
NO_REG == 2 * NUMREG + 1        \* a key that names no register
LABEL == 1                      \* a program step with a label

\* Powers of b.
Power(b) == LET p[n \in Nat] == IF n = 0 THEN 1 ELSE b * p[n - 1] IN p

ASSUME KeysAssumption ==
    /\ BASE \in Nat /\ BASE > 2
    /\ GLOBALS \in 1 .. TOPREALREG
    /\ LOCALS \in Nat /\ LOCAL_LIM \in Nat \ {0}
    /\ DISP_LIM \in Nat /\ STEPS \in Nat
    /\ MAX_DIGITS \in Nat /\ MAX_DIGITS > 3 /\ STEPS < Power(BASE)[MAX_DIGITS]

VARIABLES State2,       \* the entry state, with CmdBase, the command line, the menu
          OpCode        \* the command that waits for its key to come up

vars == <<State2, OpCode>>

Keys == {"K00", "K01", "K05", "K10", "K11", "K20", "K21", "K22", "K24", "K30",
         "K40", "K50", "K51", "K52", "K60", "K61", "K62", "K63", "K64"}
Shifts == {"N", "F", "G", "H"}

\* What a command wants: a stack register (STO and RCL take arithmetic and
\* have complex forms), a label, a small number, or a permutation.
StoreRecall == {"STO", "CSTO"}
StackRegister == StoreRecall \cup {"REG", "VIEW"}
Labelled == {"GTO"}
Arguments == StackRegister \cup Labelled \cup {"DISP", "SHUFFLE"}

Menus == {"Main", "Other", "Alpha", "Arrow"}
Catalogues == {"none", "normal", "complex", "chars"}

\* The modes that process looks at in this order, and the browsers.
Modes == {"rarg", "gtodot", "hyp", "test", "status", "arrow", "multi",
          "labellist", "registerlist", "alphas", "cmplx"}
Flags == Modes \cup {"runmode", "ind", "dot", "local", "shuffle", "CmdLine"}
Fields == Flags \cup {"shifts", "confirm", "catalogue", "CmdBase", "numdigit", "digval",
                      "menu", "last_menu"}

-----------------------------------------------------------------------------
(* Helpers                                                                 *)

\* What a handler gives back: the new entry state and an op-code or state.
Result(s, op) == [s |-> s, op |-> op]
Unfinished(s) == Result(s, "UNFINISHED")

\* A fresh State2 (init_state): run mode and nothing open; menus are kept.
init_state(s) ==
    [f \in Fields |->
        IF f \in Flags THEN f = "runmode"
        ELSE IF f \in {"numdigit", "digval"} THEN 0
        ELSE IF f \in {"menu", "last_menu"} THEN s[f]
        ELSE IF f = "shifts" THEN "N" ELSE "none"]

\* Mutant of soft_init_state: the mode underneath is kept whatever was open.
soft_init_stateKeepsMode(s) ==
    IF s.CmdLine THEN [s EXCEPT !.CmdLine = FALSE]
    ELSE [init_state(s) EXCEPT !.runmode = s.runmode, !.alphas = s.alphas]

\* EXIT: first the command line, then everything that is open at once; the
\* mode underneath is kept when something was open.
soft_init_state(s) ==
    LET soft == s.multi \/ s.rarg \/ s.hyp \/ s.gtodot \/ s.labellist
                \/ s.cmplx \/ s.arrow \/ s.test \/ s.status
        fresh == init_state(s)
    IN IF s.CmdLine THEN [s EXCEPT !.CmdLine = FALSE]
       ELSE IF soft THEN [fresh EXCEPT !.runmode = s.runmode, !.alphas = s.alphas]
       ELSE fresh

set_shift(s, sh) == [s EXCEPT !.shifts = sh]
reset_shift(s) == set_shift(s, "N")
toggle_shift(s, sh) == set_shift(s, IF s.shifts = sh THEN "N" ELSE sh)
process_cmdline(s) == [s EXCEPT !.CmdLine = FALSE]

\* Mutant of set_menu: every menu is remembered.
set_menuRemembers(s, new) ==
    [s EXCEPT !.menu = IF new = s.menu THEN "Main"
                       ELSE IF new = "Last" THEN s.last_menu ELSE new,
              !.last_menu = s.menu]

\* Back to the menu before, to the default one, or on to a new one.  Neither
\* the arrow menu nor the alpha menu is remembered.
set_menu(s, new) ==
    LET home == IF s.menu \in {"Arrow", "Alpha"} THEN s.last_menu ELSE s.menu IN
    [s EXCEPT !.menu = IF new = s.menu THEN "Main"
                       ELSE IF new = "Last" THEN s.last_menu ELSE new,
              !.last_menu = home]

init_arg(s, base) ==
    [s EXCEPT !.CmdBase = base, !.rarg = TRUE, !.shuffle = (base = "SHUFFLE"),
              !.digval = 0, !.numdigit = 0,
              !.ind = FALSE, !.dot = FALSE, !.local = FALSE]

reset_arg(s) == [init_arg(s, "none") EXCEPT !.rarg = FALSE]

init_cat(s, cat) ==
    LET shut == [process_cmdline(s) EXCEPT !.shifts = "N", !.labellist = FALSE,
                     !.registerlist = FALSE, !.status = FALSE, !.catalogue = "none"]
    IN CASE cat = "labels"    -> [shut EXCEPT !.labellist = TRUE, !.digval = LABEL]
         [] cat = "registers" -> [shut EXCEPT !.registerlist = TRUE, !.digval = regX_idx]
         [] cat = "status"    -> [shut EXCEPT !.status = TRUE]
         [] OTHER             -> [shut EXCEPT !.catalogue = cat, !.cmplx = (cat = "complex")]

\* Clearing commands ask first.
check_confirm(s, op) ==
    CASE op = "CLEAR" -> Unfinished([s EXCEPT !.confirm = "clear"])
      [] op = "RESET" -> Unfinished([s EXCEPT !.confirm = "reset"])
      [] OTHER -> Result(s, op)

\* keycode_to_digit_or_register: the digit keys 1 and 2 are X and Y, too.
Digit(c) == CASE c = "K61" -> 0 [] c = "K51" -> 1 [] c = "K52" -> 2
Register(c) == CASE c = "K51" -> regX_idx [] c = "K52" -> regY_idx [] OTHER -> regA_idx
DigitKeys == {"K61", "K51", "K52"}
LetterKeys == {"K00", "K01"}
RegisterKeys == LetterKeys \cup {"K51", "K52"}

\* The keys with a character in each shift (alphamap).
HasChar(c, sh) ==
    CASE sh = "N" -> c \notin {"K20", "K24", "K30", "K40", "K50", "K60"}
      [] sh = "F" -> c \in {"K22", "K51", "K52", "K61", "K62", "K63", "K64"}
      [] sh = "G" -> c \notin {"K24", "K30", "K40", "K50", "K60"}
      [] OTHER    -> c \in {"K21", "K22", "K40", "K50", "K61", "K64"}

-----------------------------------------------------------------------------
(* Arguments: process_arg and its helpers                                  *)

\* The command is complete, unless it wants an even register of the top two.
arg_eval(s, val) ==
    IF s.CmdBase = "CSTO" /\ ~s.ind /\ val > TOPREALREG - 2 /\ (val + TOPREALREG) % 2 = 1
    THEN Unfinished(s)
    ELSE Result(reset_arg(s), "CMD")

\* The greatest value digits may give: -1 is written as no value at all.
ArgumentFits(s, val) ==
    LET is_reg == s.CmdBase \in StackRegister \/ s.ind IN
    CASE s.local -> val < (IF s.runmode /\ is_reg /\ LOCALS < LOCAL_LIM THEN LOCALS
                           ELSE IF s.runmode /\ LOCALS = 0 THEN 0 ELSE LOCAL_LIM)
      [] ~s.local /\ is_reg -> val < (IF s.runmode THEN GLOBALS ELSE TOPREALREG)
      [] OTHER -> val <= (IF s.CmdBase \in Labelled THEN TOPREALREG - 1 ELSE DISP_LIM)

arg_digit(s, n) ==
    LET val == s.digval * BASE + n
        typed == [s EXCEPT !.digval = val, !.numdigit = s.numdigit + 1]
        res == arg_eval(typed, val)
    IN IF ~ArgumentFits(s, val) THEN Unfinished(s)
       ELSE IF ArgumentFits(s, val * BASE) /\ typed.numdigit < 2 THEN Unfinished(typed)
       ELSE IF res.op = "UNFINISHED" THEN Unfinished(s) ELSE res

\* A label key; only where no digit and no arrow came before.
arg_fkey(s) ==
    IF s.CmdBase \in Labelled /\ ~s.ind /\ s.numdigit = 0 THEN arg_eval(s, 0)
    ELSE Unfinished(s)

process_arg_dot(s) ==
    IF s.numdigit > 0 THEN Unfinished(s)
    ELSE IF s.dot \/ s.local THEN arg_eval([s EXCEPT !.local = FALSE], regX_idx)
    ELSE IF s.CmdBase \in StackRegister \/ s.ind THEN Unfinished([s EXCEPT !.local = TRUE])
    ELSE IF s.CmdBase \in Labelled THEN Unfinished([reset_arg(s) EXCEPT !.gtodot = TRUE])
    ELSE Unfinished(s)

\* Four registers, two bits each.
process_arg_shuffle(s, r) ==
    LET next == [s EXCEPT !.numdigit = s.numdigit + 1, !.digval = s.digval + r * Power(4)[s.numdigit]]
    IN IF next.numdigit < 4 THEN Unfinished(next) ELSE arg_eval(next, next.digval)

\* ENTER completes the argument or, coming first, changes what is entered.
arg_enter(s) ==
    LET stack_reg == s.CmdBase \in StackRegister \/ s.ind IN
    IF s.numdigit = 0 /\ ~s.ind /\ ~s.dot
    THEN CASE s.CmdBase \in Labelled ->
                  Unfinished([init_arg(s, s.CmdBase) EXCEPT !.multi = TRUE, !.rarg = FALSE])
           [] s.CmdBase = "DISP" -> Result(reset_arg(s), "CMD")
           [] s.CmdBase \in StackRegister -> Unfinished([s EXCEPT !.dot = TRUE])
           [] OTHER -> Unfinished(s)
    ELSE IF s.numdigit > 0 THEN arg_eval(s, s.digval)
    ELSE Unfinished(IF stack_reg THEN [s EXCEPT !.dot = ~s.dot] ELSE s)

\* Mutant of arg_backspace: the last register of a permutation stays in digval.
arg_backspaceKeeps(s) ==
    IF s.numdigit > 0
    THEN [s EXCEPT !.numdigit = s.numdigit - 1,
                   !.digval = IF s.shuffle THEN s.digval ELSE s.digval \div BASE]
    ELSE IF s.dot THEN [s EXCEPT !.dot = FALSE]
    ELSE IF s.local THEN [s EXCEPT !.local = FALSE]
    ELSE IF s.ind THEN [s EXCEPT !.ind = FALSE]
    ELSE reset_arg(s)

arg_backspace(s) ==
    IF s.numdigit > 0
    THEN [s EXCEPT !.numdigit = s.numdigit - 1,
                   !.digval = IF s.shuffle THEN s.digval % Power(4)[s.numdigit - 1]
                              ELSE s.digval \div BASE]
    ELSE IF s.dot THEN [s EXCEPT !.dot = FALSE]
    ELSE IF s.local THEN [s EXCEPT !.local = FALSE]
    ELSE IF s.ind THEN [s EXCEPT !.ind = FALSE]
    ELSE reset_arg(s)

process_arg(s0, c) ==
    LET s == reset_shift(s0)
        base == s.CmdBase
        stack_reg == base \in StackRegister \/ s.ind
        label_addressing == base \in Labelled /\ ~s.ind /\ ~s.dot
        shorthand == label_addressing /\ c # "K_F"
                     /\ (s0.shifts = "F" \/ c \in {"K05", "K10", "K11", "K30", "K40", "K50", "K63", "K64"})
    IN CASE ~shorthand /\ ~s.dot /\ ~s.shuffle /\ c \in DigitKeys -> arg_digit(s, Digit(c))
         [] shorthand -> arg_eval(s, 0)
         [] OTHER ->
       CASE c = "K_F" ->
                Unfinished(set_shift(s, IF label_addressing /\ s0.shifts # "F" THEN "F" ELSE "N"))
         [] c = "K_ARROW" ->
                Unfinished(IF ~s.dot /\ base # "SHUFFLE" THEN [s EXCEPT !.ind = ~s.ind] ELSE s)
         [] c = "K_CMPLX" ->
                Unfinished(IF ~s.ind /\ ~s.dot /\ base = "STO" THEN [s EXCEPT !.CmdBase = "REG"] ELSE s)
         [] s.shuffle /\ c \in {"K51", "K52"} -> process_arg_shuffle(s, Digit(c) - 1)
         [] ~s.shuffle /\ c \in RegisterKeys ->
                IF s.dot \/ stack_reg THEN arg_eval(s, Register(c))
                ELSE IF c \in LetterKeys THEN arg_fkey(s) ELSE Unfinished(s)
         [] s.shuffle /\ c \in LetterKeys -> Unfinished(s)
         [] c = "K62" -> process_arg_dot(s)
         \* plus: arithmetic for STO and RCL, else the register that DM42 has no key for
         [] c = "K64" -> IF s.dot \/ (base \notin StoreRecall /\ stack_reg)
                         THEN arg_eval(s, NO_REG) ELSE Unfinished(s)
         [] c = "K20" -> arg_enter(s)
         [] c = "K24" -> Unfinished(arg_backspace(s))
         [] c = "K60" -> Unfinished(reset_arg(s))
         [] OTHER -> Unfinished(s)

-----------------------------------------------------------------------------
(* The prefixes that take one more key                                     *)

CloseGtodot(s) == [s EXCEPT !.gtodot = FALSE, !.digval = 0, !.numdigit = 0]

\* One more digit of GTO . nnn: a step that is complete (third digit, or no
\* room for a fourth) or the longer prefix.
gtodot_digit(s, n) ==
    LET val == s.digval * BASE + n
        count == [s EXCEPT !.numdigit = IF s.numdigit = MAX_DIGITS THEN @ ELSE @ + 1]
    IN IF val > STEPS THEN [s |-> s, pc |-> TRUE]
       ELSE IF count.numdigit = 3 THEN [s |-> count, pc |-> TRUE]
       ELSE [s |-> [count EXCEPT !.digval = val], pc |-> FALSE]

\* Digit 0 completes the number; the digits on register keys (1 to 4 on the
\* DM42) are counted, but a step that they complete is dropped.
process_gtodot(s, c) ==
    LET digit == gtodot_digit(s, Digit(c)) IN
    Unfinished(CASE c = "K61" -> IF digit.pc THEN CloseGtodot(digit.s) ELSE digit.s
                 [] c \in {"K51", "K52"} -> digit.s
                 [] c \in LetterKeys \cup {"K62", "K20", "K40", "K50"} -> CloseGtodot(s)
                 [] c = "K24" -> IF s.numdigit = 0 THEN CloseGtodot(s)
                                 ELSE [s EXCEPT !.numdigit = s.numdigit - 1,
                                                !.digval = s.digval \div BASE]
                 [] OTHER -> s)

\* HYP: a function key, f for the inverse, CPX for the complex function.
process_hyp(s0, c) ==
    LET s == [reset_shift(s0) EXCEPT !.hyp = FALSE, !.cmplx = FALSE, !.dot = FALSE] IN
    CASE c = "K01" -> Result(s, "CMD")
      [] c = "K_CMPLX" -> Unfinished([s EXCEPT !.hyp = TRUE, !.dot = s0.dot, !.cmplx = ~s0.cmplx])
      [] c = "K_F" -> Unfinished([s EXCEPT !.hyp = TRUE, !.dot = ~s0.dot, !.cmplx = s0.cmplx])
      [] OTHER -> Unfinished(s)

\* A comparison: against a lettered register, 0 or 1, or any register.
process_test(s0, c) ==
    LET s == [s0 EXCEPT !.test = FALSE, !.cmplx = FALSE] IN
    CASE c \in {"K61", "K51"} -> Result(s, "CMD")
      [] c = "K00" -> Result(s, "CMD")
      [] c \in {"K01", "K52"} -> IF s0.cmplx THEN Unfinished(s0) ELSE Result(s, "CMD")
      [] c \in {"K_ARROW", "K62"} -> process_arg(init_arg(s, "REG"), c)
      [] c \in {"K11", "K20"} -> Unfinished(init_arg(s, "REG"))
      [] c = "K24" -> Unfinished(s)
      [] OTHER -> Unfinished(s0)

\* Yes is R/S or Y, No is backspace or N; every other key is refused.
process_confirm(s, c) ==
    LET done == IF s.confirm = "reset" /\ c \in {"K52", "K63"} THEN init_state(s) ELSE s IN
    Unfinished(IF c \in {"K52", "K63", "K24", "K22"}
               THEN [done EXCEPT !.confirm = "none", !.digval = 0] ELSE s)

process_status(s, c) == Unfinished(IF c = "K24" THEN [s EXCEPT !.status = FALSE] ELSE s)

process_arrow(s0, c) ==
    LET s == set_menu([reset_shift(s0) EXCEPT !.arrow = FALSE], "Last") IN
    IF s0.shifts # "N" /\ c \in {"K10", "K11"} /\ ~(c = "K11" /\ s0.shifts = "H")
    THEN Result(s, "CMD") ELSE Unfinished(s)

-----------------------------------------------------------------------------
(* Browsers and catalogues                                                 *)

\* Leaving with a command for the program that is shown.
process_labellist(s0, c) ==
    LET s == reset_shift(s0)
        gone == [s EXCEPT !.labellist = FALSE, !.digval = 0]
        sh == s0.shifts
    IN CASE c \in {"K61", "K40", "K50"} /\ sh \in {"N", "F"} -> Unfinished([s EXCEPT !.digval = LABEL])
         [] c = "K61" -> Unfinished([s EXCEPT !.digval = LABEL])
         [] c \in {"K24", "K20"} /\ sh = "N" -> Unfinished(gone)
         [] c = "K24" /\ sh = "F" -> check_confirm(gone, "CLEAR")
         [] c \in {"K10", "K11"} /\ sh = "N" -> Result(gone, "NONPROG")
         [] c = "K05" /\ sh \in {"N", "F"} -> Result(gone, "CMD")
         [] c = "K63" /\ sh = "N" /\ s.runmode -> Result(gone, "RUNNING")
         [] c = "K63" /\ sh = "H" -> Unfinished([gone EXCEPT !.runmode = FALSE])
         [] OTHER -> Unfinished(s)

\* The register shown is digval, among the local registers when local is set;
\* between the allocated registers and the lettered ones nothing is shown.
ShowRegister(s, c) ==
    LET max == IF s.local THEN LOCALS ELSE NUMREG
        dv == (s.digval * BASE) % TOPREALREG
    IN CASE c = "K62" -> LET loc == IF LOCALS > 0 THEN ~s.local ELSE s.local IN
                         [s EXCEPT !.local = loc, !.digval = IF loc THEN 0 ELSE regX_idx]
         [] c = "K61" -> [s EXCEPT !.digval =
                            IF dv >= max \/ (~s.local /\ (s.digval >= GLOBALS \/ dv >= GLOBALS))
                            THEN 0 ELSE dv]
         [] c \in RegisterKeys -> [s EXCEPT !.digval = Register(c)]
         [] c = "K50" -> [s EXCEPT !.digval =
                            IF s.digval = 0 THEN (IF max = 0 THEN NUMREG ELSE max - 1)
                            ELSE (IF ~s.local /\ s.digval = TOPREALREG THEN GLOBALS ELSE s.digval) - 1]
         [] OTHER     -> [s EXCEPT !.digval =
                            IF s.digval + 1 < max
                            THEN IF ~s.local /\ s.digval + 1 = GLOBALS THEN regX_idx ELSE s.digval + 1
                            ELSE 0]

process_registerlist(s0, c) ==
    LET s == reset_shift(s0)
        gone == [s EXCEPT !.registerlist = FALSE, !.digval = 0]
    IN CASE c \in {"K62", "K61", "K40", "K50"} \cup RegisterKeys -> Unfinished(ShowRegister(s, c))
         [] c = "K21" /\ s0.shifts \in {"F", "G"} -> Unfinished(process_cmdline(s))
         [] c = "K24" -> Unfinished(gone)
         [] c \in {"K11", "K20"} /\ s0.shifts = "N" -> Result(gone, "CMD")
         [] OTHER -> Unfinished(s)

\* What an entry of a catalogue leads to when it is accepted.
Accepted(s, cat) ==
    LET shut == init_cat(s, "none") IN
    {Result(shut, "CMD")} \cup
    (IF cat = "chars" THEN {} ELSE
     {Unfinished(shut), Unfinished([shut EXCEPT !.test = TRUE]), Result(shut, "NONPROG")}
     \cup {Unfinished(init_arg(shut, b)) : b \in {"REG", "DISP"}}
     \cup {check_confirm(shut, op) : op \in {"CLEAR", "RESET"}})

\* A set of results: what was accepted depends on the entry that is shown.
process_catalogue(s0, c) ==
    LET s == reset_shift(s0)
        sh == s0.shifts
        cat == s.catalogue
    IN CASE sh = "N" /\ c \in {"K05", "K20"} -> Accepted(s, cat)
         [] sh = "N" /\ c = "K24" /\ s.CmdLine -> {Unfinished(s), Unfinished(process_cmdline(s)), Unfinished(init_cat(s, "none"))}
         [] sh = "N" /\ c \in {"K24", "K60"} -> {Unfinished(init_cat(s, "none"))}
         [] sh = "N" /\ c \in {"K40", "K50"} -> {Unfinished(process_cmdline(s))}
         [] sh = "F" /\ c = "K01" /\ cat = "normal" -> {Result(init_cat(s, "none"), "CMD"), Unfinished(s)}
         [] sh = "G" /\ c = "K24" /\ cat = "normal" -> {Result(init_cat(s, "none"), "CMD"), Unfinished(s)}
         [] OTHER -> {Unfinished(IF HasChar(c, sh) THEN [s EXCEPT !.CmdLine = TRUE] ELSE s)}

-----------------------------------------------------------------------------
(* Characters: the label being entered, and alpha mode                     *)

reset_multi(s) == [s EXCEPT !.multi = FALSE]

\* One more of the three characters of a label.
AddChar(s) ==
    IF s.numdigit < 2
    THEN Unfinished([s EXCEPT !.numdigit = s.numdigit + 1])
    ELSE Result(reset_multi(s), "CMD")

multi_key(s0, c) ==
    LET s == reset_shift(s0)
        sh == s0.shifts
    IN CASE c = "K20" /\ sh = "N" ->
                IF s.numdigit = 0 THEN Unfinished(reset_multi(s)) ELSE Result(reset_multi(s), "CMD")
         [] c = "K24" /\ sh # "H" ->
                Unfinished(IF s.numdigit = 0 THEN reset_multi(s)
                           ELSE [s EXCEPT !.numdigit = s.numdigit - 1])
         [] c = "K60" -> Unfinished(IF sh = "F" THEN s ELSE reset_multi(s))
         [] OTHER -> IF HasChar(c, sh) THEN AddChar(s) ELSE Unfinished(s)

process_multi(s, c) ==
    IF s.catalogue = "none" THEN {multi_key(s, c)}
    ELSE {IF r.op = "UNFINISHED" THEN r ELSE AddChar(r.s) : r \in process_catalogue(s, c)}

process_alpha(s0, c) ==
    LET s == reset_shift(s0)
        sh == s0.shifts
    IN CASE c \in {"K10", "K11"} /\ sh = "F" -> Unfinished(init_arg(s, "REG"))
         [] c = "K11" /\ sh = "H" -> Unfinished(init_arg(s, "VIEW"))
         [] c = "K20" /\ sh = "F" /\ ~s.runmode ->
                Unfinished([s EXCEPT !.multi = TRUE, !.numdigit = 0, !.CmdBase = "none"])
         [] c = "K20" /\ sh \in {"N", "F"} -> Unfinished(set_menu([s EXCEPT !.alphas = FALSE], "Last"))
         [] c = "K24" /\ sh = "N" -> Result(s, "BACKSPACE")
         [] c = "K24" /\ sh = "H" -> Result(s, "CMD")
         [] c = "K40" /\ sh = "N" -> IF s.runmode THEN Unfinished(s) ELSE Result(s, "BST")
         [] c = "K50" /\ sh = "N" -> IF s.runmode THEN Unfinished(s) ELSE Result(s, "SST")
         [] c = "K60" /\ sh = "H" -> Result(s, "CMD")
         [] c = "K60" -> Unfinished(IF sh = "N" THEN init_state(set_menu(s, "Last")) ELSE s)
         [] c = "K63" /\ sh = "F" -> Result(s, "RS")
         [] OTHER -> IF HasChar(c, sh) THEN Result(s, "CMD") ELSE Unfinished(s)

-----------------------------------------------------------------------------
(* The keyboard with nothing open                                          *)

process_cmplx(s0, c) ==
    LET s == [reset_shift(s0) EXCEPT !.cmplx = FALSE]
        sh == s0.shifts
    IN CASE (c \in {"K10", "K11"} /\ sh = "N") \/ (c \in {"K11", "K21"} /\ sh = "H") ->
                Unfinished(init_arg(s, "CSTO"))
         [] c = "K00" -> Unfinished([process_cmdline(s) EXCEPT
                             !.hyp = TRUE, !.cmplx = TRUE, !.dot = (sh \in {"N", "F"})])
         [] c = "K_CMPLX" -> Unfinished(set_shift(s, sh))
         [] c = "K51" /\ sh \in {"F", "G"} ->
                Unfinished([process_cmdline(s) EXCEPT !.test = TRUE, !.cmplx = TRUE])
         [] c = "K60" /\ sh = "H" -> Result(init_state(s), "CMD")
         [] c = "K60" /\ sh # "N" -> Unfinished(init_state(s))
         [] c \in DigitKeys \cup {"K01", "K62", "K64"} /\ sh = "N" -> Result(s, "CMD")
         [] c \in {"K01", "K30", "K61", "K62"} /\ sh \in {"F", "G"} -> Result(s, "CMD")
         [] c \in {"K20", "K21", "K22", "K63"} /\ sh = "N" -> Result(s, "CMD")
         [] c = "K20" /\ sh \in {"G", "H"} -> Result(s, "CMD")
         [] c = "K22" /\ sh = "H" -> Result(s, "CMD")
         [] OTHER -> Unfinished(s)

process_normal(s, c) ==
    CASE c \in {"K00", "K01", "K21", "K64"} -> Result(s, "CMD")
      [] c = "K_ARROW" -> Unfinished(set_menu([process_cmdline(s) EXCEPT !.arrow = TRUE], "Arrow"))
      [] c = "K_CMPLX" -> Unfinished([s EXCEPT !.cmplx = TRUE])
      [] c = "K24" -> Result(s, IF s.runmode THEN "DATA" ELSE "BACKSPACE")
      [] c \in {"K10", "K11"} -> Unfinished(init_arg(s, "STO"))
      [] c = "K30" -> Unfinished(init_arg(s, "GTO"))
      [] c = "K40" -> Result(s, "BST")
      [] c = "K50" -> Result(s, "SST")
      [] c \in DigitKeys \cup {"K20", "K22", "K62"} -> Result(s, "DATA")
      [] c = "K63" -> Result(s, "RS")
      [] OTHER -> Unfinished(s)

process_fg_shifted(s0, c) ==
    LET s == reset_shift(s0)
        sh == s0.shifts
    IN CASE c = "K00" -> Unfinished([s EXCEPT !.hyp = TRUE, !.dot = (sh = "F")])
         [] c = "K20" /\ sh = "F" ->
                Unfinished(set_menu([process_cmdline(s) EXCEPT !.alphas = TRUE], "Alpha"))
         [] c = "K21" -> Result(s, "WINDOW")
         [] c = "K24" /\ sh = "F" -> check_confirm(s, "CLEAR")
         [] c = "K51" -> Unfinished([process_cmdline(s) EXCEPT !.test = TRUE])
         [] c \in {"K50", "K64"} -> Unfinished(init_arg(s, "REG"))
         [] c = "K52" -> Unfinished(init_arg(s, "GTO"))
         [] c = "K63" /\ sh = "F" -> Unfinished(init_arg(s, "GTO"))
         [] c \in {"K60", "K_CMPLX"} -> Unfinished(s)
         [] OTHER -> Result(s, "CMD")

process_h_shifted(s0, c) ==
    LET s == reset_shift(s0) IN
    CASE c \in {"K00", "K01", "K61"} -> Unfinished(init_arg(s, "DISP"))
      [] c = "K11" -> Unfinished(init_arg(s, "VIEW"))
      [] c = "K21" -> Unfinished(init_arg(s, "REG"))
      [] c = "K30" -> Unfinished(init_arg(s, "GTO"))
      [] c = "K63" -> Unfinished([process_cmdline(s) EXCEPT !.runmode = ~s.runmode])
      [] c \in {"K05", "K10", "K20", "K50", "K51", "K52"} -> Unfinished(s)
      [] OTHER -> Result(s, "CMD")

-----------------------------------------------------------------------------
(* The order of the modes                                                  *)

\* The catalogue that a key opens.
keycode_to_cat(s, c) ==
    LET sh == s.shifts
        normal == IF s.cmplx THEN "complex" ELSE "normal"
    IN IF ~s.alphas /\ ~s.multi
       THEN CASE c = "K60" /\ sh = "G" -> "registers"
              [] c = "K10" /\ sh = "H" -> IF s.cmplx THEN "complex" ELSE "labels"
              [] c = "K50" /\ sh = "H" -> "status"
              [] c \in {"K05", "K51", "K52"} /\ sh = "H" -> "normal"
              [] c = "K20" /\ sh = "H" -> normal
              [] OTHER -> "none"
       ELSE CASE c \in {"K05", "K_ARROW", "K_CMPLX"} /\ sh = "G" -> "chars"
              [] c \in {"K51", "K62"} /\ sh = "H" -> "chars"
              [] c \in {"K05", "K_CMPLX"} /\ sh = "H" /\ ~s.multi -> "normal"
              [] OTHER -> "none"

\* With nothing open that takes keys: the table for the shift.
Unprefixed(s, c) ==
    CASE s.cmplx -> process_cmplx(s, c)
      [] s.shifts \in {"F", "G"} /\ ~s.cmplx -> process_fg_shifted(s, c)
      [] s.shifts = "H" /\ ~s.cmplx -> process_h_shifted(s, c)
      [] OTHER -> process_normal(s, c)

Exits(s, c) ==
    c = "K60" /\ s.shifts = "N" /\ s.catalogue = "none" /\ ~s.arrow /\ ~s.alphas

\* What a key may do while no program runs, as a set of results.
process(s, c) ==
    LET cat == keycode_to_cat(s, c) IN
    CASE Exits(s, c)          -> {Unfinished(soft_init_state(s))}
      [] ~Exits(s, c) /\ s.confirm # "none" -> {process_confirm(s, c)}
      [] OTHER ->
    IF s.rarg THEN {process_arg(s, c)}
    ELSE IF s.gtodot THEN {process_gtodot(s, c)}
    ELSE IF s.hyp THEN {process_hyp(s, c)}
    ELSE IF s.test THEN {process_test(s, c)}
    ELSE IF s.status THEN {process_status(s, c)}
    ELSE IF c = "K_F" THEN {Unfinished(toggle_shift(s, "F"))}
    ELSE IF c = "K_G" THEN {Unfinished(toggle_shift(s, "G"))}
    ELSE IF c = "K_H" THEN {Unfinished([toggle_shift(s, "H") EXCEPT !.arrow = FALSE])}
    ELSE IF s.arrow THEN {process_arrow(s, c)}
    ELSE IF cat # "none" THEN {Unfinished(init_cat(s, cat))}
    ELSE IF s.multi THEN process_multi(s, c)
    ELSE IF s.labellist THEN {process_labellist(s, c)}
    ELSE IF s.registerlist THEN {process_registerlist(s, c)}
    ELSE IF s.catalogue # "none" THEN process_catalogue(s, c)
    ELSE IF s.alphas THEN {process_alpha(s, c)}
    ELSE {Unprefixed(s, c)}

-----------------------------------------------------------------------------
(* Key presses                                                             *)

get_alpha_state(s) ==
    \/ s.alphas \/ s.rarg \/ s.registerlist \/ s.multi \/ s.labellist
    \/ s.gtodot \/ s.status \/ s.test
    \/ s.confirm # "none" \/ s.catalogue # "none"

\* The DM42 keys for each shift (keytran.c): key and shift of the WP 34S.
Unshifted == (Keys \ {"K05"}) \X {"N"} \cup {<<"K30", "G">>, <<"K01", "F">>}
FShifted == {<<"K30", "F">>, <<"K30", "H">>, <<"K01", "G">>, <<"K20", "F">>, <<"K40", "N">>,
             <<"K50", "N">>, <<"K52", "F">>, <<"K52", "H">>, <<"K60", "H">>, <<"K21", "F">>,
             <<"K63", "H">>, <<"K10", "H">>, <<"K_CMPLX", "N">>}
GShifted == {<<"K64", "H">>, <<"K11", "H">>, <<"K20", "G">>, <<"K05", "H">>, <<"K20", "H">>,
             <<"K51", "H">>, <<"K60", "G">>, <<"K50", "H">>}

\* The soft keys of the menus that stand for keys (menu.c).
SoftPairs(m) ==
    CASE m = "Other" -> {<<"K01", "H">>, <<"K24", "F">>, <<"K51", "F">>, <<"K63", "F">>, <<"K00", "G">>}
      [] m = "Arrow" -> {<<"K22", "F">>, <<"K22", "G">>, <<"K10", "F">>, <<"K10", "G">>,
                         <<"K11", "F">>, <<"K11", "G">>}
      [] OTHER       -> {}
ArrowKeys == {"K_ARROW", "K_CMPLX"}

\* remap: the keys that the keyboard can send now, with the shift they set.
remap(s) ==
    LET sh == s.shifts
        same(ks) == ks \X {sh}
        soft == IF sh \in {"N", "F"} THEN SoftPairs(s.menu) ELSE {}
    IN IF get_alpha_state(s)
       THEN same(Keys \cup ArrowKeys) \cup soft \cup
            {CASE sh = "N" -> <<"K_F", "N">> [] sh = "F" -> <<"K_G", "F">> [] OTHER -> <<"K_H", sh>>}
       ELSE CASE sh = "N" -> Unshifted \cup soft \cup same(ArrowKeys) \cup {<<"K_F", "N">>}
              [] sh = "F" -> FShifted \cup soft \cup {<<"K_G", "N">>}
              [] sh = "G" -> GShifted \cup {<<"K_G", "G">>}
              \* no table: the number of the DM42 key is taken for a key code
              [] sh = "H" -> Keys \X {"N"}

\* What process_keycode does with the result of a key: data entry is dealt
\* with at once, a command waits for the key to come up or becomes a step.
Decode(r) ==
    LET waits == r.op \in {"SST", "NONPROG"} \/ (r.s.runmode /\ r.op \in {"CMD", "RS"}) IN
    /\ OpCode' = IF waits THEN "CMD" ELSE "none"
    /\ IF r.op = "DATA" /\ r.s.runmode
       THEN \E line \in BOOLEAN : State2' = [r.s EXCEPT !.CmdLine = line]
       ELSE State2' = r.s

Press ==
    /\ OpCode = "none"
    /\ \E k \in remap(State2) :
       \E r \in process(set_shift(State2, k[2]), k[1]) : Decode(r)

\* A soft key with an op-code of its own bypasses the modes: complete, to be
\* confirmed, with an argument or a label still to come, or a comparison.
SoftResults(s) ==
    {Result(s, "CMD")} \cup
    (CASE s.menu = "Alpha" -> {Unfinished(init_arg(s, "REG"))}
       [] s.menu = "Other" ->
            {check_confirm(s, "CLEAR"), Result(s, "NONPROG"), Unfinished([s EXCEPT !.test = TRUE]),
             Unfinished([init_arg(s, "GTO") EXCEPT !.multi = TRUE, !.rarg = FALSE])}
            \cup {Unfinished(init_arg(s, b)) : b \in {"REG", "DISP", "SHUFFLE"}}
       [] OTHER -> {})

SoftCommand ==
    /\ OpCode = "none"
    /\ State2.shifts \in {"N", "F"}
    /\ State2.menu \in {"Other", "Alpha"}
    /\ \E r \in SoftResults(reset_shift(State2)) : Decode(r)

SetMenu ==
    /\ OpCode = "none"
    /\ ~get_alpha_state(State2)
    /\ State2.shifts \in {"F", "G"}
    /\ \E m \in {"Other", "Last"} :
          /\ m = "Last" => State2.shifts = "F"
          /\ State2' = set_menu(reset_shift(State2), m)
    /\ UNCHANGED OpCode

\* The key comes up: the command runs; alpha mode is one it may switch.
Executed ==
    /\ OpCode = "CMD"
    /\ OpCode' = "none"
    /\ \E a \in BOOLEAN : State2' = [State2 EXCEPT !.alphas = a, !.CmdLine = FALSE]

Init ==
    /\ State2 = init_state([menu |-> "Main", last_menu |-> "Main"])
    /\ OpCode = "none"

Next == Press \/ SoftCommand \/ SetMenu \/ Executed

Spec == Init /\ [][Next]_vars

-----------------------------------------------------------------------------
(* Properties                                                              *)

\* While an argument or a step number is entered, the number typed has no
\* more digits than are counted, so that backspace takes all of it away
\* again, whatever browser, soft key or question came in between (digval and
\* numdigit are shared by all of them).
DigitsAgree ==
    State2.rarg \/ State2.gtodot =>
        State2.digval < Power(IF State2.shuffle THEN 4 ELSE BASE)[State2.numdigit]

\* What is open and has to be left before the keys have their own meaning.
Open(s) ==
    {f \in Modes \cup {"CmdLine"} : s[f]}
    \cup (IF s.confirm = "none" THEN {} ELSE {"confirm"})
    \cup (IF s.catalogue = "none" THEN {} ELSE {"catalogue"})
    \cup (IF s.runmode THEN {} ELSE {"programming"})

\* EXIT leads out: it leaves at least one open thing whenever there is one,
\* and opens nothing (the "reset sequence common across all modes").  Not so
\* in alpha mode, and with a catalogue or the arrow prefix open behind what a
\* soft key opened: there EXIT goes to handlers that may ignore it.
ExitLeaves ==
    State2.shifts = "N" /\ ~State2.alphas /\ Open(State2) # {}
    /\ (Open(State2) \cap {"catalogue", "arrow"} # {} =>
            Open(State2) \subseteq {"catalogue", "arrow", "CmdLine", "multi", "cmplx", "programming"})
    => \A r \in process(State2, "K60") :
          Open(r.s) \subseteq Open(State2) /\ Open(r.s) # Open(State2)

\* The arrow menu is shown only while the arrow prefix waits for its key, and
\* it is never the menu to go back to: whatever is pressed in between, the
\* user finds the menu that was there before.
MenusAgree ==
    /\ State2.last_menu \notin {"Arrow", "Alpha"}
    /\ State2.menu = "Arrow" => State2.arrow
=============================================================================
