----------------------------- MODULE Keys_proofs -----------------------------
(***************************************************************************)
(* What the keyboard keeps in any mode, for any base, any numbers of         *)
(* registers and any size of program memory: typed digits can be taken back, *)
(* the arrow menu is shown only while its key is awaited, and EXIT leads out. *)
(***************************************************************************)
EXTENDS Keys, WellFoundedInduction, TLAPS

(* The number that is typed has the digits that are counted.                 *)
Numbers(s) ==
    /\ DOMAIN s = Fields /\ s.shifts \in Shifts
    /\ s.digval \in Nat /\ s.numdigit \in Nat
    /\ s.shuffle => s.rarg
    /\ s.rarg \/ s.gtodot => s.digval < Power(IF s.shuffle THEN 4 ELSE BASE)[s.numdigit]

(* The entry state with the arrow menu away ...                              *)
Settled(s) ==
    /\ Numbers(s)
    /\ s.last_menu \notin {"Arrow", "Alpha"}
    /\ s.menu # "Arrow"

(* ... and with it shown: then nothing is open but the arrow prefix.         *)
AwaitsArrow(s) ==
    /\ Numbers(s)
    /\ s.last_menu \notin {"Arrow", "Alpha"}
    /\ s.menu = "Arrow" /\ s.arrow
    /\ ~get_alpha_state(s) /\ ~s.hyp

(* What a key leads to: where the arrow is awaited, no command waits.         *)
Fits(r) == Settled(r.s) \/ (AwaitsArrow(r.s) /\ r.op = "UNFINISHED")

(* The inductive invariant.                                                  *)
KeysInv == Settled(State2) \/ (AwaitsArrow(State2) /\ OpCode = "none")

-----------------------------------------------------------------------------
(* Powers                                                                    *)

LEMMA LeastMember ==
    ASSUME NEW T \in SUBSET Nat, T # {}
    PROVE  \E x \in T : \A y \in T : x <= y
<1> DEFINE R == OpToRel(<, Nat)
<1>1. IsWellFoundedOn(R, Nat)
  BY NatLessThanWellFounded
<1>2. \A x, y \in Nat : y < x => << y, x >> \in R
  BY DEF OpToRel
<1> HIDE DEF R
<1>3. PICK x \in T : \A y \in T : << y, x >> \notin R
  BY <1>1, WFMin
<1>4. ASSUME NEW y \in T PROVE x <= y
  <2>1. x \in Nat /\ y \in Nat
    OBVIOUS
  <2>2. ~ (y < x)
    BY <2>1, <1>2, <1>3, Zenon
  <2> QED BY <2>1, <2>2
<1> QED BY <1>4

LEMMA PowerStep ==
    ASSUME NEW b \in Nat, NEW n \in Nat
    PROVE  Power(b)[n] = IF n = 0 THEN 1 ELSE b * Power(b)[n - 1]
<1>1. Power(b) = [i \in Nat |-> IF i = 0 THEN 1 ELSE b * Power(b)[i - 1]]
  BY DEF Power
<1> HIDE DEF Power
<1> DEFINE P == Power(b)
<1>2. P = [i \in Nat |-> IF i = 0 THEN 1 ELSE b * P[i - 1]]
  BY <1>1
<1> HIDE DEF P
<1>3. P[n] = IF n = 0 THEN 1 ELSE b * P[n - 1]
  BY <1>2
<1> QED BY <1>3 DEF P

LEMMA PowerPositive ==
    ASSUME NEW b \in Nat \ {0}, NEW n \in Nat
    PROVE  Power(b)[n] \in Nat \ {0}
<1> DEFINE T == {i \in Nat : Power(b)[i] \notin Nat \ {0}}
<1>1. T = {}
  <2> SUFFICES ASSUME T # {} PROVE FALSE
    OBVIOUS
  <2>1. PICK i \in T : \A j \in T : i <= j
    <3>1. T \in SUBSET Nat
      OBVIOUS
    <3> HIDE DEF T
    <3> QED BY <3>1, LeastMember
  <2>2. Power(b)[i] = IF i = 0 THEN 1 ELSE b * Power(b)[i - 1]
    BY PowerStep
  <2>3. i # 0 /\ i \in Nat
    BY <2>2
  <2>4. Power(b)[i - 1] \in Nat \ {0}
    BY <2>1, <2>3
  <2>5. \A p \in Nat \ {0} : b * p \in Nat \ {0}
    OBVIOUS
  <2> QED BY <2>1, <2>2, <2>3, <2>4, <2>5
<1> QED BY <1>1

(* One digit more and one digit less.                                        *)
LEMMA DigitMore ==
    ASSUME NEW b \in Nat \ {0}, NEW n \in Nat, NEW v \in Nat, v < Power(b)[n],
           NEW d \in 0 .. b - 1
    PROVE  v * b + d \in Nat /\ v * b + d < Power(b)[n + 1] /\ v < Power(b)[n + 1]
<1> DEFINE p == Power(b)[n]
           q == Power(b)[n + 1]
<1>1. p \in Nat \ {0}
  BY PowerPositive
<1>2. q = b * p
  BY PowerStep, n + 1 # 0, (n + 1) - 1 = n
<1> HIDE DEF p, q
<1>3. v < p
  BY DEF p
<1>4. v * b + b <= p * b /\ v * b >= v
  BY <1>1, <1>3
<1>5. v * b + d < q /\ v < q
  BY <1>1, <1>2, <1>4, <1>3
<1> QED BY <1>5, <1>4 DEF q

LEMMA DigitLess ==
    ASSUME NEW b \in Nat \ {0}, NEW n \in Nat \ {0}, NEW v \in Nat, v < Power(b)[n]
    PROVE  v \div b \in Nat /\ v \div b < Power(b)[n - 1]
<1> DEFINE p == Power(b)[n - 1]
           w == v \div b
<1>1. p \in Nat
  BY PowerPositive
<1>2. v < b * p
  BY PowerStep
<1>3. w \in Nat /\ b * w <= v
  OBVIOUS
<1> HIDE DEF p, w
<1>4. w < p
  <2> SUFFICES ASSUME w >= p PROVE FALSE
    BY <1>1, <1>3
  <2>1. b * w >= b * p
    BY <1>1, <1>3
  <2> QED BY <1>1, <1>2, <1>3, <2>1
<1> QED BY <1>3, <1>4 DEF p, w

-----------------------------------------------------------------------------
(* The helpers                                                               *)

(* A number of no digits is 0.                                               *)
LEMMA NoDigits ==
    0 < Power(4)[0] /\ 0 < Power(BASE)[0]
BY KeysAssumption, PowerPositive

LEMMA ArgumentBegins ==
    ASSUME NEW s, Settled(s), NEW base
    PROVE  Settled(init_arg(s, base)) /\ Settled(reset_arg(s))
BY NoDigits DEF Settled, Numbers, Fields, Flags, Modes, Shifts, init_arg, reset_arg

LEMMA FreshStart ==
    ASSUME NEW s, Settled(s)
    PROVE  Settled(init_state(s))
<1> DEFINE t == init_state(s)
<1>1. /\ DOMAIN t = Fields
      /\ t.menu = s.menu /\ t.last_menu = s.last_menu
      /\ t.digval = 0 /\ t.numdigit = 0 /\ t.shifts = "N"
  BY DEF init_state, Fields, Flags, Modes, Shifts
<1>2. ~ t.shuffle /\ ~ t.rarg /\ ~ t.gtodot
  BY DEF init_state, Fields, Flags, Modes, Shifts
<1> HIDE DEF t
<1> QED BY <1>1, <1>2 DEF Settled, Numbers, Shifts, t

LEMMA SoftStart ==
    ASSUME NEW s, Settled(s)
    PROVE  Settled(soft_init_state(s))
<1>1. Settled(init_state(s))
  BY FreshStart
<1> HIDE DEF init_state
<1>2. Settled([init_state(s) EXCEPT !.runmode = s.runmode, !.alphas = s.alphas])
  BY <1>1 DEF Settled, Numbers, Fields, Flags, Modes, Shifts
<1>3. Settled([s EXCEPT !.CmdLine = FALSE])
  BY DEF Settled, Numbers, Fields, Flags, Modes, Shifts
<1> QED BY <1>1, <1>2, <1>3 DEF soft_init_state

(* What leaves the number and the menus alone: the shift, the command line,   *)
(* a question, a mode that is opened or closed.                              *)
LEMMA LeftAlone ==
    ASSUME NEW s, Settled(s), NEW v
    PROVE  /\ v \in Shifts => Settled(set_shift(s, v)) /\ Settled(toggle_shift(s, v))
           /\ Settled(reset_shift(s))
           /\ Settled(process_cmdline(s)) /\ Settled([s EXCEPT !.CmdLine = v])
           /\ Settled(reset_multi(s)) /\ Settled([s EXCEPT !.multi = v])
           /\ Settled([s EXCEPT !.test = v]) /\ Settled([s EXCEPT !.status = v])
           /\ Settled([s EXCEPT !.cmplx = v]) /\ Settled([s EXCEPT !.arrow = v])
           /\ Settled([s EXCEPT !.alphas = v]) /\ Settled([s EXCEPT !.runmode = v])
           /\ Settled([s EXCEPT !.confirm = v])
BY DEF Settled, Numbers, Fields, Flags, Modes, Shifts, set_shift, reset_shift, toggle_shift,
       process_cmdline, reset_multi

LEMMA MenuChanges ==
    ASSUME NEW s, Settled(s)
    PROVE  /\ Settled(set_menu(s, "Last")) /\ Settled(set_menu(s, "Other"))
           /\ Settled(set_menu(s, "Alpha"))
BY DEF Settled, Numbers, Fields, Flags, Modes, Shifts, set_menu

(* A browser is opened only where no number is typed.                         *)
LEMMA CatalogueOpens ==
    ASSUME NEW s, Settled(s), ~s.rarg, ~s.gtodot, NEW cat
    PROVE  Settled(init_cat(s, cat)) /\ ~ init_cat(s, cat).rarg /\ ~ init_cat(s, cat).gtodot
BY KeysAssumption
   DEF Settled, Numbers, Fields, Flags, Modes, Shifts, init_cat, process_cmdline,
       TOPREALREG, NUMREG, regX_idx, LABEL

LEMMA Asked ==
    ASSUME NEW s, Settled(s), NEW op
    PROVE  Settled(check_confirm(s, op).s)
BY LeftAlone DEF check_confirm, Result, Unfinished

-----------------------------------------------------------------------------
(* An argument                                                               *)

LEMMA ArgumentEnds ==
    ASSUME NEW s, Settled(s), NEW val
    PROVE  Settled(arg_eval(s, val).s)
BY ArgumentBegins DEF arg_eval, Result, Unfinished

LEMMA ArgumentDigit ==
    ASSUME NEW s, Settled(s), s.rarg, ~s.shuffle, NEW n \in 0 .. 2
    PROVE  Settled(arg_digit(s, n).s)
<1> DEFINE val == s.digval * BASE + n
           typed == [s EXCEPT !.digval = val, !.numdigit = s.numdigit + 1]
           res == arg_eval(typed, val)
<1>1. val \in Nat /\ val < Power(BASE)[s.numdigit + 1]
  <2>1. BASE \in Nat \ {0} /\ n \in 0 .. BASE - 1
    BY KeysAssumption
  <2>2. s.digval \in Nat /\ s.numdigit \in Nat /\ s.digval < Power(BASE)[s.numdigit]
    BY DEF Settled, Numbers
  <2> QED BY <2>1, <2>2, DigitMore
<1>2. Settled(typed)
  <2> HIDE DEF val
  <2> QED BY <1>1 DEF Settled, Numbers, Fields, Flags, Modes, Shifts
<1>3. Settled(res.s)
  BY <1>2, ArgumentEnds
<1>4. arg_digit(s, n).s \in {s, typed, res.s}
  BY Zenon DEF arg_digit, Result, Unfinished
<1> QED BY <1>2, <1>3, <1>4

LEMMA ArgumentRegister ==
    ASSUME NEW s, Settled(s), s.rarg, s.shuffle, NEW r \in 0 .. 3
    PROVE  Settled(process_arg_shuffle(s, r).s)
<1> DEFINE val == s.digval + r * Power(4)[s.numdigit]
           next == [s EXCEPT !.numdigit = s.numdigit + 1, !.digval = val]
<1>1. val \in Nat /\ val < Power(4)[s.numdigit + 1]
  <2>1. Power(4)[s.numdigit + 1] = 4 * Power(4)[s.numdigit]
    BY PowerStep DEF Settled, Numbers
  <2>2. Power(4)[s.numdigit] \in Nat
    BY PowerPositive DEF Settled, Numbers
  <2>3. s.digval \in Nat /\ s.digval < Power(4)[s.numdigit]
    BY DEF Settled, Numbers
  <2>4. r = 0 \/ r = 1 \/ r = 2 \/ r = 3
    OBVIOUS
  <2> DEFINE p == Power(4)[s.numdigit]
             v == s.digval
  <2>5. val = v + r * p /\ Power(4)[s.numdigit + 1] = 4 * p /\ p \in Nat /\ v \in Nat /\ v < p
    BY <2>1, <2>2, <2>3
  <2> HIDE DEF p, v, val
  <2> QED BY <2>4, <2>5
<1>2. Settled(next)
  <2> HIDE DEF val
  <2> QED BY <1>1 DEF Settled, Numbers, Fields, Flags, Modes, Shifts
<1>3. process_arg_shuffle(s, r).s \in {next, arg_eval(next, next.digval).s}
  BY Zenon DEF process_arg_shuffle, Result, Unfinished
<1> QED BY <1>2, <1>3, ArgumentEnds

LEMMA ArgumentDot ==
    ASSUME NEW s, Settled(s)
    PROVE  Settled(process_arg_dot(s).s)
<1>1. Settled([s EXCEPT !.local = TRUE]) /\ Settled([s EXCEPT !.local = FALSE])
  BY DEF Settled, Numbers, Fields, Flags, Modes, Shifts
<1>2. Settled([reset_arg(s) EXCEPT !.gtodot = TRUE])
  BY NoDigits DEF Settled, Numbers, Fields, Flags, Modes, Shifts, reset_arg, init_arg
<1> QED BY <1>1, <1>2, ArgumentEnds DEF process_arg_dot, Result, Unfinished

LEMMA ArgumentEnter ==
    ASSUME NEW s, Settled(s)
    PROVE  Settled(arg_enter(s).s)
<1>1. ASSUME s.CmdBase \in Labelled
      PROVE  Settled([init_arg(s, s.CmdBase) EXCEPT !.multi = TRUE, !.rarg = FALSE])
  BY <1>1, NoDigits DEF Settled, Numbers, Fields, Flags, Modes, Shifts, init_arg, Labelled
<1>2. \A v : Settled([s EXCEPT !.dot = v])
  BY DEF Settled, Numbers, Fields, Flags, Modes, Shifts
<1> QED BY <1>1, <1>2, ArgumentBegins, ArgumentEnds DEF arg_enter, Result, Unfinished

(* Backspace takes back a digit, a register of a permutation or a prefix.     *)
LEMMA ArgumentBackspace ==
    ASSUME NEW s, Settled(s), s.rarg
    PROVE  Settled(arg_backspace(s))
<1> DEFINE b == IF s.shuffle THEN 4 ELSE BASE
           n == s.numdigit - 1
           val == IF s.shuffle THEN s.digval % Power(4)[n] ELSE s.digval \div BASE
<1>1. ASSUME s.numdigit > 0
      PROVE  Settled([s EXCEPT !.numdigit = n, !.digval = val])
  <2>1. n \in Nat /\ b \in Nat \ {0} /\ s.digval \in Nat /\ s.digval < Power(b)[s.numdigit]
    BY <1>1, KeysAssumption DEF Settled, Numbers
  <2>2. val \in Nat /\ val < Power(b)[n]
    <3>1. CASE s.shuffle
      <4>1. Power(4)[n] \in Nat \ {0}
        BY <2>1, PowerPositive
      <4> QED BY <2>1, <3>1, <4>1
    <3>2. CASE ~ s.shuffle
      <4>1. /\ BASE \in Nat \ {0} /\ s.numdigit \in Nat \ {0}
            /\ s.digval \in Nat /\ s.digval < Power(BASE)[s.numdigit]
        BY <1>1, <2>1, <3>2 DEF Settled, Numbers
      <4>2. s.digval \div BASE \in Nat /\ s.digval \div BASE < Power(BASE)[n]
        BY <4>1, DigitLess
      <4> QED BY <3>2, <4>2
    <3> QED BY <3>1, <3>2
  <2> HIDE DEF val, n
  <2> QED BY <2>1, <2>2 DEF Settled, Numbers, Fields, Flags, Modes, Shifts
<1>2. Settled([s EXCEPT !.dot = FALSE]) /\ Settled([s EXCEPT !.local = FALSE])
      /\ Settled([s EXCEPT !.ind = FALSE])
  BY DEF Settled, Numbers, Fields, Flags, Modes, Shifts
<1>3. s.numdigit \in Nat
  BY DEF Settled, Numbers
<1> HIDE DEF val, n
<1>4. Settled(reset_arg(s))
  BY ArgumentBegins
<1> QED BY <1>1, <1>2, <1>3, <1>4 DEF arg_backspace, val, n

(* Any key while an argument is entered.                                     *)
LEMMA ArgumentKey ==
    ASSUME NEW s, Settled(s), s.rarg, NEW c
    PROVE  Settled(process_arg(s, c).s)
<1> DEFINE t == reset_shift(s)
<1>1. Settled(t) /\ t.rarg
  BY DEF Settled, Numbers, Fields, Flags, Modes, Shifts, reset_shift, set_shift
<1>2. /\ \A v \in Shifts : Settled(set_shift(t, v))
      /\ \A v : Settled([t EXCEPT !.ind = v]) /\ Settled([t EXCEPT !.CmdBase = v])
  BY <1>1 DEF Settled, Numbers, Fields, Flags, Modes, Shifts, set_shift
<1>3. /\ \A v : Settled(arg_eval(t, v).s)
      /\ ~ t.shuffle => \A n \in 0 .. 2 : Settled(arg_digit(t, n).s)
      /\ t.shuffle => \A r \in 0 .. 3 : Settled(process_arg_shuffle(t, r).s)
      /\ Settled(process_arg_dot(t).s) /\ Settled(arg_enter(t).s)
      /\ Settled(arg_backspace(t)) /\ Settled(reset_arg(t))
  BY <1>1, ArgumentEnds, ArgumentDigit, ArgumentRegister, ArgumentDot, ArgumentEnter,
     ArgumentBackspace, ArgumentBegins
<1>4. Settled(arg_fkey(t).s)
  BY <1>1, <1>3 DEF arg_fkey, Unfinished, Result
<1>5. c \in DigitKeys => Digit(c) \in 0 .. 2
  BY DEF DigitKeys, Digit
<1>6. c \in {"K51", "K52"} => Digit(c) - 1 \in 0 .. 3
  BY DEF Digit
<1> HIDE DEF t, Settled
<1> QED BY <1>1, <1>2, <1>3, <1>4, <1>5, <1>6 DEF process_arg, Unfinished, Result, Shifts, t

-----------------------------------------------------------------------------
(* The prefixes                                                              *)

(* A digit of GTO . is part of the number or dropped, but counted.            *)
LEMMA StepDigit ==
    ASSUME NEW s, Settled(s), s.gtodot, ~s.rarg, NEW n \in 0 .. 2
    PROVE  Settled(gtodot_digit(s, n).s)
<1> DEFINE val == s.digval * BASE + n
           more == IF s.numdigit = MAX_DIGITS THEN s.numdigit ELSE s.numdigit + 1
           count == [s EXCEPT !.numdigit = more]
           typed == [count EXCEPT !.digval = val]
<1>1. /\ s.digval \in Nat /\ s.numdigit \in Nat /\ ~ s.shuffle
      /\ s.digval < Power(BASE)[s.numdigit]
  BY DEF Settled, Numbers
<1>2. /\ val \in Nat /\ val < Power(BASE)[s.numdigit + 1]
      /\ s.digval < Power(BASE)[s.numdigit + 1]
  <2>1. BASE \in Nat \ {0} /\ n \in 0 .. BASE - 1
    BY KeysAssumption
  <2> QED BY <1>1, <2>1, DigitMore
<1>3. more \in Nat /\ s.digval < Power(BASE)[more]
  <2>1. CASE s.numdigit = MAX_DIGITS
    <3>1. more = s.numdigit
      BY <2>1
    <3> HIDE DEF more, val
    <3> QED BY <1>1, <3>1
  <2>2. CASE s.numdigit # MAX_DIGITS
    <3>1. more = s.numdigit + 1
      BY <2>2
    <3> HIDE DEF more, val
    <3> QED BY <1>1, <1>2, <3>1
  <2> QED BY <2>1, <2>2
<1>4. val <= STEPS => val < Power(BASE)[more]
  <2>1. Power(BASE)[MAX_DIGITS] \in Nat
    BY PowerPositive, KeysAssumption
  <2> HIDE DEF val
  <2> QED BY <1>1, <1>2, <2>1, KeysAssumption
<1> HIDE DEF val, more
<1>5. Settled(count)
  BY <1>1, <1>3 DEF Settled, Numbers, Fields, Flags, Modes, Shifts
<1>6. val <= STEPS => Settled(typed)
  BY <1>1, <1>2, <1>3, <1>4 DEF Settled, Numbers, Fields, Flags, Modes, Shifts
<1>7. count = [s EXCEPT !.numdigit = IF s.numdigit = MAX_DIGITS THEN @ ELSE @ + 1]
  BY DEF more
<1> HIDE DEF count, typed
<1>8. val \in Nat /\ STEPS \in Nat
  BY <1>2, KeysAssumption
<1>9. gtodot_digit(s, n).s = s \/ gtodot_digit(s, n).s = count
      \/ (val <= STEPS /\ gtodot_digit(s, n).s = typed)
  BY <1>7, <1>8 DEF gtodot_digit, typed, val
<1> QED BY <1>5, <1>6, <1>9

LEMMA StepNumberKey ==
    ASSUME NEW s, Settled(s), s.gtodot, ~s.rarg, NEW c
    PROVE  Settled(process_gtodot(s, c).s)
<1>1. ASSUME NEW t, Settled(t)
      PROVE  Settled(CloseGtodot(t))
  BY <1>1, NoDigits DEF Settled, Numbers, Fields, Flags, Modes, Shifts, CloseGtodot
<1>2. c \in {"K61", "K51", "K52"} => Settled(gtodot_digit(s, Digit(c)).s)
  <2>1. c \in {"K61", "K51", "K52"} => Digit(c) \in 0 .. 2
    BY DEF Digit
  <2> QED BY <2>1, StepDigit
<1>3. s.numdigit # 0 => Settled([s EXCEPT !.numdigit = s.numdigit - 1,
                                          !.digval = s.digval \div BASE])
  <2>1. /\ s.digval \in Nat /\ s.numdigit \in Nat /\ ~ s.shuffle
        /\ s.digval < Power(BASE)[s.numdigit]
    BY DEF Settled, Numbers
  <2>2. s.numdigit # 0 => /\ s.digval \div BASE \in Nat
                          /\ s.digval \div BASE < Power(BASE)[s.numdigit - 1]
    <3> SUFFICES ASSUME s.numdigit # 0
                 PROVE  /\ s.digval \div BASE \in Nat
                        /\ s.digval \div BASE < Power(BASE)[s.numdigit - 1]
      OBVIOUS
    <3>1. BASE \in Nat \ {0} /\ s.numdigit \in Nat \ {0}
      BY <2>1, KeysAssumption
    <3> QED BY <2>1, <3>1, DigitLess
  <2> DEFINE d == s.digval \div BASE
  <2> HIDE DEF d
  <2>3. s.numdigit # 0 => Settled([s EXCEPT !.numdigit = s.numdigit - 1, !.digval = d])
    BY <2>1, <2>2 DEF Settled, Numbers, Fields, Flags, Modes, Shifts, d
  <2> QED BY <2>3 DEF d
<1> HIDE DEF Settled
<1> QED BY <1>1, <1>2, <1>3 DEF process_gtodot, Unfinished, Result, LetterKeys

LEMMA PrefixKey ==
    ASSUME NEW s, Settled(s), NEW c
    PROVE  /\ Settled(process_hyp(s, c).s)
           /\ Settled(process_test(s, c).s)
           /\ Settled(process_confirm(s, c).s)
           /\ Settled(process_status(s, c).s)
<1>1. Settled(process_hyp(s, c).s)
  BY DEF Settled, Numbers, Fields, Flags, Modes, Shifts, process_hyp, reset_shift, set_shift,
         Unfinished, Result
<1>2. Settled(process_test(s, c).s)
  <2> DEFINE t == [s EXCEPT !.test = FALSE, !.cmplx = FALSE]
  <2>1. Settled(t)
    BY DEF Settled, Numbers, Fields, Flags, Modes, Shifts
  <2>2. Settled(init_arg(t, "REG")) /\ init_arg(t, "REG").rarg
    <3>1. Settled(init_arg(t, "REG"))
      BY <2>1, ArgumentBegins
    <3>2. DOMAIN t = Fields
      BY <2>1 DEF Settled, Numbers
    <3> HIDE DEF t, Settled
    <3> QED BY <3>1, <3>2 DEF Fields, Flags, Modes, init_arg
  <2>3. Settled(process_arg(init_arg(t, "REG"), c).s)
    BY <2>2, ArgumentKey
  <2> HIDE DEF t, Settled
  <2> QED BY <2>1, <2>2, <2>3 DEF process_test, Unfinished, Result, t
<1>3. Settled(process_confirm(s, c).s)
  <2>1. \A t : Settled(t) => Settled([t EXCEPT !.confirm = "none", !.digval = 0])
    <3> SUFFICES ASSUME NEW t, Settled(t)
                 PROVE  Settled([t EXCEPT !.confirm = "none", !.digval = 0])
      OBVIOUS
    <3>1. Power(4)[t.numdigit] > 0 /\ Power(BASE)[t.numdigit] > 0
      BY PowerPositive, KeysAssumption DEF Settled, Numbers
    <3> QED BY <3>1 DEF Settled, Numbers, Fields, Flags, Modes, Shifts
  <2>2. Settled(init_state(s))
    BY FreshStart
  <2> HIDE DEF Settled
  <2> QED BY <2>1, <2>2 DEF process_confirm, Unfinished, Result
<1>4. Settled(process_status(s, c).s)
  BY LeftAlone DEF process_status, Unfinished, Result
<1> QED BY <1>1, <1>2, <1>3, <1>4

(* The key that the arrow waits for puts the arrow menu away.                *)
LEMMA ArrowKey ==
    ASSUME NEW s, Settled(s) \/ AwaitsArrow(s), NEW c
    PROVE  Settled(process_arrow(s, c).s)
<1>1. Settled(set_menu([reset_shift(s) EXCEPT !.arrow = FALSE], "Last"))
  BY DEF Settled, AwaitsArrow, Numbers, Fields, Flags, Modes, Shifts, set_menu, reset_shift, set_shift
<1> QED BY <1>1 DEF process_arrow, Unfinished, Result

-----------------------------------------------------------------------------
(* Browsers, catalogues and characters: no number is typed                   *)

LEMMA BrowserKey ==
    ASSUME NEW s, Settled(s), ~s.rarg, ~s.gtodot, NEW c
    PROVE  /\ Settled(process_labellist(s, c).s)
           /\ Settled(process_registerlist(s, c).s)
<1> DEFINE t == reset_shift(s)
<1>1. Settled(t) /\ ~t.rarg /\ ~t.gtodot
  BY DEF Settled, Numbers, Fields, Flags, Modes, Shifts, reset_shift, set_shift
<1>2. Settled([t EXCEPT !.digval = LABEL])
  BY <1>1 DEF Settled, Numbers, Fields, Flags, Modes, Shifts, LABEL
<1>3. Settled([t EXCEPT !.labellist = FALSE, !.digval = 0])
      /\ Settled([t EXCEPT !.registerlist = FALSE, !.digval = 0])
  BY <1>1 DEF Settled, Numbers, Fields, Flags, Modes, Shifts
<1>4. Settled(process_labellist(s, c).s)
  <2> DEFINE gone == [t EXCEPT !.labellist = FALSE, !.digval = 0]
  <2> HIDE DEF t, Settled
  <2>1. /\ Settled(t) /\ Settled(gone) /\ Settled([t EXCEPT !.digval = LABEL])
        /\ Settled([gone EXCEPT !.runmode = FALSE]) /\ Settled(check_confirm(gone, "CLEAR").s)
    BY <1>1, <1>2, <1>3, LeftAlone, Asked
  <2> QED BY <2>1 DEF process_labellist, Unfinished, Result, t
<1>5. Settled(ShowRegister(t, c))
  <2>1. /\ TOPREALREG \in Nat \ {0} /\ GLOBALS \in Nat \ {0} /\ LOCALS \in Nat /\ BASE \in Nat
        /\ regX_idx \in Nat /\ NUMREG \in Nat \ {0}
    BY KeysAssumption DEF TOPREALREG, NUMREG, regX_idx
  <2>2. Register(c) \in Nat
    BY <2>1 DEF Register, regX_idx, regY_idx, regA_idx
  <2>3. (t.digval * BASE) % TOPREALREG \in Nat
    <3>1. t.digval * BASE \in Nat
      BY <1>1, <2>1 DEF Settled, Numbers
    <3> QED BY <2>1, <3>1
  <2>4. \A b, v : v \in Nat => /\ Settled([t EXCEPT !.digval = v])
                              /\ Settled([t EXCEPT !.local = b, !.digval = v])
    BY <1>1 DEF Settled, Numbers, Fields, Flags, Modes, Shifts
  <2>5. t.digval \in Nat
    BY <1>1 DEF Settled, Numbers
  <2> DEFINE max == IF t.local THEN LOCALS ELSE NUMREG
             dv  == (t.digval * BASE) % TOPREALREG
             loc == IF LOCALS > 0 THEN ~t.local ELSE t.local
             other == IF loc THEN 0 ELSE regX_idx
             tens  == IF dv >= max \/ (~t.local /\ (t.digval >= GLOBALS \/ dv >= GLOBALS))
                      THEN 0 ELSE dv
             down  == IF t.digval = 0 THEN (IF max = 0 THEN NUMREG ELSE max - 1)
                      ELSE (IF ~t.local /\ t.digval = TOPREALREG THEN GLOBALS ELSE t.digval) - 1
             up    == IF t.digval + 1 < max
                      THEN IF ~t.local /\ t.digval + 1 = GLOBALS THEN regX_idx ELSE t.digval + 1
                      ELSE 0
  <2>6. max \in Nat /\ dv \in Nat
    BY <2>1, <2>3
  <2> HIDE DEF max, dv, t, Settled
  <2>7. other \in Nat /\ tens \in Nat /\ down \in Nat /\ up \in Nat
    BY <2>1, <2>5, <2>6
  <2> HIDE DEF other, tens, down, up, loc
  <2>8. ShowRegister(t, c) \in {[t EXCEPT !.local = loc, !.digval = other],
            [t EXCEPT !.digval = tens], [t EXCEPT !.digval = Register(c)],
            [t EXCEPT !.digval = down], [t EXCEPT !.digval = up]}
    BY Zenon DEF ShowRegister, max, dv, loc, other, tens, down, up
  <2>9. /\ Settled([t EXCEPT !.local = loc, !.digval = other]) /\ Settled([t EXCEPT !.digval = tens])
        /\ Settled([t EXCEPT !.digval = Register(c)]) /\ Settled([t EXCEPT !.digval = down])
        /\ Settled([t EXCEPT !.digval = up])
    BY <2>2, <2>4, <2>7, Zenon
  <2> QED BY <2>8, <2>9, Zenon
<1>6. Settled(process_registerlist(s, c).s)
  <2> HIDE DEF t, Settled
  <2>1. Settled(process_cmdline(t))
    BY <1>1, LeftAlone
  <2> QED BY <1>1, <1>3, <1>5, <2>1 DEF process_registerlist, Unfinished, Result, t
<1> QED BY <1>4, <1>6

(* An entry that is complete leaves no argument open.                        *)
LEMMA CatalogueKey ==
    ASSUME NEW s, Settled(s), ~s.rarg, ~s.gtodot, NEW c, NEW r \in process_catalogue(s, c)
    PROVE  Settled(r.s) /\ (r.op # "UNFINISHED" => ~ r.s.rarg /\ ~ r.s.gtodot)
<1> DEFINE t == reset_shift(s)
           shut == init_cat(t, "none")
<1>1. Settled(t) /\ ~t.rarg /\ ~t.gtodot
  BY DEF Settled, Numbers, Fields, Flags, Modes, Shifts, reset_shift, set_shift
<1>2. /\ Settled(shut) /\ ~ shut.rarg /\ ~ shut.gtodot
      /\ Settled(process_cmdline(t)) /\ Settled([t EXCEPT !.CmdLine = TRUE])
  BY <1>1, CatalogueOpens, LeftAlone
<1>3. t.catalogue = s.catalogue /\ t.CmdLine = s.CmdLine
  BY DEF Settled, Numbers, Fields, Flags, Modes, Shifts, reset_shift, set_shift
<1> HIDE DEF shut, Settled, t
<1>4. Settled([shut EXCEPT !.test = TRUE]) /\ (\A b : Settled(init_arg(shut, b)))
      /\ (\A op : Settled(check_confirm(shut, op).s))
  BY <1>2, LeftAlone, ArgumentBegins, Asked
<1>5. \/ r.s = shut
      \/ r.op = "UNFINISHED" /\
             \/ r.s \in {t, process_cmdline(t), [t EXCEPT !.CmdLine = TRUE],
                         [shut EXCEPT !.test = TRUE]}
             \/ \E b \in {"REG", "DISP"} : r.s = init_arg(shut, b)
             \/ \E op \in {"CLEAR", "RESET"} : r = check_confirm(shut, op)
  <2>1. \A op \in {"CLEAR", "RESET"} : check_confirm(shut, op).op = "UNFINISHED"
    BY DEF check_confirm, Unfinished, Result
  <2>2. CASE r \in Accepted(t, s.catalogue)
    BY <2>1, <2>2 DEF Accepted, Unfinished, Result, shut
  <2>3. CASE r \notin Accepted(t, s.catalogue)
    BY <1>3, <2>3 DEF process_catalogue, Unfinished, Result, t, shut
  <2> QED BY <2>2, <2>3
<1> QED BY <1>1, <1>2, <1>4, <1>5

(* A character more or less of a label.                                      *)
LEMMA LabelKey ==
    ASSUME NEW s, Settled(s), ~s.rarg, ~s.gtodot, NEW c, NEW x \in process_multi(s, c)
    PROVE  Settled(x.s)
<1> DEFINE t == reset_shift(s)
<1>1. Settled(t) /\ t.numdigit \in Nat
  BY DEF Settled, Numbers, Fields, Flags, Modes, Shifts, reset_shift, set_shift
<1>2. ASSUME NEW u, Settled(u), ~u.rarg, ~u.gtodot
      PROVE  Settled(AddChar(u).s)
  <2>1. Settled([u EXCEPT !.numdigit = u.numdigit + 1])
    BY <1>2 DEF Settled, Numbers, Fields, Flags, Modes, Shifts
  <2> HIDE DEF Settled
  <2> QED BY <1>2, <2>1, LeftAlone DEF AddChar, Unfinished, Result
<1>3. t.numdigit # 0 => Settled([t EXCEPT !.numdigit = t.numdigit - 1])
  BY <1>1 DEF Settled, Numbers, Fields, Flags, Modes, Shifts, reset_shift, set_shift
<1>4. CASE s.catalogue # "none"
  <2>1. PICK a \in process_catalogue(s, c) : x = IF a.op = "UNFINISHED" THEN a ELSE AddChar(a.s)
    <3>1. x \in {IF r.op = "UNFINISHED" THEN r ELSE AddChar(r.s) : r \in process_catalogue(s, c)}
      BY <1>4, Zenon DEF process_multi
    <3> QED BY <3>1, Zenon
  <2>2. Settled(a.s) /\ (a.op # "UNFINISHED" => ~ a.s.rarg /\ ~ a.s.gtodot)
    BY CatalogueKey
  <2> QED BY <2>1, <2>2, <1>2
<1>5. CASE s.catalogue = "none"
  <2>1. Settled(AddChar(t).s)
    BY <1>1, <1>2 DEF Settled, Numbers, Fields, Flags, Modes, Shifts, reset_shift, set_shift
  <2>2. Settled(reset_multi(t))
    BY <1>1, LeftAlone
  <2>3. x = multi_key(s, c)
    BY <1>5, Zenon DEF process_multi
  <2> HIDE DEF t, Settled
  <2> QED BY <1>1, <1>3, <2>1, <2>2, <2>3 DEF multi_key, Unfinished, Result, t
<1> QED BY <1>4, <1>5

-----------------------------------------------------------------------------
(* Alpha mode and the keyboard with nothing open                             *)

LEMMA AlphaKey ==
    ASSUME NEW s, Settled(s), ~s.rarg, ~s.gtodot, NEW c
    PROVE  Settled(process_alpha(s, c).s)
<1> DEFINE t == reset_shift(s)
<1>1. Settled(t) /\ t.runmode = s.runmode
  BY DEF Settled, Numbers, Fields, Flags, Modes, Shifts, reset_shift, set_shift
<1>2. Settled([t EXCEPT !.multi = TRUE, !.numdigit = 0, !.CmdBase = "none"])
  BY DEF Settled, Numbers, Fields, Flags, Modes, Shifts, reset_shift, set_shift
<1>3. Settled(set_menu(t, "Last")) /\ Settled(set_menu([t EXCEPT !.alphas = FALSE], "Last"))
  BY <1>1, LeftAlone, MenuChanges
<1>4. Settled(init_state(set_menu(t, "Last")))
  BY <1>3, FreshStart
<1>5. Settled(init_arg(t, "REG")) /\ Settled(init_arg(t, "VIEW"))
  BY <1>1, ArgumentBegins
<1> HIDE DEF t, Settled
<1> QED BY <1>1, <1>2, <1>3, <1>4, <1>5 DEF process_alpha, Unfinished, Result, t

LEMMA ComplexKey ==
    ASSUME NEW s, Settled(s), NEW c
    PROVE  Settled(process_cmplx(s, c).s)
<1> DEFINE t == [reset_shift(s) EXCEPT !.cmplx = FALSE]
<1>1. Settled(t)
  BY LeftAlone
<1>0. s.shifts \in Shifts
  BY DEF Settled, Numbers
<1>2. Settled(set_shift(t, s.shifts)) /\ Settled(process_cmdline(t)) /\ Settled(init_state(t))
      /\ Settled(init_arg(t, "CSTO"))
  BY <1>0, <1>1, LeftAlone, FreshStart, ArgumentBegins
<1> DEFINE u == process_cmdline(t)
<1>3. \A v : Settled([u EXCEPT !.hyp = TRUE, !.cmplx = TRUE, !.dot = v])
             /\ Settled([u EXCEPT !.test = TRUE, !.cmplx = TRUE])
  <2> HIDE DEF u
  <2> QED BY <1>2 DEF Settled, Numbers, Fields, Flags, Modes, Shifts, u
<1> HIDE DEF Settled, t, u
<1> QED BY <1>1, <1>2, <1>3 DEF process_cmplx, Unfinished, Result, t, u

(* The arrow prefix is the only key that shows the arrow menu.               *)
LEMMA NormalKey ==
    ASSUME NEW s, Settled(s), ~get_alpha_state(s), ~s.hyp, NEW c
    PROVE  Fits(process_normal(s, c))
<1> DEFINE t == set_menu([process_cmdline(s) EXCEPT !.arrow = TRUE], "Arrow")
<1>1. Settled(t) \/ AwaitsArrow(t)
  BY DEF Settled, AwaitsArrow, Numbers, Fields, Flags, Modes, Shifts, set_menu, process_cmdline,
         get_alpha_state
<1>2. Settled([s EXCEPT !.cmplx = TRUE]) /\ (\A b : Settled(init_arg(s, b)))
  BY LeftAlone, ArgumentBegins
<1> HIDE DEF Settled, AwaitsArrow, t
<1> QED BY <1>1, <1>2 DEF Fits, process_normal, Unfinished, Result, t

LEMMA ShiftedKey ==
    ASSUME NEW s, Settled(s), NEW c
    PROVE  Settled(process_fg_shifted(s, c).s) /\ Settled(process_h_shifted(s, c).s)
<1> DEFINE t == reset_shift(s)
           u == process_cmdline(t)
<1>1. Settled(t) /\ Settled(u)
  BY LeftAlone
<1>2. /\ (\A v : Settled([t EXCEPT !.hyp = TRUE, !.dot = v]))
      /\ Settled([u EXCEPT !.test = TRUE]) /\ Settled([u EXCEPT !.alphas = TRUE])
      /\ Settled([u EXCEPT !.runmode = ~u.runmode])
      /\ (\A b : Settled(init_arg(t, b))) /\ Settled(check_confirm(t, "CLEAR").s)
  <2>1. \A v : Settled([t EXCEPT !.hyp = TRUE, !.dot = v])
    <3> HIDE DEF t
    <3> QED BY <1>1 DEF Settled, Numbers, Fields, Flags, Modes, Shifts
  <2> QED BY <1>1, <2>1, LeftAlone, ArgumentBegins, Asked
<1>3. Settled(set_menu([u EXCEPT !.alphas = TRUE], "Alpha"))
  BY <1>2, MenuChanges
<1>4. u.runmode = t.runmode
  BY DEF Settled, Numbers, Fields, Flags, Modes, Shifts, reset_shift, set_shift, process_cmdline
<1> HIDE DEF Settled, t, u
<1>5. Settled(process_fg_shifted(s, c).s)
  BY <1>1, <1>2, <1>3 DEF process_fg_shifted, Unfinished, Result, t, u
<1>6. Settled(process_h_shifted(s, c).s)
  BY <1>1, <1>2, <1>3, <1>4 DEF process_h_shifted, Unfinished, Result, t, u
<1> QED BY <1>5, <1>6

-----------------------------------------------------------------------------
(* The keys                                                                  *)

(* Any key in any mode, ...                                                  *)
LEMMA AnyKey ==
    ASSUME NEW s, Settled(s), NEW c, NEW r \in process(s, c)
    PROVE  Fits(r)
<1>1. CASE Exits(s, c)
  <2>1. r = Unfinished(soft_init_state(s))
    BY <1>1, Zenon DEF process
  <2> QED BY <2>1, SoftStart DEF Unfinished, Result, Fits
<1>2. CASE ~Exits(s, c) /\ s.confirm # "none"
  <2>1. r = process_confirm(s, c)
    BY <1>2, Zenon DEF process
  <2> QED BY <2>1, PrefixKey DEF Fits
<1>3. CASE ~Exits(s, c) /\ s.confirm = "none"
  <2>1. CASE s.rarg
    <3>1. r = process_arg(s, c)
      BY <1>3, <2>1 DEF process
    <3> QED BY <2>1, <3>1, ArgumentKey DEF Fits
  <2>2. CASE ~s.rarg /\ s.gtodot
    <3>1. r = process_gtodot(s, c)
      BY <1>3, <2>2 DEF process
    <3> QED BY <2>2, <3>1, StepNumberKey DEF Fits
  <2>3. CASE ~s.rarg /\ ~s.gtodot /\ (s.hyp \/ s.test \/ s.status)
    <3>1. r \in {process_hyp(s, c), process_test(s, c), process_status(s, c)}
      BY <1>3, <2>3 DEF process
    <3> QED BY <3>1, PrefixKey DEF Fits
  <2>4. CASE ~s.rarg /\ ~s.gtodot /\ ~s.hyp /\ ~s.test /\ ~s.status
    <3>1. CASE c \in {"K_F", "K_G", "K_H"}
      <4>1. r.s \in {toggle_shift(s, "F"), toggle_shift(s, "G"),
                     [toggle_shift(s, "H") EXCEPT !.arrow = FALSE]}
        BY <1>3, <2>4, <3>1 DEF process, Unfinished, Result
      <4>2. Settled(toggle_shift(s, "F")) /\ Settled(toggle_shift(s, "G"))
            /\ Settled(toggle_shift(s, "H"))
        BY LeftAlone DEF Shifts
      <4>3. Settled([toggle_shift(s, "H") EXCEPT !.arrow = FALSE])
        BY <4>2, LeftAlone
      <4> QED BY <4>1, <4>2, <4>3, Zenon DEF Fits
    <3>2. CASE c \notin {"K_F", "K_G", "K_H"}
      <4> DEFINE cat == keycode_to_cat(s, c)
      <4> HIDE DEF cat
      <4>1. CASE s.arrow
        <5>1. r = process_arrow(s, c)
          BY <1>3, <2>4, <3>2, <4>1 DEF process
        <5> QED BY <5>1, ArrowKey DEF Fits
      <4>2. CASE ~s.arrow /\ cat # "none"
        <5>1. r.s = init_cat(s, cat)
          BY <1>3, <2>4, <3>2, <4>2 DEF process, Unfinished, Result, cat
        <5> QED BY <2>4, <5>1, CatalogueOpens DEF Fits
      <4>3. CASE ~s.arrow /\ cat = "none" /\ s.multi
        <5>1. r \in process_multi(s, c)
          BY <1>3, <2>4, <3>2, <4>3 DEF process, cat
        <5> QED BY <2>4, <5>1, LabelKey DEF Fits
      <4>4. CASE ~s.arrow /\ cat = "none" /\ ~s.multi /\ (s.labellist \/ s.registerlist)
        <5>1. r \in {process_labellist(s, c), process_registerlist(s, c)}
          BY <1>3, <2>4, <3>2, <4>4 DEF process, cat
        <5> QED BY <2>4, <5>1, BrowserKey DEF Fits
      <4>5. CASE ~s.arrow /\ cat = "none" /\ ~s.multi /\ ~s.labellist /\ ~s.registerlist
        <5>1. CASE s.catalogue # "none"
          <6>1. r \in process_catalogue(s, c)
            BY <1>3, <2>4, <3>2, <4>5, <5>1 DEF process, cat
          <6> QED BY <2>4, <6>1, CatalogueKey DEF Fits
        <5>2. CASE s.catalogue = "none" /\ s.alphas
          <6>1. r = process_alpha(s, c)
            BY <1>3, <2>4, <3>2, <4>5, <5>2 DEF process, cat
          <6> QED BY <2>4, <6>1, AlphaKey DEF Fits
        <5>3. CASE s.catalogue = "none" /\ ~s.alphas
          <6>1. r = Unprefixed(s, c)
            BY <1>3, <2>4, <3>2, <4>5, <5>3 DEF process, cat
          <6>2. Unprefixed(s, c) \in {process_cmplx(s, c), process_fg_shifted(s, c),
                                      process_h_shifted(s, c), process_normal(s, c)}
            BY DEF Unprefixed
          <6>3. ~get_alpha_state(s)
            BY <1>3, <2>4, <4>5, <5>3 DEF get_alpha_state
          <6> QED BY <2>4, <6>1, <6>2, <6>3, ComplexKey, ShiftedKey, NormalKey DEF Fits
        <5> QED BY <5>1, <5>2, <5>3
      <4> QED BY <4>1, <4>2, <4>3, <4>4, <4>5
    <3> QED BY <3>1, <3>2
  <2> QED BY <2>1, <2>2, <2>3, <2>4
<1> QED BY <1>1, <1>2, <1>3

(* ... and any but K_H while the arrow waits for its key.                     *)
LEMMA KeyOfArrow ==
    ASSUME NEW s, AwaitsArrow(s), NEW c, c # "K_H", NEW r \in process(s, c)
    PROVE  Fits(r)
<1>1. /\ ~Exits(s, c) /\ s.confirm = "none" /\ ~s.rarg /\ ~s.gtodot /\ ~s.hyp
      /\ ~s.test /\ ~s.status /\ s.arrow
  BY DEF AwaitsArrow, Exits, get_alpha_state
<1>2. CASE c \in {"K_F", "K_G"}
  <2>1. r.op = "UNFINISHED" /\ (r.s = toggle_shift(s, "F") \/ r.s = toggle_shift(s, "G"))
    BY <1>1, <1>2 DEF process, Unfinished, Result
  <2>2. \A v \in Shifts : AwaitsArrow(toggle_shift(s, v))
    BY DEF AwaitsArrow, Numbers, Fields, Flags, Modes, Shifts, toggle_shift, set_shift, get_alpha_state
  <2> QED BY <2>1, <2>2 DEF Fits, Shifts
<1>3. CASE c \notin {"K_F", "K_G"}
  <2>1. r = process_arrow(s, c)
    BY <1>1, <1>3 DEF process
  <2> QED BY <2>1, ArrowKey DEF Fits
<1> QED BY <1>2, <1>3

-----------------------------------------------------------------------------
(* The steps                                                                 *)

LEMMA FirstState ==
    ASSUME Init
    PROVE  KeysInv
<1> DEFINE s == [menu |-> "Main", last_menu |-> "Main"]
           t == init_state(s)
<1>1. /\ DOMAIN t = Fields
      /\ t.menu = "Main" /\ t.last_menu = "Main"
      /\ t.digval = 0 /\ t.numdigit = 0 /\ t.shifts = "N"
  BY DEF init_state, Fields, Flags, Modes, Shifts
<1>2. ~ t.shuffle /\ ~ t.rarg /\ ~ t.gtodot
  BY DEF init_state, Fields, Flags, Modes, Shifts
<1>3. State2 = t
  BY DEF Init
<1> HIDE DEF t
<1>4. Settled(t)
  BY <1>1, <1>2 DEF Settled, Numbers, Shifts
<1> QED BY <1>3, <1>4 DEF KeysInv

(* A result is taken over; at most the command line is opened or closed.      *)
LEMMA ResultTaken ==
    ASSUME NEW r, Fits(r), Decode(r)
    PROVE  KeysInv'
<1>1. CASE Settled(r.s)
  <2>1. State2' = r.s \/ \E line \in BOOLEAN : State2' = [r.s EXCEPT !.CmdLine = line]
    BY Zenon DEF Decode
  <2>2. \A line : Settled([r.s EXCEPT !.CmdLine = line])
    BY <1>1, LeftAlone
  <2>3. Settled(State2')
    BY <1>1, <2>1, <2>2, Zenon
  <2> QED BY <2>3 DEF KeysInv, Settled, Numbers
<1>2. CASE AwaitsArrow(r.s) /\ r.op = "UNFINISHED"
  <2>1. State2' = r.s /\ OpCode' = "none"
    BY <1>2 DEF Decode
  <2> QED BY <1>2, <2>1 DEF KeysInv, AwaitsArrow, Numbers, get_alpha_state
<1> QED BY <1>1, <1>2 DEF Fits

(* The keyboard sends K_H only while something is open that takes it.         *)
LEMMA RemappedKeys ==
    ASSUME NEW s, s.shifts \in Shifts, NEW k \in remap(s)
    PROVE  k[2] \in Shifts /\ (~get_alpha_state(s) => k[1] # "K_H")
<1> DEFINE soft == IF s.shifts \in {"N", "F"} THEN SoftPairs(s.menu) ELSE {}
<1>1. k \in soft => k[2] \in Shifts /\ k[1] # "K_H"
  BY DEF SoftPairs, Shifts
<1> HIDE DEF soft
<1>2. CASE get_alpha_state(s)
  <2>1. k \in (Keys \cup ArrowKeys) \X {s.shifts} \/ k \in soft
        \/ k = CASE s.shifts = "N" -> <<"K_F", "N">> [] s.shifts = "F" -> <<"K_G", "F">>
                 [] OTHER -> <<"K_H", s.shifts>>
    BY <1>2 DEF remap, soft
  <2>2. k \in (Keys \cup ArrowKeys) \X {s.shifts} => k[2] \in Shifts
    OBVIOUS
  <2> QED BY <1>1, <1>2, <2>1, <2>2 DEF Shifts
<1>3. CASE ~get_alpha_state(s)
  <2>1. \/ k \in soft
        \/ k \in Keys \X Shifts \/ k \in ArrowKeys \X Shifts
        \/ k \in {<<"K_F", "N">>, <<"K_G", "N">>, <<"K_G", "G">>, <<"K_CMPLX", "N">>}
    <3>1. CASE s.shifts = "N"
      BY <1>3, <3>1 DEF remap, soft, Unshifted, Keys, Shifts
    <3>2. CASE s.shifts = "F"
      BY <1>3, <3>2 DEF remap, soft, FShifted, Keys, Shifts
    <3>3. CASE s.shifts = "G"
      BY <1>3, <3>3 DEF remap, soft, GShifted, Keys, Shifts
    <3>4. CASE s.shifts = "H"
      BY <1>3, <3>4 DEF remap, soft, Shifts
    <3> QED BY <3>1, <3>2, <3>3, <3>4 DEF Shifts
  <2> QED BY <1>1, <2>1 DEF Keys, ArrowKeys, Shifts
<1> QED BY <1>2, <1>3

LEMMA PressFits ==
    ASSUME KeysInv, Press
    PROVE  KeysInv'
<1>0. PICK k \in remap(State2) :
          \E r \in process(set_shift(State2, k[2]), k[1]) : Decode(r)
  BY DEF Press
<1>1. PICK r \in process(set_shift(State2, k[2]), k[1]) : Decode(r)
  BY <1>0
<1> DEFINE s == set_shift(State2, k[2])
<1>4. State2.shifts \in Shifts
  BY DEF KeysInv, Settled, AwaitsArrow, Numbers
<1>5. k[2] \in Shifts /\ (~get_alpha_state(State2) => k[1] # "K_H")
  BY <1>4, RemappedKeys
<1>2. CASE Settled(State2)
  <2>1. Settled(s)
    BY <1>2, <1>5, LeftAlone
  <2> HIDE DEF s
  <2>2. Fits(r)
    BY <1>1, <2>1, AnyKey DEF s
  <2> QED BY <1>1, <2>2, ResultTaken
<1>3. CASE AwaitsArrow(State2)
  <2>1. AwaitsArrow(s)
    BY <1>3, <1>5 DEF AwaitsArrow, Numbers, Fields, Flags, Modes, Shifts, set_shift, get_alpha_state
  <2>2. k[1] # "K_H"
    BY <1>3, <1>5 DEF AwaitsArrow
  <2> HIDE DEF s
  <2>3. Fits(r)
    BY <1>1, <2>1, <2>2, KeyOfArrow DEF s
  <2> QED BY <1>1, <2>3, ResultTaken
<1> QED BY <1>2, <1>3 DEF KeysInv

LEMMA SoftCommandFits ==
    ASSUME KeysInv, SoftCommand
    PROVE  KeysInv'
<1> DEFINE s == reset_shift(State2)
<1>1. PICK r \in SoftResults(s) : Decode(r)
  BY DEF SoftCommand
<1>2. Settled(State2)
  BY DEF KeysInv, SoftCommand, AwaitsArrow
<1>3. Settled(s)
  BY <1>2, LeftAlone
<1> HIDE DEF s, Settled
<1>4. (\A b : Settled(init_arg(s, b))) /\ Settled(check_confirm(s, "CLEAR").s)
      /\ Settled([s EXCEPT !.test = TRUE])
  BY <1>3, ArgumentBegins, LeftAlone, Asked
<1>5. Settled([init_arg(s, "GTO") EXCEPT !.multi = TRUE, !.rarg = FALSE])
  BY <1>3, NoDigits DEF Settled, Numbers, Fields, Flags, Modes, Shifts, init_arg
<1>6. \/ r.s = s \/ r = check_confirm(s, "CLEAR") \/ r.s = [s EXCEPT !.test = TRUE]
      \/ r.s = [init_arg(s, "GTO") EXCEPT !.multi = TRUE, !.rarg = FALSE]
      \/ \E b : r.s = init_arg(s, b)
  <2> HIDE DEF init_arg, check_confirm
  <2>1. CASE s.menu = "Alpha"
    BY <1>1, <2>1 DEF SoftResults, Unfinished, Result
  <2>2. CASE s.menu = "Other"
    <3>1. \/ r = Result(s, "CMD")
          \/ r = check_confirm(s, "CLEAR") \/ r = Result(s, "NONPROG")
          \/ r = Unfinished([s EXCEPT !.test = TRUE])
          \/ r = Unfinished([init_arg(s, "GTO") EXCEPT !.multi = TRUE, !.rarg = FALSE])
          \/ \E b : r = Unfinished(init_arg(s, b))
      BY <1>1, <2>2 DEF SoftResults
    <3>2. ASSUME NEW b, r = Unfinished(init_arg(s, b)) PROVE r.s = init_arg(s, b)
      BY <3>2 DEF Unfinished, Result
    <3>3. CASE \E b : r = Unfinished(init_arg(s, b))
      BY <3>2, <3>3
    <3>4. CASE r = Result(s, "CMD") \/ r = Result(s, "NONPROG")
      BY <3>4 DEF Result
    <3>5. CASE r = Unfinished([s EXCEPT !.test = TRUE])
      BY <3>5 DEF Unfinished, Result
    <3>6. CASE r = Unfinished([init_arg(s, "GTO") EXCEPT !.multi = TRUE, !.rarg = FALSE])
      BY <3>6 DEF Unfinished, Result
    <3> QED BY <3>1, <3>3, <3>4, <3>5, <3>6
  <2>3. CASE s.menu \notin {"Alpha", "Other"}
    BY <1>1, <2>3 DEF SoftResults, Unfinished, Result
  <2> QED BY <2>1, <2>2, <2>3
<1>7. Settled(r.s)
  BY <1>3, <1>4, <1>5, <1>6
<1> QED BY <1>1, <1>7, ResultTaken DEF Fits

LEMMA SetMenuFits ==
    ASSUME KeysInv, SetMenu
    PROVE  KeysInv'
<1>1. PICK m \in {"Other", "Last"} : State2' = set_menu(reset_shift(State2), m)
  BY DEF SetMenu
<1>2. Settled(State2')
  <2>1. CASE Settled(State2)
    <3> DEFINE s == reset_shift(State2)
    <3>1. Settled(s)
      BY <2>1, LeftAlone
    <3> HIDE DEF s
    <3>2. Settled(set_menu(s, "Other")) /\ Settled(set_menu(s, "Last"))
      BY <3>1, MenuChanges
    <3> QED BY <1>1, <3>2 DEF s
  <2>2. CASE AwaitsArrow(State2)
    <3>1. Settled(set_menu(reset_shift(State2), m))
      BY <2>2 DEF AwaitsArrow, Settled, Numbers, Fields, Flags, Modes, Shifts, set_menu, reset_shift,
             set_shift
    <3> QED BY <1>1, <3>1
  <2> QED BY <2>1, <2>2 DEF KeysInv
<1> QED BY <1>2 DEF KeysInv, Settled, Numbers

LEMMA ExecutedFits ==
    ASSUME KeysInv, Executed
    PROVE  KeysInv'
<1>1. Settled(State2)
  BY DEF KeysInv, Executed
<1>2. PICK a \in BOOLEAN : State2' = [State2 EXCEPT !.alphas = a, !.CmdLine = FALSE]
  BY DEF Executed
<1>3. Settled([State2 EXCEPT !.alphas = a, !.CmdLine = FALSE])
  BY <1>1 DEF Settled, Numbers, Fields, Flags, Modes, Shifts
<1> QED BY <1>2, <1>3 DEF KeysInv, Settled, Numbers

-----------------------------------------------------------------------------
(* The theorems                                                              *)

(* In every reachable entry state the number typed has the digits that are    *)
(* counted, and the arrow menu is away or its key awaited (keys.c, menu.c).   *)
THEOREM KeysAreSound == Spec => []KeysInv
<1>1. Init => KeysInv
  BY FirstState
<1>2. KeysInv /\ [Next]_vars => KeysInv'
  <2>1. KeysInv /\ UNCHANGED vars => KeysInv'
    BY DEF vars, KeysInv, Settled, AwaitsArrow, Numbers, get_alpha_state
  <2> QED BY <2>1, PressFits, SoftCommandFits, SetMenuFits, ExecutedFits, Zenon DEF Next
<1> QED BY <1>1, <1>2, PTL DEF Spec

(* Backspace takes all digits away again, whatever came in between            *)
(* (process_arg, process_gtodot, process_registerlist).                      *)
THEOREM DigitsAlwaysAgree == Spec => []DigitsAgree
<1>1. KeysInv => DigitsAgree
  BY DEF KeysInv, Settled, AwaitsArrow, Numbers, DigitsAgree
<1> QED BY <1>1, KeysAreSound, PTL

(* The arrow menu is away as soon as its prefix is, and never comes back by   *)
(* itself (set_menu, process_arrow).                                         *)
THEOREM MenusAlwaysAgree == Spec => []MenusAgree
<1>1. KeysInv => MenusAgree
  BY DEF KeysInv, Settled, AwaitsArrow, MenusAgree
<1> QED BY <1>1, KeysAreSound, PTL

-----------------------------------------------------------------------------
(* EXIT                                                                      *)

LEMMA ExitLeadsOut ==
    ASSUME DOMAIN State2 = Fields, State2.shifts = "N", ~State2.alphas, Open(State2) # {},
           Open(State2) \cap {"catalogue", "arrow"} # {} =>
               Open(State2) \subseteq {"catalogue", "arrow", "CmdLine", "multi", "cmplx", "programming"},
           NEW r \in process(State2, "K60")
    PROVE  Open(r.s) \subseteq Open(State2) /\ Open(r.s) # Open(State2)
<1> DEFINE s == State2
<1>1. CASE Exits(s, "K60")
  <2>1. r.s = soft_init_state(s)
    <3>1. r = Unfinished(soft_init_state(s))
      BY <1>1, Zenon DEF process
    <3> QED BY <3>1 DEF Unfinished, Result
  <2>2. CASE s.CmdLine
    <3>1. r.s = [s EXCEPT !.CmdLine = FALSE]
      BY <2>1, <2>2 DEF soft_init_state
    <3>2. "CmdLine" \in Open(s) /\ "CmdLine" \notin Open(r.s)
      BY <2>2, <3>1 DEF Open, Fields, Flags, Modes
    <3>3. Open(r.s) \subseteq Open(s)
      BY <3>1 DEF Open, Fields, Flags, Modes
    <3> QED BY <3>2, <3>3
  <2>3. CASE ~s.CmdLine
    <3> DEFINE fresh == init_state(s)
               soft == s.multi \/ s.rarg \/ s.hyp \/ s.gtodot \/ s.labellist
                       \/ s.cmplx \/ s.arrow \/ s.test \/ s.status
    <3>1. /\ DOMAIN fresh = Fields /\ fresh.confirm = "none" /\ fresh.catalogue = "none"
          /\ fresh.runmode
      BY DEF init_state, Fields, Flags, Modes
    <3>2. \A f \in Modes \cup {"CmdLine"} : ~ fresh[f]
      BY DEF init_state, Fields, Flags, Modes
    <3>3. r.s = IF soft THEN [fresh EXCEPT !.runmode = s.runmode, !.alphas = s.alphas] ELSE fresh
      BY <2>1, <2>3 DEF soft_init_state
    <3> HIDE DEF fresh
    <3>4. Open(fresh) = {}
      BY <3>1, <3>2 DEF Open
    <3>5. CASE ~soft
      BY <3>3, <3>4, <3>5
    <3>6. CASE soft
      <4> DEFINE t == [fresh EXCEPT !.runmode = s.runmode, !.alphas = s.alphas]
      <4>1. /\ \A f \in Modes \cup {"CmdLine"} : ~ t[f]
            /\ t.confirm = "none" /\ t.catalogue = "none" /\ t.runmode = s.runmode
        BY <3>1, <3>2 DEF Fields, Flags, Modes
      <4> HIDE DEF t
      <4>2. Open(t) \subseteq Open(s) /\ Open(t) \cap Modes = {}
        BY <4>1 DEF Open, Modes
      <4>3. Open(s) \cap Modes # {}
        BY <3>6 DEF Open, Modes
      <4>4. r.s = t
        BY <3>3, <3>6 DEF t
      <4> QED BY <4>2, <4>3, <4>4
    <3> QED BY <3>5, <3>6
  <2> QED BY <2>2, <2>3
<1>2. CASE ~Exits(s, "K60")
  <2>1. s.catalogue # "none" \/ s.arrow
    BY <1>2 DEF Exits
  <2>2. Open(s) \subseteq {"catalogue", "arrow", "CmdLine", "multi", "cmplx", "programming"}
    BY <2>1 DEF Open, Modes
  <2>3. /\ s.confirm = "none" /\ ~s.rarg /\ ~s.gtodot /\ ~s.hyp /\ ~s.test /\ ~s.status
        /\ ~s.labellist /\ ~s.registerlist
    BY <2>2 DEF Open, Modes
  <2>4. CASE s.arrow
    <3>1. r = process_arrow(s, "K60")
      BY <1>2, <2>3, <2>4 DEF process
    <3> DEFINE t == set_menu([reset_shift(s) EXCEPT !.arrow = FALSE], "Last")
    <3>2. r.s = t
      BY <3>1 DEF process_arrow, Unfinished, Result
    <3>3. /\ ~t.arrow /\ \A f \in (Modes \ {"arrow"}) \cup {"CmdLine"} : t[f] = s[f]
          /\ t.confirm = s.confirm /\ t.catalogue = s.catalogue /\ t.runmode = s.runmode
      BY DEF Fields, Flags, Modes, set_menu, reset_shift, set_shift
    <3> HIDE DEF t
    <3>4. "arrow" \in Open(s) /\ "arrow" \notin Open(t)
      BY <2>4, <3>3 DEF Open, Modes
    <3>5. Open(t) \subseteq Open(s)
      BY <3>3 DEF Open, Modes
    <3> QED BY <3>2, <3>4, <3>5
  <2>5. CASE ~s.arrow
    <3> DEFINE t == init_cat(reset_shift(s), "none")
    <3>1. s.catalogue # "none"
      BY <2>1, <2>5
    <3>2. keycode_to_cat(s, "K60") = "none"
      BY DEF keycode_to_cat
    <3>3. r \in process_catalogue(s, "K60") \/ r \in process_multi(s, "K60")
      BY <1>2, <2>3, <2>5, <3>1, <3>2 DEF process
    <3>4. \A x \in process_catalogue(s, "K60") : x = Unfinished(t)
      BY DEF process_catalogue
    <3>5. \A x \in process_multi(s, "K60") : x = Unfinished(t)
      BY <3>1, <3>4 DEF process_multi, Unfinished, Result
    <3>6. r.s = t
      BY <3>3, <3>4, <3>5 DEF Unfinished, Result
    <3>7. /\ t.catalogue = "none"
          /\ \A f \in Modes \cup {"CmdLine"} : t[f] => s[f]
          /\ t.confirm = s.confirm /\ t.runmode = s.runmode
      BY DEF Fields, Flags, Modes, init_cat, process_cmdline, reset_shift, set_shift
    <3> HIDE DEF t
    <3>8. "catalogue" \in Open(s) /\ "catalogue" \notin Open(t)
      BY <3>1, <3>7 DEF Open, Modes
    <3>9. Open(t) \subseteq Open(s)
      BY <3>7 DEF Open, Modes
    <3> QED BY <3>6, <3>8, <3>9
  <2> QED BY <2>4, <2>5
<1> QED BY <1>1, <1>2

(* EXIT closes at least one thing of what is open and opens nothing           *)
(* (soft_init_state, process_catalogue, process_multi, process_arrow).        *)
THEOREM ExitAlwaysLeaves == Spec => []ExitLeaves
<1>1. KeysInv => DOMAIN State2 = Fields
  BY DEF KeysInv, Settled, AwaitsArrow, Numbers
<1>2. DOMAIN State2 = Fields => ExitLeaves
  BY ExitLeadsOut DEF ExitLeaves
<1> QED BY <1>1, <1>2, KeysAreSound, PTL
=============================================================================
