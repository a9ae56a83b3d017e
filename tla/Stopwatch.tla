----------------------------- MODULE Stopwatch -----------------------------
(***************************************************************************)
(* The stopwatch: a mode of the key loop that counts in the background too.  *)
(* The watch keeps no count of its own.  It remembers the ticker at which    *)
(* the round, and the first of several rounds, would have begun, 0 standing  *)
(* for none, and computes from the clock what it shows each time the main    *)
(* loop calls it.  Split times go to the registers or into the sums.         *)
(*                                                                          *)
(* Left out: what only the display shows (tenths, the memory index), the     *)
(* value written to a register, and the ticker's wrap after twelve days.     *)
(***************************************************************************)
EXTENDS Integers, FiniteSetsExt

CONSTANTS
    RADIX,          \* the digits of a register's number; 10
    SCHAR,          \* values of a signed char from 0 on; 128
    Sizes,          \* the numbers of global registers considered
    Recalled,       \* bound: the times found in registers
    REMANENCE,      \* callbacks for which a recalled number is shown; 3
    BOOT,           \* bound: the ticker at the beginning
    MAX_TICKER,     \* bound: the ticker at the end
    MAX_POINTS      \* bound: the points summed

ASSUME StopwatchConstants ==
    /\ RADIX \in Nat \ {0, 1} /\ SCHAR \in Nat \ {0} /\ REMANENCE \in Nat
    /\ Sizes \subseteq 0 .. RADIX * RADIX /\ Sizes \subseteq 0 .. SCHAR
    /\ Recalled \subseteq 0 .. BOOT - 1
    /\ BOOT \in Nat \ {0} /\ MAX_TICKER \in Nat /\ MAX_POINTS \in Nat
    /\ BOOT <= MAX_TICKER

VARIABLES
    ticker,             \* the clock
    registers,          \* global_regs()
    sigmaN,             \* the points summed
    KeyCallback,        \* the watch has the keys
    running,
    mode,               \* "none"; "select_memory" and "rcl" expect a number
    FirstTicker,        \* when the round would have begun, 0 none
    TotalFirstTicker,   \* when the first round did, 0 none
    StopWatch,          \* the time of the round at the last call
    StopWatchMemory,    \* the register for the next split
    FirstDigit,         \* the digit typed, -1 none
    RclMemory,          \* the number shown as recalled, -1 none
    Remanent            \* the calls since

watch == <<running, mode, FirstTicker, TotalFirstTicker, StopWatch,
           StopWatchMemory, FirstDigit, RclMemory, Remanent>>
vars == <<ticker, registers, sigmaN, KeyCallback, running, mode, FirstTicker,
          TotalFirstTicker, StopWatch, StopWatchMemory, FirstDigit, RclMemory,
          Remanent>>

-----------------------------------------------------------------------------
(* The operators below take the watch as a record and return it changed.     *)

Watch == [running |-> running, mode |-> mode, first |-> FirstTicker,
          total |-> TotalFirstTicker, time |-> StopWatch,
          memory |-> StopWatchMemory, digit |-> FirstDigit, rcl |-> RclMemory,
          remanent |-> Remanent, n |-> sigmaN, open |-> KeyCallback]

Become(w) ==
    /\ running' = w.running /\ mode' = w.mode
    /\ FirstTicker' = w.first /\ TotalFirstTicker' = w.total
    /\ StopWatch' = w.time /\ StopWatchMemory' = w.memory
    /\ FirstDigit' = w.digit /\ RclMemory' = w.rcl /\ Remanent' = w.remanent
    /\ sigmaN' = w.n /\ KeyCallback' = w.open

(* An int stored in the signed char RclMemory. *)
Char(n) == ((n + SCHAR) % (2 * SCHAR)) - SCHAR

(* What the callback computes first. *)
Update(w) == IF w.running THEN [w EXCEPT !.time = ticker - w.first] ELSE w

(* Mutant of toggle_running: the time before the pause is lost. *)
toggle_runningAnew(w) ==
    [w EXCEPT !.running = ~w.running,
              !.first = IF w.running THEN @ ELSE ticker]

toggle_running(w) ==
    [w EXCEPT !.running = ~w.running,
              !.first = IF w.running THEN @
                        ELSE IF w.first = 0 THEN ticker ELSE ticker - w.time]

(* A new round begins now; the first one's beginning is kept for the total. *)
NewRound(w) == [w EXCEPT !.total = IF @ = 0 THEN w.first ELSE @,
                         !.first = ticker]

store_stopwatch_in_memory(w) ==
    IF registers = 0 THEN w
    ELSE [w EXCEPT !.memory = (@ + 1) % registers]

(* Sum the time up and begin a new round, or none if RclMemory is negative,   *)
(* for which sigma_plus_x has returned -1.                                   *)
stopwatch_sigma_plus(w, room) ==
    LET shown == Char(w.n + 1)
    IN  IF ~room THEN [w EXCEPT !.rcl = -1]
        ELSE IF shown < 0 THEN [w EXCEPT !.n = @ + 1, !.rcl = shown]
        ELSE [NewRound(w) EXCEPT !.n = @ + 1, !.rcl = shown, !.remanent = 0,
                                 !.time = 0]

(* Mutant of recall_memory: the sign of the recalled time is wrong. *)
recall_memoryForward(w, index, previous) ==
    [w EXCEPT !.digit = -1, !.rcl = index, !.mode = "none", !.remanent = 0,
              !.first = ticker + previous, !.time = previous]

(* The time found in register index becomes the round's. *)
recall_memory(w, index, previous) ==
    [w EXCEPT !.digit = -1, !.rcl = index, !.mode = "none", !.remanent = 0,
              !.first = ticker - previous, !.time = previous]

end_memory_selection(w, index, previous) ==
    IF w.mode = "rcl" THEN recall_memory(w, index, previous)
    ELSE [w EXCEPT !.memory = index, !.digit = -1, !.mode = "none"]

(* Mutant of SelectDigit: numbers up to registers are accepted. *)
SelectDigitPast(w, d, previous) ==
    IF w.digit < 0
    THEN IF d <= registers \div RADIX THEN [w EXCEPT !.digit = d]
         ELSE IF registers <= RADIX /\ d <= registers
              THEN end_memory_selection(w, d, previous) ELSE w
    ELSE IF w.digit * RADIX + d <= registers
         THEN end_memory_selection(w, w.digit * RADIX + d, previous) ELSE w

(* A digit of a register's number. *)
SelectDigit(w, d, previous) ==
    IF w.digit < 0
    THEN IF d <= registers \div RADIX THEN [w EXCEPT !.digit = d]
         ELSE IF registers <= RADIX /\ d < registers
              THEN end_memory_selection(w, d, previous) ELSE w
    ELSE IF w.digit * RADIX + d < registers
         THEN end_memory_selection(w, w.digit * RADIX + d, previous) ELSE w

(* The keys while a number is expected. *)
process_select_memory_key(w, key, d, previous) ==
    CASE key = "RS"    -> [toggle_running(w) EXCEPT !.mode = "none"]
      [] key = "EXIT"  -> [w EXCEPT !.mode = "none"]
      [] key = "CLEAR" -> IF w.digit < 0 THEN [w EXCEPT !.mode = "none"]
                          ELSE [w EXCEPT !.digit = -1]
      [] key = "STORE" -> IF w.digit >= 0
                          THEN end_memory_selection(w, w.digit, previous) ELSE w
      [] key = "digit" /\ registers > 0 -> SelectDigit(w, d, previous)
      [] OTHER -> w

(* The other keys; the sums may have room for a point or not. *)
process_stopwatch_key(w, key, d, previous, room) ==
    CASE key = "RS"    -> toggle_running(w)
      [] key = "EXIT"  -> [w EXCEPT !.open = FALSE]
      [] key = "CLEAR" -> [(IF w.running THEN NewRound(w)
                            ELSE [w EXCEPT !.total = 0, !.first = 0])
                              EXCEPT !.time = 0]
      [] key = "STORE" -> store_stopwatch_in_memory(w)
      [] key = "STORE_ROUND" -> NewRound(store_stopwatch_in_memory(w))
      [] key = "SIGMA_ROUND" ->
             stopwatch_sigma_plus(store_stopwatch_in_memory(w), room)
      [] key = "SIGMA" -> stopwatch_sigma_plus(w, room)
      [] key = "UP"    -> IF w.memory < registers - 1
                          THEN [w EXCEPT !.memory = @ + 1] ELSE w
      [] key = "DOWN"  -> IF w.memory > 0 THEN [w EXCEPT !.memory = @ - 1] ELSE w
      [] key = "RCL"   -> [w EXCEPT !.mode = IF registers > 0 THEN "rcl" ELSE "none",
                                    !.digit = -1]
      [] key = "digit" /\ registers > 0 ->
             process_select_memory_key([w EXCEPT !.mode = "select_memory",
                                                 !.digit = -1], key, d, previous)
      [] OTHER -> w

Keys == {"none", "RS", "EXIT", "CLEAR", "STORE", "STORE_ROUND", "SIGMA_ROUND",
         "SIGMA", "UP", "DOWN", "RCL", "digit"}

(* A number is shown as recalled for some calls. *)
Fade(w) == IF w.rcl < 0 THEN w
           ELSE [w EXCEPT !.rcl = IF w.remanent > REMANENCE THEN -1 ELSE @,
                          !.remanent = @ + 1]

-----------------------------------------------------------------------------
Init ==
    /\ ticker = BOOT
    /\ registers \in Sizes
    /\ sigmaN = 0
    /\ KeyCallback = FALSE
    /\ running = FALSE /\ mode = "none"
    /\ FirstTicker = 0 /\ TotalFirstTicker = 0
    /\ StopWatch = 0 /\ StopWatchMemory = 0
    /\ FirstDigit = -1 /\ RclMemory = -1 /\ Remanent = 0

Tick == /\ ticker < MAX_TICKER
        /\ ticker' = ticker + 1
        /\ UNCHANGED <<registers, sigmaN, KeyCallback, watch>>

(* STOPW: a watch that runs in the background is kept as it is. *)
stopwatch ==
    /\ ~KeyCallback
    /\ LET w == IF running THEN Watch
                ELSE [Watch EXCEPT !.memory = 0, !.rcl = -1, !.time = 0,
                                   !.first = 0, !.total = 0]
       IN  Become([w EXCEPT !.mode = "none", !.digit = -1, !.open = TRUE])
    /\ UNCHANGED <<ticker, registers>>

(* The main loop calls with a key, or with none after a heartbeat. *)
stopwatch_callback(key, d, previous, room) ==
    /\ KeyCallback
    /\ LET w == Update(Watch)
       IN  Become(Fade(IF w.mode = "none"
                       THEN process_stopwatch_key(w, key, d, previous, room)
                       ELSE process_select_memory_key(w, key, d, previous)))
    /\ UNCHANGED <<ticker, registers>>

(* A stopped watch loses the keys when none has come for long. *)
TimesOut == /\ KeyCallback /\ ~running
            /\ KeyCallback' = FALSE
            /\ UNCHANGED <<ticker, registers, sigmaN, watch>>

(* REGS and CLSUMS, from the keyboard or a program, while the watch is away. *)
cmdregs == /\ ~KeyCallback
           /\ registers' \in Sizes
           /\ UNCHANGED <<ticker, sigmaN, KeyCallback, watch>>
sigma_clear == /\ ~KeyCallback
               /\ sigmaN' = 0
               /\ UNCHANGED <<ticker, registers, KeyCallback, watch>>

Callback == \E key \in Keys, d \in 0 .. RADIX - 1, previous \in Recalled,
               room \in BOOLEAN :
                /\ stopwatch_callback(key, d, previous, room)
                /\ sigmaN' <= MAX_POINTS

Next == Tick \/ stopwatch \/ Callback \/ TimesOut \/ cmdregs \/ sigma_clear
Spec == Init /\ [][Next]_vars

(* Without REGS under a watch that runs in the background. *)
CheckedNext == \/ Tick \/ stopwatch \/ Callback \/ TimesOut \/ sigma_clear
               \/ ~running /\ cmdregs
CheckedSpec == Init /\ [][CheckedNext]_vars

-----------------------------------------------------------------------------
(* Properties *)

TypeOK ==
    /\ ticker \in BOOT .. MAX_TICKER
    /\ registers \in Sizes
    /\ sigmaN \in Nat
    /\ KeyCallback \in BOOLEAN /\ running \in BOOLEAN
    /\ mode \in {"none", "select_memory", "rcl"}
    /\ FirstTicker \in 0 .. ticker /\ TotalFirstTicker \in 0 .. ticker
    /\ StopWatch \in 0 .. ticker /\ StopWatchMemory \in Nat
    /\ FirstDigit \in -1 .. RADIX - 1
    /\ RclMemory \in -SCHAR .. SCHAR - 1
    /\ Remanent \in 0 .. REMANENCE + 2

(* The register for the next split, and a digit that STORE would take for     *)
(* one, are registers there are: setRegister does not look.                  *)
SplitInRegisters ==
    KeyCallback /\ registers > 0 =>
        StopWatchMemory < registers /\ FirstDigit < registers

(* Over pauses, splits, recalls and time spent in the background the watch    *)
(* shows what a timer would, though it only remembers one ticker.            *)
T == INSTANCE Timer WITH
         Times <- Recalled,
         on    <- running,
         time  <- IF running THEN ticker - FirstTicker
                  ELSE IF KeyCallback THEN StopWatch ELSE 0
TimerSpec == T!Spec

(* A point summed up begins a new round (the comment on TotalFirstTicker).    *)
SumBeginsRound ==
    [][sigmaN' = sigmaN + 1 =>
         (IF running' THEN FirstTicker' = ticker' ELSE StopWatch' = 0)]_vars
=============================================================================
