# The WP 34S core in TLA+

This directory holds a formal model of the calculator in `src/`: TLA+ modules
translated from the C code, TLC configurations that check them on small
instances, and proofs, checked by TLAPS, for instances of every size.

    tlasany MCMemory.tla                               parse
    tlc -config memory_layout.cfg MCMemory.tla         check one run
    tlapm Memory_proofs.tla                            check proofs

## 1. The system

A WP 34S runs keystroke programs on a decimal calculator.  The port to the DM42
keeps the original's core: a single thread, an event loop fed by keys and a
100 ms heartbeat, and one persistent block of RAM (2 KB, or 4 KB in the build of
`Makefile_4k`) that programs, return stack, statistics and registers share.

| component | code | state | operations | talks to |
|---|---|---|---|---|
| memory layout | `xeq.c`, `stats.c`, `data.h` | `NumRegs`, `have_stats`, `mode_double`, `intm`; volatile `RetStk`, `RetStkSize`, `SizeStatRegs`, `ProgFree` | REGS, DBLON/DBLOFF, BASE/DECM, RCLM, allocation of the statistics block, `move_retstk`, `xeq_init_contexts` | every other one, through shared words |
| return stack and local frames | `xeq.c`, `xeq.h` | `RetStkPtr`, `LocalRegs`, the words above the stack pointer | XEQ, RTN, RTN+1, LocR, PopLR, local registers and flags, R/S | layout (room), command execution (`Running`) |
| program storage | `storage.c`, `xeq.c` | `Prog`, `ProgSize`, `ProgBegin`, `ProgEnd`, `pc` | step entry and deletion, CLP, CLPALL, CLALL, RESET, PRCL, LOADP, LOADSS, labels | layout (takes room), return stack (clears it) |
| flash library | `storage.c` | `UserFlash`, the library file | PSTO, CLP in the library, loading a library or a program file | program storage, the file system |
| backup and state files | `storage.c` | `BackupFlash`, the RAM file | SAVE, LOAD, LOADP, LOADSS, start and power-off | the file system |
| key loop, command execution | `console.c`, `keys.c`, `xeq.c` | DMCP's queue and timer, `KeyDown`, `OpCode`, `Running`, `Pause`, `JustStopped`, `Error` | key press and release, heartbeat, sleep, `xeqprog`, `xeq`, single step, stop | all |
| key entry | `keys.c`, `menu.c` | `State2`, `CommandLine`, menus | key by key command assembly, confirmation, browsers, catalogues | key loop |
| stopwatch | `stopwatch.c` | tickers, split register, digits typed | its keys, the callback from the key loop | registers, statistics |
| integer arithmetic | `int.c` | word size, sign mode, carry and overflow flags | arithmetic commands of integer mode | registers |
| dates | `date.c` | date mode, year of the reform | conversions, days between dates, Easter | registers |
| register contents | `xeq.c` | `Regs`, the RPN stack, `StackBase` | stores, recalls, stack commands, mode conversions | layout |
| XROM contexts | `xeq.c`, `xrom.wp34s` | `XromFlags`, private stacks, hidden frames | xIN, xOUT, XEQUSR, POPUSR | return stack, modes, registers |
| decimal numerics, statistics sums, matrices | `decn.c`, `complex.c`, `matrix.c`, `stats.c`, `decNumber/` | - | numerical algorithms | registers |
| display, printer, platform | `display.c`, `lcd.c`, `printer.c`, `console.c`, `menu.c` | screen, menus | drawing, I/O | - |
| build tools | `compile_*.c`, `translate.c`, `tools/` | - | table generation | - |

What is hard here:

* *sharing*: one array is divided among five users by half a dozen signed offsets,
  some persistent and some recomputed only at a key press; commands move the
  divisions in any order, from the keyboard, from a running program or step by
  step; and a command may fail half way.  A frame on the return stack is recognised
  by the value of one of its words, and the frames hold data a program chose;
* *two copies*: the library is in memory and in a file, written page by page;
* *events*: the code has one thread, but the user and DMCP act while a program
  runs, and nothing but a queued event or a timer wakes the loop;
* *modes*: a dozen entry modes are flags that soft keys can set over one another;
* *edges of arithmetic*: words of 1 to 64 bits in four sign modes, and calendars
  that meet.

An error shows many commands after it was made.  What makes each component correct:

* layout: the parts never overlap; the offsets adjusted in place agree with those
  computed afresh; the modes always find the registers they need;
* return stack: nested calls, each returning where it was made, each with its own
  local registers, whatever data those hold; the last return stops the program;
* program storage: steps and their bounds describe one sequence of programs, each
  with one END; editing keeps the other programs; labels find what was entered;
* flash library: after power loss at any write, either the old or the new
  library, or something recognisably invalid;
* key loop: a stop stops, pauses end, commands are carried out or dropped, a running
  program runs; a failing command leaves the state before it, except what the code
  says it gives up;
* key entry: what was typed can be taken back, EXIT leads out;
* stopwatch: it shows what a timer shows; integer arithmetic and dates: agreement
  with the mathematical definition, or a flag or error that says otherwise;
* register contents and XROM: commands do to stack and registers what they do in any
  other mode, a mode switch keeps what it says it keeps, the
  user's stack, modes and local registers come back after built-in programs.

## 2. The modules

| module | content |
|---|---|
| `Memory` | layout, return stack, and the sizes of program storage: the code's state and one action per command |
| `CallStack` | what the return stack promises: a sequence of levels with a return address, registers and flags |
| `MemoryCalls` | the words of `Memory` read as the levels of `CallStack` |
| `Program` | program memory in RAM and library word by word: the program counter, the bounds of the current program, entering, editing, moving about and executing |
| `Listing` | what the user sees of program memory: a list of steps and a cursor |
| `ProgramListing` | the words of `Program` read as a `Listing` |
| `Library` | the flash library in memory and file, written page by page, with failing writes and power loss |
| `Shelf` | what the library promises: a list of programs shown and a list kept |
| `KeyLoop` | the event loop: keys, releases, heartbeats, sleep, pauses, running programs |
| `Keys` | what a key means in each entry mode |
| `Stopwatch` | the stopwatch and its keys |
| `Timer` | what a stopwatch promises |
| `IntWords` | integer mode: words, their sums, products, quotients, shifts and rotations |
| `IntPowers` | their bits, roots, logarithms, powers and Fibonacci numbers |
| `IntArith` | double words in digits of half a word, residues, primality |
| `Dates` | day numbers, dates and Easter as `date.c` computes them |
| `Calendar` | the calendar as people keep it |
| `Registers` | the slots of the registers under every mode, the commands that move their contents, built-in programs on their copy of the stack |
| `Values` | what the registers promise: a stack and registers that hold numbers |
| `Memory_proofs` | theorems about `Memory`: its return stack, its boundaries, and that it implements `CallStack` |
| `Program_proofs` | theorems about `Program`: what reading and moving do on whole steps, what the commands keep, and that it implements `Listing` |
| `IntFacts` | what those theorems speak of: words and what they stand for, roots, the numbers that half-words are the digits of |
| `IntWords_proofs` | theorems about `IntWords`, `IntPowers` and `IntArith`, for words of any size in each sign mode |
| `Dates_proofs`, `Library_proofs`, `KeyLoop_proofs`, `Keys_proofs`, `Stopwatch_proofs` | theorems about the module named |
| `MCMemory`, `MCProgram`, `MCLibrary`, `MCKeyLoop`, `MCKeys`, `MCStopwatch`, `MCIntArith`, `MCDates`, `MCRegisters` | sets of arguments and small sizes for TLC |

The components meet in shared state.  `Memory` and `Program` both contain the program
commands: the first with sizes and the stack's words, the second with the steps'
words and without frames; each abstracts what the other keeps (`PCs` there,
`Withheld` here).  `Library` takes the PSTO, PRCL and CLP of `Program` apart into page
writes.  `KeyLoop` decides *when* a command of those modules is executed and by whom
(the `by` of `Memory` and `Program`), `Keys` *which* one.  `Registers` fills the register area whose
place and size `Memory` decides (`NumRegs`, the modes).

### State and actions of `Memory`

`RetStk` is its offset from `RetStkBase`, so that `ctx.RetStk` is the `s` of
`xeq_init_contexts`; `RetStkPtr` and `LocalRegs` are the code's, zero or
negative.  `stk` holds the live words, the oldest first: the code's
`RetStk[-i]` is `stk[i]`.  `ctx` holds what the code keeps in volatile
variables.  A command executed by `by = "key"` or `"sst"` starts from boundaries
just computed by `process_keycode`, one of a running program (`"step"`) from those
its predecessors left (`View`).

Program steps are abstract: `PCs` is a small set of addresses below the frame
marker, and a running program may do any command at any step.  That is
more than any one program does, and what the stack and the layout must bear.
Frame words are concrete, because the code tells frames by their words.

An action is a whole command: its refusals (`Fail`, with the recovery in
`xeq()`: the program stops, the boundaries are recomputed), its moves, and the
clearing of the stack that comes with it.  `append_program` is followed through
its three outcomes, since it fails after having given things up.  What an error brings back
depends on the mode: `xeq()` saves ten `REGISTER`s from X on, 160 bytes.  In double precision these are
lettered registers; in single precision and in integer mode they are all twelve lettered ones and the
64 bytes behind them, Alpha, `NumRegs`, `State` (with `have_stats`, `LocalRegs` and `RetStkPtr`), `UState`,
`ProgBegin` and `ProgEnd` (`data.h:214`, without `EXTRA_FLAGS`).  So a failing PRCL clears the stack and
drops the statistics in double precision only (`GivenUp`); the volatile `RetStk` and `SizeStatRegs`
wait for the next key in either.

### State and actions of `Program`

`ram` is `Prog[0 .. ProgSize - 1]`, `lib` the library's `prog`; `at` holds `State.pc`,
`ProgBegin` and `ProgEnd`, which change together; `rets` are the return addresses of
the stack without the frames, which `Memory` models.  Functions that read the
globals take them as a record `m` (memory and `runmode`) and `w` (an `at`), since the
code calls them half way through a change: `do_inc` and `do_dec` return the place and
`PcWrapped`, `Bounds` is a forced `update_program_bounds`, `raw_set_pc` renews the
bounds only when the counter leaves them.

Instructions are what program memory tells apart: END, a numeric label, a
one-word command, two-word steps that are global labels.  A command is any of
those that move the program counter, with any argument; the program need not say
which.  The second word of a step may be that of END, the case the
backward search must see through; it is never a first word of a double step
(`forbidden_alpha`, `keys.c`, assumption `ProgramWords`).

A step is executed by a running program, by SST, or a command comes from a key
(`by`); the first two step over it first, so that they start at `Behind(by)` and
an error steps back from there (`ErrorAt`).  `append_program` counts the free
words of the key press; what registers and frames withhold from it is one of
`Withheld`.  When it fails, single precision has stack and bounds back and double precision has not (see
`Memory`); which of the two it is may differ from failure to failure.

### `Spec` and `CheckedSpec` of `Memory`

Seven commands act without a check in some case: LocR with no level below it
(possible by single-stepping on an empty stack), LocR deeper than the bit field
`LocalRegs` reaches, PopLR on an empty stack, R/S without room for a word, RCLM of
a precision while integer mode is involved, LOADSS of a state that belongs to another
memory, and `append_program` after REGS has refused.  `Spec` contains all of them; section 4 says what comes of it.
`CheckedSpec` leaves out exactly these seven (the definitions before
`UncheckedNext`), and the runs and the proofs are about it: the rest of
the design is right, and these are the only holes.  Once `RetStkPtr` or
`LocalRegs` is positive the code writes outside the stack; no behaviour is
followed from there.

### `Spec` and `CheckedSpec` of `Program`

Likewise: CLPALL and LOADP when the bounds they leave are not those of the new
programs (`BoundsRenewed`), an append that fails after the lone END is gone
(`LosesEnd`), CLP at the library's word 0 (`BeforeLibrary`), PSTO before the first
step (`StoresNothing`), and deletion, CLP in the library or PSTO in front of a step that
a return address on the stack leads to (`ReturnsMoved`): unlike entry, CLP in RAM and what
replaces programs, those commands keep the stack while the steps move.  Behind the returns
they are part of `CheckedSpec`, with the stack kept, as the code does it.  Where `ProgSize` or a size of the library would become negative no
behaviour is followed.

### State and actions of `Library` and `Shelf`

`UserFlash` is the image in memory, `libfile` the file; both are arrays of words, whose
word 0 is the header.  A word says of which program it is which word, which is what a
torn library mixes up.  A command sets up a `job`, the list of `program_flash` calls
that `flash_append` makes; `program_flash` is one action, in which the source is copied
to memory and from there to the file.  `DiskFails(n)` is a call whose write fails after
`n` pages (the callers ignore it), `PowerLoss(n)` one the power ends, followed by the
`load_lib_file(0)` of the next start.  The count of a call is rounded up to pages, so
that it reads over the end of the source: junk, as in the code.

`Shelf` has two lists: what is shown and what is on the disk.  A command changes the
first by one program; the second becomes the same at once, or stays.  During a removal
the words are neither list, and the mapping shows those before it (`was`), until the
header is written.

`CheckedSpec` leaves out faults during a removal, and a library loaded from the
menu; `LoadingSpec` has the latter (section 4).

### State and actions of `KeyLoop`

`queue` is DMCP's, `held` the keys physically down, `at` the place in
`program_main`: before the wait, asleep, in `xeqprog`, or behind its loop.  `Press` and `LetGo`
happen at any time, also while a program runs; the handlers are the cases of `process_keycode` for a
key, a release and a heartbeat, up to the call of `xeqprog`, whose every step is an action.
`age` is what the code asks of `Keyticks`: below 2, 2 and more, above 12.
A key is a class of keys.  What an R/S meant when it was pressed is kept with it
(`STOP`); the code does not see the difference.

### State and actions of `Keys`

`State2` is one record: the flags of the C structure, the pending command's base, the digits,
the catalogue and the two menus.  `process` is the code's cascade: the first open mode has the
key.  Handlers return the new record and an op-code or "unfinished".  `SoftCommand` is a soft key with
an op-code, which goes past the cascade.  Keys that mean the same are one key.

### State and actions of `Stopwatch` and `Timer`

The static variables of `stopwatch.c`, the clock, the number of registers and of points
summed.  One action per call of the callback, with any key or none; a recalled time is
one of `Recalled`, the sums may have room or not.  `Timer` is a counter that is on or
off; the mapping computes its time from the ticker remembered.  `CheckedSpec` leaves out REGS while a watch
runs in the background (section 4).

### `IntWords`, `IntPowers` and `IntArith`

The variables are the mode, the word size, the carry and two operands; commands are
functions of them.  The machine's words have `4 * HALF` bits instead of 64: all
intermediate results of the code are computed with that width, half-words with `HALF`.
The steps key an operand in or change the word size, which cuts the registers (`intws`); they reach every pair of
words, and the properties say what each command makes of the pair.  `IntWords` has the mode, the words and the commands
whose loops turn by bits, with `TwoTo` for the powers of two.  In `IntPowers` a loop is a function of its variables, applied
as often as the loop turns at most (`Turned`): the code's condition is the function's, which leaves them alone once it is false.
`IntArith` adds what computes digit by digit or takes a factor bit by bit: a double word is a function from places to half-words
(`Halves`), `Carried` the loop over them that every step of `divmnu` is made of, `LongDivision` Knuth's algorithm D with
the estimate of a digit (`Estimated`), the product subtracted (`MultiplySubtract`) and, rarely, the divisor added back (`AddBack`).

### `Dates` and `Calendar`

Commands are functions, with C's division of negative numbers (`Quotient`,
`Remainder`).  The only variable that moves is a day number, which steps through
`Starts .. Ends` so that `JDN2` can be compared with `Calendar`, which knows months,
leap years and the days skipped by the reform.

### State and actions of `Registers` and `Values`

`Regs` is the array of the code in slots of 8 bytes, down to the lowest that registers can reach;
`NumRegs`, `UState`, `StackBase` and `state_lift` are the code's, `XromFlags` and `XromStack` what `xIN` sets up.
A slot holds a `decimal64`, one half of a `decimal128`, an integer or zero, and what is read in another format
than it was written is `Unknown`.  `At`, `Put` and `Move` are `xcopy`; the conversions are loops over
the letters in the order of the code's, since they work in place.  A mode command is one action with all it calls:
`op_double` the `cmdregs` and `op_float` it needs, `cmdrestm` the conversions it thinks necessary.

What functions calculate is abstract (`Calculated`): how many numbers a function takes and yields and
what it does to L and to the stack is what `Natives` and `Routines` say of it.  A built-in program is `cmdxin`, any number of
`Work` steps and `cmdxout`, or `Fail`; the user sees stack and modes as they were until then.

`Values` knows nothing of slots: contents are numbers, read as decimals or as integers.  A command pushes, drops,
copies; a mode change keeps lettered registers up to rounding (and numbered ones where the code does), and what
is `Unknown` may come back as anything.

`CheckedSpec` leaves out five cases in which the code does not do this (section 4), and a new stack size in integer mode,
after which levels A to D read as `Unknown` and `Values` promises nothing of them; `Spec` has them all.

## 3. The runs

| run | question | result |
|---|---|---|
| `memory_layout` | do parts stay disjoint and boundaries coherent? (`NoOverlap`, `LayoutCoherent`, `DoubleHasRoom`, `GrowthKeepsHeadroom`) | holds |
| `memory_calls` | do the stack's words implement `CallStack`, does a running program have a level to return from? (`LocalRegsInnermost`, `RunningHasBase`, `CallsNest`) | holds |
| `program` | does editing edit a list of steps, whatever the order; do stepping, step numbers and label search agree with the steps, in RAM and library; do execution, errors, skips and returns land on the right step? (`ProgramsWhole`, `PcAtStep`, `BoundsExact`, `ListingSpec`, `StepsInvert`, `NumbersLead`, `LabelsFound`, `ReturnsAtStep`, `BackToError`, `CountedSteps`) | holds |
| `library` | does the library survive failing writes and loss of power while a program is added, and does what is stored arrive? (`LibraryWhole`, `FileFollows`, `StoredAtLast`, `ShelfSpec`) | holds |
| `key_loop` | does a stop stop and never start, do pauses end, does no command stay pending? (`StopNeverStarts`, `StopWorks`, `PauseEnds`, `CommandSettles`) | holds |
| `key_loop_stall` | does a running program run on? (`RunsOn`) | violated |
| `keys` | can what was typed be taken back, does EXIT lead out, do menus come back? (`DigitsAgree`, `ExitLeaves`, `MenusAgree`) | holds |
| `registers` | do commands, mode changes and built-in programs treat the registers as numbers, wherever these lie? (`ValuesSpec`) | holds |
| `stopwatch` | is the watch a timer, and does a split go to a register there is? (`TimerSpec`, `SplitInRegisters`) | holds |
| `numbers` | are results exact or flagged, and primes told? (`SumsTold`, `WordQuotientsTold`, `RotationsTold`, `BitsAndPowersTold`, `RemaindersTold`, `PrimesTold`) | holds |
| `roots` | is every root rounded down? (`RootsFloored`) | violated |
| `dates` | do day numbers follow the calendar, do conversions invert, is Easter a Sunday? (`CalendarSpec`, `DatesAndDays`, `EasterOnSunday`) | holds |

Each module states a type invariant; it is proved for `Memory` (`TypesHold`), `Stopwatch` (`WatchTypes`), `IntWords`
(`RegistersAreWords`) and `KeyLoop` (part of `LoopIsSound`).

### Bounds

*Memory.*  Real sizes are 534 (or 1558) words, 100 registers of 4 words, 12 lettered
ones.  The runs keep the proportions: space for a few calls and frames, a statistics
block larger than a register, registers that can be given up, and room for
programs from one END to one that fits nowhere.  `memory_layout`: 12 words of program
and stack, two registers of two words, one of them needed by double precision, so that
every division between "all registers, no program" and "no registers, full program"
occurs, with frames of 2, 4 and 6 words and with statistics present or not; one program
address, as no property there looks at it.  `memory_calls`: two addresses and a stored word
that is itself a frame marker; up to seven words are two frames on two levels,
or resized ones; registers cannot be given up (`TOPREALREG = 0`), as this is the
other run's matter.  A program stores only such words, so wherever the stack's
scan could be fooled it is.  The bounds `PCs`, `RegsArgs`, `LocArgs`,
`DataWords` and `MAX_LEN` are constants of `Memory`.

*Program.*  `program` has up to 4 words of RAM: two programs, one with a double step, or an END behind any
step.  The library of 6 words is empty or holds up to two labelled programs, whose order PSTO and CLP
change.  SKIP and BACK by up to 2 and a return address lead over the end of a program,
over a double step and onto END (how calls nest is `memory_calls`' question).  `Backups` are an END, a program
that fits and two programs, the longest filling RAM.  `MAX_RETURNS`, `MAX_ARG`, `Backups` and `Withheld` are the
bounds; a `free` of 3 words in `stoprog` is as good as any more.

*Library.*  Two labels, programs of one and three words, three pages of two words: programs begin and end inside a page
and at its edge, an append covers the rest of a page, whole pages or both, a program of the same label is longer,
shorter or equal, and the library can be full.

*KeyLoop.*  Two events in the queue, two keys down together, pauses of one or two ticks.  Every
handler looks at the first event only, and the code asks of the others just whether there are any; a
third adds no case.  (`key_loop_stall` needs one key.)

*Keys.*  Numbers to base 3 with two digits, five registers and two local ones, step numbers of up to
four digits.  The menus are two kinds besides the alpha and arrow ones.  `MAX_DIGITS` bounds the digits counted in
GTO ., which the code lets grow.

*Registers.*  Stacks of 4 and 5 levels, 8 lettered and 8 numbered registers, so that L, I and one register behind them
exist and double precision needs as many slots as there are.  The calculator wakes with a different number in every register:
the commands move numbers whatever they are, and a wrong one shows.  The number keyed in and the one calculated
are odd, so that single precision rounds and integer mode truncates them.  Modes change without a bound; there is one command or built-in
program (`EDITS`), at any place between them, and one more right after ENTER or CLx, which alone leave the lift off.
`Used` has a numbered register and the fifth level (part of the stack or not); X to T are in the exchange commands.

*Stopwatch.*  Registers are numbered by two binary digits; there are none, one or three.  The
ticker runs from 3 to 5, one point is summed; a time recalled is 0 or 2.

*IntWords, IntPowers, IntArith.*  Machine words of 8 bits with half-words of 2; calculator words of 1 to 4 bits with all
operands, and of 8 with those at the edges and some between.  The machine's and the calculator's word meet
at 8, as they do at 64, and a division of double words has quotients of up to five half-words.

*Dates.*  The day numbers of nine walks: the first days, the turn of the era, each reform, a century of either kind
before and after, the last years to 31 December 9999.  The proofs cover the others.  Easter is checked for the years
0 to 9999, in both settings of the reform; before, the remainders of negative numbers
yield days outside the month, and nothing is claimed.

### Fairness

`KeyLoop` assumes that the calculator's thread goes on when it can (`WF_vars(Calculator)`: one
thread, no lock, no wait but for the queue), that a timer that was started fires and that time passes.  It
assumes nothing of the user, who may hold a key for ever, or of the program, which may run or pause
for ever.  `Library` assumes that a command goes on to its next write unless a fault ends it
(`WF_vars(program_flash)`: the calls follow each other in one function).
The liveness properties need these: `StopWorks`, `PauseEnds`, `CommandSettles`, `StoredAtLast`.
Whether a program ends is the program's business.

No deadlock: a stopped calculator waits for a key and every key is enabled; the walks of `Dates` end in a step
that changes nothing.

Each property of a passing run also has a mutant (before the definition it replaces) that
violates it: a bound off by one, a forgotten adjustment, a dropped check, a swapped order.

## 4. Where the code and its comments disagree

Two runs end in a violation.

* `key_loop_stall`: a key pressed while a program runs is kept for KEY?, and the program goes on
  (`keys.c:3640`, "continue execution").  When the key comes up its release breaks `xeqprog`'s loop; no command is
  pending, so `process_keycode` returns, no timer runs, and the loop sleeps with `Running` set
  until another key comes.
* `roots`: `intSqrt` is an "Integer floor(sqrt())" (`int.c:1028`); whether Newton's last approximation is one too
  large is told by its square, computed in the machine's word (`int.c:1049`).  For the largest unsigned word, 2^64 - 1,
  the approximations end on 2^32, whose square wraps round to 0, so that SQRT yields 2^32.  In the run 255, of 8 bits,
  has the root 16.  It is the only word (`BitsAndPowersAreTold`), found when the proof did not go through.

The others are kept out of the passing runs by a `CheckedSpec` or the precondition of a property.  To see one,
check `Spec` (`SPECIFICATION Spec`) for the invariant or property named.

*Memory and programs*

* RTN on an empty stack (`xeq.c:2270`: "RTN with empty stack stops"; `RunningHasBase`): a program that is
  single-stepped through LocR with an empty stack gets a frame without a return address.  Started by R/S, `op_rs`
  finds `RetStkPtr` not zero and pushes nothing; the RTN then goes past the empty stack, `RetStkPtr == 0` is
  false, and the program runs on at an address read from the statistics or the registers.
* `xeq.c:4202`: "Need space for double precision stack" (`DoubleHasRoom`): `cmdrestm` corrects the precision only
  when decimal mode is the result.  From integer mode, double precision is taken over while `NumRegs` may be less
  than the lettered registers need.
* `storage.c:655`: "Load the configuration data from the backup" (`NoOverlap`, `DoubleHasRoom`): `load_state` copies
  `State` and `UState`, and with them `have_stats` and `mode_double`, but neither statistics nor registers.  A
  program may have taken the block's place since SAVE: the next key puts `RetStk` into it, and a
  call or sum overwrites its last steps.  Double precision arrives with fewer registers than it needs.
* `xeq.h:482`: "Minimum headroom for program execution" (`StartHasRoom`): `append_program` ignores that `cmdregs`
  refused (integer mode with double precision below).  The program then fills the stack's headroom,
  and `op_rs`, which does not check for room, writes its return address over the last step.
* `data.h:168`: `local_regs`, "Position on return stack where current local variables start"
  (`LocalRegsInnermost`): the field has 11 bits.  The 2 KB build cannot exceed them (theorem
  `FramesInReach`); the 4 KB build can: LocR 144 in double precision takes 1154
  words.  (Constants: `RET_STACK_SIZE = 16`, `LOCAL_RANGE = 9`, `LocArgs = {0, 1, 3}`.)
* `xeq.c:468`: "Update the pointers to the current program delimited by END statements" (`PcInMemory`): `clpall`
  takes the bounds of the programs it is about to remove.  In run mode
  `ProgEnd` stays at the old end; BST from step 1 wraps to it, behind the memory.
  LOADP goes through the same `clpall`, and the programs it loads run, wrap and search
  within the old bounds.
* `storage.c:176`: "Helper to store final END in empty program space" (`RamWhole`): `append_program` takes the lone
  END off before it checks for room; when it then fails `ProgSize` is 0, and the commands that look for an END find
  none.
* `storage.c:208`, CLP: "Clear just the current program" (`LibWhole`): CLP of the library's first program goes to the
  word before it, and the bounds there hold that word only.  CLP again removes one word of the next program.
* A deletion, CLP in the library and PSTO move steps and keep the return stack (`delprog`, `storage.c:304`, against
  `stoprog`, which clears it, `storage.c:283`); a return that leads behind what they take away then leads to
  another step, into the middle of one or behind the programs (`ReturnsAtStep`; without
  `~ ReturnsMoved` in `CheckedNext`, as `Spec` breaks it earlier by a failed LOADP).  In TLC's shortest trace a two-word
  step lies behind an END, BSF from the keyboard leaves return 2 on the stack (it does so also when it fails), and in program
  mode the END, step 1, is deleted: return 2 is now the second word of the step.  No line of the repository says
  what a return must lead to after an edit, so this is no run.
* PSTO at step 000 in program mode removes the library's program of that label and
  appends nothing (`StoresNothing`); LOADP computes the space it needs from the
  `ProgFree` before `clpall`, and may drop statistics and registers a program would not need.

*Library, stopwatch, keys*

* Loading another library from the menu replaces the one in memory and not the file of the one in use.  The next PSTO
  or CLP writes only the pages it changes and the header, so that the file mixes both; the next start takes it, as
  this build compares no checksum (`init_library`, which does, "Initialize the library to an empty state if it's not
  valid", `storage.c:461`, is not called).  `LoadingSpec` violates `LoadedWhole`.
* A removal moves the programs behind it over live pages before the header tells the new size; power lost
  between leaves a torn library (`LoadedWhole`, with the faults of `CheckedSpec` unrestricted).
* `stopwatch.c:380`: when the number of points does not fit the signed char `RclMemory`, the round is not ended
  (`SumBeginsRound`).
* REGS while a watch runs in the background leaves the split's register where it was; `setRegister` does not check
  (`SplitInRegisters`).
* EXIT, "common across all modes" (`keys.c:3247`), is ignored in alpha mode by confirmation, GTO ., tests and status, and with
  a catalogue or the arrow prefix open behind what a soft key opened (`ExitLeaves` says where it is claimed).
* GTO . with one to four digits assigns the number to `pc` as if it were a raw address (`keys.c:1724`).

*Integer arithmetic* (the modules translate what the code does; their properties say where it is right)

* `intDblMul` adds four products of half-words in 32 bits: the product of two large 32-bit words is wrong at word
  size 32 (`int.c:618`; `DoubleProductExact`).
* `intmodop` is right for a modulus up to half the machine word (`int.c:1397` claims unsigned 64-bit); for 0 and 1 it computes on after
  the error.
* `intMultiply` and `intPower` report an overflow for the lowest number of two's complement, which fits (`ToldNearly`);
  `intDivide` sets the carry for it divided by 1 or -1.
* ASR of an unsigned word of 64 bits copies the top bit; of shorter words it does not.
* A quotient of double words with more than five half-words is written past `quot[5]`; a division by zero uses the
  uninitialised remainder after the error.  The model follows neither.
* FACTOR divides by the primes up to 53 and then looks for factors from 257 on ("since we've eliminated all factors
  < 257", `int.c:1577`): 3599 = 59 * 61 is taken for a prime (read, not modelled).

*Register contents and XROM* (the first five are what `CheckedSpec` of `Registers` leaves out: with any of them `ValuesSpec` is violated;
the others were read, not modelled)

* `switch_to_int` (`xeq.c:3836`: "compress the other registers to save them while integer mode is active"): in double
  precision with a 4-level stack, after L is converted the calculator is in integer mode, so that A to D are looked
  up as single registers and saved from the wrong words.
* BASE in a running program in double precision does not renew `StackBase` (`data.h:555`: "Location of the RPN
  stack"): until a key does, RCL, FILL, CLSTK and the roll commands use the old place.
* RCLM from integer mode to a saved real mode of double precision converts the stack twice and destroys it; from real to
  integer mode with another saved precision it reads the wrong slots (`xeq.c:3886`: "Switch back to decimal or integer mode").
* DATE->, a niladic built-in program that yields more than it takes, counts the lift that ENTER switched off
  against the numbers it takes too (`xeq.c:6217`): after ENTER a level of the stack is lost.
* REGS growing the registers in double precision clears lettered registers instead of the new ones
  (`xeq.c:6421`).
* A change of SSIZE in integer mode: A to D are read in another format than they were saved in.
* cSTO with arithmetic to J that fails for K leaves J changed: only X to I are saved by `xeq()`.
* `get_reg_limit` with fewer registers than a complex or double register needs is negative, and unsigned: any number passes.
* `reg_decode` takes the number of registers up to the end of an area for 0; beyond the last one it is negative.
* R-SORT with flag D clear loses a value when it compares with an infinite or non-numeric one.
* After an error in a built-in routine under xIN `LocalRegs` and the rounding mode stay the routine's
  (`xeq.c:5518`: "Restore state to before xIN"); with fewer than 12 registers in single precision xIN's REGS fails.
* XEQUSR ignores that the second of its pushes may fail for want of room.

## 5. The proofs

All are safety properties, for every value of the constants that satisfies the assumptions of the module.

*Memory* (`CheckedSpec`).  Sizes are naturals, lettered
registers are not more than the others, the largest register set with statistics
leaves a word of RAM, program addresses are below the frame marker, and LocR
arguments are naturals.  The code's sizes satisfy them; TLC evaluates them.

*Return stack.*  `LocalRegsInnermost` is not inductive: to know what RTN uncovers,
one must know that the words below are whole levels.  `StackInv` says so with a
set `E` of the positions where levels end: each of them closes a level (a return
address, or a marker whose size leads down to a return address), the next level
below ends in `E` too, and above the frame at `LocalRegs` the stack holds only
return addresses, no marker.  A word of a frame may look like
a marker: the scan of `retstk_up` starts above the frame it leaves, meets the innermost
remaining one at its marker first, and never steps inside.  `Memory_proofs`
first shows that pushing, dropping, resizing and storing keep such an `E`, then has one lemma per command.  From the invariant:
`RunningHasBase`, `LocalRegsInnermost`, and `EmptyStackStops`, that RTN stops a program when it empties the stack.

*Calls.*  The refinement `CallsNest` of `CallStack` (`CallsAreNested`): `LevelsOf` reads the words from the top down, a
level at a time.  What it finds up to a place where a level ends depends only on the words up to there (`SameLevels`),
so a call appends a level (`PushedLevels`), RTN takes the last one (`TopLevel`), and LocR and PopLR exchange the last one
for another (`FrameLevels`); a store, behind the marker at `LocalRegs`, changes one field of that level, the last one having a
frame (`StoredLevels`, `StoredFrame`, `VisibleIsLast`).  `StackInv` does not suffice for LocR: the flag word lies next to
the marker or at the far end, by whether the frame's address is odd, so the registers would be shifted by a word if a frame
changed by an odd number of words.  `CallsInv` adds that frames are even (`EvenIn`), which holds because a register has an
even number of words (`EvenAssumption`; 4 in the code); then the flag word stays on its side (`SameSide`) and what both
frames have survives (`RegistersSurvive`).

*Layout.*  `LayoutInv` adds to the properties: the boundaries are those of the present
registers and statistics, and in a running program of the present program size
(between keys, editing may leave `RetStkSize` behind, a failed append may have moved `RetStk` over statistics
that then came back, and the next key renews both); and `NumRegs <= 2 * TOPREALREG + LETTERED`, which bounds how far the
registers can have pushed the stack down when `clpall` leaves one END.  The room
checked by `move_retstk`, XEQ and LocR is then the true room, so the stack stays
above the program.  `append_program` needs arithmetic of its own: registers are
given up in units of one or two registers, and the words so gained cover those
missing (`CeilingCovers`, `RegistersCover`).  From the invariant: `TypeOK`,
`NoOverlap`, `LayoutCoherent`, `DoubleHasRoom`, `GrowthKeepsHeadroom`.

*Program* (`CheckedSpec`).  The constants are sets of words, of which no second word looks like a first one, and sizes
with the library's addresses above RAM's.  One assumption says more: the programs a backup may hold are whole
(`BackupsWhole`); `storage.c` writes the backup from the programs in RAM and checks its sum before it is read.
The inductive invariant `IInv` has four parts: both memories hold whole programs within their space; the counter is at a
place and, while programs are executed, the bounds delimit its program exactly; only in run mode does a program run;
return addresses lead to places.  None stands alone.  The bounds are cached and renewed only when the counter leaves them
(`raw_set_pc`), so a move is right only if they were; `do_inc` and `do_dec` go from step to step only on whole steps, since
a second word may look like any single step; and a return lands on a step only if no
words in front of it moved since the call, which is why `ReturnsMoved` is left out.

The recursive functions (`ProgEnd` and `ProgBegin`, `Search`, `Numbers`, `Walk`, `StepsAhead`, `StepsBack`) are
reasoned about one step at a time: had a statement about them a counterexample there would be a least one
(`LeastMember`), and the step from it contradicts that.  `Program_proofs` begins with what holds for any
words: what cutting and joining them does, stepping forwards and back between neighbouring steps, the END behind and the
beginning before a place.  Then it has one lemma per command for `IInv`, and what the user relies on: one
step forwards and one back (`SteppingInverts`), the number displayed (`NumbersLeadBack`), the nearest label
(`LabelsAreFound`: `find_opcode_from` counts words for steps, and as many probes as the section has words are enough), the
step that failed (`FailedStepFound`), and that SKIP and BACK go n steps within the program (`StepsAreCounted`: each step
adds or takes one from the number shown).

`ListingSpec` (`ProgramIsListed`): the mapping reads the words as steps (`StepsOf`) and counts those up to
the counter (`Cursor`).  Both distribute over words joined where a step ends (`ListConcat`, `CountIs`), and every command cuts
and joins there, because `IInv` has the counter on a step and the bounds at ends of programs.  So a word entered behind
the step at the counter is a step entered behind the cursor (`EntryShown`), a step deleted one step less (`DeletionShown`), the words
between the bounds the steps from behind one END to the next (`RemovalShown`), and words appended steps appended
(`AppendedShown`); what leaves the words alone moves the cursor within the list or out of it (`MoveShown`).

*Dates.*  A date is a century, a year of it counted from March, a day of that year and its month; `JDN2` and `JDN`
are the two directions, strings of integer divisions.  Each part is a statement of linear arithmetic with divisions by
constants, proved on its own: the century and the rest give the day number back and the rest is below a century's days
(`CenturyPart`), so do the year (`YearPart`) and the month (`MonthPart`), and where one of them ends the next begins
(`CenturyStep`, `YearStep`, `MonthStep`).  From these, for the Julian years, the Gregorian ones and the month of the
reform: the date of the next day number is the calendar's next day (`NextDay`), `JDN` undoes `JDN2` (`DayOfDate`), and
the decimal form of a date gives it back in each mode (`JulianDayNumbers`).  With `NextDay` every step of `Spec` is one
of `Calendar` (`CalendarKept`).  The other way round, `JDN2` undoes `JDN` on the dates of the calendar (`MonthBack`,
`YearBack`, `CenturyBack`, then `JulianBack` and `GregorianBack`), so `check_date` takes them (`DatesAccepted`); what it
takes is the date of a day number, and no day number has any other date (`AcceptedDates`).  With 29 February among
the dates or not, that settles LEAP? and `DatesAndDays` (`DatesSound`).  Easter: the day of either rule is counted from the
end of February (`SpringDay`), its day number is one below a multiple of 7 since the divisions by 4, 7 and 100 cancel, and it lies
from 22 March to 25 April because the old rule's full moon is never 29 days after 21 March and the new one takes a week
away (`JulianEaster`, `GregorianEaster`, `EasterSunday`).  The runs had to show the formulas on the days of the walks; the
theorems hold for every day number, up to the end of 9999 where the code refuses later dates.

*Library* (`CheckedSpec`; pages, words and programs of any number and length).  The calls of `flash_append` go through
the pages in order: the page the destination lies in, the whole pages behind it, the header's (`StagesInOrder`,
arithmetic of `PageOf`).  `LibInv` says how far they have come: on the words of the present library memory and file
agree; of the words that are to follow, the pages before the next call are done, in memory and file, and belong to the
program that is added; the calls left reach the last of them.  So when the header alone is left its size
counts only delivered words, and before that the header counts only words that no call touches.  A fault during an
addition leaves the file a prefix of memory.  From the invariant: `FileFollows`; no step of an addition, completed or
cut short anywhere, takes a word of the other programs (`ProgramsKept`); what is added is added whole
(`AddedWhole`).  These two are action properties stated beside the proofs; during a removal, which moves live
words, neither holds, and what is left there to say is `ShelfSpec`.

`LibraryWhole` needs to know what a removal is about to leave.  `WholeInv` says it with a `Goal`: the words that the removal
has moved, where they now lie, and those it has still to move, where they lie yet.  From the command on these are
whole programs, without the one removed and its label (`CutFine`, `RemovalBegins`); a call that moves pages changes
words but not the goal (`MovingKeepsGoal`), since it reads only behind the words it has written; with the header the goal
becomes the library (`HeaderReachesGoal`), in which the label of the program that follows is free, so that adding it keeps
labels apart (`Appended`).

*The shelf* (`LibraryIsShelf`).  `ListedTo` counts the labels of a library word by word.  It follows that a list grows
by the program whose words are appended (`ListedAppended`), and loses one program, the rest in their order, when the words
cut out have one label, at their front (`ListedCut`).  A removal begins with such a cut: so what its `Goal` lists is what was
shown before (`was`) without one program, which is what `ShelfInv` keeps, through the calls that move pages and through
the program added behind them.  The header's call then shows it.  The file's list is memory's after a call that succeeds
(`FileFollows`), and stays where a write fails before the header; a restart shows what was kept.

*KeyLoop.*  `LoopInv` has two parts besides the types.  An R/S that meant a stop (`STOP`) is the first event of the
queue and the program that it is to stop still runs, is being left (`JustStopped`), or `xeqprog` is about to look at the
key; so its handler never finds a stopped calculator (`StopNeverStarts`).  And what has work to do
is awaited: with a command pending the key is remembered (`KeyDown`), and when the loop sleeps with a remembered key or a pause,
the timer is on (`HeartbeatComes`).  That is the safety half of `PauseEnds` and `CommandSettles`;
that the heartbeat then ends them is left to TLC.

*Keys* (any base above 2, any numbers of registers and step numbers, so long as `MAX_DIGITS`, the bound on counted digits, is
enough for a step number).  `KeysInv` has what the modes share: the number in `digval` has no more digits than `numdigit` counts
while an argument or a step number is open, a permutation is open only as an argument, and the arrow menu is away, or its prefix
waits, nothing else is open and no command waits to run.  The last part is not among the properties but carries `MenusAgree`: a soft
key that put something over the prefix would leave its menu behind.  One lemma per handler shows that it keeps `KeysInv` where
the cascade calls it (the browsers, which put registers and labels in `digval`, only where no number is typed), and `AnyKey`
follows the cascade.  `ExitLeaves` needs no invariant but the fields: `ExitLeadsOut` follows EXIT through the modes.

*Stopwatch.*  The static variables are read as one record, each key as a function of it, and `Shows` gives the time of
the `Timer`.  `WatchInv`: a running watch remembers when it was started, a stopped and open one that remembers nothing
shows zero, the split's register (while the watch is open or runs) and the digit typed are below the number of
registers, a recalled time is shown for a bounded while.  Each key is one step of the timer or none
(`WatchIsTimer`); `CheckedSpec` leaves out REGS while the watch runs in the background, without which the split's
register would not be sure (`SplitsFindRegisters`).

*Integer words* (`IntWords`, `IntPowers`, `IntArith`; any word sizes up to the machine's, any operands).  The inductive invariant is `WordsFit`: X
and Y are below two to the word size, also after `intws`, which cuts both.  From there on the properties are arithmetic.
The provers know no law of powers, and no division but by constants; so `TwoTo` is a recursive function, about which
`PowersOfTwo` shows the recursion equation (`Iteration`: what a step does n times over is a function of n; `AllNaturals`
is the induction), and `QuotientIs` says that a number written as multiple and rest has them as quotient and remainder.
`Reads` has what a word is in each sign mode, `WordsBuilt` that a magnitude with room gives its number back.

*Sums* (`SumsAreTold`): the overflow is read off the magnitudes before the sum is made; `OverflowOfSum` says when that is right,
the lowest number of two's complement being the case apart.  *Products and quotients* (`WordQuotientsAreTold`): the test of
`multiply_with_overflow`, a division of the word that is left, fails exactly when the product was cut (`ProductOfMagnitudes`);
`SignedDivision` puts the signs back.  `int_gcd` terminates and yields the common divisor since a least counterexample
would have a smaller one (`EuclidTurns`, `GreatestCommonDivisor`); for `int_gcd` to be the function that its equation defines
one needs a function that satisfies it, and the numbers chosen by their divisors are one.  *Shifts* (`RotationsAreTold`):
n turns by one bit are followed by induction (`Turning`); halving n times is dividing by `TwoTo[n]` (`Halved`), doubling
commutes with cutting (`Doubled`), an arithmetic shift halves what a sign mode leaves of the number (`ShiftedOnce`), and what
`Repetitions` leaves out beyond the word changes nothing (`BeyondTheWord`, `DividedAway`).

*Bits and powers* (`BitsAndPowersAreTold`).  `TurnsFollow` gives the recursion equation of a loop and `LoopKeeps` its
induction, with a relation that may depend on the turn; each loop then has its own.  *Bits*: two words with the same bits are the same
(`BitsDecide`, `SameWord`), and each command is followed bit by bit.  *Roots*: Newton's approximations are never below the root
(`MeanNotBelow`), fall at each turn, and once they do not they are the root or the number above, whose square is then v + 1
(`LastApproximation`; for v = 2 it is 4): it fits the machine's word unless v is its largest.  *Logarithms*: v is a power
of the base times what is left of it, plus a rest below the power; the carry is set if and only if the rest is not 0.  *Powers*: what has been collected times the
base to the exponent left is the power; a flag means that the factor it belongs to is past the largest number,
and since no factor is 0 the power is, too, whether or not the word still means anything (`PowerFound`).  The base 10 itself may be no number of the
word: `int10pow` then starts flagged, and rightly.  *Fibonacci*: until the first sum past the largest number both
words are exact, and that sum shows as a bit or, in the machine's own word, as a carry (`SumsShow`).

*Remainders* (`RemaindersAreTold`).  Numbers are columns of integers with a value (`ValueOf`); `CarriedIs` says that the
loop over the digits leaves digits of the columns' value and the last carry, for subtractions too, whose columns are negative.
*Long division*: the estimate from two digits of the dividend and one of the divisor is never too small; as
the divisor's leading digit is at least half of the base, two turns with its second digit bring it to the digit of the
quotient or one more (`LeadersLess`, `EstimateIs`, `DigitEstimated`).  What is borrowed at the end
tells which (`CarryTells`), and then, the divisor added back or not, less than the divisor is left (`DigitTaken`).  With the
dividend's digits so far that is the invariant of the loop (`LongDivisionIs`); shifting both numbers first changes the
remainder by the shift only (`NormalDivision`).  Around it are the division by a single digit, the two machine words that a
double word of a shorter size is put together from (`TwoMachineWords`), and the signs.  *Residues*: what has been added, and the
addend times the bits of the factor left, differ from the product by a multiple of the modulus (`MulmodIs`), which
needs the sums to fit the machine's word; powers likewise, with their residues (`PowerOfResidue`, `ExpmodIs`).

*Only model-checked.*  `ValuesSpec`, whose mapping reads numbers off the slots of registers that lie in several areas.
`PrimesTold`: that 15 bases are enough for `isPrime` is a fact computed for numbers below a bound, not one with a short argument.
Liveness (`KeyLoop`, `Library`): the provers do not handle fairness.

## 6. Not modelled

XROM's second return stack and its hidden frames, XEQUSR and POPUSR; local and flash registers' contents, stores and recalls
with arithmetic, sRCL, dRCL and iRCL, R-COPY, R-SWAP and R-SORT, complex lock, the ENTER of ENTRY_RPN, rounding modes,
infinities and NaN (with which xIN leaves at once), and what `xeq()` puts back after an error of a command in C.  In `Registers` the memory below the
register area is the return stack's; whether there is room is `Memory`'s matter.
`Memory` takes step 0 as step
1, as `update_program_bounds` does; `Program` keeps it.  Programs executed
in the backup region, and import and export of programs, are left out; so are SAVE, LOAD and the RAM file, whole images
written by one call.  `Library` leaves out a write that the full disk cuts short and reports as good.
`Keys` leaves out integer mode, complex lock, the library regions of the label browser and the characters typed;
`IntArith` FACTOR, counts of bits and the integer forms of decimal commands; `Dates` text, the clock and the commands
that take a date's parts; `Stopwatch` what only the display shows, and the ticker's wrap after twelve days.
Decimal numerics, display, printer, the DM42 menus and the build tools: numerical algorithms, formatting, I/O
against a library that is not part of the repository, or table generation.

## 7. Plan

In order of importance; each module with its MC module, abstract specification
where there is one, and proofs where the argument is more than bookkeeping.

1. `Memory` with `CallStack`, `Program` with `Listing`, `Library` with `Shelf`, `KeyLoop`, `Keys`, `Stopwatch` with
   `Timer`, `IntWords`, `IntPowers` and `IntArith`, `Dates` with `Calendar` (done).
2. `Registers` with `Values` (done for the global registers; local registers and arithmetic on registers are left).
3. `Xrom`: XEQUSR, POPUSR and error recovery over the two return stacks, composed with `Memory`'s frames.
4. Theorems of `Program`, with its refinement `ListingSpec`, and of `Library`, with its refinement `ShelfSpec` (done).
5. The refinement `CallsNest` (done); `ValuesSpec`, whose mapping reads the registers' slots.
