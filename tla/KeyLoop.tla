------------------------------ MODULE KeyLoop ------------------------------
(***************************************************************************)
(* The event loop of the calculator: the user presses and releases keys,   *)
(* DMCP queues them, program_main (console.c) takes them one at a time,    *)
(* process_keycode (keys.c) acts on them, and xeqprog (xeq.c) executes the *)
(* running program until a key is waiting.  Nothing but the queue wakes    *)
(* the loop: when it is empty the calculator sleeps, with a 100 ms timer   *)
(* only while a pause is counted or a key is believed to be down.          *)
(*                                                                         *)
(* Keys are classes: R/S, EXIT, a command executed when its key is         *)
(* released (CMD; PSE when it begins a pause, SST when it is the single    *)
(* step key) and DATA for every key that is dealt with at once.  What a    *)
(* key means in each entry mode is the matter of module Keys.  XROM code   *)
(* is not in the model: a command is one step.                             *)
(***************************************************************************)
EXTENDS Naturals, Sequences

CONSTANTS MAX_EVENTS,   \* bound: events that DMCP's queue holds
          MAX_HELD,     \* bound: keys the user holds down together
          PAUSE         \* the longest pause PSE asks for, in 100 ms ticks

ASSUME LoopAssumption ==
    /\ MAX_EVENTS \in Nat \ {0}
    /\ MAX_HELD \in Nat \ {0}
    /\ PAUSE \in Nat \ {0}

VARIABLES held,         \* keys that are physically down
          queue,        \* DMCP's key queue
          at,           \* where the calculator is: loop, sleep, xeqprog, or its break
          timer,        \* timer 0: off, armed or fired
          age,          \* Keyticks: fresh, long (2 or more) or over (above 12)
          KeyDown, OpCode, OpCodeDisplayPending,
          Running, Pause, JustStopped,
          cause         \* the event behind xeqprog: did the user press a key?

user == <<held, queue>>
clock == <<timer, age>>
program == <<Running, Pause, JustStopped>>
pending == <<OpCode, OpCodeDisplayPending>>
vars == <<held, queue, at, timer, age, KeyDown, OpCode, OpCodeDisplayPending,
          Running, Pause, JustStopped, cause>>

Presses == {"RS", "EXIT", "CMD", "PSE", "SST", "DATA"}

\* STOP is an R/S pressed on a running program with nothing else under way;
\* the code sees the same key.
Events == Presses \cup {"STOP", "RELEASE", "HEARTBEAT"}
Commands == {"RS", "CMD", "PSE", "SST"}

Init ==
    /\ held = 0 /\ queue = <<>>
    /\ at = "loop" /\ timer = "off" /\ age = "fresh"
    /\ OpCode = "none"
    /\ KeyDown = FALSE /\ OpCodeDisplayPending = FALSE
    /\ Running = FALSE /\ Pause = 0 /\ JustStopped = FALSE
    /\ cause = FALSE

-----------------------------------------------------------------------------
(* The user and DMCP: they act whenever they like, also during xeqprog.    *)

Press(k) ==
    /\ held < MAX_HELD
    /\ Len(queue) < MAX_EVENTS
    /\ held' = held + 1
    /\ queue' = Append(queue, IF k = "RS" /\ Running /\ held = 0 /\ queue = <<>>
                              THEN "STOP" ELSE k)
    /\ UNCHANGED <<at, clock, KeyDown, pending, program, cause>>

\* The last key to come up is reported, as code 0 (or 99, KEY_DOUBLE_RELEASE,
\* which remap turns into 0).
LetGo ==
    /\ held > 0
    /\ held' = held - 1
    /\ IF held = 1
       THEN Len(queue) < MAX_EVENTS /\ queue' = Append(queue, "RELEASE")
       ELSE queue' = queue
    /\ UNCHANGED <<at, clock, KeyDown, pending, program, cause>>

TimerFires ==
    /\ timer = "armed"
    /\ timer' = "fired"
    /\ UNCHANGED <<user, at, age, KeyDown, pending, program, cause>>

TimePasses ==
    /\ age # "over"
    /\ age' = IF age = "fresh" THEN "long" ELSE "over"
    /\ UNCHANGED <<user, at, timer, KeyDown, pending, program, cause>>

-----------------------------------------------------------------------------
(* Sleeping and waking: the top of program_main's loop.                    *)

Sleep ==
    /\ at = "loop" /\ queue = <<>>
    /\ at' = "sleep"
    /\ timer' = IF Pause > 0 \/ KeyDown THEN "armed" ELSE "off"
    /\ UNCHANGED <<user, age, KeyDown, pending, program, cause>>

Wake ==
    /\ at = "sleep"
    /\ \/ queue # <<>> /\ timer # "fired" /\ UNCHANGED <<queue, Pause>>
       \/ /\ timer = "fired"
          /\ queue' = Append(queue, "HEARTBEAT")
          /\ Pause' = IF Pause > 0 THEN Pause - 1 ELSE 0
    /\ at' = "loop"
    /\ timer' = "off"
    /\ UNCHANGED <<held, age, KeyDown, pending, Running, JustStopped, cause>>

-----------------------------------------------------------------------------
(* process_keycode.  Each handler takes the event at the head of the queue *)
(* and either returns to the loop or enters xeqprog.                       *)

Fetch(es) ==
    /\ at = "loop" /\ queue # <<>>
    /\ Head(queue) \in es
    /\ queue' = Tail(queue)
    /\ UNCHANGED <<held, timer>>

\* Back to program_main, which starts the key timer after a press and as long
\* as JustStopped waits for the queue to run empty.
Return(pressed, stopped, down) ==
    /\ at' = "loop"
    /\ KeyDown' = (pressed \/ stopped \/ down)
    /\ age' = IF pressed \/ stopped THEN "fresh" ELSE age
    /\ UNCHANGED cause

\* The call of xeqprog; Leave does what follows it.
EnterXeqprog(pressed, down) ==
    /\ at' = "xeqprog"
    /\ cause' = pressed
    /\ KeyDown' = down
    /\ UNCHANGED age

\* A key that has been held too long: NULL.
TooLong == OpCode # "none" /\ ~OpCodeDisplayPending /\ age = "over"

Heartbeat ==
    /\ Fetch({"HEARTBEAT"})
    /\ OpCode' = IF TooLong THEN "none" ELSE OpCode
    /\ OpCodeDisplayPending' = (OpCodeDisplayPending /\ (age = "fresh" \/ OpCode = "none"))
    /\ JustStopped' = (JustStopped /\ queue' # <<>>)
    /\ LET down == KeyDown /\ ~TooLong IN
       IF Running \/ Pause > 0
       THEN EnterXeqprog(FALSE, down)
       ELSE Return(FALSE, JustStopped', down)
    /\ UNCHANGED <<Running, Pause>>

\* Mutant of StopKey: the key ends a pause but leaves the program running.
StopKeyPauseOnly ==
    /\ Running \/ Pause > 0
    /\ Fetch({"RS", "STOP", "EXIT"})
    /\ Running' = (Running /\ Pause > 0) /\ Pause' = 0
    /\ JustStopped' = (JustStopped /\ Head(queue) # "EXIT")
    /\ Return(TRUE, JustStopped', KeyDown)
    /\ UNCHANGED pending

\* R/S or EXIT stops a running program and ends a pause.
StopKey ==
    /\ Running \/ Pause > 0
    /\ Fetch({"RS", "STOP", "EXIT"})
    /\ Running' = FALSE /\ Pause' = 0
    /\ JustStopped' = (JustStopped /\ Head(queue) # "EXIT")
    /\ Return(TRUE, JustStopped', KeyDown)
    /\ UNCHANGED pending

\* Mutant of KeyWhileRunning: the key ends the pause and the program waits on.
KeyWhileRunningReturns ==
    /\ Running \/ Pause > 0
    /\ Fetch(Presses \ {"RS", "EXIT"})
    /\ Pause' = 0 /\ JustStopped' = FALSE
    /\ Return(TRUE, FALSE, KeyDown)
    /\ UNCHANGED <<Running, pending>>

\* Any other key is kept for KEY? and ends a pause; the program goes on.
KeyWhileRunning ==
    /\ Running \/ Pause > 0
    /\ Fetch(Presses \ {"RS", "EXIT"})
    /\ Pause' = 0 /\ JustStopped' = FALSE
    /\ EnterXeqprog(TRUE, KeyDown)
    /\ UNCHANGED <<Running, pending>>

\* An R/S that was on its way when the program ended is thrown away.
IgnoreRS ==
    /\ ~Running /\ Pause = 0 /\ JustStopped
    /\ Fetch({"RS", "STOP"})
    /\ JustStopped' = FALSE
    /\ Return(TRUE, FALSE, KeyDown)
    /\ UNCHANGED <<Running, Pause, pending>>

\* A command waits for its key to be released; it takes the place of one that
\* is still waiting.
CommandKey ==
    /\ ~Running /\ Pause = 0
    /\ Fetch(Commands \cup {"STOP"})
    /\ ~(JustStopped /\ Head(queue) \in {"RS", "STOP"})
    /\ OpCode' = IF Head(queue) = "STOP" THEN "RS" ELSE Head(queue)
    /\ OpCodeDisplayPending' = (OpCode' # "SST")
    /\ JustStopped' = FALSE
    /\ Return(TRUE, FALSE, KeyDown)
    /\ UNCHANGED <<Running, Pause>>

\* EXIT and data entry are dealt with when the key goes down.
DataKey ==
    /\ ~Running /\ Pause = 0
    /\ Fetch({"EXIT", "DATA"})
    /\ JustStopped' = FALSE
    /\ Return(TRUE, FALSE, KeyDown)
    /\ UNCHANGED <<Running, Pause, pending>>

\* Mutant of Release: the command stays pending after it was executed.
ReleaseKeeps ==
    /\ Fetch({"RELEASE"})
    /\ OpCode' = OpCode
    /\ JustStopped' = FALSE
    /\ Running' = CASE OpCode = "RS" -> ~Running [] OpCode = "SST" -> FALSE [] OTHER -> Running
    /\ \/ OpCode \in {"PSE", "SST"} /\ Pause' \in 1 .. PAUSE
       \/ OpCode # "PSE" /\ Pause' = Pause
    /\ IF OpCode \notin {"none", "SST"} /\ (Running' \/ Pause' > 0)
       THEN EnterXeqprog(FALSE, FALSE)
       ELSE Return(FALSE, FALSE, FALSE)
    /\ UNCHANGED OpCodeDisplayPending

\* The key comes up: the waiting command is executed.  op_rs starts or stops
\* the program, PSE sets Pause, SST runs one program step with Running set.
Release ==
    /\ Fetch({"RELEASE"})
    /\ OpCode' = "none"
    /\ JustStopped' = FALSE
    /\ Running' = CASE OpCode = "RS" -> ~Running [] OpCode = "SST" -> FALSE [] OTHER -> Running
    /\ \/ OpCode \in {"PSE", "SST"} /\ Pause' \in 1 .. PAUSE
       \/ OpCode # "PSE" /\ Pause' = Pause
    /\ IF OpCode \notin {"none", "SST"} /\ (Running' \/ Pause' > 0)
       THEN EnterXeqprog(FALSE, FALSE)
       ELSE Return(FALSE, FALSE, FALSE)
    /\ UNCHANGED OpCodeDisplayPending

-----------------------------------------------------------------------------
(* xeqprog                                                                 *)

\* One step of the running program: it goes on, pauses, or comes to an end.
\* A waiting key breaks the loop.
xeq_single ==
    /\ at = "xeqprog" /\ Running /\ Pause = 0
    /\ \/ UNCHANGED <<Running, Pause>>
       \/ Pause' \in 1 .. PAUSE /\ UNCHANGED Running
       \/ Running' = FALSE /\ UNCHANGED Pause
    /\ at' = IF queue = <<>> THEN "xeqprog" ELSE "break"
    /\ UNCHANGED <<user, clock, KeyDown, pending, JustStopped, cause>>

\* Mutant of Leave: nothing marks the end of the program.
LeaveUnmarked ==
    /\ at = "break" \/ (at = "xeqprog" /\ ~(Running /\ Pause = 0))
    /\ UNCHANGED JustStopped
    /\ Return(cause, JustStopped', KeyDown)
    /\ UNCHANGED <<user, timer, Running, Pause, pending>>

\* The end of xeqprog and of process_keycode: JustStopped guards against an R/S
\* that is already in the queue when the program ends.
Leave ==
    /\ at = "break" \/ (at = "xeqprog" /\ ~(Running /\ Pause = 0))
    /\ JustStopped' = (JustStopped \/ (~Running /\ Pause = 0))
    /\ Return(cause, JustStopped', KeyDown)
    /\ UNCHANGED <<user, timer, Running, Pause, pending>>

-----------------------------------------------------------------------------
Environment ==
    \/ \E k \in Presses : Press(k)
    \/ LetGo

process_keycode ==
    \/ Heartbeat
    \/ StopKey
    \/ KeyWhileRunning
    \/ IgnoreRS
    \/ CommandKey
    \/ DataKey
    \/ Release

Calculator ==
    \/ Sleep
    \/ Wake
    \/ process_keycode
    \/ xeq_single
    \/ Leave

Clock ==
    \/ TimerFires
    \/ TimePasses

Next ==
    \/ Environment
    \/ Calculator
    \/ Clock

\* The processor is never withheld for ever, the timer that was started fires
\* and time passes.  Nothing is assumed of the user, who may hold a key down
\* for ever, and nothing of the program, which may run or pause for ever.
Fairness ==
    /\ WF_vars(Calculator)
    /\ WF_vars(TimerFires)
    /\ WF_vars(TimePasses)

Spec == Init /\ [][Next]_vars /\ Fairness

-----------------------------------------------------------------------------
(* Properties                                                              *)

\* R/S pressed to stop a running program does not start it again when the
\* program ends by itself before the key is taken from the queue: JustStopped
\* outlives every heartbeat and timer event that comes in between.
StopNeverStarts ==
    [][ (queue # <<>> /\ Head(queue) = "STOP" /\ queue' = Tail(queue))
        => OpCode' = OpCode ]_vars

\* A stop key in the queue of a running program stops it, whatever keys wait
\* before it and whether the program is paused, running or stalled.
StopWorks ==
    (Running /\ \E i \in 1 .. Len(queue) : queue[i] \in {"STOP", "EXIT"}) ~> ~Running

\* A pause ends by itself, and the program that paused then takes a step
\* unless a key stopped it: the heartbeats that count the pause down also
\* carry the program on.
PauseEnds ==
    (Running /\ Pause > 0) ~> ((at = "xeqprog" /\ Pause = 0) \/ ~Running)

\* No command stays pending once the user leaves the keys alone, even with a
\* key held down for ever: either the key has come up and the command was
\* executed, or it becomes NULL.  The heartbeats that tell need KeyDown.
CommandSettles == <>[][UNCHANGED held]_vars => <>[](OpCode = "none")

\* A program that runs and does not pause keeps executing steps, as the
\* comment of STATE_RUNNING in process_keycode says ("continue execution").
RunsOn == (<>[](Running /\ Pause = 0)) => []<><<xeq_single>>_vars
=============================================================================
