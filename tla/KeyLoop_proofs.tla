---------------------------- MODULE KeyLoop_proofs ----------------------------
(***************************************************************************)
(* An R/S that was pressed to stop a program never starts one, and what      *)
(* waits for a heartbeat never sleeps without a timer, for queues of any     *)
(* length, any number of keys held and pauses of any length.  The second is  *)
(* the safety half of PauseEnds and CommandSettles.                          *)
(***************************************************************************)
EXTENDS KeyLoop, SequenceTheorems, TLAPS

(* Every variable has its type; DMCP's queue takes one event more than the    *)
(* user's, the heartbeat of a waking calculator.                             *)
TypeOK ==
    /\ held \in 0 .. MAX_HELD
    /\ queue \in Seq(Events) /\ Len(queue) <= MAX_EVENTS + 1
    /\ at \in {"loop", "sleep", "xeqprog", "break"}
    /\ timer \in {"off", "armed", "fired"} /\ age \in {"fresh", "long", "over"}
    /\ KeyDown \in BOOLEAN /\ OpCodeDisplayPending \in BOOLEAN
    /\ OpCode \in Commands \cup {"none"}
    /\ Running \in BOOLEAN /\ JustStopped \in BOOLEAN /\ cause \in BOOLEAN
    /\ Pause \in 0 .. PAUSE

(* A stop is the first event of the queue.  Until it is taken the program     *)
(* runs, or has just stopped, or xeqprog is about to say that it has.         *)
StopFirst ==
    /\ \A i \in 2 .. Len(queue) : queue[i] # "STOP"
    /\ queue # <<>> /\ queue[1] = "STOP" =>
           Running \/ JustStopped \/ (at \in {"xeqprog", "break"} /\ Pause = 0)

(* A pending command has its key down as far as process_keycode knows, and    *)
(* with a key down or a pause the calculator sleeps with a timer on; the queue *)
(* has room for its heartbeat.                                                *)
Awaited ==
    /\ OpCode # "none" => KeyDown
    /\ at = "sleep" => /\ Pause > 0 \/ KeyDown => timer # "off"
                       /\ Len(queue) <= MAX_EVENTS

LoopInv == TypeOK /\ StopFirst /\ Awaited

(* What waits for the next heartbeat, a pending command or a pause, gets one:  *)
(* the calculator does not fall asleep on it (program_main).                  *)
HeartbeatComes == at = "sleep" /\ (OpCode # "none" \/ Pause > 0) => timer # "off"

-----------------------------------------------------------------------------
(* The queue *)

(* Behind the event that is taken there is no stop.                           *)
LEMMA TakeFirst ==
    ASSUME TypeOK, StopFirst, NEW es, Fetch(es)
    PROVE  /\ queue' \in Seq(Events) /\ Len(queue') <= MAX_EVENTS
           /\ \A i \in 1 .. Len(queue') : queue'[i] # "STOP"
           /\ queue[1] = Head(queue) /\ Head(queue) \in es /\ Head(queue) \in Events
           /\ at = "loop" /\ held' = held /\ timer' = timer
<1>1. /\ queue # <<>> /\ queue' = Tail(queue) /\ queue \in Seq(Events)
      /\ Len(queue) <= MAX_EVENTS + 1 /\ Head(queue) \in es /\ at = "loop"
      /\ \A i \in 2 .. Len(queue) : queue[i] # "STOP"
      /\ held' = held /\ timer' = timer
  BY DEF Fetch, TypeOK, StopFirst
<1>2. /\ queue' \in Seq(Events) /\ Len(queue') = Len(queue) - 1
      /\ \A i \in 1 .. Len(queue') : queue'[i] = queue[i + 1]
      /\ Head(queue) = queue[1] /\ Head(queue) \in Events /\ Len(queue) \in Nat
  BY <1>1, HeadTailProperties, LenProperties
<1>3. Len(queue') <= MAX_EVENTS
  BY <1>1, <1>2, LoopAssumption, SMT
<1>4. \A i \in 1 .. Len(queue') : i + 1 \in 2 .. Len(queue)
  BY <1>2, SMT
<1>. QED  BY <1>1, <1>2, <1>3, <1>4

(* An event at the end is a stop only of an empty queue.                      *)
LEMMA AddLast ==
    ASSUME TypeOK, StopFirst, NEW e \in Events, queue' = Append(queue, e),
           e = "STOP" => queue = <<>>
    PROVE  /\ queue' \in Seq(Events) /\ Len(queue') = Len(queue) + 1
           /\ queue' # <<>>
           /\ \A i \in 2 .. Len(queue') : queue'[i] # "STOP"
           /\ queue'[1] = "STOP" => e = "STOP" \/ (queue # <<>> /\ queue[1] = "STOP")
<1>1. queue \in Seq(Events) /\ Len(queue) \in Nat
  BY LenProperties DEF TypeOK
<1>2. /\ queue' \in Seq(Events) /\ Len(queue') = Len(queue) + 1
      /\ \A i \in 1 .. Len(queue) : queue'[i] = queue[i]
      /\ queue'[Len(queue) + 1] = e
  BY <1>1, AppendProperties
<1>3. queue' # <<>>
  BY <1>1, <1>2, EmptySeq, SMT
<1>4. (queue = <<>>) <=> Len(queue) = 0
  BY <1>1, EmptySeq
<1>5. \A i \in 2 .. Len(queue') : queue'[i] # "STOP"
  BY <1>1, <1>2, <1>4, SMT DEF StopFirst
<1>6. queue'[1] = "STOP" => e = "STOP" \/ (queue # <<>> /\ queue[1] = "STOP")
  BY <1>1, <1>2, <1>4, SMT
<1>. QED  BY <1>2, <1>3, <1>5, <1>6

-----------------------------------------------------------------------------
(* The invariant *)

LEMMA LoopInit == Init => LoopInv
<1>. SUFFICES ASSUME Init PROVE LoopInv
  OBVIOUS
<1>1. queue = <<>> /\ queue \in Seq(Events) /\ Len(queue) = 0
  BY EmptySeq DEF Init
<1>2. TypeOK
  <2>1. held \in 0 .. MAX_HELD /\ Pause \in 0 .. PAUSE /\ Len(queue) <= MAX_EVENTS + 1
    BY <1>1, LoopAssumption, SMT DEF Init
  <2>. QED  BY <1>1, <2>1, Zenon DEF Init, TypeOK
<1>3. StopFirst /\ Awaited
  BY <1>1, SMT DEF Init, StopFirst, Awaited
<1>. QED  BY <1>2, <1>3 DEF LoopInv

(* The user and the clock.                                                    *)
LEMMA PressKeeps ==
    ASSUME LoopInv, NEW k \in Presses, Press(k)
    PROVE  LoopInv'
<1>. DEFINE e == IF k = "RS" /\ Running /\ held = 0 /\ queue = <<>> THEN "STOP" ELSE k
<1>1. /\ queue' = Append(queue, e) /\ held' = held + 1 /\ held < MAX_HELD
      /\ Len(queue) < MAX_EVENTS
      /\ UNCHANGED <<at, clock, KeyDown, pending, program, cause>>
  BY DEF Press
<1>2. e \in Events /\ (e = "STOP" => queue = <<>> /\ Running)
  BY DEF Events, Presses
<1>. HIDE DEF e
<1>3. /\ queue' \in Seq(Events) /\ Len(queue') = Len(queue) + 1
      /\ \A i \in 2 .. Len(queue') : queue'[i] # "STOP"
      /\ queue'[1] = "STOP" => e = "STOP" \/ (queue # <<>> /\ queue[1] = "STOP")
  BY <1>1, <1>2, AddLast DEF LoopInv
<1>4. Len(queue) \in Nat
  BY LenProperties DEF LoopInv, TypeOK
<1>5. TypeOK'
  BY <1>1, <1>3, <1>4, LoopAssumption, SMT DEF LoopInv, TypeOK, clock, pending, program
<1>6. StopFirst'
  BY <1>1, <1>2, <1>3 DEF LoopInv, StopFirst, program
<1>7. Awaited'
  BY <1>1, <1>3, <1>4, LoopAssumption, SMT DEF LoopInv, Awaited, clock, pending, program
<1>. QED  BY <1>5, <1>6, <1>7 DEF LoopInv

LEMMA LetGoKeeps ==
    ASSUME LoopInv, LetGo
    PROVE  LoopInv'
<1>1. /\ held' = held - 1 /\ held > 0
      /\ UNCHANGED <<at, clock, KeyDown, pending, program, cause>>
  BY DEF LetGo
<1>2. Len(queue) \in Nat
  BY LenProperties DEF LoopInv, TypeOK
<1>3. CASE queue' = queue
  <2>1. TypeOK'
    BY <1>1, <1>3, LoopAssumption, SMT DEF LoopInv, TypeOK, clock, pending, program
  <2>. QED  BY <1>1, <1>3, <2>1 DEF LoopInv, StopFirst, Awaited, clock, pending, program
<1>4. CASE queue' = Append(queue, "RELEASE") /\ Len(queue) < MAX_EVENTS
  <2>1. /\ queue' \in Seq(Events) /\ Len(queue') = Len(queue) + 1
        /\ \A i \in 2 .. Len(queue') : queue'[i] # "STOP"
        /\ queue'[1] = "STOP" => queue # <<>> /\ queue[1] = "STOP"
    BY <1>4, AddLast DEF LoopInv, Events
  <2>2. TypeOK'
    BY <1>1, <1>2, <1>4, <2>1, LoopAssumption, SMT DEF LoopInv, TypeOK, clock, pending, program
  <2>3. StopFirst'
    BY <1>1, <2>1 DEF LoopInv, StopFirst, program
  <2>4. Awaited'
    BY <1>1, <1>2, <1>4, <2>1, LoopAssumption, SMT DEF LoopInv, Awaited, clock, pending, program
  <2>. QED  BY <2>2, <2>3, <2>4 DEF LoopInv
<1>. QED  BY <1>3, <1>4 DEF LetGo

LEMMA ClockKeeps ==
    ASSUME LoopInv, Clock
    PROVE  LoopInv'
<1>1. CASE TimerFires
  BY <1>1 DEF TimerFires, LoopInv, TypeOK, StopFirst, Awaited, user, pending, program
<1>2. CASE TimePasses
  BY <1>2 DEF TimePasses, LoopInv, TypeOK, StopFirst, Awaited, user, pending, program
<1>. QED  BY <1>1, <1>2 DEF Clock

(* Falling asleep and waking up.                                              *)
LEMMA SleepKeeps ==
    ASSUME LoopInv, Sleep
    PROVE  LoopInv'
<1>1. /\ queue = <<>> /\ at' = "sleep"
      /\ timer' = (IF Pause > 0 \/ KeyDown THEN "armed" ELSE "off")
      /\ UNCHANGED <<user, age, KeyDown, pending, program, cause>>
  BY DEF Sleep
<1>2. Len(queue) = 0
  BY <1>1, EmptySeq
<1>3. TypeOK'
  BY <1>1 DEF LoopInv, TypeOK, user, pending, program
<1>4. StopFirst'
  BY <1>1 DEF LoopInv, StopFirst, user, program
<1>5. Awaited'
  BY <1>1, <1>2, LoopAssumption, SMT DEF LoopInv, Awaited, user, pending, program
<1>. QED  BY <1>3, <1>4, <1>5 DEF LoopInv

LEMMA WakeKeeps ==
    ASSUME LoopInv, Wake
    PROVE  LoopInv'
<1>1. /\ at = "sleep" /\ at' = "loop" /\ timer' = "off"
      /\ UNCHANGED <<held, age, KeyDown, pending, Running, JustStopped, cause>>
  BY DEF Wake
<1>2. Len(queue) \in Nat /\ Len(queue) <= MAX_EVENTS
  BY <1>1, LenProperties DEF LoopInv, TypeOK, Awaited
<1>3. Awaited'
  BY <1>1 DEF LoopInv, Awaited, pending
<1>4. CASE UNCHANGED <<queue, Pause>>
  <2>1. TypeOK'
    BY <1>1, <1>4 DEF LoopInv, TypeOK, pending
  <2>2. StopFirst'
    BY <1>1, <1>4 DEF LoopInv, StopFirst
  <2>. QED  BY <1>3, <2>1, <2>2 DEF LoopInv
<1>5. CASE /\ queue' = Append(queue, "HEARTBEAT")
           /\ Pause' = IF Pause > 0 THEN Pause - 1 ELSE 0
  <2>1. /\ queue' \in Seq(Events) /\ Len(queue') = Len(queue) + 1
        /\ \A i \in 2 .. Len(queue') : queue'[i] # "STOP"
        /\ queue'[1] = "STOP" => queue # <<>> /\ queue[1] = "STOP"
    BY <1>5, AddLast DEF LoopInv, Events
  <2>2. Pause' \in 0 .. PAUSE
    BY <1>5, LoopAssumption, SMT DEF LoopInv, TypeOK
  <2>3. Len(queue') <= MAX_EVENTS + 1
    BY <1>2, <2>1, LoopAssumption, SMT
  <2>4. TypeOK'
    BY <1>1, <2>1, <2>2, <2>3 DEF LoopInv, TypeOK, pending
  <2>5. StopFirst'
    BY <1>1, <2>1 DEF LoopInv, StopFirst
  <2>. QED  BY <1>3, <2>4, <2>5 DEF LoopInv
<1>. QED  BY <1>4, <1>5 DEF Wake

(* The cases of process_keycode: whatever they do, no stop is first then.      *)
LEMMA NoStopThen ==
    ASSUME LoopInv, NEW es, Fetch(es)
    PROVE  StopFirst'
<1>1. queue' \in Seq(Events) /\ \A i \in 1 .. Len(queue') : queue'[i] # "STOP"
  BY TakeFirst DEF LoopInv
<1>2. Len(queue') \in Nat /\ (queue' # <<>> => Len(queue') > 0)
  BY <1>1, EmptySeq, LenProperties, SMT
<1>3. queue' # <<>> => queue'[1] # "STOP"
  BY <1>1, <1>2, SMT
<1>4. \A i \in 2 .. Len(queue') : queue'[i] # "STOP"
  BY <1>1, <1>2, SMT
<1>. QED  BY <1>3, <1>4 DEF StopFirst

LEMMA HandlersKeep ==
    ASSUME LoopInv, process_keycode
    PROVE  LoopInv'
<1>. DEFINE Taken == /\ queue' \in Seq(Events) /\ Len(queue') <= MAX_EVENTS + 1
                     /\ held' = held /\ timer' = timer /\ StopFirst'
<1>1. ASSUME NEW es, Fetch(es)
      PROVE  Taken /\ Head(queue) \in es
  <2>1. /\ queue' \in Seq(Events) /\ Len(queue') <= MAX_EVENTS
        /\ held' = held /\ timer' = timer /\ Head(queue) \in es
    BY <1>1, TakeFirst DEF LoopInv
  <2>2. Len(queue') \in Nat
    BY <2>1, LenProperties
  <2>3. Len(queue') <= MAX_EVENTS + 1
    BY <2>1, <2>2, LoopAssumption, SMT
  <2>. QED  BY <1>1, <2>1, <2>3, NoStopThen
<1>2. PAUSE \in Nat /\ 0 \in 0 .. PAUSE /\ 1 .. PAUSE \subseteq 0 .. PAUSE
  BY LoopAssumption, SMT
<1>. HIDE DEF Taken
<1>3. CASE Heartbeat
  <2>1. Taken
    BY <1>1, <1>3 DEF Heartbeat
  <2>2. TypeOK'
    BY <1>3, <2>1, Zenon DEF Taken, Heartbeat, Return, EnterXeqprog, LoopInv, TypeOK
  <2>3. Awaited'
    BY <1>3, Zenon DEF Heartbeat, TooLong, Return, EnterXeqprog, LoopInv, Awaited
  <2>. QED  BY <2>1, <2>2, <2>3 DEF Taken, LoopInv
<1>4. CASE StopKey
  <2>1. Taken
    BY <1>1, <1>4 DEF StopKey
  <2>2. TypeOK'
    BY <1>2, <1>4, <2>1, Zenon DEF Taken, StopKey, Return, LoopInv, TypeOK, pending
  <2>3. Awaited'
    BY <1>4, Zenon DEF StopKey, Return, LoopInv, Awaited, pending
  <2>. QED  BY <2>1, <2>2, <2>3 DEF Taken, LoopInv
<1>5. CASE KeyWhileRunning
  <2>1. Taken
    BY <1>1, <1>5 DEF KeyWhileRunning
  <2>2. TypeOK'
    BY <1>2, <1>5, <2>1, Zenon
       DEF Taken, KeyWhileRunning, EnterXeqprog, LoopInv, TypeOK, pending
  <2>3. Awaited'
    BY <1>5, Zenon DEF KeyWhileRunning, EnterXeqprog, LoopInv, Awaited, pending
  <2>. QED  BY <2>1, <2>2, <2>3 DEF Taken, LoopInv
<1>6. CASE IgnoreRS
  <2>1. Taken
    BY <1>1, <1>6 DEF IgnoreRS
  <2>2. TypeOK'
    BY <1>6, <2>1, Zenon DEF Taken, IgnoreRS, Return, LoopInv, TypeOK, pending
  <2>3. Awaited'
    BY <1>6, Zenon DEF IgnoreRS, Return, LoopInv, Awaited, pending
  <2>. QED  BY <2>1, <2>2, <2>3 DEF Taken, LoopInv
<1>7. CASE CommandKey
  <2>1. Taken /\ Head(queue) \in Commands \cup {"STOP"}
    BY <1>1, <1>7 DEF CommandKey
  <2>2. OpCode' \in Commands /\ OpCodeDisplayPending' \in BOOLEAN
    BY <1>7, <2>1 DEF CommandKey, Commands
  <2>3. TypeOK'
    BY <1>7, <2>1, <2>2, Zenon DEF Taken, CommandKey, Return, LoopInv, TypeOK
  <2>4. Awaited'
    BY <1>7, Zenon DEF CommandKey, Return, LoopInv, Awaited
  <2>. QED  BY <2>1, <2>3, <2>4 DEF Taken, LoopInv
<1>8. CASE DataKey
  <2>1. Taken
    BY <1>1, <1>8 DEF DataKey
  <2>2. TypeOK'
    BY <1>8, <2>1, Zenon DEF Taken, DataKey, Return, LoopInv, TypeOK, pending
  <2>3. Awaited'
    BY <1>8, Zenon DEF DataKey, Return, LoopInv, Awaited, pending
  <2>. QED  BY <2>1, <2>2, <2>3 DEF Taken, LoopInv
<1>9. CASE Release
  <2>1. Taken
    BY <1>1, <1>9 DEF Release
  <2>2. Running' \in BOOLEAN /\ Pause' \in 0 .. PAUSE
    BY <1>2, <1>9 DEF Release, LoopInv, TypeOK
  <2>3. TypeOK'
    BY <1>9, <2>1, <2>2, Zenon DEF Taken, Release, Return, EnterXeqprog, LoopInv, TypeOK
  <2>4. Awaited'
    BY <1>9, Zenon DEF Release, Return, EnterXeqprog, LoopInv, Awaited
  <2>. QED  BY <2>1, <2>3, <2>4 DEF Taken, LoopInv
<1>. QED  BY <1>3, <1>4, <1>5, <1>6, <1>7, <1>8, <1>9 DEF process_keycode

(* xeqprog: a program that ends does so with no pause, and Leave marks it.     *)
LEMMA ExecutionKeeps ==
    ASSUME LoopInv, xeq_single \/ Leave
    PROVE  LoopInv'
<1>1. 1 .. PAUSE \subseteq 0 .. PAUSE
  BY LoopAssumption, SMT
<1>2. CASE xeq_single
  <2>1. /\ at' \in {"xeqprog", "break"} /\ Running /\ Pause = 0
        /\ Running' \in BOOLEAN /\ Pause' \in 0 .. PAUSE /\ (Running' \/ Pause' = 0)
        /\ UNCHANGED <<user, clock, KeyDown, pending, JustStopped, cause>>
    BY <1>1, <1>2 DEF xeq_single, LoopInv, TypeOK
  <2>2. TypeOK'
    BY <2>1, Zenon DEF LoopInv, TypeOK, user, clock, pending
  <2>3. StopFirst'
    BY <2>1, Zenon DEF LoopInv, StopFirst, user
  <2>4. Awaited'
    BY <2>1 DEF LoopInv, Awaited, pending
  <2>. QED  BY <2>2, <2>3, <2>4 DEF LoopInv
<1>3. CASE Leave
  <2>1. /\ at \in {"xeqprog", "break"} /\ at' = "loop"
        /\ JustStopped' = (JustStopped \/ (~Running /\ Pause = 0))
        /\ JustStopped' \in BOOLEAN /\ age' \in {"fresh", "long", "over"}
        /\ KeyDown' \in BOOLEAN /\ (KeyDown => KeyDown') /\ cause' = cause
        /\ UNCHANGED <<user, timer, Running, Pause, pending>>
    BY <1>3 DEF Leave, Return, LoopInv, TypeOK
  <2>2. TypeOK'
    BY <2>1, Zenon DEF LoopInv, TypeOK, user, pending
  <2>3. StopFirst'
    BY <2>1, Zenon DEF LoopInv, StopFirst, user
  <2>4. Awaited'
    BY <2>1 DEF LoopInv, Awaited, pending
  <2>. QED  BY <2>2, <2>3, <2>4 DEF LoopInv
<1>. QED  BY <1>2, <1>3

LEMMA LoopStep ==
    ASSUME LoopInv, [Next]_vars
    PROVE  LoopInv'
<1>1. CASE Environment
  BY <1>1, PressKeeps, LetGoKeeps DEF Environment
<1>2. CASE Calculator
  BY <1>2, SleepKeeps, WakeKeeps, HandlersKeep, ExecutionKeeps DEF Calculator
<1>3. CASE UNCHANGED vars
  BY <1>3 DEF vars, LoopInv, TypeOK, StopFirst, Awaited
<1>. QED  BY <1>1, <1>2, <1>3, ClockKeeps DEF Next

-----------------------------------------------------------------------------
(* Results *)

(* Types, and the two facts the results need, after any events and program.   *)
THEOREM LoopIsSound == Spec => []LoopInv
  BY LoopInit, LoopStep, PTL DEF Spec

(* Neither a pause nor a pending command is ever left without a heartbeat to   *)
(* come: program_main starts the timer before it sleeps.                      *)
THEOREM AlwaysAwaited == Spec => []HeartbeatComes
<1>1. LoopInv => HeartbeatComes
  BY DEF LoopInv, Awaited, HeartbeatComes
<1>. QED  BY <1>1, LoopIsSound, PTL

(* An R/S pressed to stop a running program is taken as a stop, or thrown away *)
(* if the program ends first; it is never a command that starts one.          *)
THEOREM StopsNeverStart == Spec => StopNeverStarts
<1>. DEFINE Stop == queue # <<>> /\ Head(queue) = "STOP" /\ queue' = Tail(queue)
<1>1. ASSUME LoopInv, Next, Stop
      PROVE  OpCode' = OpCode
  <2>1. /\ queue \in Seq(Events) /\ Len(queue) \in Nat /\ queue[1] = "STOP"
        /\ Len(queue') = Len(queue) - 1
    BY <1>1, LenProperties, HeadTailProperties DEF LoopInv, TypeOK
  <2>2. CASE \/ Environment \/ Clock \/ Sleep \/ Wake \/ xeq_single \/ Leave
    BY <2>2 DEF Environment, Press, LetGo, Clock, TimerFires, TimePasses, Sleep, Wake,
                xeq_single, Leave, pending
  <2>3. CASE Heartbeat \/ KeyWhileRunning \/ DataKey \/ Release
    BY <1>1, <2>3 DEF Heartbeat, KeyWhileRunning, DataKey, Release, Fetch, Presses
  <2>4. CASE StopKey \/ IgnoreRS
    BY <2>4 DEF StopKey, IgnoreRS, pending
  <2>5. CASE CommandKey
    <3>1. ~Running /\ Pause = 0 /\ ~JustStopped /\ at = "loop"
      BY <1>1, <2>5 DEF CommandKey, Fetch
    <3>. QED  BY <1>1, <2>1, <3>1 DEF LoopInv, StopFirst
  <2>. QED  BY <1>1, <2>2, <2>3, <2>4, <2>5 DEF Next, Calculator, process_keycode
<1>2. LoopInv /\ [Next]_vars => [Stop => OpCode' = OpCode]_vars
  BY <1>1
<1>. QED  BY <1>2, LoopIsSound, PTL DEF Spec, StopNeverStarts
=============================================================================
