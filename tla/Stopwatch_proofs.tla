--------------------------- MODULE Stopwatch_proofs ---------------------------
(***************************************************************************)
(* The watch is a timer and its split goes to a register there is, for any   *)
(* number of registers, digits and times.  The operators of Stopwatch take   *)
(* the watch as a record and give it back, so a record is what the lemmas    *)
(* are about: each key keeps it Sound, and what it shows changes as a timer's *)
(* time does (ShowsAsTimer).                                                 *)
(***************************************************************************)
EXTENDS Stopwatch, TLAPS

(* What a watch is when the clock shows t and there are n registers.          *)
Watches(t) ==
    [running : BOOLEAN, mode : {"none", "select_memory", "rcl"},
     first : 0 .. t, total : 0 .. t, time : 0 .. t - 1, memory : Nat,
     digit : -1 .. RADIX - 1, rcl : -SCHAR .. SCHAR - 1,
     remanent : 0 .. REMANENCE + 2, n : Nat, open : BOOLEAN]

(* A running round has begun; one that has not has taken no time; the split's *)
(* register and the digit are below the number of registers where the watch   *)
(* is in use, and what is shown as recalled fades before Remanent overflows.   *)
Sound(w, n) ==
    /\ w.running => w.first > 0
    /\ ~w.running /\ w.open /\ w.first = 0 => w.time = 0
    /\ (w.running \/ w.open) /\ n > 0 => w.memory < n
    /\ w.open => w.digit < n
    /\ w.rcl >= 0 => w.remanent <= REMANENCE + 1

Shows(w, t) == IF w.running THEN t - w.first ELSE IF w.open THEN w.time ELSE 0

(* The steps of Timer, with Tick left aside, as seen on the watch.            *)
ShowsAsTimer(v, w, t) ==
    \/ v.running = w.running /\ Shows(v, t) = Shows(w, t)
    \/ v.running = ~w.running /\ Shows(v, t) = Shows(w, t)
    \/ v.running = w.running /\ Shows(v, t) \in Recalled \cup {0}

(* The watch in a call of the callback, after Update.                         *)
InUse(w) ==
    /\ w \in Watches(ticker) /\ Sound(w, registers)
    /\ w.open /\ (w.running => w.time = ticker - w.first)

(* What a key may leave: a sound watch that still shows what a timer would.   *)
Kept(v, w) ==
    v \in Watches(ticker) /\ Sound(v, registers) /\ ShowsAsTimer(v, w, ticker)

(* The clock and the registers, as far as the keys need them.                 *)
Clock == ticker \in Nat /\ ticker >= BOOT /\ registers \in Sizes

-----------------------------------------------------------------------------
LEMMA ConstantsAre ==
    /\ RADIX \in Nat /\ RADIX > 1 /\ SCHAR \in Nat /\ SCHAR > 0
    /\ REMANENCE \in Nat /\ BOOT \in Nat /\ BOOT > 0
    /\ MAX_TICKER \in Nat /\ BOOT <= MAX_TICKER
    /\ \A n \in Sizes : n \in Nat /\ n <= SCHAR
    /\ \A t \in Recalled : t \in Nat /\ t < BOOT
  BY StopwatchConstants, SMT

(* A number stored in a signed char is one.                                   *)
LEMMA CharInRange ==
    ASSUME NEW n \in Int
    PROVE  Char(n) \in -SCHAR .. SCHAR - 1
  BY ConstantsAre, SMTT(30) DEF Char

(* The digit typed for a number of two digits is itself a register's number.  *)
LEMMA FirstDigitIsRegister ==
    ASSUME NEW n \in Nat, n > 0, NEW d \in Nat, d <= n \div RADIX
    PROVE  d < n
  BY ConstantsAre, SMTT(30)

-----------------------------------------------------------------------------
(* Changes that concern the split's register, the digits and the number shown *)
(* as recalled, and leave the time alone.                                     *)
Alike(v, w) ==
    /\ v \in Watches(ticker) /\ Sound(v, registers)
    /\ v.running = w.running /\ v.open = w.open
    /\ v.first = w.first /\ v.time = w.time

LEMMA AlikeShows ==
    ASSUME NEW v, NEW w, Alike(v, w)
    PROVE  Shows(v, ticker) = Shows(w, ticker)
  BY Zenon DEF Alike, Shows

LEMMA AlikeInUse ==
    ASSUME NEW v, NEW w, InUse(w), Alike(v, w)
    PROVE  InUse(v) /\ Kept(v, w)
  BY AlikeShows, Zenon DEF Alike, InUse, Kept, ShowsAsTimer

LEMMA KeptThenAlike ==
    ASSUME NEW u, NEW v, NEW w, Kept(v, w), Alike(u, v)
    PROVE  Kept(u, w)
  BY AlikeShows, Zenon DEF Alike, Kept, ShowsAsTimer

LEMMA AlikeThenKept ==
    ASSUME NEW u, NEW v, NEW w, Alike(v, w), Kept(u, v)
    PROVE  Kept(u, w)
  BY AlikeShows, Zenon DEF Alike, Kept, ShowsAsTimer

(* Other values of the mode, the digit and the split's register.              *)
LEMMA SettingsAlike ==
    ASSUME NEW w \in Watches(ticker), Sound(w, registers), w.open => w.digit < registers,
           NEW v \in Watches(ticker),
           v.running = w.running, v.open = w.open, v.first = w.first, v.time = w.time,
           \/ v.rcl = w.rcl /\ v.remanent = w.remanent
           \/ v.rcl >= 0 => v.remanent <= REMANENCE + 1,
           v.digit = w.digit \/ v.digit < registers,
           v.memory = w.memory \/ (registers > 0 => v.memory < registers)
    PROVE  Alike(v, w)
<1>1. (v.running <=> w.running) /\ (v.open <=> w.open)
  BY Zenon
<1>2. Sound(v, registers)
  BY <1>1, SMT DEF Sound
<1>. QED  BY <1>2, Zenon DEF Alike

LEMMA ModeAlike ==
    ASSUME NEW w \in Watches(ticker), Sound(w, registers),
           NEW m \in {"none", "select_memory", "rcl"}
    PROVE  Alike([w EXCEPT !.mode = m], w)
<1>. DEFINE v == [w EXCEPT !.mode = m]
<1>1. v \in Watches(ticker)
  BY Zenon DEF Watches
<1>2. /\ v.running = w.running /\ v.open = w.open /\ v.first = w.first
      /\ v.time = w.time /\ v.memory = w.memory /\ v.digit = w.digit
      /\ v.rcl = w.rcl /\ v.remanent = w.remanent
  BY Zenon DEF Watches
<1>. HIDE DEF v
<1>3. Alike(v, w)
  BY <1>1, <1>2, SettingsAlike, Zenon DEF Sound
<1>. QED  BY <1>3, Zenon DEF v

LEMMA DigitAlike ==
    ASSUME NEW w \in Watches(ticker), Sound(w, registers),
           NEW d \in -1 .. RADIX - 1, d < registers
    PROVE  Alike([w EXCEPT !.digit = d], w)
<1>. DEFINE v == [w EXCEPT !.digit = d]
<1>1. v \in Watches(ticker)
  BY Zenon DEF Watches
<1>2. /\ v.running = w.running /\ v.open = w.open /\ v.first = w.first
      /\ v.time = w.time /\ v.memory = w.memory /\ v.digit = d
      /\ v.rcl = w.rcl /\ v.remanent = w.remanent
  BY Zenon DEF Watches
<1>. HIDE DEF v
<1>3. Alike(v, w)
  BY <1>1, <1>2, SettingsAlike, Zenon DEF Sound
<1>. QED  BY <1>3, Zenon DEF v

LEMMA ModeDigitAlike ==
    ASSUME NEW w \in Watches(ticker), Sound(w, registers), -1 < registers,
           NEW m \in {"none", "select_memory", "rcl"}, -1 \in -1 .. RADIX - 1
    PROVE  Alike([w EXCEPT !.mode = m, !.digit = -1], w)
<1>. DEFINE v == [w EXCEPT !.mode = m, !.digit = -1]
<1>1. v \in Watches(ticker)
  BY Zenon DEF Watches
<1>2. /\ v.running = w.running /\ v.open = w.open /\ v.first = w.first
      /\ v.time = w.time /\ v.memory = w.memory /\ v.digit = -1
      /\ v.rcl = w.rcl /\ v.remanent = w.remanent
  BY Zenon DEF Watches
<1>. HIDE DEF v
<1>3. Alike(v, w)
  BY <1>1, <1>2, SettingsAlike, Zenon DEF Sound
<1>. QED  BY <1>3, Zenon DEF v

LEMMA MemoryAlike ==
    ASSUME NEW w \in Watches(ticker), Sound(w, registers),
           NEW i \in Nat, registers > 0 => i < registers
    PROVE  Alike([w EXCEPT !.memory = i], w)
<1>. DEFINE v == [w EXCEPT !.memory = i]
<1>1. v \in Watches(ticker)
  BY Zenon DEF Watches
<1>2. /\ v.running = w.running /\ v.open = w.open /\ v.first = w.first
      /\ v.time = w.time /\ v.memory = i /\ v.digit = w.digit
      /\ v.rcl = w.rcl /\ v.remanent = w.remanent
  BY Zenon DEF Watches
<1>. HIDE DEF v
<1>3. Alike(v, w)
  BY <1>1, <1>2, SettingsAlike, Zenon DEF Sound
<1>. QED  BY <1>3, Zenon DEF v

-----------------------------------------------------------------------------
(* What each key does to the time *)

(* R/S: on and off without a change of what is shown (toggle_running).        *)
LEMMA ToggleKept ==
    ASSUME Clock, NEW w, InUse(w)
    PROVE  Kept(toggle_running(w), w)
<1>. DEFINE v == toggle_running(w)
            first == IF w.running THEN w.first
                     ELSE IF w.first = 0 THEN ticker ELSE ticker - w.time
<1>1. w \in Watches(ticker) /\ ticker \in Nat /\ ticker > 0
  BY ConstantsAre, SMT DEF Clock, InUse
<1>2. first \in 0 .. ticker
  BY <1>1, SMT DEF Watches
<1>3. v \in Watches(ticker)
  BY <1>1, <1>2, Zenon DEF Watches, toggle_running
<1>4. v.running = ~w.running /\ v.open = w.open
  BY <1>1, Zenon DEF Watches, toggle_running
<1>5. /\ v.first = first /\ v.time = w.time /\ v.memory = w.memory
      /\ v.digit = w.digit /\ v.rcl = w.rcl /\ v.remanent = w.remanent
  BY <1>1, Zenon DEF Watches, toggle_running
<1>. HIDE DEF v
<1>6. (v.running <=> ~w.running) /\ (v.open <=> w.open)
  BY <1>4, Zenon
<1>7. Sound(v, registers)
  BY <1>1, <1>5, <1>6, SMT DEF Watches, InUse, Sound
<1>8. Shows(v, ticker) = Shows(w, ticker)
  BY <1>1, <1>5, <1>6, SMT DEF Watches, InUse, Sound, Shows
<1>. QED  BY <1>3, <1>4, <1>7, <1>8 DEF Kept, ShowsAsTimer, v

(* A new round: 0 is shown if the watch runs, otherwise what was shown.        *)
LEMMA RoundKept ==
    ASSUME Clock, NEW w, InUse(w)
    PROVE  Kept(NewRound(w), w) /\ NewRound(w).open = w.open
<1>. DEFINE v == NewRound(w)
            total == IF w.total = 0 THEN w.first ELSE w.total
<1>1. w \in Watches(ticker) /\ ticker \in Nat /\ ticker > 0
  BY ConstantsAre, SMT DEF Clock, InUse
<1>2. ticker \in 0 .. ticker /\ total \in 0 .. ticker
  BY <1>1, SMT DEF Watches
<1>3. v \in Watches(ticker)
  BY <1>1, <1>2, Zenon DEF Watches, NewRound
<1>4. v.running = w.running /\ v.open = w.open
  BY <1>1, Zenon DEF Watches, NewRound
<1>5. /\ v.first = ticker /\ v.time = w.time /\ v.memory = w.memory
      /\ v.digit = w.digit /\ v.rcl = w.rcl /\ v.remanent = w.remanent
  BY <1>1, Zenon DEF Watches, NewRound
<1>. HIDE DEF v
<1>6. (v.running <=> w.running) /\ (v.open <=> w.open)
  BY <1>4, Zenon
<1>7. Sound(v, registers)
  BY <1>1, <1>5, <1>6, SMT DEF Watches, InUse, Sound
<1>8. Shows(v, ticker) = Shows(w, ticker) \/ Shows(v, ticker) \in Recalled \cup {0}
  BY <1>1, <1>5, <1>6, SMT DEF Watches, InUse, Shows
<1>9. Kept(v, w)
  BY <1>3, <1>4, <1>7, <1>8, Zenon DEF Kept, ShowsAsTimer
<1>. QED  BY <1>4, <1>9, Zenon DEF v

(* CLEAR: 0 is shown (process_stopwatch_key).                                  *)
LEMMA ClearKept ==
    ASSUME Clock, NEW w, InUse(w),
           NEW u, u = IF w.running THEN NewRound(w)
                      ELSE [w EXCEPT !.total = 0, !.first = 0]
    PROVE  Kept([u EXCEPT !.time = 0], w)
<1>. DEFINE v == [u EXCEPT !.time = 0]
<1>1. w \in Watches(ticker) /\ ticker \in Nat /\ ticker > 0
  BY ConstantsAre, SMT DEF Clock, InUse
<1>2. 0 \in 0 .. ticker /\ 0 \in 0 .. ticker - 1 /\ ticker \in 0 .. ticker
  BY <1>1, SMT
<1>3. u \in Watches(ticker) /\ u.running = w.running /\ u.open = w.open
      /\ u.first = (IF w.running THEN ticker ELSE 0) /\ u.memory = w.memory
      /\ u.digit = w.digit /\ u.rcl = w.rcl /\ u.remanent = w.remanent
  <2>1. CASE w.running
    <3>1. u = NewRound(w)
      BY <2>1, Zenon
    <3>2. u \in Watches(ticker) /\ u.open = w.open
      BY <3>1, RoundKept, Zenon DEF Kept
    <3>. QED  BY <1>1, <2>1, <3>1, <3>2, Zenon DEF Watches, NewRound
  <2>2. CASE ~w.running
    <3>1. u = [w EXCEPT !.total = 0, !.first = 0]
      BY <2>2, Zenon
    <3>. QED  BY <1>1, <1>2, <2>2, <3>1, Zenon DEF Watches
  <2>. QED  BY <2>1, <2>2, Zenon
<1>4. v \in Watches(ticker)
  BY <1>2, <1>3, Zenon DEF Watches
<1>5. v.running = w.running /\ v.open = w.open
  BY <1>3, Zenon DEF Watches
<1>6. /\ v.first = (IF w.running THEN ticker ELSE 0) /\ v.time = 0 /\ v.memory = w.memory
      /\ v.digit = w.digit /\ v.rcl = w.rcl /\ v.remanent = w.remanent
  BY <1>3, Zenon DEF Watches
<1>. HIDE DEF v
<1>7. (v.running <=> w.running) /\ (v.open <=> w.open)
  BY <1>5, Zenon
<1>8. Sound(v, registers)
  BY <1>1, <1>6, <1>7, SMT DEF Watches, InUse, Sound
<1>9. Shows(v, ticker) = 0
  BY <1>1, <1>6, <1>7, SMT DEF Watches, InUse, Shows
<1>10. Kept(v, w)
  BY <1>4, <1>5, <1>8, <1>9, Zenon DEF Kept, ShowsAsTimer
<1>. QED  BY <1>10, Zenon DEF v

(* A time found in a register there is becomes the watch's (recall_memory).    *)
LEMMA RecallKept ==
    ASSUME Clock, NEW w, InUse(w),
           NEW index \in Nat, index < registers, NEW previous \in Recalled
    PROVE  Kept(recall_memory(w, index, previous), w)
<1>. DEFINE v == recall_memory(w, index, previous)
<1>1. /\ w \in Watches(ticker) /\ ticker \in Nat /\ ticker > 0
      /\ previous \in 0 .. ticker - 1 /\ ticker - previous \in 0 .. ticker
      /\ ticker - previous > 0 /\ ticker - (ticker - previous) = previous
      /\ index \in -SCHAR .. SCHAR - 1 /\ registers \in Nat
      /\ -1 \in -1 .. RADIX - 1 /\ 0 \in 0 .. REMANENCE + 2 /\ 0 <= REMANENCE + 1
  BY ConstantsAre, SMT DEF Clock, InUse
<1>2. v \in Watches(ticker)
  BY <1>1, Zenon DEF Watches, recall_memory
<1>3. v.running = w.running /\ v.open = w.open
  BY <1>1, Zenon DEF Watches, recall_memory
<1>4. /\ v.first = ticker - previous /\ v.time = previous /\ v.memory = w.memory
      /\ v.digit = -1 /\ v.rcl = index /\ v.remanent = 0
  BY <1>1, Zenon DEF Watches, recall_memory
<1>. HIDE DEF v
<1>5. (v.running <=> w.running) /\ (v.open <=> w.open)
  BY <1>3, Zenon
<1>6. Sound(v, registers)
  BY <1>1, <1>4, <1>5, SMT DEF Watches, InUse, Sound
<1>7. Shows(v, ticker) = previous
  BY <1>1, <1>4, <1>5, SMT DEF InUse, Shows
<1>8. Kept(v, w)
  BY <1>2, <1>3, <1>6, <1>7, Zenon DEF Kept, ShowsAsTimer
<1>. QED  BY <1>8, Zenon DEF v

(* A point summed up: 0 is shown, unless the round is not ended                *)
(* (stopwatch_sigma_plus).                                                    *)
LEMMA SumKept ==
    ASSUME Clock, NEW w, InUse(w), NEW room \in BOOLEAN
    PROVE  Kept(stopwatch_sigma_plus(w, room), w)
<1>. DEFINE v == stopwatch_sigma_plus(w, room)
            shown == Char(w.n + 1)
<1>1. /\ w \in Watches(ticker) /\ Sound(w, registers) /\ ticker \in Nat /\ ticker > 0
      /\ 0 \in 0 .. ticker - 1 /\ 0 \in 0 .. REMANENCE + 2 /\ -1 \in -SCHAR .. SCHAR - 1
      /\ w.n + 1 \in Nat /\ w.n + 1 \in Int
  BY ConstantsAre, SMT DEF Clock, InUse, Watches
<1>2. shown \in -SCHAR .. SCHAR - 1
  BY <1>1, CharInRange
<1>. HIDE DEF shown
<1>3. CASE ~room
  <2>1. v = [w EXCEPT !.rcl = -1]
    BY <1>3, Zenon DEF stopwatch_sigma_plus
  <2>. HIDE DEF v
  <2>2. v \in Watches(ticker)
    BY <1>1, <2>1, Zenon DEF Watches
  <2>3. /\ v.running = w.running /\ v.open = w.open /\ v.first = w.first
        /\ v.time = w.time /\ v.memory = w.memory /\ v.digit = w.digit /\ v.rcl = -1
    BY <1>1, <2>1, Zenon DEF Watches
  <2>4. v.rcl >= 0 => v.remanent <= REMANENCE + 1
    BY <2>3, SMT
  <2>5. Alike(v, w)
    BY <1>1, <2>2, <2>3, <2>4, SettingsAlike, Zenon DEF InUse, Sound
  <2>. QED  BY <2>5, AlikeInUse, Zenon DEF v
<1>4. CASE room /\ shown < 0
  <2>1. v = [w EXCEPT !.n = w.n + 1, !.rcl = shown]
    BY <1>4, Zenon DEF stopwatch_sigma_plus, shown
  <2>. HIDE DEF v
  <2>2. v \in Watches(ticker)
    BY <1>1, <1>2, <2>1, Zenon DEF Watches
  <2>3. /\ v.running = w.running /\ v.open = w.open /\ v.first = w.first
        /\ v.time = w.time /\ v.memory = w.memory /\ v.digit = w.digit /\ v.rcl = shown
    BY <1>1, <2>1, Zenon DEF Watches
  <2>4. v.rcl >= 0 => v.remanent <= REMANENCE + 1
    BY <1>2, <1>4, <2>3, SMT
  <2>5. Alike(v, w)
    BY <1>1, <2>2, <2>3, <2>4, SettingsAlike, Zenon DEF InUse, Sound
  <2>. QED  BY <2>5, AlikeInUse, Zenon DEF v
<1>5. CASE room /\ ~(shown < 0)
  <2>. DEFINE u == NewRound(w)
  <2>1. u \in Watches(ticker) /\ u.open = w.open
    BY RoundKept, Zenon DEF Kept
  <2>2. /\ u.running = w.running /\ u.first = ticker /\ u.memory = w.memory
        /\ u.digit = w.digit /\ u.n = w.n
    BY <1>1, Zenon DEF Watches, NewRound
  <2>3. v = [u EXCEPT !.n = u.n + 1, !.rcl = shown, !.remanent = 0, !.time = 0]
    BY <1>5, Zenon DEF stopwatch_sigma_plus, shown
  <2>. HIDE DEF v, u
  <2>4. u.n + 1 \in Nat
    BY <1>1, <2>2, SMT
  <2>5. v \in Watches(ticker)
    BY <1>1, <1>2, <2>1, <2>3, <2>4, Zenon DEF Watches
  <2>6. v.running = w.running /\ v.open = w.open
    BY <2>1, <2>2, <2>3, Zenon DEF Watches
  <2>7. /\ v.first = ticker /\ v.time = 0 /\ v.memory = w.memory
        /\ v.digit = w.digit /\ v.rcl = shown /\ v.remanent = 0
    BY <2>1, <2>2, <2>3, Zenon DEF Watches
  <2>8. (v.running <=> w.running) /\ (v.open <=> w.open)
    BY <2>6, Zenon
  <2>9. Sound(v, registers)
    BY <1>1, <2>7, <2>8, ConstantsAre, SMT DEF Sound
  <2>10. Shows(v, ticker) = 0
    BY <1>1, <2>7, <2>8, SMT DEF Shows
  <2>11. Kept(v, w)
    BY <2>5, <2>6, <2>9, <2>10, Zenon DEF Kept, ShowsAsTimer
  <2>. QED  BY <2>11, Zenon DEF v
<1>. QED  BY <1>3, <1>4, <1>5, Zenon

(* The number recalled is shown for some calls, and nothing else changes.      *)
LEMMA FadeAlike ==
    ASSUME NEW w \in Watches(ticker), Sound(w, registers)
    PROVE  Alike(Fade(w), w)
<1>. DEFINE v == Fade(w)
            rcl == IF w.remanent > REMANENCE THEN -1 ELSE w.rcl
<1>1. CASE w.rcl < 0
  <2>1. v = w
    BY <1>1, Zenon DEF Fade
  <2>. QED  BY <2>1, Zenon DEF Alike
<1>2. CASE ~(w.rcl < 0)
  <2>1. v = [w EXCEPT !.rcl = rcl, !.remanent = w.remanent + 1]
    BY <1>2, Zenon DEF Fade
  <2>2. rcl \in -SCHAR .. SCHAR - 1 /\ w.remanent + 1 \in 0 .. REMANENCE + 2
    BY <1>2, ConstantsAre, SMT DEF Watches, Sound
  <2>3. rcl >= 0 => w.remanent + 1 <= REMANENCE + 1
    BY ConstantsAre, SMT DEF Watches
  <2>. HIDE DEF v, rcl
  <2>4. v \in Watches(ticker)
    BY <2>1, <2>2, Zenon DEF Watches
  <2>5. /\ v.running = w.running /\ v.open = w.open /\ v.first = w.first
        /\ v.time = w.time /\ v.memory = w.memory /\ v.digit = w.digit
        /\ v.rcl = rcl /\ v.remanent = w.remanent + 1
    BY <2>1, Zenon DEF Watches
  <2>6. Alike(v, w)
    BY <2>3, <2>4, <2>5, SettingsAlike, Zenon DEF Sound
  <2>. QED  BY <2>6, Zenon DEF v
<1>. QED  BY <1>1, <1>2, Zenon

-----------------------------------------------------------------------------
(* A number of a register *)

(* The number typed or complete is that of a register there is.               *)
LEMMA SelectionKept ==
    ASSUME Clock, NEW w, InUse(w),
           NEW index \in Nat, index < registers, NEW previous \in Recalled
    PROVE  Kept(end_memory_selection(w, index, previous), w)
<1>1. CASE w.mode = "rcl"
  BY <1>1, RecallKept, Zenon DEF end_memory_selection
<1>2. CASE w.mode # "rcl"
  <2>. DEFINE v == end_memory_selection(w, index, previous)
  <2>1. v = [w EXCEPT !.memory = index, !.digit = -1, !.mode = "none"]
    BY <1>2, Zenon DEF end_memory_selection
  <2>2. /\ w \in Watches(ticker) /\ Sound(w, registers)
        /\ -1 \in -1 .. RADIX - 1 /\ -1 < registers
    BY ConstantsAre, SMT DEF Clock, InUse
  <2>. HIDE DEF v
  <2>3. v \in Watches(ticker)
    BY <2>1, <2>2, Zenon DEF Watches
  <2>4. /\ v.running = w.running /\ v.open = w.open /\ v.first = w.first
        /\ v.time = w.time /\ v.memory = index /\ v.digit = -1
        /\ v.rcl = w.rcl /\ v.remanent = w.remanent
    BY <2>1, <2>2, Zenon DEF Watches
  <2>5. Alike(v, w)
    BY <2>2, <2>3, <2>4, SettingsAlike, Zenon DEF Sound
  <2>. QED  BY <2>5, AlikeInUse, Zenon DEF v
<1>. QED  BY <1>1, <1>2, Zenon

LEMMA DigitKept ==
    ASSUME Clock, NEW w, InUse(w), registers > 0,
           NEW d \in 0 .. RADIX - 1, NEW previous \in Recalled
    PROVE  Kept(SelectDigit(w, d, previous), w)
<1>1. /\ w \in Watches(ticker) /\ Sound(w, registers) /\ registers \in Nat
      /\ d \in Nat /\ d \in -1 .. RADIX - 1
  BY ConstantsAre, SMT DEF Clock, InUse
<1>2. Kept(w, w)
  BY <1>1, Zenon DEF Kept, ShowsAsTimer
<1>3. CASE w.digit < 0 /\ d <= registers \div RADIX
  <2>1. d < registers
    BY <1>1, <1>3, FirstDigitIsRegister
  <2>2. Alike([w EXCEPT !.digit = d], w)
    BY <1>1, <2>1, DigitAlike
  <2>. QED  BY <1>3, <2>2, AlikeInUse, Zenon DEF SelectDigit
<1>4. CASE w.digit < 0 /\ ~(d <= registers \div RADIX)
  BY <1>1, <1>2, <1>4, SelectionKept, Zenon DEF SelectDigit
<1>5. CASE ~(w.digit < 0)
  <2>1. w.digit * RADIX + d \in Nat
    BY <1>1, <1>5, ConstantsAre, SMT DEF Watches
  <2>. QED  BY <1>2, <1>5, <2>1, SelectionKept, Zenon DEF SelectDigit
<1>. QED  BY <1>3, <1>4, <1>5, Zenon

-----------------------------------------------------------------------------
(* The keys *)

(* The next split goes to the next register (store_stopwatch_in_memory).       *)
LEMMA StoreAlike ==
    ASSUME Clock, NEW w, InUse(w)
    PROVE  Alike(store_stopwatch_in_memory(w), w)
<1>1. w \in Watches(ticker) /\ Sound(w, registers) /\ registers \in Nat
  BY ConstantsAre, SMT DEF Clock, InUse
<1>2. CASE registers = 0
  BY <1>1, <1>2, Zenon DEF store_stopwatch_in_memory, Alike
<1>3. CASE registers # 0
  <2>1. (w.memory + 1) % registers \in Nat /\ (w.memory + 1) % registers < registers
    BY <1>1, <1>3, SMTT(30) DEF Watches
  <2>2. store_stopwatch_in_memory(w) = [w EXCEPT !.memory = (w.memory + 1) % registers]
    BY <1>3, Zenon DEF store_stopwatch_in_memory
  <2>. QED  BY <1>1, <2>1, <2>2, MemoryAlike, Zenon
<1>. QED  BY <1>2, <1>3, Zenon

(* The keys while a number is expected (process_select_memory_key).            *)
LEMMA SelectKeyKept ==
    ASSUME Clock, NEW w, InUse(w), NEW key \in Keys,
           NEW d \in 0 .. RADIX - 1, NEW previous \in Recalled
    PROVE  Kept(process_select_memory_key(w, key, d, previous), w)
<1>. DEFINE v == process_select_memory_key(w, key, d, previous)
<1>1. /\ w \in Watches(ticker) /\ Sound(w, registers) /\ registers \in Nat
      /\ -1 \in -1 .. RADIX - 1 /\ -1 < registers /\ w.digit < registers
  BY ConstantsAre, SMT DEF Clock, InUse, Sound
<1>2. Kept(w, w)
  BY <1>1, Zenon DEF Kept, ShowsAsTimer
<1>3. Alike([w EXCEPT !.mode = "none"], w)
  BY <1>1, ModeAlike
<1>4. CASE key = "RS"
  <2>. DEFINE u == toggle_running(w)
  <2>1. Kept(u, w)
    BY ToggleKept
  <2>2. Alike([u EXCEPT !.mode = "none"], u)
    BY <2>1, ModeAlike, Zenon DEF Kept
  <2>. HIDE DEF u
  <2>3. Kept([u EXCEPT !.mode = "none"], w)
    BY <2>1, <2>2, KeptThenAlike
  <2>. QED  BY <1>4, <2>3, Zenon DEF process_select_memory_key, u
<1>5. CASE key = "EXIT"
  <2>1. v = [w EXCEPT !.mode = "none"]
    BY <1>5, SMT DEF process_select_memory_key
  <2>. QED  BY <1>3, <2>1, AlikeInUse, Zenon
<1>6. CASE key = "CLEAR"
  <2>1. v = IF w.digit < 0 THEN [w EXCEPT !.mode = "none"] ELSE [w EXCEPT !.digit = -1]
    BY <1>6, SMT DEF process_select_memory_key
  <2>2. Alike([w EXCEPT !.digit = -1], w)
    BY <1>1, DigitAlike
  <2>. QED  BY <1>3, <2>1, <2>2, AlikeInUse, Zenon
<1>7. CASE key = "STORE"
  <2>1. v = IF w.digit >= 0 THEN end_memory_selection(w, w.digit, previous) ELSE w
    BY <1>7, SMT DEF process_select_memory_key
  <2>2. w.digit >= 0 => w.digit \in Nat
    BY <1>1, ConstantsAre, SMT DEF Watches
  <2>. QED  BY <1>1, <1>2, <2>1, <2>2, SelectionKept, Zenon
<1>8. CASE key = "digit" /\ registers > 0
  <2>1. v = SelectDigit(w, d, previous)
    BY <1>8, SMT DEF process_select_memory_key
  <2>. QED  BY <1>8, <2>1, DigitKept, Zenon
<1>9. CASE /\ key \notin {"RS", "EXIT", "CLEAR", "STORE"}
           /\ ~(key = "digit" /\ registers > 0)
  <2>1. v = w
    BY <1>9, SMT DEF process_select_memory_key
  <2>. QED  BY <1>2, <2>1, Zenon
<1>. QED  BY <1>4, <1>5, <1>6, <1>7, <1>8, <1>9, Zenon

(* EXIT gives the keys back; a watch that is stopped then shows 0.             *)
LEMMA ExitKept ==
    ASSUME Clock, NEW w, InUse(w)
    PROVE  Kept([w EXCEPT !.open = FALSE], w)
<1>. DEFINE v == [w EXCEPT !.open = FALSE]
<1>1. w \in Watches(ticker) /\ Sound(w, registers)
  BY Zenon DEF InUse
<1>2. v \in Watches(ticker)
  BY <1>1, Zenon DEF Watches
<1>3. /\ v.running = w.running /\ v.first = w.first /\ v.time = w.time
      /\ v.memory = w.memory /\ v.digit = w.digit /\ v.rcl = w.rcl
      /\ v.remanent = w.remanent /\ ~v.open
  BY <1>1, Zenon DEF Watches
<1>. HIDE DEF v
<1>4. v.running <=> w.running
  BY <1>3, Zenon
<1>5. Sound(v, registers)
  BY <1>1, <1>3, <1>4, SMT DEF Sound, InUse
<1>6. Shows(v, ticker) = Shows(w, ticker) \/ Shows(v, ticker) \in Recalled \cup {0}
  BY <1>3, <1>4, SMT DEF Shows
<1>7. Kept(v, w)
  BY <1>2, <1>3, <1>5, <1>6, Zenon DEF Kept, ShowsAsTimer
<1>. QED  BY <1>7, Zenon DEF v

(* The other keys (process_stopwatch_key).                                     *)
LEMMA WatchKeyKept ==
    ASSUME Clock, NEW w, InUse(w), NEW key \in Keys,
           NEW d \in 0 .. RADIX - 1, NEW previous \in Recalled, NEW room \in BOOLEAN
    PROVE  Kept(process_stopwatch_key(w, key, d, previous, room), w)
<1>. DEFINE v == process_stopwatch_key(w, key, d, previous, room)
            s == store_stopwatch_in_memory(w)
<1>1. /\ w \in Watches(ticker) /\ Sound(w, registers) /\ registers \in Nat
      /\ -1 \in -1 .. RADIX - 1 /\ -1 < registers
  BY ConstantsAre, SMT DEF Clock, InUse
<1>2. Kept(w, w)
  BY <1>1, Zenon DEF Kept, ShowsAsTimer
<1>3. Alike(s, w) /\ InUse(s)
  BY StoreAlike, AlikeInUse
<1>4. CASE key = "RS"
  <2>1. v = toggle_running(w)
    BY <1>4, SMT DEF process_stopwatch_key
  <2>. QED  BY <2>1, ToggleKept, Zenon
<1>5. CASE key = "EXIT"
  <2>1. v = [w EXCEPT !.open = FALSE]
    BY <1>5, Zenon DEF process_stopwatch_key
  <2>. QED  BY <2>1, ExitKept, Zenon
<1>6. CASE key = "CLEAR"
  <2>. DEFINE u == IF w.running THEN NewRound(w) ELSE [w EXCEPT !.total = 0, !.first = 0]
  <2>1. v = [u EXCEPT !.time = 0]
    BY <1>6, SMT DEF process_stopwatch_key
  <2>2. Kept([u EXCEPT !.time = 0], w)
    BY ClearKept
  <2>. QED  BY <2>1, <2>2, Zenon
<1>7. CASE key = "STORE"
  <2>1. v = s
    BY <1>7, SMT DEF process_stopwatch_key
  <2>. QED  BY <1>3, <2>1, AlikeInUse, Zenon
<1>8. CASE key = "STORE_ROUND"
  <2>1. v = NewRound(s)
    BY <1>8, SMT DEF process_stopwatch_key
  <2>2. Kept(NewRound(s), s)
    BY <1>3, RoundKept, Zenon
  <2>. QED  BY <1>3, <2>1, <2>2, AlikeThenKept, Zenon
<1>9. CASE key = "SIGMA_ROUND"
  <2>1. v = stopwatch_sigma_plus(s, room)
    BY <1>9, SMT DEF process_stopwatch_key
  <2>2. Kept(stopwatch_sigma_plus(s, room), s)
    BY <1>3, SumKept, Zenon
  <2>. QED  BY <1>3, <2>1, <2>2, AlikeThenKept, Zenon
<1>10. CASE key = "SIGMA"
  <2>1. v = stopwatch_sigma_plus(w, room)
    BY <1>10, SMT DEF process_stopwatch_key
  <2>. QED  BY <2>1, SumKept, Zenon
<1>11. CASE key = "UP"
  <2>1. v = IF w.memory < registers - 1 THEN [w EXCEPT !.memory = w.memory + 1] ELSE w
    BY <1>11, SMT DEF process_stopwatch_key
  <2>2. w.memory + 1 \in Nat /\ (w.memory < registers - 1 => w.memory + 1 < registers)
    BY <1>1, SMT DEF Watches
  <2>3. w.memory < registers - 1 => Alike([w EXCEPT !.memory = w.memory + 1], w)
    BY <1>1, <2>2, MemoryAlike
  <2>. QED  BY <1>2, <2>1, <2>3, AlikeInUse, Zenon
<1>12. CASE key = "DOWN"
  <2>1. v = IF w.memory > 0 THEN [w EXCEPT !.memory = w.memory - 1] ELSE w
    BY <1>12, SMT DEF process_stopwatch_key
  <2>2. w.memory > 0 => /\ w.memory - 1 \in Nat
                        /\ registers > 0 => w.memory - 1 < registers
    BY <1>1, SMT DEF Watches, Sound, InUse
  <2>3. w.memory > 0 => Alike([w EXCEPT !.memory = w.memory - 1], w)
    BY <1>1, <2>2, MemoryAlike
  <2>. QED  BY <1>2, <2>1, <2>3, AlikeInUse, Zenon
<1>13. CASE key = "RCL"
  <2>. DEFINE m == IF registers > 0 THEN "rcl" ELSE "none"
  <2>1. v = [w EXCEPT !.mode = m, !.digit = -1]
    BY <1>13, SMT DEF process_stopwatch_key
  <2>2. m \in {"none", "select_memory", "rcl"}
    BY Zenon
  <2>. HIDE DEF m
  <2>3. Alike([w EXCEPT !.mode = m, !.digit = -1], w)
    BY <1>1, <2>2, ModeDigitAlike
  <2>. QED  BY <2>1, <2>3, AlikeInUse, Zenon
<1>14. CASE key = "digit" /\ registers > 0
  <2>. DEFINE u == [w EXCEPT !.mode = "select_memory", !.digit = -1]
  <2>1. v = process_select_memory_key(u, key, d, previous)
    BY <1>14, SMT DEF process_stopwatch_key
  <2>2. Alike(u, w)
    BY <1>1, ModeDigitAlike
  <2>. HIDE DEF u
  <2>3. Kept(process_select_memory_key(u, key, d, previous), u)
    BY <2>2, AlikeInUse, SelectKeyKept
  <2>. QED  BY <2>1, <2>2, <2>3, AlikeThenKept, Zenon
<1>15. CASE /\ key \notin {"RS", "EXIT", "CLEAR", "STORE", "STORE_ROUND",
                           "SIGMA_ROUND", "SIGMA", "UP", "DOWN", "RCL"}
            /\ ~(key = "digit" /\ registers > 0)
  <2>1. v = w
    BY <1>15, SMT DEF process_stopwatch_key
  <2>. QED  BY <1>2, <2>1, Zenon
<1>. QED  BY <1>4, <1>5, <1>6, <1>7, <1>8, <1>9, <1>10, <1>11, <1>12, <1>13,
             <1>14, <1>15, Zenon

-----------------------------------------------------------------------------
(* The inductive invariant *)

WatchInv ==
    /\ ticker \in BOOT .. MAX_TICKER /\ registers \in Sizes
    /\ Watch \in Watches(ticker) /\ Sound(Watch, registers)

(* What a step of the watch is to a timer.                                     *)
TimerStep ==
    \/ /\ running' = running
       /\ \/ Shows(Watch', ticker') = Shows(Watch, ticker)
          \/ Shows(Watch', ticker') \in Recalled \cup {0}
          \/ /\ running
             /\ Shows(Watch', ticker') = Shows(Watch, ticker) + 1
    \/ running' = ~running /\ Shows(Watch', ticker') = Shows(Watch, ticker)

LEMMA WatchIs ==
    /\ Watch.running = running /\ Watch.mode = mode /\ Watch.first = FirstTicker
    /\ Watch.total = TotalFirstTicker /\ Watch.time = StopWatch
    /\ Watch.memory = StopWatchMemory /\ Watch.digit = FirstDigit
    /\ Watch.rcl = RclMemory /\ Watch.remanent = Remanent /\ Watch.n = sigmaN
    /\ Watch.open = KeyCallback
  BY Zenon DEF Watch

LEMMA WatchBecomes ==
    ASSUME NEW t, NEW v \in Watches(t), Become(v)
    PROVE  Watch' = v
<1>1. v = [running |-> v.running, mode |-> v.mode, first |-> v.first,
           total |-> v.total, time |-> v.time, memory |-> v.memory,
           digit |-> v.digit, rcl |-> v.rcl, remanent |-> v.remanent,
           n |-> v.n, open |-> v.open]
  BY Zenon DEF Watches
<1>. QED  BY <1>1, Zenon DEF Watch, Become

LEMMA InvInit == Init => WatchInv
<1>. SUFFICES ASSUME Init PROVE WatchInv
  OBVIOUS
<1>1. ticker \in BOOT .. MAX_TICKER /\ ticker \in Nat /\ ticker > 0 /\ registers \in Sizes /\ registers \in Nat
  BY ConstantsAre, SMT DEF Init
<1>2. /\ running \in BOOLEAN /\ KeyCallback \in BOOLEAN
      /\ mode \in {"none", "select_memory", "rcl"}
  BY Zenon DEF Init
<1>3. /\ FirstTicker \in 0 .. ticker /\ TotalFirstTicker \in 0 .. ticker
      /\ StopWatch \in 0 .. ticker - 1 /\ StopWatchMemory \in Nat /\ sigmaN \in Nat
      /\ FirstDigit \in -1 .. RADIX - 1 /\ RclMemory \in -SCHAR .. SCHAR - 1
      /\ Remanent \in 0 .. REMANENCE + 2
  BY <1>1, ConstantsAre, SMT DEF Init
<1>4. Watch \in Watches(ticker)
  BY <1>2, <1>3, Zenon DEF Watch, Watches
<1>5. ~Watch.running /\ ~Watch.open /\ Watch.rcl = -1
  BY WatchIs, Zenon DEF Init
<1>6. Sound(Watch, registers)
  BY <1>5, SMT DEF Sound
<1>. QED  BY <1>1, <1>4, <1>6 DEF WatchInv

(* What the callback computes first brings the time of a running round up to   *)
(* date and changes nothing that is shown.                                    *)
LEMMA UpdateInUse ==
    ASSUME WatchInv, KeyCallback
    PROVE  /\ Clock /\ InUse(Update(Watch))
           /\ Update(Watch).running = running
           /\ Shows(Update(Watch), ticker) = Shows(Watch, ticker)
<1>. DEFINE w == Watch
            v == Update(w)
            time == IF w.running THEN ticker - w.first ELSE w.time
<1>1. /\ Clock /\ ticker \in Nat /\ w \in Watches(ticker) /\ Sound(w, registers)
      /\ w.open /\ w.running = running
  BY ConstantsAre, WatchIs, SMT DEF WatchInv, Clock
<1>. HIDE DEF w
<1>2. time \in 0 .. ticker - 1
  BY <1>1, SMT DEF Watches, Sound
<1>3. v \in Watches(ticker)
  BY <1>1, <1>2, Zenon DEF Watches, Update
<1>4. /\ v.running = w.running /\ v.open = w.open /\ v.first = w.first
      /\ v.time = time /\ v.memory = w.memory /\ v.digit = w.digit
      /\ v.rcl = w.rcl /\ v.remanent = w.remanent
  BY <1>1, Zenon DEF Watches, Update
<1>. HIDE DEF v
<1>5. (v.running <=> w.running) /\ (v.open <=> w.open)
  BY <1>4, Zenon
<1>6. Sound(v, registers)
  BY <1>1, <1>2, <1>4, <1>5, SMT DEF Watches, Sound
<1>7. InUse(v)
  BY <1>1, <1>3, <1>4, <1>5, <1>6, SMT DEF InUse
<1>8. Shows(v, ticker) = Shows(w, ticker)
  BY <1>1, <1>4, <1>5, SMT DEF Shows
<1>. QED  BY <1>1, <1>4, <1>7, <1>8, Zenon DEF v, w

LEMMA CallbackStep ==
    ASSUME WatchInv, NEW key \in Keys, NEW d \in 0 .. RADIX - 1,
           NEW previous \in Recalled, NEW room \in BOOLEAN,
           stopwatch_callback(key, d, previous, room)
    PROVE  WatchInv' /\ TimerStep
<1>. DEFINE w == Update(Watch)
            u == IF w.mode = "none"
                 THEN process_stopwatch_key(w, key, d, previous, room)
                 ELSE process_select_memory_key(w, key, d, previous)
<1>1. KeyCallback /\ Become(Fade(u)) /\ UNCHANGED <<ticker, registers>>
  BY Zenon DEF stopwatch_callback
<1>2. /\ Clock /\ InUse(w) /\ w.running = running
      /\ Shows(w, ticker) = Shows(Watch, ticker)
  BY <1>1, UpdateInUse, Zenon
<1>. HIDE DEF w
<1>3. Kept(u, w)
  BY <1>2, WatchKeyKept, SelectKeyKept, Zenon
<1>. HIDE DEF u
<1>4. Alike(Fade(u), u)
  BY <1>3, FadeAlike, Zenon DEF Kept
<1>5. Kept(Fade(u), w)
  BY <1>3, <1>4, KeptThenAlike
<1>6. Watch' = Fade(u)
  BY <1>1, <1>5, WatchBecomes, Zenon DEF Kept
<1>7. WatchInv'
  BY <1>1, <1>5, <1>6, Zenon DEF WatchInv, Kept
<1>8. running' = Fade(u).running
  BY <1>1, Zenon DEF Become
<1>. QED  BY <1>1, <1>2, <1>5, <1>6, <1>7, <1>8, Zenon DEF Kept, ShowsAsTimer, TimerStep

(* Opening the watch begins anew unless it runs.                               *)
LEMMA OpenStep ==
    ASSUME WatchInv, stopwatch
    PROVE  WatchInv' /\ TimerStep
<1>. DEFINE u == [Watch EXCEPT !.memory = 0, !.rcl = -1, !.time = 0, !.first = 0, !.total = 0]
            w == IF running THEN Watch ELSE u
            v == [w EXCEPT !.mode = "none", !.digit = -1, !.open = TRUE]
<1>1. ~KeyCallback /\ Become(v) /\ UNCHANGED <<ticker, registers>>
  BY Zenon DEF stopwatch
<1>2. /\ ticker \in Nat /\ ticker > 0 /\ registers \in Nat
      /\ Watch \in Watches(ticker) /\ Sound(Watch, registers)
      /\ Watch.running = running /\ ~Watch.open
      /\ 0 \in 0 .. ticker /\ 0 \in 0 .. ticker - 1 /\ 0 \in Nat
      /\ -1 \in -1 .. RADIX - 1 /\ -1 \in -SCHAR .. SCHAR - 1
  BY <1>1, WatchIs, ConstantsAre, SMT DEF WatchInv
<1>3. /\ w \in Watches(ticker) /\ w.running = running
      /\ running => w.first > 0 /\ (registers > 0 => w.memory < registers)
      /\ ~running => w.first = 0 /\ w.time = 0 /\ w.memory = 0 /\ w.rcl = -1
      /\ running => w.first = Watch.first /\ w.rcl = Watch.rcl
                    /\ w.remanent = Watch.remanent
  <2>1. CASE running
    <3>1. w = Watch /\ Watch.running
      BY <1>2, <2>1, Zenon
    <3>2. Watch.first > 0 /\ (registers > 0 => Watch.memory < registers)
      BY <1>2, <3>1, SMT DEF Sound
    <3>. QED  BY <1>2, <2>1, <3>1, <3>2, Zenon
  <2>2. CASE ~running
    <3>1. w = u
      BY <2>2, Zenon
    <3>2. /\ u \in Watches(ticker) /\ u.running = Watch.running
          /\ u.first = 0 /\ u.time = 0 /\ u.memory = 0 /\ u.rcl = -1
      BY <1>2, Zenon DEF Watches
    <3>. QED  BY <1>2, <2>2, <3>1, <3>2, Zenon
  <2>. QED  BY <2>1, <2>2, Zenon
<1>. HIDE DEF w
<1>4. v \in Watches(ticker)
  BY <1>2, <1>3, Zenon DEF Watches
<1>5. /\ v.running = w.running /\ v.first = w.first /\ v.time = w.time
      /\ v.memory = w.memory /\ v.digit = -1 /\ v.rcl = w.rcl
      /\ v.remanent = w.remanent /\ v.open
  BY <1>3, Zenon DEF Watches
<1>. HIDE DEF v
<1>6. v.running <=> running
  BY <1>3, <1>5, Zenon
<1>7. Sound(v, registers)
  <2>1. CASE running
    BY <1>2, <1>3, <1>5, <1>6, <2>1, SMT DEF Sound
  <2>2. CASE ~running
    BY <1>2, <1>3, <1>5, <1>6, <2>2, SMT DEF Sound
  <2>. QED  BY <2>1, <2>2
<1>8. Shows(v, ticker) = Shows(Watch, ticker)
  <2>1. Watch.running <=> running
    BY <1>2, Zenon
  <2>. QED  BY <1>2, <1>3, <1>5, <1>6, <2>1, SMT DEF Shows
<1>9. Watch' = v
  BY <1>1, <1>4, WatchBecomes
<1>10. running' = running
  BY <1>1, <1>3, <1>5, Zenon DEF Become
<1>11. WatchInv'
  BY <1>1, <1>4, <1>7, <1>9, Zenon DEF WatchInv
<1>. QED  BY <1>1, <1>8, <1>9, <1>10, <1>11, Zenon DEF TimerStep

(* The clock ticks: a watch that runs shows one more.                          *)
LEMMA TickStep ==
    ASSUME WatchInv, Tick
    PROVE  WatchInv' /\ TimerStep
<1>1. /\ ticker \in Nat /\ ticker' = ticker + 1 /\ ticker' \in BOOT .. MAX_TICKER
      /\ registers' = registers /\ Watch' = Watch /\ running' = running
  BY ConstantsAre, SMT DEF WatchInv, Tick, Watch, watch
<1>2. Watch \in Watches(ticker')
  BY <1>1, SMT DEF WatchInv, Watches
<1>3. WatchInv'
  BY <1>1, <1>2, Zenon DEF WatchInv
<1>4. Watch.running <=> running
  BY WatchIs, Zenon
<1>5. Watch \in Watches(ticker)
  BY DEF WatchInv
<1>6. \/ Shows(Watch, ticker') = Shows(Watch, ticker)
      \/ running /\ Shows(Watch, ticker') = Shows(Watch, ticker) + 1
  BY <1>1, <1>4, <1>5, SMT DEF Shows, Watches
<1>. QED  BY <1>1, <1>3, <1>6, Zenon DEF TimerStep

(* The watch loses the keys, REGS while it is stopped and away, CLSUMS.         *)
LEMMA AwayStep ==
    ASSUME WatchInv, TimesOut \/ (~running /\ cmdregs) \/ sigma_clear
    PROVE  WatchInv' /\ TimerStep
<1>1. /\ UNCHANGED <<ticker, watch>> /\ registers' \in Sizes /\ sigmaN' \in Nat
      /\ KeyCallback' \in BOOLEAN /\ (KeyCallback' => KeyCallback)
      /\ registers' = registers \/ (~running /\ ~KeyCallback)
      /\ running \/ ~KeyCallback'
  <2>1. sigmaN \in Nat /\ KeyCallback \in BOOLEAN /\ registers \in Sizes
    BY WatchIs, SMT DEF WatchInv, Watches
  <2>2. CASE TimesOut
    BY <2>1, <2>2, Zenon DEF TimesOut
  <2>3. CASE ~running /\ cmdregs
    BY <2>1, <2>3, Zenon DEF cmdregs, watch
  <2>4. CASE sigma_clear
    <3>1. 0 \in Nat
      BY SMT
    <3>. QED  BY <2>1, <2>4, <3>1, Zenon DEF sigma_clear, watch
  <2>. QED  BY <2>2, <2>3, <2>4
<1>2. /\ Watch' \in Watches(ticker')
      /\ Watch'.running = Watch.running /\ Watch'.open = KeyCallback'
      /\ Watch'.first = Watch.first /\ Watch'.time = Watch.time
      /\ Watch'.memory = Watch.memory /\ Watch'.digit = Watch.digit
      /\ Watch'.rcl = Watch.rcl /\ Watch'.remanent = Watch.remanent
  <2>1. /\ running \in BOOLEAN /\ mode \in {"none", "select_memory", "rcl"}
        /\ FirstTicker \in 0 .. ticker /\ TotalFirstTicker \in 0 .. ticker
        /\ StopWatch \in 0 .. ticker - 1 /\ StopWatchMemory \in Nat
        /\ FirstDigit \in -1 .. RADIX - 1 /\ RclMemory \in -SCHAR .. SCHAR - 1
        /\ Remanent \in 0 .. REMANENCE + 2
    BY WatchIs, Zenon DEF WatchInv, Watches
  <2>. QED  BY <1>1, <2>1, Zenon DEF Watch, Watches, watch
<1>3. /\ (Watch.running <=> running) /\ (Watch'.running <=> running)
      /\ (Watch.open <=> KeyCallback) /\ (Watch'.open <=> KeyCallback')
  BY <1>2, WatchIs, Zenon
<1>4. registers \in Nat /\ registers' \in Nat
  BY <1>1, ConstantsAre, Zenon DEF WatchInv
<1>5. Sound(Watch', registers')
  BY <1>1, <1>2, <1>3, <1>4, SMT DEF WatchInv, Sound
<1>6. WatchInv'
  BY <1>1, <1>2, <1>5, Zenon DEF WatchInv
<1>7. \/ Shows(Watch', ticker') = Shows(Watch, ticker)
      \/ Shows(Watch', ticker') \in Recalled \cup {0}
  BY <1>1, <1>2, <1>3, SMT DEF Shows
<1>8. running' = running
  BY <1>1, Zenon DEF watch
<1>. QED  BY <1>6, <1>7, <1>8, Zenon DEF TimerStep

LEMMA StutterStep ==
    ASSUME WatchInv, UNCHANGED vars
    PROVE  WatchInv' /\ TimerStep
<1>1. UNCHANGED <<ticker, registers, Watch, running>>
  BY Zenon DEF vars, Watch
<1>. QED  BY <1>1, Zenon DEF WatchInv, TimerStep

LEMMA InvStep ==
    ASSUME WatchInv, [CheckedNext]_vars
    PROVE  WatchInv' /\ TimerStep
<1>1. CASE Callback
  BY <1>1, CallbackStep, Zenon DEF Callback
<1>. QED  BY <1>1, TickStep, OpenStep, AwayStep, StutterStep, Zenon DEF CheckedNext

-----------------------------------------------------------------------------
(* Results *)

(* The watch is sound after any keys, commands and times.                      *)
THEOREM WatchIsSound == CheckedSpec => []WatchInv
  BY InvInit, InvStep, PTL DEF CheckedSpec

(* Every variable keeps its type: the tickers remembered are of the past, and  *)
(* a number shown as recalled fits the signed char.                           *)
THEOREM WatchTypes == CheckedSpec => []TypeOK
<1>1. WatchInv => TypeOK
  <2>. SUFFICES ASSUME WatchInv PROVE TypeOK
    OBVIOUS
  <2>1. /\ running \in BOOLEAN /\ mode \in {"none", "select_memory", "rcl"}
        /\ FirstTicker \in 0 .. ticker /\ TotalFirstTicker \in 0 .. ticker
        /\ StopWatch \in 0 .. ticker - 1 /\ StopWatchMemory \in Nat
        /\ FirstDigit \in -1 .. RADIX - 1 /\ RclMemory \in -SCHAR .. SCHAR - 1
        /\ Remanent \in 0 .. REMANENCE + 2 /\ sigmaN \in Nat /\ KeyCallback \in BOOLEAN
    BY WatchIs, Zenon DEF WatchInv, Watches
  <2>2. StopWatch \in 0 .. ticker
    BY <2>1, ConstantsAre, SMT DEF WatchInv
  <2>. QED  BY <2>1, <2>2, Zenon DEF WatchInv, TypeOK
<1>. QED  BY <1>1, WatchIsSound, PTL

(* A split goes to a register there is, whatever REGS has done while the watch *)
(* was stopped, and so does one to a number of which one digit is typed.       *)
THEOREM SplitsFindRegisters == CheckedSpec => []SplitInRegisters
<1>1. WatchInv => SplitInRegisters
  BY WatchIs, SMT DEF WatchInv, Sound, SplitInRegisters
<1>. QED  BY <1>1, WatchIsSound, PTL

(* The watch implements a timer.                                               *)
THEOREM WatchIsTimer == CheckedSpec => TimerSpec
<1>. DEFINE on == running
            time == IF running THEN ticker - FirstTicker
                    ELSE IF KeyCallback THEN StopWatch ELSE 0
<1>1. Shows(Watch, ticker) = time
  BY WatchIs, Zenon DEF Shows
<1>2. Shows(Watch', ticker') = time'
  BY Zenon DEF Shows, Watch
<1>3. Init => T!Init
  BY Zenon DEF Init, T!Init
<1>4. WatchInv /\ [CheckedNext]_vars => [T!Next]_<<on, time>>
  <2>. SUFFICES ASSUME WatchInv, [CheckedNext]_vars
                PROVE  [T!Next]_<<on, time>>
    OBVIOUS
  <2>1. TimerStep
    BY InvStep
  <2>. HIDE DEF time
  <2>2. \/ on' = on /\ (time' = time \/ time' \in Recalled \cup {0})
        \/ on' = on /\ on /\ time' = time + 1
        \/ on' = ~on /\ time' = time
    BY <1>1, <1>2, <2>1, Zenon DEF TimerStep
  <2>. QED  BY <2>2, Zenon DEF T!Next, T!Tick, T!Toggle, T!Set, time
<1>. QED  BY <1>3, <1>4, WatchIsSound, PTL DEF CheckedSpec, TimerSpec, T!Spec
=============================================================================
