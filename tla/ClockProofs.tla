----------------------------- MODULE ClockProofs -----------------------------
(***************************************************************************)
(* What TLC checks of SoftTimer on two timers and one alarm, proved for    *)
(* any number of timers, alarms, settings, delays and ticks; what it       *)
(* checks of the date that Calendar keeps; and what the conversions of     *)
(* Calendar yield, for every day and date.                                 *)
(***************************************************************************)
EXTENDS SoftTimer, Calendar, WellFoundedInduction, TLAPS

-----------------------------------------------------------------------------
(* SoftTimer: types.                                                         *)

LEMMA Indices ==
    /\ 0 \in Timers /\ 0 \in Alarms /\ Timers \subseteq Nat /\ Alarms \subseteq Nat
    /\ Delays \subseteq Nat \ {0} /\ Seconds \subseteq Nat
    /\ Off \notin Nat /\ Off \in Int
BY TimerAssumption DEF Timers, Alarms, Off

TimerRecords == [newState : BOOLEAN, isPeriodic : BOOLEAN, tick : Nat, timerCB : BOOLEAN,
                 nextTick : Nat, generation : Nat]
AlarmRecords == [sec : Nat, CB : BOOLEAN]

\* The stores of a call are numbered from 1 on.
LEMMA Stores ==
    /\ DOMAIN TimerFields = 1 .. 6 /\ Len(TimerFields) = 6
    /\ DOMAIN AlarmFields = 1 .. 2 /\ Len(AlarmFields) = 2
BY DEF TimerFields, AlarmFields

LEMMA InitTypeOK == Init => TypeOK
<1> SUFFICES ASSUME Init PROVE TypeOK
  OBVIOUS
<1> USE Indices, TimerAssumption DEF Init
<1>1. timer \in [Timers -> TimerRecords] /\ alarm \in [Alarms -> AlarmRecords]
  BY DEF TimerRecords, AlarmRecords
<1>2. due \in [Timers -> Nat \cup {Off}] /\ wake \in [Alarms -> Nat \cup {Off}]
  OBVIOUS
<1>3. sysTick \in 0 .. MaxTick /\ rtc_counter \in 0 .. TicksPerSec - 1 /\ sets \in 0 .. MaxSets
  OBVIOUS
<1> QED
  BY <1>1, <1>2, <1>3 DEF TypeOK, TimerRecords, AlarmRecords

\* The records a call stores.
LEMMA SetTypes ==
    ASSUME TypeOK
    PROVE  /\ \A c \in TimerCalls : /\ c.kind = "timer" /\ c.id \in Timers /\ c.tick \in Nat \ {0}
                                    /\ c.on \in BOOLEAN /\ c.periodic \in BOOLEAN
                                    /\ TimerSet(c) \in TimerRecords
           /\ \A c \in AlarmCalls : /\ c.kind = "alarm" /\ c.id \in Alarms /\ c.sec \in Nat
                                    /\ c.on \in BOOLEAN /\ AlarmSet(c) \in AlarmRecords
<1>1. ASSUME NEW c \in TimerCalls
      PROVE  /\ c.kind = "timer" /\ c.id \in Timers /\ c.tick \in Nat \ {0}
             /\ c.on \in BOOLEAN /\ c.periodic \in BOOLEAN
             /\ TimerSet(c) \in TimerRecords
  <2>1. c.id \in Timers /\ c.tick \in Nat \ {0} /\ c.on \in BOOLEAN /\ c.periodic \in BOOLEAN
    BY Indices DEF TimerCalls
  <2>2. sysTick + c.tick \in Nat /\ timer[c.id].generation + 1 \in Nat
    BY <2>1, TimerAssumption DEF TypeOK
  <2> QED
    BY <2>1, <2>2 DEF TimerCalls, TimerSet, TimerRecords
<1>2. ASSUME NEW c \in AlarmCalls
      PROVE  /\ c.kind = "alarm" /\ c.id \in Alarms /\ c.sec \in Nat
             /\ c.on \in BOOLEAN /\ AlarmSet(c) \in AlarmRecords
  BY Indices DEF AlarmCalls, AlarmSet, AlarmRecords
<1> QED
  BY <1>1, <1>2

\* A store changes one field of the record of the timer that is being set.
LEMMA TimerStoreAt ==
    ASSUME TypeOK, TimerStore
    PROVE  /\ arg \in TimerCalls /\ pc \in 1 .. 6
           /\ pc = 1 => timer' = [timer EXCEPT ![arg.id].newState = arg.on]
           /\ pc = 2 => timer' = [timer EXCEPT ![arg.id].isPeriodic = arg.periodic]
           /\ pc = 3 => timer' = [timer EXCEPT ![arg.id].tick = arg.tick]
           /\ pc = 4 => timer' = [timer EXCEPT ![arg.id].timerCB = TRUE]
           /\ pc = 5 => timer' = [timer EXCEPT ![arg.id].nextTick = sysTick + arg.tick]
           /\ pc = 6 => timer' = [timer EXCEPT ![arg.id].generation = @ + 1]
           /\ IF pc < 6 THEN pc' = pc + 1 /\ arg' = arg ELSE pc' = 0 /\ arg' = NoCall
<1>1. arg \in TimerCalls /\ pc \in 1 .. 6
  BY SetTypes, Stores DEF TypeOK, TimerStore, NoCall
<1>2. /\ timer' = [timer EXCEPT ![arg.id][TimerFields[pc]] = TimerSet(arg)[TimerFields[pc]]]
      /\ timer \in [Timers -> TimerRecords] /\ arg.id \in Timers
  BY <1>1, SetTypes DEF TimerStore, TypeOK, TimerRecords
<1>3. ASSUME pc = 1 PROVE timer' = [timer EXCEPT ![arg.id].newState = arg.on]
  <2>1. TimerFields[pc] = "newState"
    BY <1>3 DEF TimerFields
  <2>2. TimerSet(arg)[TimerFields[pc]] = arg.on
    BY <2>1 DEF TimerSet
  <2> QED
    BY <1>2, <2>1, <2>2
<1>4. ASSUME pc = 2 PROVE timer' = [timer EXCEPT ![arg.id].isPeriodic = arg.periodic]
  <2>1. TimerFields[pc] = "isPeriodic"
    BY <1>4 DEF TimerFields
  <2>2. TimerSet(arg)[TimerFields[pc]] = arg.periodic
    BY <2>1 DEF TimerSet
  <2> QED
    BY <1>2, <2>1, <2>2
<1>5. ASSUME pc = 3 PROVE timer' = [timer EXCEPT ![arg.id].tick = arg.tick]
  <2>1. TimerFields[pc] = "tick"
    BY <1>5 DEF TimerFields
  <2>2. TimerSet(arg)[TimerFields[pc]] = arg.tick
    BY <2>1 DEF TimerSet
  <2> QED
    BY <1>2, <2>1, <2>2
<1>6. ASSUME pc = 4 PROVE timer' = [timer EXCEPT ![arg.id].timerCB = TRUE]
  <2>1. TimerFields[pc] = "timerCB"
    BY <1>6 DEF TimerFields
  <2>2. TimerSet(arg)[TimerFields[pc]] = TRUE
    BY <2>1 DEF TimerSet
  <2> QED
    BY <1>2, <2>1, <2>2
<1>7. ASSUME pc = 5 PROVE timer' = [timer EXCEPT ![arg.id].nextTick = sysTick + arg.tick]
  <2>1. TimerFields[pc] = "nextTick"
    BY <1>7 DEF TimerFields
  <2>2. TimerSet(arg)[TimerFields[pc]] = sysTick + arg.tick
    BY <2>1 DEF TimerSet
  <2> QED
    BY <1>2, <2>1, <2>2
<1>8. ASSUME pc = 6 PROVE timer' = [timer EXCEPT ![arg.id].generation = @ + 1]
  <2>1. TimerFields[pc] = "generation"
    BY <1>8 DEF TimerFields
  <2>2. TimerSet(arg)[TimerFields[pc]] = timer[arg.id].generation + 1
    BY <2>1 DEF TimerSet
  <2> QED
    BY <1>2, <2>1, <2>2
<1>9. IF pc < 6 THEN pc' = pc + 1 /\ arg' = arg ELSE pc' = 0 /\ arg' = NoCall
  BY <1>1, Stores DEF TimerStore, StoreNext
<1> QED
  BY <1>1, <1>3, <1>4, <1>5, <1>6, <1>7, <1>8, <1>9

LEMMA AlarmStoreAt ==
    ASSUME TypeOK, AlarmStore
    PROVE  /\ arg \in AlarmCalls /\ pc \in 1 .. 2
           /\ pc = 1 => /\ alarm' = [alarm EXCEPT ![arg.id].sec = arg.sec]
                        /\ pc' = 2 /\ arg' = arg
           /\ pc = 2 => /\ alarm' = [alarm EXCEPT ![arg.id].CB = arg.on]
                        /\ pc' = 0 /\ arg' = NoCall
<1>1. arg \in AlarmCalls /\ pc \in 1 .. 2
  BY SetTypes, Stores DEF TypeOK, AlarmStore, NoCall
<1>2. /\ alarm' = [alarm EXCEPT ![arg.id][AlarmFields[pc]] = AlarmSet(arg)[AlarmFields[pc]]]
      /\ alarm \in [Alarms -> AlarmRecords] /\ arg.id \in Alarms
  BY <1>1, SetTypes DEF AlarmStore, TypeOK, AlarmRecords
<1>3. ASSUME pc = 1
      PROVE  alarm' = [alarm EXCEPT ![arg.id].sec = arg.sec] /\ pc' = 2 /\ arg' = arg
  <2>1. AlarmFields[pc] = "sec" /\ AlarmSet(arg)[AlarmFields[pc]] = arg.sec
    BY <1>3 DEF AlarmFields, AlarmSet
  <2>2. alarm' = [alarm EXCEPT ![arg.id].sec = arg.sec]
    BY <1>2, <2>1
  <2>3. pc' = 2 /\ arg' = arg
    BY <1>3, Stores DEF AlarmStore, StoreNext
  <2> QED
    BY <2>2, <2>3
<1>4. ASSUME pc = 2
      PROVE  alarm' = [alarm EXCEPT ![arg.id].CB = arg.on] /\ pc' = 0 /\ arg' = NoCall
  <2>1. AlarmFields[pc] = "CB" /\ AlarmSet(arg)[AlarmFields[pc]] = arg.on
    BY <1>4 DEF AlarmFields, AlarmSet
  <2>2. alarm' = [alarm EXCEPT ![arg.id].CB = arg.on]
    BY <1>2, <2>1
  <2>3. pc' = 0 /\ arg' = NoCall
    BY <1>4, Stores DEF AlarmStore, StoreNext
  <2> QED
    BY <2>2, <2>3
<1> QED
  BY <1>1, <1>3, <1>4

\* A scan goes on to the next entry or leaves its table.
LEMMA LoopAt ==
    ASSUME NEW num \in Nat \ {0}, n \in 0 .. num - 1, NEW loop, NEW after, Loop(loop, num, after)
    PROVE  \/ isr' = loop /\ n' = n + 1 /\ n' \in 0 .. num - 1
           \/ isr' = after /\ n' = 0 /\ n = num - 1
BY DEF Loop

\* What a call asks for has the type of a tick or of a date.
LEMMA AskType ==
    ASSUME TypeOK, NEW c \in TimerCalls \cup AlarmCalls, Ask(c)
    PROVE  due' \in [Timers -> Nat \cup {Off}] /\ wake' \in [Alarms -> Nat \cup {Off}]
<1> USE DEF TypeOK
<1>1. CASE c \in TimerCalls
  <2>1. sysTick + c.tick \in Nat /\ c.kind = "timer"
    BY <1>1, SetTypes, TimerAssumption
  <2> QED
    BY <1>1, <2>1, SetTypes DEF Ask
<1>2. CASE c \in AlarmCalls
  BY <1>2, SetTypes DEF Ask
<1> QED
  BY <1>1, <1>2

LEMMA MainType ==
    ASSUME TypeOK,
           \/ TimerStore \/ AlarmStore \/ ReadClock
           \/ \E c \in TimerCalls \cup AlarmCalls : MainCall(c)
           \/ \E s \in Seconds : SetDate(s)
    PROVE  TypeOK'
<1> USE DEF clock, scan, main, vars
<1>1. CASE TimerStore
  <2>1. timer' \in [Timers -> TimerRecords]
    <3>1. /\ timer \in [Timers -> TimerRecords] /\ arg.id \in Timers /\ TimerSet(arg) \in TimerRecords
          /\ sysTick + arg.tick \in Nat /\ arg.tick \in Nat
          /\ arg.on \in BOOLEAN /\ arg.periodic \in BOOLEAN
          /\ timer[arg.id].generation + 1 \in Nat
      BY <1>1, TimerStoreAt, SetTypes, TimerAssumption DEF TypeOK, TimerRecords
    <3>2. ASSUME pc = 1 PROVE timer' \in [Timers -> TimerRecords]
      BY <1>1, <3>1, <3>2, TimerStoreAt DEF TimerRecords
    <3>3. ASSUME pc = 2 PROVE timer' \in [Timers -> TimerRecords]
      BY <1>1, <3>1, <3>3, TimerStoreAt DEF TimerRecords
    <3>4. ASSUME pc = 3 PROVE timer' \in [Timers -> TimerRecords]
      BY <1>1, <3>1, <3>4, TimerStoreAt DEF TimerRecords
    <3>5. ASSUME pc = 4 PROVE timer' \in [Timers -> TimerRecords]
      <4>1. timer' = [timer EXCEPT ![arg.id].timerCB = TRUE]
        BY <1>1, <3>5, TimerStoreAt
      <4> QED
        BY <3>1, <4>1 DEF TimerRecords
    <3>6. ASSUME pc = 5 PROVE timer' \in [Timers -> TimerRecords]
      BY <1>1, <3>1, <3>6, TimerStoreAt DEF TimerRecords
    <3>7. ASSUME pc = 6 PROVE timer' \in [Timers -> TimerRecords]
      BY <1>1, <3>1, <3>7, TimerStoreAt DEF TimerRecords
    <3>8. pc \in 1 .. 6
      BY <1>1, TimerStoreAt
    <3> QED
      BY <3>2, <3>3, <3>4, <3>5, <3>6, <3>7, <3>8
  <2>2. \/ pc' = 0 /\ arg' = NoCall
        \/ pc' \in DOMAIN TimerFields /\ arg' \in TimerCalls
    BY <1>1, TimerStoreAt, Stores
  <2> QED
    BY <1>1, <2>1, <2>2 DEF TimerStore, TypeOK, TimerRecords
<1>2. CASE AlarmStore
  <2>1. alarm' \in [Alarms -> AlarmRecords]
    BY <1>2, AlarmStoreAt, SetTypes DEF TypeOK, AlarmRecords
  <2>2. \/ pc' = 0 /\ arg' = NoCall
        \/ pc' \in DOMAIN AlarmFields /\ arg' \in AlarmCalls
    BY <1>2, AlarmStoreAt, Stores
  <2> QED
    BY <1>2, <2>1, <2>2 DEF AlarmStore, TypeOK, AlarmRecords
<1>3. CASE ReadClock
  BY <1>3 DEF ReadClock, TypeOK
<1>4. ASSUME NEW c \in TimerCalls \cup AlarmCalls, MainCall(c) PROVE TypeOK'
  <2>1. /\ sets' \in 0 .. MaxSets
        /\ \/ pc' \in DOMAIN TimerFields /\ arg' \in TimerCalls
           \/ pc' \in DOMAIN AlarmFields /\ arg' \in AlarmCalls
    BY <1>4, Stores, TimerAssumption DEF MainCall, TypeOK
  <2> QED
    BY <1>4, <2>1, AskType DEF MainCall, TypeOK
<1>5. ASSUME NEW s \in Seconds, SetDate(s) PROVE TypeOK'
  <2>1. sets' \in 0 .. MaxSets /\ sec' \in Nat
    BY <1>5, Indices, TimerAssumption DEF SetDate, TypeOK
  <2> QED
    BY <1>5, <2>1 DEF SetDate, TypeOK
<1> QED
  BY <1>1, <1>2, <1>3, <1>4, <1>5

LEMMA TickType ==
    ASSUME TypeOK,
           \/ TickBegin \/ TickStep
           \/ \E c \in TimerCalls \cup AlarmCalls : CallbackSets(c)
    PROVE  TypeOK'
<1> USE TimerAssumption, Indices DEF clock, scan, main
<1>1. CASE TickBegin
  <2>1. /\ sysTick' \in 0 .. MaxTick /\ rtc_counter' \in 0 .. TicksPerSec - 1 /\ sec' \in Nat
        /\ isr' \in {"alarm", "timer"} /\ n' = 0
    BY <1>1 DEF TickBegin, SecondIsOver, TypeOK
  <2> QED
    BY <1>1, <2>1 DEF TickBegin, TypeOK
<1>2. CASE AlarmSkip \/ AlarmReturn
  <2>1. n \in Alarms /\ Loop("alarm", AlarmNum, "timer")
    BY <1>2 DEF AlarmSkip, AlarmReturn, TypeOK
  <2>2. \/ isr' = "alarm" /\ n' \in Alarms
        \/ isr' = "timer" /\ n' \in Timers
    BY <2>1, LoopAt DEF Alarms
  <2> QED
    BY <1>2, <2>2 DEF AlarmSkip, AlarmReturn, TypeOK
<1>3. CASE AlarmFire
  <2>1. n \in Alarms /\ alarm \in [Alarms -> AlarmRecords]
    BY <1>3 DEF AlarmFire, TypeOK, AlarmRecords
  <2>2. alarm' = [alarm EXCEPT ![n].CB = FALSE] /\ wake' = [wake EXCEPT ![n] = Off]
    BY <1>3 DEF AlarmFire
  <2>3. alarm' \in [Alarms -> AlarmRecords]
    BY <2>1, <2>2 DEF AlarmRecords
  <2>4. wake' \in [Alarms -> Nat \cup {Off}]
    BY <2>1, <2>2 DEF TypeOK
  <2> QED
    BY <1>3, <2>1, <2>3, <2>4 DEF AlarmFire, TypeOK, AlarmRecords
<1>4. ASSUME isr \in {"timer", "timerCB"}, n \in Timers, Loop("timer", TimerNum, "idle")
      PROVE  \/ isr' = "idle" /\ n' = 0
             \/ isr' = "timer" /\ n' \in Timers
  BY <1>4, LoopAt DEF Timers
<1>5. CASE TimerSkip
  BY <1>4, <1>5 DEF TimerSkip, TypeOK
<1>6. CASE TimerFire
  <2>1. n \in Timers /\ timer \in [Timers -> TimerRecords]
    BY <1>6 DEF TimerFire, TypeOK, TimerRecords
  <2>2. timer' \in [Timers -> TimerRecords] /\ fired' \in [periodic : BOOLEAN, generation : Nat]
    BY <1>6, <2>1 DEF TimerFire, TimerRecords
  <2>3. sysTick + timer[n].tick \in Nat
    BY <2>1 DEF TimerRecords, TypeOK
  <2>4. due' \in [Timers -> Nat \cup {Off}]
    BY <1>6, <2>1, <2>3 DEF TimerFire, TypeOK
  <2> QED
    BY <1>6, <2>1, <2>2, <2>4 DEF TimerFire, TypeOK, TimerRecords
<1>7. CASE TimerReturn
  <2>1. n \in Timers /\ timer \in [Timers -> TimerRecords]
    BY <1>7 DEF TimerReturn, TypeOK, TimerRecords
  <2>2. sysTick + timer[n].tick \in Nat
    BY <2>1 DEF TimerRecords, TypeOK
  <2>3. timer' \in [Timers -> TimerRecords]
    BY <1>7, <2>1, <2>2 DEF TimerReturn, TimerRecords
  <2>4. fired' \in [periodic : BOOLEAN, generation : Nat]
    BY <1>7 DEF TimerReturn
  <2> QED
    BY <1>4, <1>7, <2>1, <2>3, <2>4 DEF TimerReturn, TypeOK, TimerRecords
<1>8. ASSUME NEW c \in TimerCalls \cup AlarmCalls, CallbackSets(c) PROVE TypeOK'
  <2>1. sets' \in 0 .. MaxSets
    BY <1>8 DEF CallbackSets, TypeOK
  <2>2. timer' \in [Timers -> TimerRecords] /\ alarm' \in [Alarms -> AlarmRecords]
    BY <1>8, SetTypes DEF CallbackSets, TypeOK, TimerRecords, AlarmRecords
  <2> QED
    BY <1>8, <2>1, <2>2, AskType DEF CallbackSets, TypeOK, TimerRecords, AlarmRecords
<1> QED
  BY <1>1, <1>2, <1>3, <1>5, <1>6, <1>7, <1>8 DEF TickStep

LEMMA NextTypeOK == TypeOK /\ [Next]_vars => TypeOK'
<1>1. TypeOK /\ UNCHANGED vars => TypeOK'
  BY DEF TypeOK, vars, clock, scan, main
<1> QED
  BY <1>1, MainType, TickType DEF Next

\* Whatever the program, its callbacks and the ticks do, with hooks or without, the tables,
\* counters and scans keep their types: no scan leaves its table (llos.c:347-405).
THEOREM TimerTypes == Spec => []TypeOK
BY InitTypeOK, NextTypeOK, PTL DEF Spec

-----------------------------------------------------------------------------
(* With hooks, every callback runs when it has to.  What is to run is told by  *)
(* the history variables due and wake; the invariant says how the tables say   *)
(* the same, except for the timer or alarm the main program is setting, and    *)
(* for the timer whose callback runs and may be armed again when it returns.   *)

Setting(t) == arg.kind = "timer" /\ arg.id = t
SettingAlarm(a) == arg.kind = "alarm" /\ arg.id = a
\* t's callback runs and has not set t again
Running(t) == isr = "timerCB" /\ n = t /\ timer[t].generation = fired.generation

Armed(t) ==
    /\ due[t] = IF timer[t].newState THEN timer[t].nextTick ELSE Off
    /\ timer[t].newState => timer[t].timerCB

\* What LLOS_Tick_Increase will do to a running timer when its callback returns.
WillGoOn(t) ==
    /\ ~timer[t].newState /\ timer[t].timerCB
    /\ fired.periodic = timer[t].isPeriodic
    /\ due[t] = IF fired.periodic THEN sysTick + timer[t].tick ELSE Off

TimerInv ==
    \A t \in Timers :
        /\ timer[t].timerCB => timer[t].tick > 0
        /\ IF Running(t) THEN WillGoOn(t) ELSE Setting(t) \/ Armed(t)
        /\ isr = "timerCB" /\ n = t => timer[t].generation >= fired.generation

\* A call half made: the fields before pc have their new values.
SetInv ==
    arg.kind = "timer" =>
        /\ due[arg.id] = IF arg.on THEN sysTick + arg.tick ELSE Off
        /\ pc > 1 => timer[arg.id].newState = arg.on
        /\ pc > 3 => timer[arg.id].tick = arg.tick
        /\ pc > 4 => timer[arg.id].timerCB
        /\ pc > 5 => timer[arg.id].nextTick = sysTick + arg.tick

AlarmInv ==
    /\ \A a \in Alarms : SettingAlarm(a) \/ wake[a] = IF alarm[a].CB THEN alarm[a].sec ELSE Off
    /\ arg.kind = "alarm" =>
        /\ wake[arg.id] = IF arg.on THEN arg.sec ELSE Off
        /\ pc > 1 => alarm[arg.id].sec = arg.sec

\* The hooks keep the tick out of a call half made.
HookInv == isr # "idle" => pc = 0

\* The scan has been past the timer in this tick.
Passed(t) ==
    \/ isr = "idle"
    \/ isr = "timer" /\ t < n
    \/ isr = "timerCB" /\ t <= n

ScanInv ==
    \A t \in Timers :
        due[t] # Off => due[t] >= sysTick /\ (Passed(t) => due[t] > sysTick)

SafeInv == TimerInv /\ SetInv /\ AlarmInv /\ HookInv /\ ScanInv
IInv == TypeOK /\ SafeInv

LEMMA InitSafe == Init => SafeInv
BY Indices DEF Init, NoCall, SafeInv, TimerInv, SetInv, AlarmInv, HookInv, ScanInv, Running,
               Setting, Armed, SettingAlarm

\* The types of the records, for every entry of the tables.
LEMMA EntryTypes ==
    ASSUME TypeOK
    PROVE  /\ \A t \in Timers : /\ timer[t] \in TimerRecords
                               /\ timer[t].newState \in BOOLEAN /\ timer[t].timerCB \in BOOLEAN
                               /\ timer[t].isPeriodic \in BOOLEAN
                               /\ timer[t].tick \in Nat /\ timer[t].nextTick \in Nat
                               /\ timer[t].generation \in Nat
                               /\ due[t] \in Nat \cup {Off}
           /\ \A a \in Alarms : /\ alarm[a].sec \in Nat /\ alarm[a].CB \in BOOLEAN
                               /\ wake[a] \in Nat \cup {Off}
           /\ fired.generation \in Nat /\ fired.periodic \in BOOLEAN
           /\ sysTick \in Nat /\ sec \in Nat
           /\ pc = 0 => arg = NoCall /\ arg.kind = "none"
BY TimerAssumption, Stores DEF TypeOK, TimerRecords, AlarmRecords, NoCall

\* A call by the main program or by a callback replaces what has to run by what it asks for.
LEMMA AskAt ==
    ASSUME TypeOK, NEW c \in TimerCalls \cup AlarmCalls, Ask(c)
    PROVE  /\ c \in TimerCalls =>
                /\ wake' = wake
                /\ \A t \in Timers :
                     due'[t] = IF t = c.id THEN (IF c.on THEN sysTick + c.tick ELSE Off) ELSE due[t]
           /\ c \in AlarmCalls =>
                /\ due' = due
                /\ \A a \in Alarms :
                     wake'[a] = IF a = c.id THEN (IF c.on THEN c.sec ELSE Off) ELSE wake[a]
BY SetTypes DEF Ask, TypeOK

LEMMA MainCallSafe ==
    ASSUME IInv, NEW c \in TimerCalls \cup AlarmCalls, MainCall(c)
    PROVE  SafeInv'
<1> USE DEF IInv, SafeInv, clock, scan
<1>0. /\ isr = "idle" /\ isr' = "idle" /\ pc = 0 /\ pc' = 1 /\ arg' = c /\ arg.kind = "none"
      /\ timer' = timer /\ alarm' = alarm /\ sysTick' = sysTick /\ sec' = sec /\ n' = n
      /\ fired' = fired /\ sysTick \in Nat
  BY EntryTypes DEF MainCall
<1>1. Ask(c)
  BY DEF MainCall
<1>2. CASE c \in TimerCalls
  <2>0. c.kind = "timer" /\ c.id \in Timers /\ c.tick \in Nat \ {0} /\ c.on \in BOOLEAN
    BY <1>2, SetTypes
  <2>1. TimerInv' /\ SetInv'
    BY <1>0, <1>1, <1>2, <2>0, AskAt DEF TimerInv, SetInv, Running, Setting, Armed
  <2>2. AlarmInv' /\ HookInv'
    BY <1>0, <1>1, <1>2, <2>0, AskAt DEF AlarmInv, HookInv, SettingAlarm
  <2>3. ScanInv'
    BY <1>0, <1>1, <1>2, <2>0, AskAt DEF ScanInv, Passed
  <2> QED
    BY <2>1, <2>2, <2>3
<1>3. CASE c \in AlarmCalls
  <2>0. c.kind = "alarm" /\ c.id \in Alarms /\ c.sec \in Nat /\ c.on \in BOOLEAN
    BY <1>3, SetTypes
  <2>1. TimerInv' /\ SetInv'
    BY <1>0, <1>1, <1>3, <2>0, AskAt DEF TimerInv, SetInv, Running, Setting, Armed
  <2>2. AlarmInv' /\ HookInv'
    BY <1>0, <1>1, <1>3, <2>0, AskAt DEF AlarmInv, HookInv, SettingAlarm
  <2>3. ScanInv'
    BY <1>0, <1>1, <1>3, <2>0, AskAt DEF ScanInv, Passed
  <2> QED
    BY <2>1, <2>2, <2>3
<1> QED
  BY <1>2, <1>3

LEMMA TimerStoreSafe == IInv /\ TimerStore => SafeInv'
<1> SUFFICES ASSUME IInv, TimerStore PROVE SafeInv'
  OBVIOUS
<1> USE DEF IInv, SafeInv, clock, scan
<1>0. /\ isr = "idle" /\ isr' = "idle" /\ arg \in TimerCalls /\ pc \in 1 .. 6 /\ arg.kind = "timer"
      /\ arg.id \in Timers /\ arg.tick \in Nat \ {0} /\ arg.on \in BOOLEAN
      /\ alarm' = alarm /\ sysTick' = sysTick /\ n' = n /\ due' = due /\ wake' = wake
      /\ IF pc < 6 THEN pc' = pc + 1 /\ arg' = arg ELSE pc' = 0 /\ arg' = NoCall
  BY TimerStoreAt, SetTypes DEF TimerStore
<1>1. /\ \A t \in Timers : t # arg.id => timer'[t] = timer[t]
      /\ IF pc = 1 THEN timer'[arg.id].newState = arg.on
                   ELSE timer'[arg.id].newState = timer[arg.id].newState
      /\ IF pc = 3 THEN timer'[arg.id].tick = arg.tick ELSE timer'[arg.id].tick = timer[arg.id].tick
      /\ IF pc = 4 THEN timer'[arg.id].timerCB
                   ELSE timer'[arg.id].timerCB = timer[arg.id].timerCB
      /\ IF pc = 5 THEN timer'[arg.id].nextTick = sysTick + arg.tick
                   ELSE timer'[arg.id].nextTick = timer[arg.id].nextTick
  <2>0. /\ timer \in [Timers -> TimerRecords] /\ \A t \in Timers : timer[t] \in TimerRecords
    BY EntryTypes DEF TypeOK, TimerRecords
  <2>1. CASE pc = 1
    BY <1>0, <2>0, <2>1, TimerStoreAt DEF TimerRecords
  <2>2. CASE pc = 2
    BY <1>0, <2>0, <2>2, TimerStoreAt DEF TimerRecords
  <2>3. CASE pc = 3
    BY <1>0, <2>0, <2>3, TimerStoreAt DEF TimerRecords
  <2>4. CASE pc = 4
    <3>1. timer' = [timer EXCEPT ![arg.id].timerCB = TRUE]
      BY <2>4, TimerStoreAt
    <3> QED
      BY <1>0, <2>0, <2>4, <3>1 DEF TimerRecords
  <2>5. CASE pc = 5
    BY <1>0, <2>0, <2>5, TimerStoreAt DEF TimerRecords
  <2>6. CASE pc = 6
    BY <1>0, <2>0, <2>6, TimerStoreAt DEF TimerRecords
  <2>7. pc = 1 \/ pc = 2 \/ pc = 3 \/ pc = 4 \/ pc = 5 \/ pc = 6
    BY <1>0
  <2> QED
    BY <2>1, <2>2, <2>3, <2>4, <2>5, <2>6, <2>7
<1>2. SetInv'
  <2>1. CASE pc < 6
    BY <1>0, <1>1, <2>1 DEF SetInv
  <2>2. CASE pc = 6
    BY <1>0, <2>2 DEF SetInv, NoCall
  <2> QED
    BY <1>0, <2>1, <2>2
<1>3. TimerInv'
  <2>1. \A t \in Timers : timer'[t].timerCB => timer'[t].tick > 0
    BY <1>0, <1>1, EntryTypes DEF TimerInv, SetInv
  <2>2. ASSUME NEW t \in Timers PROVE Setting(t)' \/ Armed(t)'
    <3>1. CASE t # arg.id
      BY <1>0, <1>1, <3>1 DEF TimerInv, Running, Setting, Armed
    <3>2. CASE t = arg.id /\ pc < 6
      BY <1>0, <3>2 DEF Setting
    <3>3. CASE t = arg.id /\ pc = 6
      BY <1>0, <1>1, <3>3 DEF SetInv, Armed
    <3> QED
      BY <1>0, <3>1, <3>2, <3>3
  <2> QED
    BY <1>0, <2>1, <2>2 DEF TimerInv, Running
<1>4. AlarmInv' /\ HookInv'
  BY <1>0 DEF AlarmInv, HookInv, SettingAlarm, NoCall
<1>5. ScanInv'
  BY <1>0 DEF ScanInv, Passed
<1> QED
  BY <1>2, <1>3, <1>4, <1>5

LEMMA AlarmStoreSafe == IInv /\ AlarmStore => SafeInv'
<1> SUFFICES ASSUME IInv, AlarmStore PROVE SafeInv'
  OBVIOUS
<1> USE DEF IInv, SafeInv, clock, scan
<1>0. /\ isr = "idle" /\ isr' = "idle" /\ arg \in AlarmCalls /\ pc \in 1 .. 2 /\ arg.kind = "alarm"
      /\ arg.id \in Alarms /\ arg.sec \in Nat /\ arg.on \in BOOLEAN
      /\ timer' = timer /\ sysTick' = sysTick /\ n' = n /\ due' = due /\ wake' = wake
      /\ IF pc < 2 THEN pc' = 2 /\ arg' = arg ELSE pc' = 0 /\ arg' = NoCall
  BY AlarmStoreAt, SetTypes DEF AlarmStore
<1>1. /\ \A a \in Alarms : a # arg.id => alarm'[a] = alarm[a]
      /\ alarm'[arg.id].sec = (IF pc = 1 THEN arg.sec ELSE alarm[arg.id].sec)
      /\ alarm'[arg.id].CB = (IF pc = 2 THEN arg.on ELSE alarm[arg.id].CB)
  BY <1>0, AlarmStoreAt DEF TypeOK
<1>2. TimerInv' /\ SetInv'
  BY <1>0 DEF TimerInv, SetInv, Running, Setting, Armed, NoCall
<1>3. AlarmInv' /\ HookInv'
  BY <1>0, <1>1, EntryTypes DEF AlarmInv, HookInv, SettingAlarm, NoCall
<1>4. ScanInv'
  BY <1>0 DEF ScanInv, Passed
<1> QED
  BY <1>2, <1>3, <1>4

LEMMA TickBeginSafe == ASSUME CriticalHooks PROVE IInv /\ TickBegin => SafeInv'
<1> SUFFICES ASSUME IInv, TickBegin PROVE SafeInv'
  OBVIOUS
<1> USE DEF IInv, SafeInv
<1>0. /\ isr = "idle" /\ isr' \in {"alarm", "timer"} /\ n' = 0 /\ pc = 0 /\ pc' = 0
      /\ arg.kind = "none" /\ arg' = arg /\ timer' = timer /\ alarm' = alarm
      /\ sysTick' = sysTick + 1 /\ due' = due /\ wake' = wake /\ fired' = fired
  BY EntryTypes DEF TickBegin, main
<1>1. TimerInv' /\ SetInv'
  BY <1>0 DEF TimerInv, SetInv, Running, Setting, Armed
<1>2. AlarmInv' /\ HookInv'
  BY <1>0 DEF AlarmInv, HookInv, SettingAlarm
<1>3. ScanInv'
  BY <1>0, Indices, EntryTypes DEF ScanInv, Passed
<1> QED
  BY <1>1, <1>2, <1>3

LEMMA AlarmScanSafe == IInv /\ (AlarmSkip \/ AlarmFire \/ AlarmReturn) => SafeInv'
<1> SUFFICES ASSUME IInv, AlarmSkip \/ AlarmFire \/ AlarmReturn PROVE SafeInv'
  OBVIOUS
<1> USE DEF IInv, SafeInv
<1>0. /\ isr \in {"alarm", "alarmCB"} /\ isr' \in {"alarm", "alarmCB", "timer"} /\ pc = 0 /\ pc' = 0
      /\ arg.kind = "none" /\ arg' = arg /\ timer' = timer /\ sysTick' = sysTick /\ due' = due
      /\ fired' = fired /\ n \in Alarms
      /\ isr' = "timer" => n' = 0
  BY EntryTypes DEF AlarmSkip, AlarmFire, AlarmReturn, Loop, HookInv, clock, main, TypeOK
<1>1. \A a \in Alarms : wake'[a] = IF alarm'[a].CB THEN alarm'[a].sec ELSE Off
  <2>1. CASE AlarmFire
    BY <1>0, <2>1 DEF AlarmFire, AlarmInv, SettingAlarm, TypeOK
  <2>2. CASE AlarmSkip \/ AlarmReturn
    BY <1>0, <2>2 DEF AlarmSkip, AlarmReturn, AlarmInv, SettingAlarm
  <2> QED
    BY <2>1, <2>2
<1>2. TimerInv' /\ SetInv'
  BY <1>0 DEF TimerInv, SetInv, Running, Setting, Armed
<1>3. AlarmInv' /\ HookInv'
  BY <1>0, <1>1 DEF AlarmInv, HookInv, SettingAlarm
<1>4. ScanInv'
  BY <1>0, Indices, EntryTypes DEF ScanInv, Passed
<1> QED
  BY <1>2, <1>3, <1>4

LEMMA TimerSkipSafe == IInv /\ TimerSkip => SafeInv'
<1> SUFFICES ASSUME IInv, TimerSkip PROVE SafeInv'
  OBVIOUS
<1> USE DEF IInv, SafeInv
<1>0. /\ isr = "timer" /\ n \in Timers /\ pc = 0 /\ pc' = 0 /\ ~TimerDue
      /\ arg.kind = "none" /\ arg' = arg /\ timer' = timer /\ sysTick' = sysTick /\ due' = due
      /\ fired' = fired /\ alarm' = alarm /\ wake' = wake
  BY EntryTypes DEF TimerSkip, HookInv, clock, main, TypeOK
<1>1. \/ isr' = "timer" /\ n' = n + 1
      \/ isr' = "idle" /\ n = TimerNum - 1
  BY <1>0, TimerAssumption DEF TimerSkip, Loop, Timers
<1>2. TimerInv' /\ SetInv'
  BY <1>0, <1>1 DEF TimerInv, SetInv, Running, Setting, Armed
<1>3. AlarmInv' /\ HookInv'
  BY <1>0, <1>1 DEF AlarmInv, HookInv, SettingAlarm
<1>4. due[n] # Off => due[n] > sysTick
  BY <1>0, EntryTypes DEF TimerInv, Running, Setting, Armed, TimerDue
<1>5. ScanInv'
  <2>1. ASSUME NEW t \in Timers PROVE Passed(t)' => Passed(t) \/ t = n
    BY <1>0, <1>1, TimerAssumption DEF Passed, Timers
  <2> QED
    BY <1>0, <1>4, <2>1 DEF ScanInv
<1> QED
  BY <1>2, <1>3, <1>5

LEMMA TimerFireSafe == IInv /\ TimerFire => SafeInv'
<1> SUFFICES ASSUME IInv, TimerFire PROVE SafeInv'
  OBVIOUS
<1> USE DEF IInv, SafeInv
<1>0. /\ isr = "timer" /\ isr' = "timerCB" /\ n \in Timers /\ n' = n /\ pc = 0 /\ pc' = 0
      /\ TimerDue /\ arg.kind = "none" /\ arg' = arg /\ sysTick' = sysTick
      /\ alarm' = alarm /\ wake' = wake
  BY EntryTypes DEF TimerFire, HookInv, clock, main, TypeOK
<1>1. /\ \A t \in Timers : t # n => timer'[t] = timer[t] /\ due'[t] = due[t]
      /\ ~timer'[n].newState /\ timer'[n].timerCB = timer[n].timerCB
      /\ timer'[n].tick = timer[n].tick /\ timer'[n].isPeriodic = timer[n].isPeriodic
      /\ timer'[n].generation = timer[n].generation
      /\ fired'.periodic = timer[n].isPeriodic /\ fired'.generation = timer[n].generation
      /\ due'[n] = IF timer[n].isPeriodic THEN sysTick + timer[n].tick ELSE Off
  <2>1. /\ timer \in [Timers -> TimerRecords] /\ due \in [Timers -> Nat \cup {Off}]
        /\ timer' = [timer EXCEPT ![n].newState = FALSE]
        /\ due' = [due EXCEPT ![n] = IF timer[n].isPeriodic THEN sysTick + timer[n].tick ELSE Off]
        /\ fired' = [periodic |-> timer[n].isPeriodic, generation |-> timer[n].generation]
    BY DEF TimerFire, TypeOK, TimerRecords
  <2> QED
    BY <1>0, <2>1 DEF TimerRecords
<1>2. timer[n].timerCB /\ timer[n].tick > 0
  BY <1>0 DEF TimerDue, TimerInv
<1>3. TimerInv' /\ SetInv'
  <2>1. ASSUME NEW t \in Timers, t # n
        PROVE  /\ timer'[t].timerCB => timer'[t].tick > 0
               /\ ~Running(t)' /\ Armed(t)'
    BY <1>0, <1>1, <2>1 DEF TimerInv, Running, Setting, Armed
  <2>2. WillGoOn(n)' /\ timer'[n].tick > 0 /\ timer'[n].generation >= fired'.generation /\ Running(n)'
    BY <1>0, <1>1, <1>2, EntryTypes DEF WillGoOn, Running
  <2> QED
    BY <1>0, <2>1, <2>2 DEF TimerInv, SetInv
<1>4. AlarmInv' /\ HookInv'
  BY <1>0 DEF AlarmInv, HookInv, SettingAlarm
<1>5. ScanInv'
  <2>1. ASSUME NEW t \in Timers, t # n PROVE Passed(t)' => Passed(t)
    BY <1>0, <2>1 DEF Passed, Timers
  <2>2. due'[n] # Off => due'[n] > sysTick
    BY <1>0, <1>1, <1>2, EntryTypes
  <2> QED
    BY <1>0, <1>1, <2>1, <2>2, EntryTypes DEF ScanInv
<1> QED
  BY <1>3, <1>4, <1>5

LEMMA TimerReturnSafe == IInv /\ TimerReturn => SafeInv'
<1> SUFFICES ASSUME IInv, TimerReturn PROVE SafeInv'
  OBVIOUS
<1> USE DEF IInv, SafeInv
<1>0. /\ isr = "timerCB" /\ n \in Timers /\ pc = 0 /\ pc' = 0
      /\ arg.kind = "none" /\ arg' = arg /\ sysTick' = sysTick /\ due' = due
      /\ alarm' = alarm /\ wake' = wake
  BY EntryTypes DEF TimerReturn, HookInv, clock, main, TypeOK
<1>1. \/ isr' = "timer" /\ n' = n + 1
      \/ isr' = "idle" /\ n = TimerNum - 1
  BY <1>0, TimerAssumption DEF TimerReturn, Loop, Timers
<1>2. /\ \A t \in Timers : t # n \/ ~GoesOn => timer'[t] = timer[t]
      /\ GoesOn => /\ timer'[n].newState /\ timer'[n].nextTick = sysTick + timer[n].tick
                   /\ timer'[n].timerCB = timer[n].timerCB /\ timer'[n].tick = timer[n].tick
  <2>1. /\ timer \in [Timers -> TimerRecords]
        /\ GoesOn => timer' = [timer EXCEPT ![n].newState = TRUE,
                                            ![n].nextTick = sysTick + timer[n].tick]
        /\ ~GoesOn => timer' = timer
    BY DEF TimerReturn, TypeOK, TimerRecords
  <2> QED
    BY <1>0, <2>1 DEF TimerRecords
<1>3. TimerInv' /\ SetInv'
  <2>1. ASSUME NEW t \in Timers PROVE timer'[t].timerCB => timer'[t].tick > 0
    BY <1>0, <1>2 DEF TimerInv
  <2>2. ASSUME NEW t \in Timers PROVE Armed(t)'
    <3>1. CASE t # n
      BY <1>0, <1>2, <3>1 DEF TimerInv, Running, Setting, Armed
    <3>2. CASE t = n /\ GoesOn
      BY <1>0, <1>2, <3>2 DEF TimerInv, Running, WillGoOn, Armed, GoesOn
    <3>3. CASE t = n /\ ~GoesOn
      BY <1>0, <1>2, <3>3 DEF TimerInv, Running, WillGoOn, Setting, Armed, GoesOn
    <3> QED
      BY <3>1, <3>2, <3>3
  <2> QED
    BY <1>0, <1>1, <2>1, <2>2 DEF TimerInv, SetInv, Running
<1>4. AlarmInv' /\ HookInv'
  BY <1>0 DEF AlarmInv, HookInv, SettingAlarm
<1>5. ScanInv'
  <2>1. ASSUME NEW t \in Timers PROVE Passed(t)' => Passed(t)
    BY <1>0, <1>1, TimerAssumption DEF Passed, Timers
  <2> QED
    BY <1>0, <2>1 DEF ScanInv
<1> QED
  BY <1>3, <1>4, <1>5

LEMMA CallbackSetsSafe ==
    ASSUME IInv, NEW c \in TimerCalls \cup AlarmCalls, CallbackSets(c)
    PROVE  SafeInv'
<1> USE DEF IInv, SafeInv
<1>0. /\ isr \in {"alarmCB", "timerCB"} /\ isr' = isr /\ n' = n /\ fired' = fired
      /\ pc = 0 /\ pc' = 0 /\ arg.kind = "none" /\ arg' = arg
      /\ sysTick' = sysTick /\ sysTick \in Nat /\ Ask(c)
  BY EntryTypes DEF CallbackSets, HookInv, clock, scan, main
<1>1. SetInv' /\ HookInv'
  BY <1>0 DEF SetInv, HookInv
<1>2. CASE c \in TimerCalls
  <2>0. c.kind = "timer" /\ c.id \in Timers /\ c.tick \in Nat \ {0} /\ c.on \in BOOLEAN
    BY <1>2, SetTypes
  <2>1. /\ timer' = [timer EXCEPT ![c.id] = TimerSet(c)] /\ alarm' = alarm
        /\ timer \in [Timers -> TimerRecords]
    BY <2>0 DEF CallbackSets, TypeOK, TimerRecords
  <2>2. /\ \A t \in Timers : t # c.id => timer'[t] = timer[t] /\ due'[t] = due[t]
        /\ timer'[c.id].newState = c.on /\ timer'[c.id].tick = c.tick /\ timer'[c.id].timerCB
        /\ timer'[c.id].nextTick = sysTick + c.tick
        /\ timer'[c.id].generation = timer[c.id].generation + 1
        /\ due'[c.id] = IF c.on THEN sysTick + c.tick ELSE Off
        /\ wake' = wake
    BY <1>0, <1>2, <2>0, <2>1, AskAt DEF TimerSet
  <2>3. TimerInv'
    <3>1. ASSUME NEW t \in Timers, t # c.id
          PROVE  /\ timer'[t].timerCB => timer'[t].tick > 0
                 /\ IF Running(t)' THEN WillGoOn(t)' ELSE Armed(t)'
                 /\ isr' = "timerCB" /\ n' = t => timer'[t].generation >= fired'.generation
      BY <1>0, <2>2, <3>1 DEF TimerInv, Running, Setting, Armed, WillGoOn
    <3>2. /\ timer'[c.id].tick > 0
          /\ isr' = "timerCB" /\ n' = c.id => timer'[c.id].generation > fired'.generation
          /\ timer'[c.id].generation \in Nat /\ fired'.generation \in Nat
      BY <1>0, <2>0, <2>2, EntryTypes DEF TimerInv
    <3>3. timer'[c.id].generation >= fired'.generation \/ ~(isr' = "timerCB" /\ n' = c.id)
      BY <3>2
    <3>4. isr' = "timerCB" /\ n' = c.id => timer'[c.id].generation # fired'.generation
      BY <3>2
    <3>5. ~Running(c.id)' /\ Armed(c.id)'
      BY <1>0, <2>0, <2>2, <3>4 DEF Running, Armed
    <3> QED
      BY <3>1, <3>2, <3>3, <3>5 DEF TimerInv
  <2>4. AlarmInv'
    BY <1>0, <2>1, <2>2 DEF AlarmInv, SettingAlarm
  <2>5. ScanInv'
    BY <1>0, <2>0, <2>2 DEF ScanInv, Passed
  <2> QED
    BY <1>1, <2>3, <2>4, <2>5
<1>3. CASE c \in AlarmCalls
  <2>0. c.kind = "alarm" /\ c.id \in Alarms /\ c.sec \in Nat /\ c.on \in BOOLEAN
    BY <1>3, SetTypes
  <2>1. timer' = timer /\ due' = due /\ alarm' = [alarm EXCEPT ![c.id] = AlarmSet(c)]
    BY <1>0, <1>3, <2>0, AskAt DEF CallbackSets
  <2>2. TimerInv'
    BY <1>0, <2>1 DEF TimerInv, Running, Setting, Armed, WillGoOn
  <2>3. AlarmInv'
    BY <1>0, <1>3, <2>0, <2>1, AskAt DEF AlarmInv, SettingAlarm, AlarmSet, TypeOK
  <2>4. ScanInv'
    BY <1>0, <2>1 DEF ScanInv, Passed
  <2> QED
    BY <1>1, <2>2, <2>3, <2>4
<1> QED
  BY <1>2, <1>3

\* The invariant does not speak of what SetDate changes.
LEMMA OtherSafe ==
    ASSUME IInv, UNCHANGED <<sysTick, timer, alarm, scan, main, due, wake>>
    PROVE  SafeInv'
BY DEF IInv, SafeInv, TimerInv, SetInv, AlarmInv, HookInv, ScanInv, Running, Setting, Armed,
       WillGoOn, SettingAlarm, Passed, scan, main

LEMMA NextSafe == ASSUME CriticalHooks PROVE IInv /\ [Next]_vars => IInv'
<1> SUFFICES ASSUME IInv, [Next]_vars PROVE SafeInv'
  BY NextTypeOK DEF IInv
<1>1. CASE TickBegin
  BY <1>1, TickBeginSafe
<1>2. CASE TickStep
  BY <1>2, AlarmScanSafe, TimerSkipSafe, TimerFireSafe, TimerReturnSafe DEF TickStep
<1>3. CASE TimerStore
  BY <1>3, TimerStoreSafe
<1>4. CASE AlarmStore
  BY <1>4, AlarmStoreSafe
<1>5. CASE ReadClock
  BY <1>5, OtherSafe DEF ReadClock, vars, clock
<1>6. ASSUME NEW c \in TimerCalls \cup AlarmCalls, MainCall(c) PROVE SafeInv'
  BY <1>6, MainCallSafe
<1>7. ASSUME NEW c \in TimerCalls \cup AlarmCalls, CallbackSets(c) PROVE SafeInv'
  BY <1>7, CallbackSetsSafe
<1>8. ASSUME NEW s \in Seconds, SetDate(s) PROVE SafeInv'
  BY <1>8, OtherSafe DEF SetDate
<1>9. CASE UNCHANGED vars
  BY <1>9, OtherSafe DEF vars, clock
<1> QED
  BY <1>1, <1>2, <1>3, <1>4, <1>5, <1>6, <1>7, <1>8, <1>9 DEF Next

LEMMA SpecSafe == ASSUME CriticalHooks PROVE Spec => []IInv
<1>1. Init => IInv
  BY InitTypeOK, InitSafe DEF IInv
<1> QED
  BY <1>1, NextSafe, PTL DEF Spec

-----------------------------------------------------------------------------

\* With hooks, no timer is missed: when LLOS_Tick_Increase returns, each timer that is to
\* run is still to come, whatever its callbacks have set in the middle of the scan
\* (llos.c:377-405).
THEOREM NoTimerIsMissed == ASSUME CriticalHooks PROVE Spec => []Inv
<1>1. IInv => Inv
  BY DEF IInv, SafeInv, ScanInv, Passed, Inv, NoneOverdue
<1> QED
  BY <1>1, SpecSafe, PTL

\* With hooks, the last LLOS_Timer_Set or the timer's own period decides: neither the
\* clearing nor the re-arming around a callback undoes what the callback has set
\* (llos.c:381-404, 462-482).
THEOREM LastSettingStands == ASSUME CriticalHooks PROVE Spec => []LastSettingWins
<1>1. IInv => LastSettingWins
  BY EntryTypes DEF IInv, SafeInv, TimerInv, Running, Setting, Armed, LastSettingWins
<1> QED
  BY <1>1, SpecSafe, PTL

\* With hooks, every callback of a timer runs exactly at the tick that was asked for last
\* (llos.c:377-405).
THEOREM TimersFireOnTime == ASSUME CriticalHooks PROVE Spec => FiresOnTime
<1>1. IInv /\ [Next]_vars => [TimerFire => due[n] = sysTick]_vars
  <2> SUFFICES ASSUME IInv, TimerFire PROVE due[n] = sysTick
    OBVIOUS
  <2>1. isr = "timer" /\ n \in Timers /\ TimerDue /\ pc = 0 /\ arg.kind = "none"
    BY EntryTypes DEF TimerFire, IInv, SafeInv, HookInv, TypeOK
  <2>2. due[n] = timer[n].nextTick /\ sysTick >= timer[n].nextTick /\ timer[n].nextTick \in Nat
    BY <2>1, EntryTypes DEF IInv, SafeInv, TimerInv, Running, Setting, Armed, TimerDue
  <2>3. due[n] >= sysTick /\ sysTick \in Nat
    BY <2>1, <2>2, Indices, EntryTypes DEF IInv, SafeInv, ScanInv
  <2> QED
    BY <2>2, <2>3
<1> QED
  BY <1>1, SpecSafe, PTL DEF Spec, FiresOnTime

\* With hooks, an alarm runs once for each time it is set and not early, and the scan of a
\* new second passes over none that is due (llos.c:358-372, 587-628).
THEOREM AlarmsRunOnTime == ASSUME CriticalHooks PROVE Spec => AlarmsOnTime
<1>1. IInv /\ [Next]_vars =>
        [/\ AlarmFire => wake[n] # Off /\ sec >= wake[n]
         /\ AlarmSkip => wake[n] = Off \/ wake[n] > sec]_vars
  <2> SUFFICES ASSUME IInv, AlarmFire \/ AlarmSkip
               PROVE  /\ AlarmFire => wake[n] # Off /\ sec >= wake[n]
                      /\ AlarmSkip => wake[n] = Off \/ wake[n] > sec
    OBVIOUS
  <2>1. n \in Alarms /\ arg.kind = "none" /\ alarm[n].sec \in Nat /\ alarm[n].CB \in BOOLEAN
        /\ sec \in Nat
    BY EntryTypes DEF AlarmFire, AlarmSkip, IInv, SafeInv, HookInv, TypeOK
  <2>2. wake[n] = IF alarm[n].CB THEN alarm[n].sec ELSE Off
    BY <2>1 DEF IInv, SafeInv, AlarmInv, SettingAlarm
  <2> QED
    BY <2>1, <2>2, Indices DEF AlarmFire, AlarmSkip, AlarmDue
<1> QED
  BY <1>1, SpecSafe, PTL DEF Spec, AlarmsOnTime

-----------------------------------------------------------------------------
(* The calendar, which the same tick interrupt moves on: GotRight of Calendar, *)
(* for every set of dates and times and every number of ticks and calls,       *)
(* provided an interrupt calls LLOS_RTC_GetDate only while the main program is *)
(* not behind the check of the day.  Nothing is used of the conversions but    *)
(* that they are functions: the theorem is about the date that is kept, not    *)
(* about the arithmetic.                                                       *)

Fields(d) == [year |-> d.year, mon |-> d.mon, day |-> d.day, hour |-> d.hour, min |-> d.min,
              sec |-> d.sec, week |-> d.week]

YearRight(d) == ll_calendar.year = DateOf(d)[1]
MonthRight(d) == YearRight(d) /\ ll_calendar.mon = DateOf(d)[2]
DayRight(d) == MonthRight(d) /\ ll_calendar.day = DateOf(d)[3]
TimeRight(s) ==
    /\ ll_calendar.hour = Hour(s) /\ ll_calendar.min = Minute(s)
    /\ ll_calendar.sec = Second(s)

\* The kept date is that of daycnt whenever it is marked valid and nobody is replacing
\* it; while the main program replaces it, the fields it has stored are right already.
KeptRight ==
    /\ getDate \in {"main", "check", "year", "mon", "day", "time", "week", "copy"}
    /\ getDate \in {"main", "check"} /\ ll_calendar_valid => DayRight(daycnt)
    /\ getDate \notin {"main", "check"} => daycnt = toTime.day
    /\ getDate = "mon" => YearRight(toTime.day)
    /\ getDate = "day" => MonthRight(toTime.day)
    /\ getDate \in {"time", "week", "copy"} => DayRight(toTime.day)
    /\ getDate \in {"week", "copy"} => TimeRight(toTime.s)
    /\ getDate = "copy" => ll_calendar = Calendar(toTime)

DateInv == ll_calendar = Fields(ll_calendar) /\ KeptRight /\ GotRight

LEMMA InitDate == DateInit => DateInv
BY DEF DateInit, DateInv, Fields, Zero, KeptRight, GotRight

\* How the loops of LLOS_RTC_GetDate make up a date.
LEMMA DateParts ==
    ASSUME NEW d
    PROVE  /\ DateOf(d)[1] = Year(d)
           /\ DateOf(d)[2] = Month(Year(d), DayOfYear(d))
           /\ DateOf(d)[3] = DayOfMonth(Year(d), DayOfYear(d))
BY DEF DateOf

\* A kept date of the right day becomes the date of a time of that day.
LEMMA TimeAdded ==
    ASSUME ll_calendar = Fields(ll_calendar), NEW t, DayRight(t.day)
    PROVE  [ll_calendar EXCEPT
              !.hour = Hour(t.s), !.min = Minute(t.s), !.sec = Second(t.s),
              !.week = RTC_Get_Week(ll_calendar.year, ll_calendar.mon, ll_calendar.day)]
             = Calendar(t)
<1> DEFINE r == Fields(ll_calendar)
           w == RTC_Get_Week(ll_calendar.year, ll_calendar.mon, ll_calendar.day)
           a == [r EXCEPT !.hour = Hour(t.s)]
           b == [a EXCEPT !.min = Minute(t.s)]
           c == [b EXCEPT !.sec = Second(t.s)]
           e == [c EXCEPT !.week = w]
<1>1. a = [year |-> r.year, mon |-> r.mon, day |-> r.day, hour |-> Hour(t.s), min |-> r.min,
           sec |-> r.sec, week |-> r.week]
  BY DEF Fields
<1>2. b = [year |-> r.year, mon |-> r.mon, day |-> r.day, hour |-> Hour(t.s),
           min |-> Minute(t.s), sec |-> r.sec, week |-> r.week]
  <2> HIDE DEF a, r
  <2> QED
    BY <1>1
<1>3. c = [year |-> r.year, mon |-> r.mon, day |-> r.day, hour |-> Hour(t.s),
           min |-> Minute(t.s), sec |-> Second(t.s), week |-> r.week]
  <2> HIDE DEF b, r
  <2> QED
    BY <1>2
<1>4. e = [year |-> r.year, mon |-> r.mon, day |-> r.day, hour |-> Hour(t.s),
           min |-> Minute(t.s), sec |-> Second(t.s), week |-> w]
  <2> HIDE DEF c, r
  <2> QED
    BY <1>3
<1>5. e = Calendar(t)
  <2> HIDE DEF e
  <2> QED
    BY <1>4 DEF Fields, DayRight, MonthRight, YearRight, Calendar
<1>6. r = ll_calendar
  OBVIOUS
<1> QED
  BY <1>5, <1>6

\* The date of a time has all fields, and those of its day.
LEMMA CalendarParts ==
    ASSUME NEW t
    PROVE  /\ Calendar(t) = Fields(Calendar(t))
           /\ Calendar(t).year = DateOf(t.day)[1]
           /\ Calendar(t).mon = DateOf(t.day)[2]
           /\ Calendar(t).day = DateOf(t.day)[3]
BY DEF Calendar, Fields

LEMMA DateStep ==
    ASSUME IsrReadsAt \subseteq {"main", "check"}
    PROVE  DateInv /\ [DateNext]_dateVars => DateInv'
<1> SUFFICES ASSUME DateInv, [DateNext]_dateVars PROVE DateInv'
  OBVIOUS
<1> USE DEF DateInv, GotRight
<1>1. CASE LLOS_Init
  BY <1>1 DEF LLOS_Init, Call, Reinit, KeptRight, Fields, Zero
<1>2. CASE \E d \in Dates, s \in DaySeconds : LLOS_RTC_SetDate(d, s)
  BY <1>2 DEF LLOS_RTC_SetDate, Call, date, KeptRight, Fields, DayRight, MonthRight, YearRight
<1>3. CASE Read
  BY <1>3 DEF Read, Call, date, KeptRight, Fields, DayRight, MonthRight, YearRight
<1>4. CASE Check
  BY <1>4 DEF Check, Stale, KeptRight, Fields, DayRight, MonthRight, YearRight
<1>5. CASE StoreYear
  BY <1>5, DateParts DEF StoreYear, Step, KeptRight, Fields, YearRight
<1>6. CASE StoreMonth
  BY <1>6, DateParts DEF StoreMonth, Step, KeptRight, Fields, MonthRight, YearRight
<1>7. CASE StoreDay
  BY <1>7, DateParts
     DEF StoreDay, Step, KeptRight, Fields, DayRight, MonthRight, YearRight
<1>8. CASE StoreTime
  BY <1>8 DEF StoreTime, Step, KeptRight, Fields, DayRight, MonthRight, YearRight, TimeRight
<1>9. CASE StoreWeek
  <2>1. ll_calendar' = Fields(ll_calendar')
    BY <1>9 DEF StoreWeek, Step, Fields
  <2>2. ll_calendar' = Calendar(toTime)
    BY <1>9 DEF StoreWeek, Step, KeptRight, Fields, DayRight, MonthRight, YearRight,
                TimeRight, Calendar
  <2>3. DayRight(toTime.day)' /\ TimeRight(toTime.s)'
    BY <1>9 DEF StoreWeek, Step, KeptRight, Fields, DayRight, MonthRight, YearRight, TimeRight
  <2> QED
    BY <1>9, <2>1, <2>2, <2>3 DEF StoreWeek, Step, KeptRight
<1>10. CASE Copy
  BY <1>10 DEF Copy, date, KeptRight, Fields, DayRight, MonthRight, YearRight
<1>11. CASE SecondPasses
  BY <1>11
     DEF SecondPasses, date, KeptRight, Fields, DayRight, MonthRight, YearRight, TimeRight
<1>12. CASE IsrReads
  <2>1. getDate \in {"main", "check"}
    BY <1>12 DEF IsrReads
  <2>2. ll_calendar' = Calendar(rtc) /\ got' = [of |-> rtc, date |-> Calendar(rtc)]
    <3>1. CASE Stale(rtc)
      BY <1>12, <3>1 DEF IsrReads
    <3>2. CASE ~Stale(rtc)
      <4>1. DayRight(rtc.day)
        BY <3>2, <2>1 DEF Stale, KeptRight
      <4>2. ll_calendar = Fields(ll_calendar)
        OBVIOUS
      <4> QED
        BY <1>12, <3>2, <4>1, <4>2, TimeAdded DEF IsrReads
    <3> QED
      BY <3>1, <3>2
  <2>3. ll_calendar' = Fields(ll_calendar')
    BY <2>2, CalendarParts
  <2>4. DayRight(daycnt)'
    BY <1>12, <2>2, CalendarParts DEF IsrReads, DayRight, MonthRight, YearRight
  <2> QED
    BY <1>12, <2>1, <2>2, <2>3, <2>4 DEF IsrReads, KeptRight
<1>13. CASE UNCHANGED dateVars
  BY <1>13 DEF dateVars, date, KeptRight, Fields, DayRight, MonthRight, YearRight, TimeRight
<1> QED
  BY <1>1, <1>2, <1>3, <1>4, <1>5, <1>6, <1>7, <1>8, <1>9, <1>10, <1>11, <1>12, <1>13 DEF DateNext

\* Every call of LLOS_RTC_GetDate, from the main program or an interrupt, returns the date
\* of the time it read, whatever dates are set and however the second and the day change
\* meanwhile (llos.c:522-586), if an interrupt calls it only while the main program is not
\* behind the check of the day.
THEOREM DatesAreNeverTorn ==
    ASSUME IsrReadsAt \subseteq {"main", "check"}
    PROVE  DateSpec => []GotRight
<1>1. DateInit => DateInv
  BY InitDate
<1>2. DateInv /\ [DateNext]_dateVars => DateInv'
  BY DateStep
<1>3. DateInv => GotRight
  BY DEF DateInv
<1> QED
  BY <1>1, <1>2, <1>3, PTL DEF DateSpec

-----------------------------------------------------------------------------
(* The conversions of the calendar: DatesAreRight of Calendar, and more than   *)
(* TLC can check of it, for there is no last day here.  The loops of the code  *)
(* are recursive functions of Calendar; what they return is found by induction *)
(* on sets of numbers.                                                         *)

LEMMA Least ==
    ASSUME NEW T \in SUBSET Nat, T # {}
    PROVE  \E x \in T : \A y \in T : x <= y
<1>1. PICK x \in T : \A y \in T : ~ (<<y, x>> \in OpToRel(<, Nat))
  BY NatLessThanWellFounded, WFMin
<1>2. ASSUME NEW y \in T, y < x PROVE FALSE
  <2>1. <<y, x>> \in OpToRel(<, Nat)
    BY <1>2 DEF OpToRel
  <2> QED
    BY <1>1, <2>1
<1> QED
  BY <1>2

\* Induction up to N, on the set of the numbers for which something holds.
LEMMA Induction ==
    ASSUME NEW N \in Nat, NEW T, 0 \in T, \A i \in 0 .. N - 1 : i \in T => i + 1 \in T
    PROVE  0 .. N \subseteq T
<1> DEFINE U == {i \in 0 .. N : i \notin T}
<1> SUFFICES ASSUME U # {} PROVE FALSE
  OBVIOUS
<1>1. PICK x \in U : \A y \in U : x <= y
  <2>1. U \in SUBSET Nat
    OBVIOUS
  <2> HIDE DEF U
  <2> QED
    BY <2>1, Least
<1>2. x # 0 /\ x - 1 \in 0 .. N - 1 /\ x - 1 \notin U
  BY <1>1
<1>3. x - 1 \in T
  BY <1>2
<1> QED
  BY <1>1, <1>2, <1>3

-----------------------------------------------------------------------------
(* Months.                                                                   *)

\* Days of a year before its month mon, and before its end when mon is 13.
MonthStart(year, mon) ==
    (IF mon = 1 THEN 0 ELSE IF mon = 2 THEN 31 ELSE IF mon = 3 THEN 59 ELSE IF mon = 4 THEN 90
     ELSE IF mon = 5 THEN 120 ELSE IF mon = 6 THEN 151 ELSE IF mon = 7 THEN 181
     ELSE IF mon = 8 THEN 212 ELSE IF mon = 9 THEN 243 ELSE IF mon = 10 THEN 273
     ELSE IF mon = 11 THEN 304 ELSE IF mon = 12 THEN 334 ELSE 365)
    + (IF mon > 2 /\ RTC_Is_Leap_Year(year) THEN 1 ELSE 0)

LEMMA MonthLengthIs ==
    ASSUME NEW year \in Nat, NEW m \in 1 .. 12
    PROVE  MonthLength(year, m) = IF m \in {4, 6, 9, 11} THEN 30
                                  ELSE IF m # 2 THEN 31
                                  ELSE IF RTC_Is_Leap_Year(year) THEN 29 ELSE 28
<1>1. /\ table_mon[1] = 31 /\ table_mon[2] = 28 /\ table_mon[3] = 31 /\ table_mon[4] = 30
      /\ table_mon[5] = 31 /\ table_mon[6] = 30 /\ table_mon[7] = 31 /\ table_mon[8] = 31
      /\ table_mon[9] = 30 /\ table_mon[10] = 31 /\ table_mon[11] = 30 /\ table_mon[12] = 31
  BY DEF table_mon
<1>2. m = 1 \/ m = 2 \/ m = 3 \/ m = 4 \/ m = 5 \/ m = 6 \/ m = 7 \/ m = 8 \/ m = 9 \/ m = 10 \/ m = 11 \/ m = 12
  OBVIOUS
<1> QED
  BY <1>1, <1>2 DEF MonthLength

LEMMA MonthIs ==
    ASSUME NEW year \in Nat, NEW m \in 1 .. 12
    PROVE  /\ MonthLength(year, m) \in 28 .. 31
           /\ MonthStart(year, m + 1) = MonthStart(year, m) + MonthLength(year, m)
           /\ MonthStart(year, m) \in Nat
<1>1. MonthLength(year, m) = IF m \in {4, 6, 9, 11} THEN 30
                             ELSE IF m # 2 THEN 31
                             ELSE IF RTC_Is_Leap_Year(year) THEN 29 ELSE 28
  BY MonthLengthIs
<1>2. m = 1 \/ m = 2 \/ m = 3 \/ m = 4 \/ m = 5 \/ m = 6 \/ m = 7 \/ m = 8 \/ m = 9 \/ m = 10 \/ m = 11 \/ m = 12
  OBVIOUS
<1>3. CASE RTC_Is_Leap_Year(year)
  BY <1>1, <1>2, <1>3 DEF MonthStart
<1>4. CASE ~ RTC_Is_Leap_Year(year)
  BY <1>1, <1>2, <1>4 DEF MonthStart
<1> QED
  BY <1>3, <1>4

LEMMA MonthsAscend ==
    ASSUME NEW year \in Nat, NEW a \in 1 .. 13, NEW b \in 1 .. 13, a < b
    PROVE  /\ MonthStart(year, a) < MonthStart(year, b)
           /\ MonthStart(year, a + 1) <= MonthStart(year, b)
BY DEF MonthStart

LEMMA YearEnds == ASSUME NEW year \in Nat
                  PROVE MonthStart(year, 1) = 0 /\ MonthStart(year, 13) = YearLength(year)
BY DEF MonthStart, YearLength

\* Every day of a year is in one of its months.
LEMMA MonthExists ==
    ASSUME NEW year \in Nat, NEW t \in 0 .. YearLength(year) - 1
    PROVE  \E m \in 1 .. 12 : MonthStart(year, m) <= t /\ t < MonthStart(year, m + 1)
<1> DEFINE T == {m \in 1 .. 13 : t < MonthStart(year, m)}
<1>1. 13 \in T /\ 1 \notin T
  BY YearEnds DEF YearLength
<1>2. PICK m \in T : \A k \in T : m <= k
  <2>1. T \in SUBSET Nat
    OBVIOUS
  <2> HIDE DEF T
  <2> QED
    BY <1>1, <2>1, Least
<1>3. m - 1 \in 1 .. 12 /\ m - 1 \notin T /\ m - 1 + 1 = m
  BY <1>1, <1>2
<1>4. MonthStart(year, m - 1) \in Nat
  BY <1>3, MonthIs
<1> QED
  BY <1>2, <1>3, <1>4

LEMMA DaysBeforeMonthIs ==
    ASSUME NEW year \in Nat, NEW mon \in 1 .. 12
    PROVE  DaysBeforeMonth(year, mon) = MonthStart(year, mon)
<1> DEFINE days[m \in 1 .. 12] == IF m = 1 THEN 0 ELSE days[m - 1] + MonthLength(year, m - 1)
           f == [m \in 1 .. 12 |-> MonthStart(year, m)]
<1>1. DaysBeforeMonth(year, mon) = days[mon]
  BY DEF DaysBeforeMonth
<1>2. f = [m \in 1 .. 12 |-> IF m = 1 THEN 0 ELSE f[m - 1] + MonthLength(year, m - 1)]
  <2>1. ASSUME NEW m \in 1 .. 12
        PROVE  MonthStart(year, m) = IF m = 1 THEN 0 ELSE f[m - 1] + MonthLength(year, m - 1)
    <3>1. CASE m = 1
      BY <3>1 DEF MonthStart
    <3>2. CASE m # 1
      <4>1. m - 1 \in 1 .. 12 /\ m - 1 + 1 = m
        BY <3>2
      <4>2. f[m - 1] = MonthStart(year, m - 1)
        BY <4>1
      <4>3. MonthStart(year, m - 1 + 1) = MonthStart(year, m - 1) + MonthLength(year, m - 1)
        BY <4>1, MonthIs
      <4> QED
        BY <3>2, <4>1, <4>2, <4>3
    <3> QED
      BY <3>1, <3>2
  <2> QED
    BY <2>1
<1>3. days = [m \in 1 .. 12 |-> IF m = 1 THEN 0 ELSE days[m - 1] + MonthLength(year, m - 1)]
  <2> HIDE DEF f
  <2> QED
    BY <1>2
<1> HIDE DEF days
<1>4. days[1] = 0 /\ \A m \in 1 .. 11 : days[m + 1] = days[m] + MonthLength(year, m)
  <2>1. \A m \in 1 .. 11 : m + 1 \in 1 .. 12 /\ m + 1 # 1 /\ m + 1 - 1 = m
    OBVIOUS
  <2> QED
    BY <1>3, <2>1
<1> DEFINE T == {m \in 1 .. 12 : days[m] # MonthStart(year, m)}
<1>5. SUFFICES ASSUME T # {} PROVE FALSE
  BY <1>1
<1>6. PICK m \in T : \A k \in T : m <= k
  <2>1. T \in SUBSET Nat
    OBVIOUS
  <2> HIDE DEF T
  <2> QED
    BY <1>5, <2>1, Least
<1>7. m # 1
  BY <1>4, <1>6 DEF MonthStart
<1>8. m - 1 \in 1 .. 11 /\ m - 1 + 1 = m /\ m - 1 \notin T /\ m - 1 \in 1 .. 12
  BY <1>6, <1>7
<1>9. days[m - 1] = MonthStart(year, m - 1) /\ days[m - 1 + 1] = days[m - 1] + MonthLength(year, m - 1)
  BY <1>4, <1>8
<1>10. MonthStart(year, m - 1 + 1) = MonthStart(year, m - 1) + MonthLength(year, m - 1)
  BY <1>8, MonthIs
<1>11. days[m] = MonthStart(year, m)
  BY <1>8, <1>9, <1>10
<1> QED
  BY <1>6, <1>11

\* The loop over the months finds the month that a day of the year is in.
LEMMA MonthLoopIs ==
    ASSUME NEW year \in Nat, NEW m \in 1 .. 12, NEW d \in Nat, d < MonthLength(year, m),
           NEW t, t = MonthStart(year, m) + d
    PROVE  MonthLoop(year, t) = <<d, m - 1>>
<1> DEFINE Dom == (0 .. 365) \X (0 .. 12)
           Body(at, next) == IF at[1] < 28 \/ at[2] = 12 \/ at[1] < MonthLength(year, at[2] + 1) THEN at
                             ELSE next[<<at[1] - MonthLength(year, at[2] + 1), at[2] + 1>>]
           loop[at \in (0 .. 365) \X (0 .. 12)] ==
             LET temp == at[1]
                 mon == at[2]
             IN IF temp < 28 \/ mon = 12 \/ temp < MonthLength(year, mon + 1) THEN at
                ELSE loop[<<temp - MonthLength(year, mon + 1), mon + 1>>]
           Is(x, e) == MonthStart(year, e + 1) <= x /\ (e = 12 \/ x < MonthStart(year, e + 2))
           End(x, mon) == CHOOSE e \in mon .. 12 : Is(x, e)
           Day(at) == MonthStart(year, at[2] + 1) + at[1]
           f == [at \in Dom |-> <<Day(at) - MonthStart(year, End(Day(at), at[2]) + 1), End(Day(at), at[2])>>]
<1>1. MonthLoop(year, t) = loop[<<t, 0>>]
  BY DEF MonthLoop
<1>2. \A a \in 1 .. 13 : MonthStart(year, a) \in Nat
  BY DEF MonthStart
<1>3. ASSUME NEW x \in Nat, NEW e1 \in 0 .. 12, NEW e2 \in 0 .. 12, Is(x, e1), Is(x, e2), e1 < e2
      PROVE FALSE
  <2>1. MonthStart(year, (e1 + 1) + 1) <= MonthStart(year, e2 + 1)
    BY <1>3, MonthsAscend
  <2>2. (e1 + 1) + 1 = e1 + 2 /\ e1 # 12 /\ e1 + 2 \in 1 .. 13 /\ e2 + 1 \in 1 .. 13
    BY <1>3
  <2>3. MonthStart(year, e2 + 1) <= x /\ x < MonthStart(year, e1 + 2)
    BY <1>3, <2>2
  <2> QED
    BY <1>2, <2>1, <2>2, <2>3
<1> HIDE DEF Is
<1>4. ASSUME NEW x \in Nat, NEW mon \in 0 .. 12, NEW e \in mon .. 12, Is(x, e) PROVE End(x, mon) = e
  <2>1. End(x, mon) \in mon .. 12 /\ Is(x, End(x, mon))
    BY <1>4
  <2> DEFINE g == End(x, mon)
  <2> HIDE DEF g
  <2>2. g \in 0 .. 12 /\ e \in 0 .. 12 /\ Is(x, g)
    BY <2>1 DEF g
  <2>3. ~ (g < e) /\ ~ (e < g)
    BY <1>3, <1>4, <2>2
  <2> QED
    BY <2>2, <2>3 DEF g
<1>5. ASSUME NEW x \in Nat, NEW a \in 0 .. 12, MonthStart(year, a + 1) <= x
      PROVE \E e \in a .. 12 : Is(x, e)
  <2> DEFINE U == {k \in a .. 11 : x < MonthStart(year, k + 2)}
  <2>1. CASE U = {}
    <3>1. MonthStart(year, 12 + 1) <= x
      <4>1. CASE a = 12
        BY <1>5, <4>1
      <4>2. CASE a # 12
        <5>1. 11 \in a .. 11 /\ 11 \notin U /\ 11 + 2 = 12 + 1
          BY <2>1, <4>2
        <5>2. MonthStart(year, 11 + 2) \in Nat
          BY <1>2
        <5> QED
          BY <5>1, <5>2
      <4> QED
        BY <4>1, <4>2
    <3> QED
      BY <3>1 DEF Is
  <2>2. CASE U # {}
    <3>1. PICK e \in U : \A k \in U : e <= k
      <4>1. U \in SUBSET Nat
        OBVIOUS
      <4> HIDE DEF U
      <4> QED
        BY <2>2, <4>1, Least
    <3>2. e \in a .. 12 /\ x < MonthStart(year, e + 2)
      BY <3>1
    <3>3. CASE e = a
      BY <1>5, <3>2, <3>3 DEF Is
    <3>4. CASE e # a
      <4>1. e - 1 \in a .. 11 /\ e - 1 \notin U /\ e - 1 + 2 = e + 1 /\ e + 1 \in 1 .. 13
        BY <3>1, <3>4
      <4>2. MonthStart(year, e + 1) <= x
        BY <1>2, <4>1
      <4> QED
        BY <3>2, <4>2 DEF Is
    <3> QED
      BY <3>3, <3>4
  <2> QED
    BY <2>1, <2>2
<1> DEFINE Stops(temp, mon) == temp < 28 \/ mon = 12 \/ temp < MonthLength(year, mon + 1)
<1>6. ASSUME NEW temp \in 0 .. 365, NEW mon \in 0 .. 12, ~ Stops(temp, mon)
      PROVE  /\ temp - MonthLength(year, mon + 1) \in 0 .. 365 /\ mon + 1 \in 0 .. 12
             /\ MonthStart(year, mon + 2) + (temp - MonthLength(year, mon + 1))
                  = MonthStart(year, mon + 1) + temp
             /\ MonthStart(year, mon + 2) <= MonthStart(year, mon + 1) + temp
  <2>1. mon + 1 \in 1 .. 12 /\ mon + 1 + 1 = mon + 2
    BY <1>6
  <2>2. MonthLength(year, mon + 1) \in 28 .. 31 /\ MonthStart(year, mon + 1) \in Nat
        /\ MonthStart(year, mon + 1 + 1) = MonthStart(year, mon + 1) + MonthLength(year, mon + 1)
    BY <2>1, MonthIs
  <2> QED
    BY <1>6, <2>1, <2>2
<1>7. ASSUME NEW temp \in 0 .. 365, NEW mon \in 0 .. 12
      PROVE  f[<<temp, mon>>] = IF Stops(temp, mon) THEN <<temp, mon>>
                                ELSE f[<<temp - MonthLength(year, mon + 1), mon + 1>>]
  <2> DEFINE x == MonthStart(year, mon + 1) + temp
  <2>1. x \in Nat /\ MonthStart(year, mon + 1) \in Nat /\ MonthStart(year, mon + 1) <= x
        /\ x - MonthStart(year, mon + 1) = temp
    <3>1. mon + 1 \in 1 .. 13
      OBVIOUS
    <3>2. MonthStart(year, mon + 1) \in Nat
      BY <1>2, <3>1
    <3> QED
      BY <3>2
  <2>2. f[<<temp, mon>>] = <<x - MonthStart(year, End(x, mon) + 1), End(x, mon)>>
    <3> HIDE DEF End
    <3> QED
      OBVIOUS
  <2>3. CASE Stops(temp, mon)
    <3>1. Is(x, mon)
      <4>1. CASE mon = 12
        BY <2>1, <4>1 DEF Is
      <4>2. CASE mon # 12
        <5>1. mon + 1 \in 1 .. 12 /\ mon + 1 + 1 = mon + 2
          BY <4>2
        <5>2. MonthLength(year, mon + 1) \in 28 .. 31
              /\ MonthStart(year, mon + 1 + 1) = MonthStart(year, mon + 1) + MonthLength(year, mon + 1)
          BY <5>1, MonthIs
        <5>3. temp < MonthLength(year, mon + 1)
          BY <2>3, <4>2, <5>2
        <5> QED
          BY <2>1, <5>1, <5>2, <5>3 DEF Is
      <4> QED
        BY <4>1, <4>2
    <3>2. mon \in mon .. 12
      OBVIOUS
    <3> HIDE DEF x, End
    <3>3. End(x, mon) = mon
      BY <1>4, <2>1, <3>1, <3>2
    <3> QED
      BY <2>1, <2>2, <2>3, <3>3
  <2>4. CASE ~ Stops(temp, mon)
    <3> DEFINE temp2 == temp - MonthLength(year, mon + 1)
               mon2 == mon + 1
    <3>1. temp2 \in 0 .. 365 /\ mon2 \in 0 .. 12 /\ mon2 + 1 = mon + 2
          /\ MonthStart(year, mon2 + 1) + temp2 = x /\ MonthStart(year, mon2 + 1) <= x
      <4>1. mon2 + 1 = mon + 2
        OBVIOUS
      <4>2. /\ temp - MonthLength(year, mon + 1) \in 0 .. 365 /\ mon + 1 \in 0 .. 12
            /\ MonthStart(year, mon + 2) + (temp - MonthLength(year, mon + 1))
                 = MonthStart(year, mon + 1) + temp
            /\ MonthStart(year, mon + 2) <= MonthStart(year, mon + 1) + temp
        <5> HIDE DEF Stops
        <5> QED
          BY <1>6, <2>4
      <4> HIDE DEF Stops
      <4> QED
        BY <4>1, <4>2
    <3> HIDE DEF temp2, mon2
    <3>2. f[<<temp2, mon2>>] = <<x - MonthStart(year, End(x, mon2) + 1), End(x, mon2)>>
      <4> HIDE DEF End, x
      <4> QED
        BY <3>1
    <3>3. PICK e \in mon2 .. 12 : Is(x, e)
      <4> HIDE DEF x
      <4> QED
        BY <1>5, <2>1, <3>1
    <3>4. e \in mon .. 12
      BY <3>1, <3>3 DEF mon2
    <3>5. End(x, mon2) = e /\ End(x, mon) = e
      <4> HIDE DEF x, End
      <4> QED
        BY <1>4, <2>1, <3>1, <3>3, <3>4
    <3> HIDE DEF End, x, f
    <3> QED
      BY <2>2, <2>4, <3>2, <3>5 DEF temp2, mon2
  <2> QED
    BY <2>3, <2>4
<1>8. f = [at \in Dom |-> Body(at, f)]
  <2>1. ASSUME NEW at \in Dom PROVE f[at] = Body(at, f)
    <3>1. PICK temp \in 0 .. 365, mon \in 0 .. 12 : at = <<temp, mon>>
      OBVIOUS
    <3> HIDE DEF f
    <3> QED
      BY <1>7, <3>1
  <2>2. \E F : f = [at \in Dom |-> F[at]]
    <3> HIDE DEF End, Day, Dom
    <3>1. f = [at \in Dom |-> f[at]]
      OBVIOUS
    <3> QED
      BY <3>1
  <2> HIDE DEF f, Dom, Body
  <2> QED
    BY <2>1, <2>2
<1>9. loop = [at \in Dom |-> Body(at, loop)]
  <2> HIDE DEF f
  <2> QED
    BY <1>8
<1> HIDE DEF loop, f
<1>10. ASSUME NEW temp \in 0 .. 365, NEW mon \in 0 .. 12
       PROVE  loop[<<temp, mon>>] = IF Stops(temp, mon) THEN <<temp, mon>>
                                    ELSE loop[<<temp - MonthLength(year, mon + 1), mon + 1>>]
  BY <1>9
<1>11. t \in 0 .. 365 /\ MonthStart(year, m) \in Nat
  <2>1. MonthStart(year, m) \in Nat /\ MonthStart(year, m + 1) = MonthStart(year, m) + MonthLength(year, m)
        /\ MonthLength(year, m) \in 28 .. 31
    BY MonthIs
  <2>2. MonthStart(year, m + 1) <= 366
    BY DEF MonthStart
  <2> QED
    BY <2>1, <2>2
<1> DEFINE K == {k \in 0 .. m - 1 : loop[<<t, 0>>] = loop[<<t - MonthStart(year, k + 1), k>>]}
<1>12. 0 \in K
  <2>1. 0 + 1 = 1 /\ MonthStart(year, 1) = 0
    BY DEF MonthStart
  <2>2. t - 0 = t
    BY <1>11
  <2>3. t - MonthStart(year, 0 + 1) = t
    BY <2>1, <2>2
  <2> QED
    BY <2>3
<1>13. ASSUME NEW k \in 0 .. m - 1 - 1, k \in K PROVE k + 1 \in K
  <2> DEFINE temp == t - MonthStart(year, k + 1)
  <2>1. k + 1 \in 1 .. 12 /\ k + 1 < m /\ k + 1 + 1 \in 1 .. 13 /\ k \in 0 .. 12 /\ k # 12
    BY <1>13
  <2>2. /\ MonthStart(year, k + 1 + 1) = MonthStart(year, k + 1) + MonthLength(year, k + 1)
        /\ MonthLength(year, k + 1) \in 28 .. 31 /\ MonthStart(year, k + 1) \in Nat
    BY <2>1, MonthIs
  <2>3. MonthStart(year, k + 1 + 1) <= MonthStart(year, m)
    BY <2>1, MonthsAscend
  <2>4. temp \in 0 .. 365 /\ ~ Stops(temp, k)
    <3>1. MonthStart(year, m) <= t
      BY <1>11
    <3>2. temp \in Int /\ temp >= MonthLength(year, k + 1) /\ temp <= 365
      BY <1>11, <2>2, <2>3, <3>1
    <3> HIDE DEF temp
    <3> QED
      BY <2>1, <2>2, <3>2
  <2>5. t - MonthStart(year, k + 1 + 1) = temp - MonthLength(year, k + 1)
    BY <1>11, <2>2
  <2> HIDE DEF temp, Stops
  <2>6. loop[<<temp, k>>] = loop[<<temp - MonthLength(year, k + 1), k + 1>>]
    BY <1>10, <2>1, <2>4
  <2>7. loop[<<t, 0>>] = loop[<<temp, k>>]
    BY <1>13 DEF temp
  <2> QED
    BY <2>1, <2>5, <2>6, <2>7
<1>14. m - 1 \in K
  <2> HIDE DEF K
  <2>1. m - 1 \in Nat
    OBVIOUS
  <2>2. \A k \in 0 .. m - 1 - 1 : k \in K => k + 1 \in K
    BY <1>13
  <2>3. 0 .. m - 1 \subseteq K
    BY <1>12, <2>1, <2>2, Induction
  <2> QED
    BY <2>1, <2>3
<1>15. loop[<<t, 0>>] = loop[<<d, m - 1>>]
  <2>1. m - 1 + 1 = m /\ t - MonthStart(year, m) = d
    BY <1>11
  <2> QED
    BY <1>14, <2>1
<1>16. loop[<<d, m - 1>>] = <<d, m - 1>>
  <2>1. d \in 0 .. 365 /\ m - 1 \in 0 .. 12 /\ m - 1 + 1 = m
    BY <1>11
  <2> DEFINE mm == m - 1
  <2> HIDE DEF mm, Stops
  <2>2. loop[<<d, mm>>] = IF Stops(d, mm) THEN <<d, mm>>
                                    ELSE loop[<<d - MonthLength(year, mm + 1), mm + 1>>]
    BY <1>10, <2>1 DEF mm
  <2>3. Stops(d, mm)
    BY <2>1 DEF Stops, mm
  <2> QED
    BY <2>2, <2>3 DEF mm
<1> QED
  BY <1>1, <1>15, <1>16

-----------------------------------------------------------------------------
(* Years.                                                                    *)

\* Days of the years before a year, by the leap years among them.
YearStart(y) == 365 * y + ((y + 3) \div 4) - ((y + 99) \div 100) + ((y + 399) \div 400)

LEMMA YearIs ==
    ASSUME NEW y \in Nat
    PROVE  /\ YearStart(y) \in Int
           /\ YearLength(y) \in {365, 366}
           /\ YearStart(y + 1) = YearStart(y) + YearLength(y)
<1>1. ((y + 1 + 3) \div 4) = ((y + 3) \div 4) + (IF y % 4 = 0 THEN 1 ELSE 0)
  OBVIOUS
<1>2. ((y + 1 + 99) \div 100) = ((y + 99) \div 100) + (IF y % 100 = 0 THEN 1 ELSE 0)
  OBVIOUS
<1>3. ((y + 1 + 399) \div 400) = ((y + 399) \div 400) + (IF y % 400 = 0 THEN 1 ELSE 0)
  OBVIOUS
<1>4. (y % 400 = 0 => y % 100 = 0) /\ (y % 100 = 0 => y % 4 = 0)
  OBVIOUS
<1> QED
  BY <1>1, <1>2, <1>3, <1>4 DEF YearStart, YearLength, RTC_Is_Leap_Year

LEMMA YearsAscend ==
    ASSUME NEW a \in Nat, NEW b \in Nat, a < b
    PROVE  YearStart(a + 1) <= YearStart(b) /\ YearStart(a) < YearStart(b)
<1>1. YearStart(a) < YearStart(b)
  BY DEF YearStart
<1>2. YearStart(a + 1) <= YearStart(b)
  <2>1. CASE a + 1 = b
    BY <2>1, YearIs
  <2>2. CASE a + 1 < b
    BY <2>2 DEF YearStart
  <2> QED
    BY <2>1, <2>2
<1> QED
  BY <1>1, <1>2

LEMMA YearsGrow == ASSUME NEW y \in Nat PROVE y <= YearStart(y) /\ YearStart(0) = 0
BY DEF YearStart

\* Every day from the start of a year on is in one of the years from it.
LEMMA YearExists ==
    ASSUME NEW x \in Int, NEW y \in Nat, YearStart(y) <= x
    PROVE  \E e \in Nat : e >= y /\ YearStart(e) <= x /\ x < YearStart(e + 1)
<1> DEFINE U == {e \in Nat : e >= y /\ x < YearStart(e + 1)}
<1>1. x \in Nat
  BY YearsGrow, YearIs
<1>2. U # {}
  <2> DEFINE e == x + y
  <2>1. e \in Nat /\ e + 1 \in Nat /\ e >= y
    BY <1>1
  <2>2. e + 1 <= YearStart(e + 1) /\ YearStart(e + 1) \in Int
    <3> HIDE DEF e
    <3> QED
      BY <2>1, YearsGrow, YearIs
  <2>3. e \in U
    BY <1>1, <2>1, <2>2
  <2> QED
    BY <2>3
<1>3. PICK e \in U : \A d \in U : e <= d
  <2>1. U \in SUBSET Nat
    OBVIOUS
  <2> HIDE DEF U
  <2> QED
    BY <1>2, <2>1, Least
<1>4. YearStart(e) <= x
  <2>1. CASE e = y
    BY <2>1
  <2>2. CASE e # y
    <3>1. e - 1 \in Nat /\ e - 1 \notin U /\ e - 1 >= y /\ e - 1 + 1 = e
      BY <1>3, <2>2
    <3>2. YearStart(e) \in Int
      BY <1>3, YearIs
    <3> QED
      BY <3>1, <3>2
  <2> QED
    BY <2>1, <2>2
<1> QED
  BY <1>3, <1>4

LEMMA DaysBeforeYearIs ==
    ASSUME NEW year \in Nat, year >= 2000
    PROVE  DaysBeforeYear[year] = YearStart(year) - YearStart(2000)
<1> DEFINE f == [y \in Nat |-> IF y <= 2000 THEN 0 ELSE YearStart(y) - YearStart(2000)]
           Body(y, g) == IF y <= 2000 THEN 0 ELSE g[y - 1] + YearLength(y - 1)
<1>1. f = [y \in Nat |-> IF y <= 2000 THEN 0 ELSE f[y - 1] + YearLength(y - 1)]
  <2>1. ASSUME NEW y \in Nat, ~ (y <= 2000)
        PROVE  f[y - 1] + YearLength(y - 1) = YearStart(y) - YearStart(2000)
    <3>1. y - 1 \in Nat /\ y - 1 + 1 = y /\ y - 1 >= 2000
      BY <2>1
    <3>2. f[y - 1] = YearStart(y - 1) - YearStart(2000)
      <4>1. CASE y - 1 = 2000
        BY <3>1, <4>1, YearIs, 2000 \in Nat
      <4>2. CASE y - 1 # 2000
        BY <3>1, <4>2
      <4> QED
        BY <4>1, <4>2
    <3>3. /\ YearStart(y - 1 + 1) = YearStart(y - 1) + YearLength(y - 1)
          /\ YearStart(y - 1) \in Int /\ YearLength(y - 1) \in {365, 366} /\ YearStart(2000) \in Int
      BY <3>1, YearIs, 2000 \in Nat
    <3> HIDE DEF f
    <3> QED
      BY <3>1, <3>2, <3>3
  <2>2. f = [y \in Nat |-> f[y]]
    OBVIOUS
  <2>3. \A y \in Nat : f[y] = IF y <= 2000 THEN 0 ELSE YearStart(y) - YearStart(2000)
    OBVIOUS
  <2> HIDE DEF f
  <2>4. \A y \in Nat : f[y] = Body(y, f)
    BY <2>1, <2>3
  <2>5. f = [y \in Nat |-> Body(y, f)]
    <3> HIDE DEF Body
    <3> QED
      BY <2>2, <2>4
  <2> QED
    BY <2>5
<1>2. DaysBeforeYear = [y \in Nat |-> IF y <= 2000 THEN 0 ELSE DaysBeforeYear[y - 1] + YearLength(y - 1)]
  <2> HIDE DEF f
  <2> QED
    BY <1>1 DEF DaysBeforeYear
<1>3. \A y \in Nat : DaysBeforeYear[y] = IF y <= 2000 THEN 0 ELSE DaysBeforeYear[y - 1] + YearLength(y - 1)
  BY <1>2
<1> DEFINE T == {k \in Nat : DaysBeforeYear[2000 + k] # YearStart(2000 + k) - YearStart(2000)}
<1>4. SUFFICES ASSUME T # {} PROVE FALSE
  <2> DEFINE j == year - 2000
  <2>1. j \in Nat /\ 2000 + j = year
    OBVIOUS
  <2> HIDE DEF j
  <2>2. j \notin T => DaysBeforeYear[2000 + j] = YearStart(2000 + j) - YearStart(2000)
    BY <2>1
  <2> HIDE DEF T
  <2>3. T = {} => DaysBeforeYear[year] = YearStart(year) - YearStart(2000)
    BY <2>1, <2>2
  <2> QED
    BY <2>3
<1>5. PICK k \in T : \A j \in T : k <= j
  <2>1. T \in SUBSET Nat
    OBVIOUS
  <2> HIDE DEF T
  <2> QED
    BY <1>4, <2>1, Least
<1>6. k # 0
  <2>1. DaysBeforeYear[2000] = 0 /\ YearStart(2000) \in Int
    BY <1>3, YearIs, 2000 \in Nat
  <2>2. 0 \notin T
    BY <2>1
  <2> QED
    BY <1>5, <2>2
<1> DEFINE y == 2000 + (k - 1)
<1>7. k - 1 \in Nat /\ k - 1 \notin T /\ y \in Nat /\ y + 1 = 2000 + k /\ y + 1 \in Nat /\ ~ (y + 1 <= 2000)
      /\ y + 1 - 1 = y
  BY <1>5, <1>6
<1>8. DaysBeforeYear[y] = YearStart(y) - YearStart(2000)
  BY <1>7
<1> HIDE DEF y
<1>9. DaysBeforeYear[y + 1] = DaysBeforeYear[y] + YearLength(y)
  BY <1>3, <1>7
<1>10. /\ YearStart(y + 1) = YearStart(y) + YearLength(y)
       /\ YearStart(y) \in Int /\ YearStart(2000) \in Int /\ YearLength(y) \in {365, 366}
  BY <1>7, YearIs, 2000 \in Nat
<1>11. DaysBeforeYear[y + 1] = YearStart(y + 1) - YearStart(2000)
  BY <1>8, <1>9, <1>10
<1> QED
  BY <1>5, <1>7, <1>11

\* The loop over the years, one pass.
LEMMA YearLoopStep ==
    \A temp \in Nat, year \in Nat :
        YearLoop[<<temp, year>>] = IF temp < YearLength(year) THEN <<temp, year>>
                                   ELSE YearLoop[<<temp - YearLength(year), year + 1>>]
<1> DEFINE Dom == Nat \X Nat
           Is(x, e) == YearStart(e) <= x /\ x < YearStart(e + 1)
           End(x, year) == CHOOSE e \in Nat : e >= year /\ Is(x, e)
           Day(at) == YearStart(at[2]) + at[1]
           f == [at \in Dom |-> <<Day(at) - YearStart(End(Day(at), at[2])), End(Day(at), at[2])>>]
           Body(at, next) == IF at[1] < YearLength(at[2]) THEN at
                             ELSE next[<<at[1] - YearLength(at[2]), at[2] + 1>>]
<1>1. ASSUME NEW x \in Int, NEW e1 \in Nat, NEW e2 \in Nat, Is(x, e1), Is(x, e2), e1 < e2
      PROVE FALSE
  <2>1. YearStart(e1 + 1) <= YearStart(e2)
    BY <1>1, YearsAscend
  <2>2. YearStart(e1 + 1) \in Int /\ YearStart(e2) \in Int
    BY YearIs
  <2> QED
    BY <1>1, <2>1, <2>2
<1> HIDE DEF Is
<1>2. ASSUME NEW x \in Int, NEW year \in Nat, NEW e \in Nat, e >= year, Is(x, e) PROVE End(x, year) = e
  <2>1. End(x, year) \in Nat /\ Is(x, End(x, year))
    BY <1>2
  <2> DEFINE g == End(x, year)
  <2> HIDE DEF g
  <2>2. g \in Nat /\ Is(x, g)
    BY <2>1 DEF g
  <2>3. ~ (g < e) /\ ~ (e < g)
    BY <1>1, <1>2, <2>2
  <2> QED
    BY <2>2, <2>3 DEF g
<1>3. ASSUME NEW temp \in Nat, NEW year \in Nat
      PROVE  f[<<temp, year>>] = IF temp < YearLength(year) THEN <<temp, year>>
                                 ELSE f[<<temp - YearLength(year), year + 1>>]
  <2> DEFINE x == YearStart(year) + temp
  <2>1. x \in Int /\ YearStart(year) \in Int /\ YearStart(year) <= x /\ x - YearStart(year) = temp
        /\ YearLength(year) \in {365, 366} /\ YearStart(year + 1) = YearStart(year) + YearLength(year)
    BY YearIs
  <2>2. f[<<temp, year>>] = <<x - YearStart(End(x, year)), End(x, year)>>
    <3> HIDE DEF End
    <3> QED
      OBVIOUS
  <2>3. CASE temp < YearLength(year)
    <3>1. Is(x, year) /\ year >= year
      BY <2>1, <2>3 DEF Is
    <3> HIDE DEF x, End
    <3>2. End(x, year) = year
      BY <1>2, <2>1, <3>1
    <3> QED
      BY <2>1, <2>2, <2>3, <3>2
  <2>4. CASE ~ (temp < YearLength(year))
    <3> DEFINE temp2 == temp - YearLength(year)
               year2 == year + 1
    <3>1. temp2 \in Nat /\ year2 \in Nat /\ YearStart(year2) + temp2 = x /\ YearStart(year2) <= x
          /\ year2 >= year
      BY <2>1, <2>4
    <3> HIDE DEF temp2, year2
    <3>2. f[<<temp2, year2>>] = <<x - YearStart(End(x, year2)), End(x, year2)>>
      <4> HIDE DEF End, x
      <4> QED
        BY <3>1
    <3>3. PICK e \in Nat : e >= year2 /\ Is(x, e)
      <4> HIDE DEF x
      <4> QED
        BY <2>1, <3>1, YearExists DEF Is
    <3>4. e >= year
      BY <3>1, <3>3
    <3>5. End(x, year2) = e /\ End(x, year) = e
      <4> HIDE DEF x, End
      <4> QED
        BY <1>2, <2>1, <3>1, <3>3, <3>4
    <3> HIDE DEF End, x, f
    <3> QED
      BY <2>2, <2>4, <3>2, <3>5 DEF temp2, year2
  <2> QED
    BY <2>3, <2>4
<1>4. f = [at \in Dom |-> Body(at, f)]
  <2>1. ASSUME NEW at \in Dom PROVE f[at] = Body(at, f)
    <3>1. PICK temp \in Nat, year \in Nat : at = <<temp, year>>
      OBVIOUS
    <3> HIDE DEF f
    <3> QED
      BY <1>3, <3>1
  <2>2. f = [at \in Dom |-> f[at]]
    <3> HIDE DEF End, Day, Dom
    <3> QED
      OBVIOUS
  <2> HIDE DEF f, Dom, Body
  <2> QED
    BY <2>1, <2>2
<1>5. YearLoop = [at \in Dom |-> Body(at, YearLoop)]
  <2> HIDE DEF f
  <2> QED
    BY <1>4 DEF YearLoop
<1> HIDE DEF f
<1> QED
  BY <1>5

LEMMA YearLoopEnd == ASSUME NEW temp \in Nat, NEW year \in Nat, temp < YearLength(year)
                     PROVE  YearLoop[<<temp, year>>] = <<temp, year>>
BY YearLoopStep

\* It finds the year that a day is in.
LEMMA YearLoopIs ==
    ASSUME NEW y \in Nat, y >= 2000, NEW t \in Nat, t < YearLength(y),
           NEW day, day = DaysBeforeYear[y] + t
    PROVE  YearLoop[<<day, 2000>>] = <<t, y>>
<1> DEFINE x == YearStart(y) + t
<1>7. day = x - YearStart(2000) /\ x \in Int /\ YearStart(2000) \in Int /\ YearStart(y) \in Int
  BY DaysBeforeYearIs, YearIs, 2000 \in Nat
<1> DEFINE N == y - 2000
           K == {k \in 0 .. N : YearLoop[<<day, 2000>>] = YearLoop[<<x - YearStart(2000 + k), 2000 + k>>]}
<1>8. 0 \in K
  <2>1. 2000 + 0 = 2000
    OBVIOUS
  <2> HIDE DEF x
  <2> QED
    BY <1>7, <2>1
<1>9. ASSUME NEW k \in 0 .. N - 1, k \in K PROVE k + 1 \in K
  <2> DEFINE year == 2000 + k
             temp == x - YearStart(year)
  <2>1. year \in Nat /\ year < y /\ 2000 + (k + 1) = year + 1 /\ k + 1 \in 0 .. N
    BY <1>9
  <2>2. YearStart(year) \in Int /\ YearStart(year + 1) = YearStart(year) + YearLength(year)
        /\ YearLength(year) \in {365, 366} /\ YearStart(year + 1) <= YearStart(y)
    <3> HIDE DEF year
    <3> QED
      BY <2>1, YearIs, YearsAscend
  <2>3. temp \in Nat /\ ~ (temp < YearLength(year)) /\ x - YearStart(year + 1) = temp - YearLength(year)
    <3> HIDE DEF year
    <3> QED
      BY <1>7, <2>2
  <2>4. YearLoop[<<day, 2000>>] = YearLoop[<<temp, year>>]
    BY <1>9
  <2> HIDE DEF temp, x, year
  <2>5. YearLoop[<<temp, year>>] = YearLoop[<<temp - YearLength(year), year + 1>>]
    BY YearLoopStep, <2>1, <2>3
  <2>6. YearLoop[<<day, 2000>>] = YearLoop[<<x - YearStart(2000 + (k + 1)), 2000 + (k + 1)>>]
    BY <2>1, <2>3, <2>4, <2>5
  <2> QED
    BY <2>1, <2>6
<1>10. N \in K
  <2>1. N \in Nat
    OBVIOUS
  <2> HIDE DEF K, N
  <2>2. \A k \in 0 .. N - 1 : k \in K => k + 1 \in K
    BY <1>9
  <2>3. 0 .. N \subseteq K
    BY <1>8, <2>1, <2>2, Induction
  <2> QED
    BY <2>1, <2>3
<1>11. 2000 + N = y /\ x - YearStart(y) = t
  BY <1>7
<1>12. YearLoop[<<day, 2000>>] = YearLoop[<<t, y>>]
  <2> HIDE DEF x
  <2> QED
    BY <1>10, <1>11
<1>13. YearLoop[<<t, y>>] = <<t, y>>
  BY YearLoopEnd
<1> QED
  BY <1>12, <1>13

-----------------------------------------------------------------------------
(* Dates.                                                                    *)

IsDate(y, m, d) ==
    /\ y \in Nat /\ y >= 2000
    /\ m \in 1 .. 12
    /\ d \in Nat /\ d < MonthLength(y, m)   \* counted from 0

LEMMA DayInYear ==
    ASSUME NEW y, NEW m, NEW d, IsDate(y, m, d)
    PROVE  /\ MonthStart(y, m) + d \in Nat
           /\ MonthStart(y, m) + d < YearLength(y)
           /\ DaysBeforeYear[y] \in Nat /\ MonthStart(y, m) \in Nat
           /\ DayOf(y, m, d + 1) = DaysBeforeYear[y] + (MonthStart(y, m) + d)
           /\ DayOf(y, m, d + 1) \in Nat
<1>0. y \in Nat /\ y >= 2000 /\ m \in 1 .. 12 /\ d \in Nat /\ d < MonthLength(y, m)
  BY DEF IsDate
<1>6. y \in Nat /\ m \in 1 .. 12
  BY <1>0
<1>1. /\ MonthStart(y, m) \in Nat /\ MonthLength(y, m) \in 28 .. 31
      /\ MonthStart(y, m + 1) = MonthStart(y, m) + MonthLength(y, m)
  BY <1>6, MonthIs
<1>2. MonthStart(y, m + 1) <= YearLength(y)
  BY <1>0 DEF MonthStart, YearLength
<1>3. YearLength(y) \in {365, 366}
  BY DEF YearLength
<1>4. DaysBeforeYear[y] \in Nat
  <2>1. DaysBeforeYear[y] = YearStart(y) - YearStart(2000)
    BY <1>0, DaysBeforeYearIs
  <2>2. YearStart(y) \in Int /\ YearStart(2000) \in Int
    BY <1>0, YearIs, 2000 \in Nat
  <2>3. YearStart(2000) <= YearStart(y)
    <3>1. CASE y = 2000
      BY <2>2, <3>1
    <3>2. CASE y # 2000
      <4>1. YearStart(2000) < YearStart(y)
        BY <1>0, <3>2, YearsAscend, 2000 \in Nat
      <4> QED
        BY <2>2, <4>1
    <3> QED
      BY <3>1, <3>2
  <2> QED
    BY <2>1, <2>2, <2>3
<1>5. DayOf(y, m, d + 1) = DaysBeforeYear[y] + MonthStart(y, m) + (d + 1) - 1
  BY <1>0, DaysBeforeMonthIs DEF DayOf
<1> QED
  BY <1>0, <1>1, <1>2, <1>3, <1>4, <1>5

\* LLOS_RTC_GetDate turns the day of a date back into that date.
LEMMA DateIs ==
    ASSUME NEW y, NEW m, NEW d, IsDate(y, m, d)
    PROVE  DateOf(DayOf(y, m, d + 1)) = <<y, m, d + 1>>
<1> DEFINE i == DayOf(y, m, d + 1)
           t == MonthStart(y, m) + d
<1>1. t \in Nat /\ t < YearLength(y) /\ i = DaysBeforeYear[y] + t
  BY DayInYear
<1>2. YearLoop[<<i, 2000>>] = <<t, y>>
  <2> HIDE DEF i, t
  <2> QED
    BY <1>1, YearLoopIs DEF IsDate
<1>3. Year(i) = y /\ DayOfYear(i) = t
  <2> HIDE DEF i, t
  <2> QED
    BY <1>2 DEF Year, DayOfYear
<1>4. MonthLoop(y, t) = <<d, m - 1>>
  BY MonthLoopIs DEF IsDate
<1>5. Month(y, t) = m /\ DayOfMonth(y, t) = d + 1
  <2> HIDE DEF t
  <2>1. m - 1 + 1 = m
    BY DEF IsDate
  <2> QED
    BY <1>4, <2>1 DEF Month, DayOfMonth
<1> HIDE DEF i, t
<1> QED
  BY <1>3, <1>5 DEF DateOf, i

\* Every day has a date.
LEMMA DayHasDate ==
    ASSUME NEW i \in Nat
    PROVE  \E y, m, d : IsDate(y, m, d) /\ i = DayOf(y, m, d + 1)
<1> DEFINE x == YearStart(2000) + i
<1>1. x \in Int /\ YearStart(2000) <= x /\ YearStart(2000) \in Int
  BY YearIs, 2000 \in Nat
<1>2. PICK y \in Nat : y >= 2000 /\ YearStart(y) <= x /\ x < YearStart(y + 1)
  <2> HIDE DEF x
  <2> QED
    BY <1>1, YearExists, 2000 \in Nat
<1>3. /\ YearStart(y) \in Int /\ YearStart(y + 1) = YearStart(y) + YearLength(y)
      /\ YearLength(y) \in {365, 366} /\ DaysBeforeYear[y] = YearStart(y) - YearStart(2000)
  BY <1>2, YearIs, DaysBeforeYearIs
<1> DEFINE t == x - YearStart(y)
<1>4. t \in 0 .. YearLength(y) - 1 /\ i = DaysBeforeYear[y] + t
  BY <1>1, <1>2, <1>3
<1>5. PICK m \in 1 .. 12 : MonthStart(y, m) <= t /\ t < MonthStart(y, m + 1)
  <2> HIDE DEF t
  <2> QED
    BY <1>2, <1>4, MonthExists
<1> DEFINE d == t - MonthStart(y, m)
<1> HIDE DEF t
<1>6. MonthStart(y, m) \in Nat /\ MonthStart(y, m + 1) = MonthStart(y, m) + MonthLength(y, m)
      /\ MonthLength(y, m) \in 28 .. 31
  BY <1>5, MonthIs
<1>7. d \in Nat /\ d < MonthLength(y, m) /\ MonthStart(y, m) + d = t
  BY <1>3, <1>4, <1>5, <1>6
<1> HIDE DEF d
<1>8. IsDate(y, m, d)
  BY <1>2, <1>5, <1>7 DEF IsDate
<1>9. i = DayOf(y, m, d + 1)
  BY <1>4, <1>7, <1>8, DayInYear
<1> QED
  BY <1>8, <1>9

LEMMA NextDay ==
    ASSUME NEW y, NEW m, NEW d, IsDate(y, m, d)
    PROVE  DateOf(DayOf(y, m, d + 1) + 1) = DayAfter(<<y, m, d + 1>>)
<1> DEFINE i == DayOf(y, m, d + 1)
           t == MonthStart(y, m) + d
<1>1. y \in Nat /\ y >= 2000 /\ m \in 1 .. 12 /\ d \in Nat /\ d < MonthLength(y, m)
  BY DEF IsDate
<1>10. y \in Nat /\ y + 1 \in Nat /\ m \in 1 .. 12
  BY <1>1
<1>2. /\ MonthLength(y, m) \in 28 .. 31 /\ MonthStart(y, m) \in Nat
      /\ MonthStart(y, m + 1) = MonthStart(y, m) + MonthLength(y, m)
      /\ MonthLength(y, m) = IF m \in {4, 6, 9, 11} THEN 30
                             ELSE IF m # 2 THEN 31
                             ELSE IF RTC_Is_Leap_Year(y) THEN 29 ELSE 28
  BY <1>10, MonthIs, MonthLengthIs
<1>3. i = DaysBeforeYear[y] + t /\ DaysBeforeYear[y] \in Nat /\ i \in Nat
  BY DayInYear
<1> HIDE DEF i
<1>4. (y % 4 = 0 /\ y % 100 # 0) \/ y % 400 = 0 <=> RTC_Is_Leap_Year(y)
  BY <1>1 DEF RTC_Is_Leap_Year
<1> DEFINE len == MonthLength(y, m)
<1> HIDE DEF len
<1>5. len \in 28 .. 31 /\ d + 1 <= len
  BY <1>1, <1>2 DEF len
<1>6. DayAfter(<<y, m, d + 1>>) = CASE d + 1 < len             -> <<y, m, d + 1 + 1>>
                                    [] d + 1 = len /\ m < 12    -> <<y, m + 1, 1>>
                                    [] OTHER                    -> <<y + 1, 1, 1>>
  BY <1>2, <1>4 DEF DayAfter, len
<1>7. CASE d + 1 < len
  <2>1. IsDate(y, m, d + 1)
    BY <1>1, <1>7 DEF IsDate, len
  <2>2. DayOf(y, m, d + 1 + 1) = i + 1
    BY <1>1, <1>2, <1>3, <2>1, DayInYear
  <2>3. DateOf(i + 1) = <<y, m, d + 1 + 1>>
    BY <2>1, <2>2, DateIs
  <2> QED
    BY <1>1, <1>5, <1>6, <1>7, <2>3 DEF i
<1>8. CASE d + 1 = len /\ m < 12
  <2>1. m + 1 \in 1 .. 12
    BY <1>1, <1>8
  <2>2. MonthLength(y, m + 1) \in 28 .. 31
    BY <1>10, <2>1, MonthIs
  <2>3. IsDate(y, m + 1, 0)
    BY <1>1, <2>1, <2>2 DEF IsDate
  <2>4. DayOf(y, m + 1, 0 + 1) = DaysBeforeYear[y] + (MonthStart(y, m + 1) + 0)
    BY <2>3, DayInYear
  <2>5. DayOf(y, m + 1, 0 + 1) = i + 1
    BY <1>1, <1>2, <1>3, <1>8, <2>4 DEF len
  <2>6. DateOf(i + 1) = <<y, m + 1, 0 + 1>>
    BY <2>3, <2>5, DateIs
  <2> QED
    BY <1>6, <1>8, <2>6 DEF i
<1>9. CASE d + 1 = len /\ m = 12
  <2>1. MonthLength(y + 1, 1) \in 28 .. 31
    BY <1>10, MonthIs, 1 \in 1 .. 12
  <2>2. IsDate(y + 1, 1, 0)
    BY <1>1, <2>1 DEF IsDate
  <2>3. DayOf(y + 1, 1, 0 + 1) = DaysBeforeYear[y + 1] + (MonthStart(y + 1, 1) + 0)
    BY <2>2, DayInYear
  <2>4. MonthStart(y + 1, 1) = 0 /\ MonthStart(y, m + 1) = YearLength(y)
    BY <1>1, <1>9, YearEnds
  <2>5. DaysBeforeYear[y + 1] = DaysBeforeYear[y] + YearLength(y)
    <3>1. y + 1 \in Nat /\ y + 1 >= 2000
      BY <1>1
    <3>2. DaysBeforeYear[y + 1] = YearStart(y + 1) - YearStart(2000)
      BY <3>1, DaysBeforeYearIs
    <3>3. DaysBeforeYear[y] = YearStart(y) - YearStart(2000)
      BY <1>1, DaysBeforeYearIs
    <3>4. YearStart(y) \in Int /\ YearStart(2000) \in Int /\ YearLength(y) \in {365, 366}
          /\ YearStart(y + 1) = YearStart(y) + YearLength(y)
      BY <1>1, YearIs, 2000 \in Nat
    <3> QED
      BY <3>2, <3>3, <3>4
  <2>6. DayOf(y + 1, 1, 0 + 1) = i + 1
    BY <1>1, <1>2, <1>3, <1>9, <2>3, <2>4, <2>5 DEF len, YearLength
  <2>7. DateOf(i + 1) = <<y + 1, 1, 0 + 1>>
    BY <2>2, <2>6, DateIs
  <2>8. ~ (d + 1 < len) /\ ~ (m < 12) /\ 0 + 1 = 1
    BY <1>5, <1>9
  <2> QED
    BY <1>6, <2>7, <2>8 DEF i
<1> QED
  BY <1>1, <1>5, <1>7, <1>8, <1>9

-----------------------------------------------------------------------------
(* Days of the week.                                                         *)

LEMMA Mod7 ==
    /\ \A a, b, z \in Int : a = b + 7 * z => a % 7 = b % 7
    /\ \A a, c \in Int : ((a % 7) + c) % 7 = (a + c) % 7
OBVIOUS

LEMMA YearStart2100 ==
    ASSUME NEW k \in 0 .. 100
    PROVE  YearStart(2000 + k) - YearStart(2000) = 365 * k + ((k + 3) \div 4)
BY DEF YearStart

LEMMA WeekIs ==
    ASSUME NEW y, NEW m, NEW d, IsDate(y, m, d), y <= 2099
    PROVE  RTC_Get_Week(y, m, d + 1) = (DayOf(y, m, d + 1) + 6) % 7
<1> DEFINE k == y - 2000
           yl == k + 100
           lp == IF yl % 4 = 0 /\ m < 3 THEN 1 ELSE 0
<1>1. k \in 0 .. 99 /\ y = 2000 + k /\ m \in 1 .. 12 /\ d \in Nat /\ y \in Nat
  BY DEF IsDate
<1> HIDE DEF k
<1>10. y \in Nat /\ m \in 1 .. 12
  BY <1>1
<1>2. y % 100 = k /\ y \div 100 = 20
  BY <1>1
<1>3. WeekSum(y, m, d + 1) = [sum |-> ((yl + yl \div 4) % 7) + (d + 1) + table_week[m], leap |-> lp]
  BY <1>2 DEF WeekSum
<1>4. RTC_Get_Week(y, m, d + 1) = (WeekSum(y, m, d + 1).sum - WeekSum(y, m, d + 1).leap) % 7
  BY <1>10 DEF RTC_Get_Week
<1>5. DayOf(y, m, d + 1) = 365 * k + ((k + 3) \div 4) + MonthStart(y, m) + d /\ MonthStart(y, m) \in Nat
  <2>1. DayOf(y, m, d + 1) = DaysBeforeYear[y] + (MonthStart(y, m) + d)
    BY DayInYear
  <2>2. DaysBeforeYear[y] = 365 * k + ((k + 3) \div 4)
    <3>1. k \in 0 .. 100 /\ y >= 2000
      BY <1>1
    <3>2. DaysBeforeYear[y] = YearStart(y) - YearStart(2000)
      BY <1>1, <3>1, DaysBeforeYearIs
    <3>3. YearStart(2000 + k) - YearStart(2000) = 365 * k + ((k + 3) \div 4)
      BY <3>1, YearStart2100
    <3> QED
      BY <1>1, <3>2, <3>3
  <2>3. MonthStart(y, m) \in Nat
    BY DayInYear
  <2> QED
    BY <1>1, <2>1, <2>2, <2>3
<1>6. PICK q \in 0 .. 24, r \in 0 .. 3 : k = 4 * q + r
  <2>1. k \div 4 \in 0 .. 24 /\ k % 4 \in 0 .. 3 /\ k = 4 * (k \div 4) + (k % 4)
    BY <1>1
  <2> QED
    BY <2>1
<1>7. yl \div 4 = q + 25 /\ (yl % 4 = 0 <=> r = 0) /\ (k + 3) \div 4 = q + (IF r = 0 THEN 0 ELSE 1)
  BY <1>6
<1>8. RTC_Is_Leap_Year(y) <=> r = 0
  <2>1. y % 4 = r
    BY <1>1, <1>6
  <2>2. y % 100 = 0 => r = 0 /\ y % 400 = 0
    BY <1>1, <1>6
  <2>3. y % 400 = 0 => y % 4 = 0
    BY <1>1
  <2> QED
    BY <1>6, <2>1, <2>2, <2>3 DEF RTC_Is_Leap_Year
<1>9. PICK z \in Int : MonthStart(y, m) + lp + (IF r = 0 THEN 0 ELSE 1) = table_week[m] + 120 + 7 * z
                       /\ table_week[m] \in 0 .. 6
  <2> DEFINE Q(z) == MonthStart(y, m) + lp + (IF r = 0 THEN 0 ELSE 1) = table_week[m] + 120 + 7 * z
                     /\ table_week[m] \in 0 .. 6
  <2>1. /\ table_week[1] = 0 /\ table_week[2] = 3 /\ table_week[3] = 3 /\ table_week[4] = 6
        /\ table_week[5] = 1 /\ table_week[6] = 4 /\ table_week[7] = 6 /\ table_week[8] = 2
        /\ table_week[9] = 5 /\ table_week[10] = 0 /\ table_week[11] = 3 /\ table_week[12] = 5
    BY DEF table_week
  <2>2. lp = IF r = 0 /\ m < 3 THEN 1 ELSE 0
    BY <1>7
  <2> HIDE DEF lp
  <2>3. m = 1 \/ m = 2 \/ m = 3 \/ m = 4 \/ m = 5 \/ m = 6 \/ m = 7 \/ m = 8 \/ m = 9 \/ m = 10 \/ m = 11 \/ m = 12
    BY <1>1
  <2>4. CASE r = 0
    <3>1. Q(-17) \/ Q(-13) \/ Q(-9) \/ Q(-5) \/ Q(0) \/ Q(4) \/ Q(8) \/ Q(13) \/ Q(17) \/ Q(22) \/ Q(26) \/ Q(30)
      BY <1>8, <2>1, <2>2, <2>3, <2>4 DEF MonthStart
    <3> HIDE DEF Q
    <3>2. \E z \in Int : Q(z)
      BY <3>1
    <3> QED
      BY <3>2 DEF Q
  <2>5. CASE r # 0
    <3>1. Q(-17) \/ Q(-13) \/ Q(-9) \/ Q(-5) \/ Q(0) \/ Q(4) \/ Q(8) \/ Q(13) \/ Q(17) \/ Q(22) \/ Q(26) \/ Q(30)
      BY <1>8, <2>1, <2>2, <2>3, <2>5 DEF MonthStart
    <3> HIDE DEF Q
    <3>2. \E z \in Int : Q(z)
      BY <3>1
    <3> QED
      BY <3>2 DEF Q
  <2> QED
    BY <2>4, <2>5
<1> DEFINE A == yl + (yl \div 4)
           c == d + 1 + table_week[m] - lp
           i == DayOf(y, m, d + 1)
           Z == 208 * q + 52 * r + z
<1>11. lp \in {0, 1} /\ A = 5 * q + r + 125 /\ A \in Int /\ c \in Int
  BY <1>1, <1>6, <1>7, <1>9
<1>12. i + 6 = 1461 * q + 365 * r + (IF r = 0 THEN 0 ELSE 1) + MonthStart(y, m) + d + 6
  BY <1>1, <1>5, <1>6, <1>7
<1>13. i + 6 = A + c + 7 * Z /\ Z \in Int /\ i + 6 \in Int
  BY <1>1, <1>5, <1>6, <1>9, <1>11, <1>12
<1>14. RTC_Get_Week(y, m, d + 1) = ((A % 7) + c) % 7
  <2>1. WeekSum(y, m, d + 1).sum - WeekSum(y, m, d + 1).leap = (A % 7) + c
    <3>1. A % 7 \in Int /\ d \in Int /\ table_week[m] \in Int /\ lp \in Int
      BY <1>1, <1>9, <1>11
    <3>2. WeekSum(y, m, d + 1).sum = (A % 7) + (d + 1) + table_week[m] /\ WeekSum(y, m, d + 1).leap = lp
      BY <1>3
    <3> HIDE DEF lp, A
    <3> QED
      BY <3>1, <3>2
  <2> HIDE DEF A, c
  <2> QED
    BY <1>4, <2>1
<1> HIDE DEF A, c, Z, i
<1> QED
  BY <1>11, <1>13, <1>14, Mod7 DEF i

-----------------------------------------------------------------------------
(* The conversions as a whole.                                               *)

FirstDate == <<2000, 1, 1>>

LEMMA FirstDay == IsDate(2000, 1, 0) /\ DayOf(2000, 1, 0 + 1) = 0
<1>1. IsDate(2000, 1, 0)
  <2>1. MonthLength(2000, 1) \in 28 .. 31
    BY MonthIs, 2000 \in Nat, 1 \in 1 .. 12
  <2> QED
    BY <2>1 DEF IsDate
<1>2. DaysBeforeYear[2000] = YearStart(2000) - YearStart(2000)
  BY DaysBeforeYearIs, 2000 \in Nat
<1>3. YearStart(2000) \in Int
  BY YearIs, 2000 \in Nat
<1>4. MonthStart(2000, 1) = 0
  BY YearEnds, 2000 \in Nat
<1> QED
  BY <1>1, <1>2, <1>3, <1>4, DayInYear

\* LLOS_RTC_SetDate takes no date of a year after 2099, and no other year has its days.
LEMMA LastYear ==
    ASSUME NEW y, NEW m, NEW d, IsDate(y, m, d), DayOf(y, m, d + 1) <= LastDay
    PROVE  y <= 2099
<1> SUFFICES ASSUME ~ (y <= 2099) PROVE FALSE
  OBVIOUS
<1>1. y \in Nat /\ y >= 2100 /\ y >= 2000 /\ d \in Nat
  BY DEF IsDate
<1>2. DaysBeforeYear[y] = YearStart(y) - YearStart(2000)
  BY <1>1, DaysBeforeYearIs
<1>3. YearStart(2100) <= YearStart(y)
  <2>1. CASE y = 2100
    BY <1>1, <2>1, YearIs
  <2>2. CASE y # 2100
    <3>1. 2100 < y
      BY <1>1, <2>2
    <3> QED
      BY <1>1, <3>1, YearsAscend, 2100 \in Nat
  <2> QED
    BY <2>1, <2>2
<1>4. YearStart(2100) - YearStart(2000) = 36525 /\ YearStart(2100) \in Int /\ YearStart(2000) \in Int
  BY DEF YearStart
<1>5. DayOf(y, m, d + 1) = DaysBeforeYear[y] + (MonthStart(y, m) + d) /\ MonthStart(y, m) \in Nat
  BY DayInYear
<1>6. YearStart(y) \in Int
  BY <1>1, YearIs
<1> QED
  BY <1>1, <1>2, <1>3, <1>4, <1>5, <1>6 DEF LastDay

\* From 2000-01-01 on and for ever, the date LLOS_RTC_GetDate computes for a day is the one
\* that follows the date of the day before, and LLOS_RTC_SetDate turns it back into the
\* day (llos.c:491-586).
THEOREM DatesFollowOn ==
    \A i \in Nat :
        /\ DateOf(i + 1) = DayAfter(DateOf(i))
        /\ DayOf(DateOf(i)[1], DateOf(i)[2], DateOf(i)[3]) = i
<1> TAKE i \in Nat
<1>1. PICK y, m, d : IsDate(y, m, d) /\ i = DayOf(y, m, d + 1)
  BY DayHasDate
<1>2. DateOf(i) = <<y, m, d + 1>>
  BY <1>1, DateIs
<1>3. DateOf(i + 1) = DayAfter(<<y, m, d + 1>>)
  BY <1>1, NextDay
<1> QED
  BY <1>1, <1>2, <1>3

\* LLOS_RTC_SetDate and LLOS_RTC_SetAlarm accept exactly the dates of this century that
\* some day has, whatever year, month and day they are called with (llos.c:653-659).
THEOREM DatesAreAccepted ==
    \A year, mon, day \in Nat :
        RTC_Is_Valid_Date(year, mon, day) <=> DateExists(year, mon, day)
<1> TAKE year, mon, day \in Nat
<1> DEFINE Shown == DateOf(DayOf(year, mon, day)) = <<year, mon, day>>
<1> DEFINE Bounds == year \in 2000 .. 2099 /\ mon \in 1 .. 12 /\ day > 0
<1>0. /\ RTC_Is_Valid_Date(year, mon, day) => Bounds
      /\ DateExists(year, mon, day) <=> Bounds /\ Shown
  BY DEF RTC_Is_Valid_Date, DateExists
<1>1. SUFFICES ASSUME Bounds
               PROVE  RTC_Is_Valid_Date(year, mon, day) <=> Shown
  <2> HIDE DEF Shown, Bounds
  <2>1. CASE ~Bounds
    BY <1>0, <2>1
  <2>2. CASE Bounds
    <3>1. RTC_Is_Valid_Date(year, mon, day) <=> Shown
      BY <2>2
    <3> QED
      BY <1>0, <2>2, <3>1
  <2> QED
    BY <2>1, <2>2
<1> DEFINE d == day - 1
<1>2. d \in Nat /\ d + 1 = day /\ year >= 2000
  BY <1>1
<1>3. RTC_Is_Valid_Date(year, mon, day) <=> d < MonthLength(year, mon)
  <2> DEFINE len == IF mon = 2 /\ RTC_Is_Leap_Year(year) THEN 29 ELSE table_mon[mon]
  <2>1. RTC_Is_Valid_Date(year, mon, day) <=> day \in 1 .. len
    BY <1>1 DEF RTC_Is_Valid_Date
  <2>2. table_mon[2] = 28 /\ table_mon[mon] \in 28 .. 31
    BY <1>1 DEF table_mon
  <2>3. len = MonthLength(year, mon) /\ len \in 28 .. 31
    BY <1>1, <2>2 DEF MonthLength
  <2> HIDE DEF len
  <2> QED
    BY <1>1, <1>2, <2>1, <2>3
<1> HIDE DEF d
<1>4. ASSUME d < MonthLength(year, mon) PROVE Shown
  <2>1. IsDate(year, mon, d)
    BY <1>1, <1>2, <1>4 DEF IsDate
  <2> QED
    BY <1>2, <2>1, DateIs
<1>5. ASSUME Shown PROVE d < MonthLength(year, mon)
  <2> DEFINE i == DayOf(year, mon, day)
  <2>1. i \in Nat
    <3>1. \A y \in Nat, m \in 1 .. 12 : MonthLength(y, m) \in 28 .. 31
      BY MonthIs
    <3>2. MonthLength(year, mon) \in 28 .. 31
      BY <1>1, <3>1
    <3>3. IsDate(year, mon, 0)
      BY <1>1, <3>2 DEF IsDate
    <3>4. DaysBeforeYear[year] \in Nat /\ MonthStart(year, mon) \in Nat
      BY <3>3, DayInYear
    <3>5. i = DaysBeforeYear[year] + MonthStart(year, mon) + day - 1
      BY <1>1, DaysBeforeMonthIs DEF DayOf
    <3> QED
      BY <1>1, <3>4, <3>5
  <2>2. PICK y, m, e : IsDate(y, m, e) /\ i = DayOf(y, m, e + 1)
    <3> HIDE DEF i
    <3> QED
      BY <2>1, DayHasDate
  <2>3. DateOf(i) = <<y, m, e + 1>>
    <3> HIDE DEF i
    <3> QED
      BY <2>2, DateIs
  <2>4. y = year /\ m = mon /\ e + 1 = day
    <3>1. DateOf(i) = <<year, mon, day>>
      BY <1>5
    <3> HIDE DEF i
    <3> QED
      BY <2>3, <3>1
  <2>5. e \in Nat /\ e < MonthLength(y, m)
    BY <2>2 DEF IsDate
  <2> QED
    BY <1>2, <2>4, <2>5
<1> QED
  BY <1>3, <1>4, <1>5

\* Weekdays follow on each other up to the last day of the century.
LEMMA WeeksFollowOn ==
    ASSUME NEW i \in 0 .. LastDay - 1, NEW d, d = DateOf(i), NEW e, e = DateOf(i + 1)
    PROVE  RTC_Get_Week(e[1], e[2], e[3]) = (RTC_Get_Week(d[1], d[2], d[3]) + 1) % 7
<1>1. ASSUME NEW k \in 0 .. LastDay
      PROVE  RTC_Get_Week(DateOf(k)[1], DateOf(k)[2], DateOf(k)[3]) = (k + 6) % 7
  <2>0. k \in Nat /\ k <= LastDay
    BY DEF LastDay
  <2>1. PICK y, m, c : IsDate(y, m, c) /\ k = DayOf(y, m, c + 1)
    BY <2>0, DayHasDate
  <2>2. DateOf(k) = <<y, m, c + 1>>
    BY <2>1, DateIs
  <2>3. y <= 2099
    BY <2>0, <2>1, LastYear
  <2>4. RTC_Get_Week(y, m, c + 1) = (k + 6) % 7
    BY <2>1, <2>3, WeekIs
  <2> QED
    BY <2>2, <2>4
<1>2. i \in 0 .. LastDay /\ i + 1 \in 0 .. LastDay /\ i \in Nat
  <2>1. LastDay \in Nat
    BY DEF LastDay
  <2> QED
    BY <2>1
<1>3. RTC_Get_Week(d[1], d[2], d[3]) = (i + 6) % 7
  BY <1>1, <1>2
<1>4. RTC_Get_Week(e[1], e[2], e[3]) = (i + 1 + 6) % 7
  BY <1>1, <1>2
<1>5. (i + 1 + 6) % 7 = (((i + 6) % 7) + 1) % 7
  <2> DEFINE a == i + 6
  <2>1. a \in Int /\ i + 1 + 6 = a + 1 /\ 1 \in Int
    BY <1>2
  <2> HIDE DEF a
  <2>2. ((a % 7) + 1) % 7 = (a + 1) % 7
    BY <2>1, Mod7
  <2> QED
    BY <2>1, <2>2 DEF a
<1> QED
  BY <1>3, <1>4, <1>5

\* What TLC checks of the conversions: the dates they accept, and that dates and weekdays
\* follow on each other from 2000-01-01, a Saturday, to 2099-12-31 (llos.c:491-586, 630-659).
THEOREM ConversionsAreRight == DateSpec => []DatesAreRight
<1>1. ValidDatesExist
  <2> SUFFICES ASSUME NEW year \in {1999, 2000, 2001, 2004, 2096, 2099, 2100},
                      NEW mon \in 0 .. 13, NEW day \in 0 .. 32
               PROVE  RTC_Is_Valid_Date(year, mon, day) <=> DateExists(year, mon, day)
    BY DEF ValidDatesExist
  <2>1. year \in Nat /\ mon \in Nat /\ day \in Nat
    OBVIOUS
  <2> QED
    BY ONLY <2>1, DatesAreAccepted
<1>2. DateOf(0) = <<2000, 1, 1>> /\ RTC_Get_Week(2000, 1, 1) = 6
  <2>1. DateOf(DayOf(2000, 1, 0 + 1)) = <<2000, 1, 0 + 1>>
    BY FirstDay, DateIs
  <2>2. RTC_Get_Week(2000, 1, 0 + 1) = (DayOf(2000, 1, 0 + 1) + 6) % 7
    BY FirstDay, WeekIs, 2000 <= 2099
  <2>3. 0 + 1 = 1 /\ (0 + 6) % 7 = 6
    OBVIOUS
  <2> QED
    BY <2>1, <2>2, <2>3, FirstDay
<1>3. ASSUME NEW i \in 0 .. LastDay
      PROVE  LET d == DateOf(i)
                 e == DateOf(i + 1)
             IN /\ e = DayAfter(d)
                /\ DayOf(d[1], d[2], d[3]) = i
                /\ i < LastDay => RTC_Get_Week(e[1], e[2], e[3])
                                    = (RTC_Get_Week(d[1], d[2], d[3]) + 1) % 7
  <2> DEFINE d == DateOf(i)
             e == DateOf(i + 1)
  <2>1. i \in Nat
    BY DEF LastDay
  <2>2. e = DayAfter(d) /\ DayOf(d[1], d[2], d[3]) = i
    BY <2>1, DatesFollowOn
  <2>3. ASSUME i < LastDay
        PROVE  RTC_Get_Week(e[1], e[2], e[3]) = (RTC_Get_Week(d[1], d[2], d[3]) + 1) % 7
    <3>1. i \in 0 .. LastDay - 1
      BY <2>1, <2>3 DEF LastDay
    <3> HIDE DEF d, e
    <3> QED
      BY <3>1, WeeksFollowOn DEF d, e
  <2> QED
    BY <2>2, <2>3
<1>4. GregorianDates
  BY <1>2, <1>3 DEF GregorianDates
<1>5. DatesAreRight
  BY <1>1, <1>4 DEF DatesAreRight
<1> QED
  BY <1>5, PTL
=============================================================================
