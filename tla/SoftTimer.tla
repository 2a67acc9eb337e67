------------------------------ MODULE SoftTimer ------------------------------
(***************************************************************************)
(* The software timers and RTC alarms of LLOS (kernel/llos.c):             *)
(* LLOS_Tick_Increase, LLOS_Timer_Set, LLOS_RTC_SetDate, LLOS_RTC_SetAlarm.*)
(*                                                                         *)
(* The tick interrupt scans the alarms once a second and the timers every  *)
(* tick, and runs their callbacks, which may set any timer or alarm again, *)
(* the one that is running included.  The main program sets them field by  *)
(* field; the interrupt may come between two of its stores unless the      *)
(* hooks of LLOS_Critical keep it out.  A date is the number of seconds it *)
(* is converted to.                                                        *)
(***************************************************************************)
EXTENDS Integers, Sequences

CONSTANTS
    TimerNum, AlarmNum,  \* ll_init_cfgs.timerNum, .alarmNum; both enabled
    Delays,              \* ticks that callers of LLOS_Timer_Set ask for
    TicksPerSec,         \* 1000 / tickPeriod
    Seconds,             \* dates that callers of SetDate and SetAlarm ask for
    CriticalHooks,       \* are criticalEnter / criticalEXIT registered?
    MaxTick,             \* bound: sysTick stays within 0..MaxTick
    MaxSets              \* bound: calls that set a timer, an alarm or the date

ASSUME TimerAssumption ==
    /\ TimerNum \in Nat \ {0} /\ AlarmNum \in Nat \ {0}
    /\ TicksPerSec \in Nat \ {0}
    /\ Delays \subseteq Nat \ {0} /\ Seconds \subseteq Nat
    /\ CriticalHooks \in BOOLEAN /\ MaxTick \in Nat /\ MaxSets \in Nat

Timers == 0 .. TimerNum - 1
Alarms == 0 .. AlarmNum - 1
Off == -1

VARIABLES
    sysTick, rtc_counter, sec,  \* the clock; ticks into this second; rtc.sec
    timer,       \* timerCB_list; timerCB says whether there is a callback
    alarm,       \* alarm_list, likewise
    isr, n,      \* LLOS_Tick_Increase: "idle", or what it does; its loop index
    fired,       \* LLOS_Tick_Increase: periodic and generation before the callback
    pc, arg,     \* the main program: the store of its call it makes next, 0 between calls
    sets,        \* calls made so far
    due, wake    \* history: when each timer and alarm has to run, or Off

clock == <<sysTick, rtc_counter, sec>>
scan  == <<isr, n, fired>>
main  == <<pc, arg>>
vars  == <<clock, timer, alarm, scan, main, sets, due, wake>>

NoCall == [kind |-> "none"]

Init ==
    /\ sysTick = 0 /\ rtc_counter = 0 /\ sec = 0
    /\ timer = [t \in Timers |-> [newState |-> FALSE, isPeriodic |-> FALSE, tick |-> 0,
                                  timerCB |-> FALSE, nextTick |-> 0, generation |-> 0]]
    /\ alarm = [a \in Alarms |-> [sec |-> 0, CB |-> FALSE]]
    /\ isr = "idle" /\ n = 0 /\ fired = [periodic |-> FALSE, generation |-> 0]
    /\ pc = 0 /\ arg = NoCall /\ sets = 0
    /\ due = [t \in Timers |-> Off] /\ wake = [a \in Alarms |-> Off]

-----------------------------------------------------------------------------
(* LLOS_Timer_Set and LLOS_RTC_SetAlarm.                                      *)

\* a call LLOS_Timer_Set(t, on, periodic, d, a callback)
TimerCalls == [kind : {"timer"}, id : Timers, on : BOOLEAN, periodic : BOOLEAN, tick : Delays]
\* a call LLOS_RTC_SetAlarm(date, a callback or NULL, a)
AlarmCalls == [kind : {"alarm"}, id : Alarms, sec : Seconds, on : BOOLEAN]

\* The stores of LLOS_Timer_Set in their order (initTick is never read).
TimerFields == <<"newState", "isPeriodic", "tick", "timerCB", "nextTick", "generation">>
AlarmFields == <<"sec", "CB">>

TimerSet(c) == [newState |-> c.on, isPeriodic |-> c.periodic, tick |-> c.tick, timerCB |-> TRUE,
                nextTick |-> sysTick + c.tick, generation |-> timer[c.id].generation + 1]
AlarmSet(c) == [sec |-> c.sec, CB |-> c.on]

\* what a call asks for, from its first store on
Ask(c) == IF c.kind = "timer"
          THEN /\ due' = [due EXCEPT ![c.id] = IF c.on THEN sysTick + c.tick ELSE Off]
               /\ UNCHANGED wake
          ELSE /\ wake' = [wake EXCEPT ![c.id] = IF c.on THEN c.sec ELSE Off]
               /\ UNCHANGED due

MainCall(c) ==
    /\ isr = "idle" /\ pc = 0 /\ sets < MaxSets
    /\ pc' = 1 /\ arg' = c /\ sets' = sets + 1
    /\ Ask(c)
    /\ UNCHANGED <<clock, timer, alarm, scan>>

StoreNext(fields) ==
    IF pc < Len(fields) THEN pc' = pc + 1 /\ UNCHANGED arg
                        ELSE pc' = 0 /\ arg' = NoCall

TimerStore ==
    /\ isr = "idle" /\ arg.kind = "timer"
    /\ timer' = [timer EXCEPT ![arg.id][TimerFields[pc]] = TimerSet(arg)[TimerFields[pc]]]
    /\ StoreNext(TimerFields)
    /\ UNCHANGED <<clock, alarm, scan, sets, due, wake>>

AlarmStore ==
    /\ isr = "idle" /\ arg.kind = "alarm"
    /\ alarm' = [alarm EXCEPT ![arg.id][AlarmFields[pc]] = AlarmSet(arg)[AlarmFields[pc]]]
    /\ StoreNext(AlarmFields)
    /\ UNCHANGED <<clock, timer, scan, sets, due, wake>>

\* LLOS_RTC_SetDate: one store
SetDate(s) ==
    /\ isr = "idle" /\ pc = 0 /\ sets < MaxSets
    /\ sec' = s /\ sets' = sets + 1
    /\ UNCHANGED <<sysTick, rtc_counter, timer, alarm, scan, main, due, wake>>

\* LLOS_Get_SysTick, LLOS_RTC_GetDate: the main program looks at the clock.
ReadClock == isr = "idle" /\ pc = 0 /\ UNCHANGED vars

-----------------------------------------------------------------------------
(* LLOS_Tick_Increase.                                                        *)

SecondIsOver == rtc_counter + 1 >= TicksPerSec

TickBegin ==
    /\ isr = "idle" /\ sysTick < MaxTick
    /\ CriticalHooks => pc = 0
    /\ sysTick' = sysTick + 1
    /\ IF SecondIsOver THEN rtc_counter' = 0 /\ sec' = sec + 1 /\ isr' = "alarm"
                       ELSE rtc_counter' = rtc_counter + 1 /\ UNCHANGED sec /\ isr' = "timer"
    /\ n' = 0
    /\ UNCHANGED <<timer, alarm, fired, main, sets, due, wake>>

\* the loop over num entries goes on, or is followed by `after`
Loop(loop, num, after) ==
    IF n + 1 < num THEN isr' = loop /\ n' = n + 1 ELSE isr' = after /\ n' = 0

AlarmDue_past == sec > alarm[n].sec /\ alarm[n].CB   \* mutant: a second late
AlarmDue == sec >= alarm[n].sec /\ alarm[n].CB

AlarmSkip ==
    /\ isr = "alarm" /\ ~AlarmDue
    /\ Loop("alarm", AlarmNum, "timer")
    /\ UNCHANGED <<clock, timer, alarm, fired, main, sets, due, wake>>

AlarmFire ==
    /\ isr = "alarm" /\ AlarmDue
    /\ alarm' = [alarm EXCEPT ![n].CB = FALSE]
    /\ wake' = [wake EXCEPT ![n] = Off]
    /\ isr' = "alarmCB"
    /\ UNCHANGED <<clock, timer, n, fired, main, sets, due>>

AlarmReturn ==
    /\ isr = "alarmCB"
    /\ Loop("alarm", AlarmNum, "timer")
    /\ UNCHANGED <<clock, timer, alarm, fired, main, sets, due, wake>>

\* mutant: one tick late
TimerDue_after == timer[n].newState /\ timer[n].timerCB /\ sysTick > timer[n].nextTick
TimerDue == timer[n].newState /\ timer[n].timerCB /\ sysTick >= timer[n].nextTick

TimerSkip ==
    /\ isr = "timer" /\ ~TimerDue
    /\ Loop("timer", TimerNum, "idle")
    /\ UNCHANGED <<clock, timer, alarm, fired, main, sets, due, wake>>

TimerFire ==
    /\ isr = "timer" /\ TimerDue
    /\ fired' = [periodic |-> timer[n].isPeriodic, generation |-> timer[n].generation]
    /\ timer' = [timer EXCEPT ![n].newState = FALSE]
    /\ due' = [due EXCEPT ![n] = IF timer[n].isPeriodic THEN sysTick + timer[n].tick ELSE Off]
    /\ isr' = "timerCB"
    /\ UNCHANGED <<clock, alarm, n, main, sets, wake>>

\* A periodic timer goes on, unless its callback has set it again.
GoesOn_always == fired.periodic   \* mutant: the generation is not looked at
GoesOn == timer[n].generation = fired.generation /\ fired.periodic

TimerReturn ==
    /\ isr = "timerCB"
    /\ timer' = IF GoesOn
                THEN [timer EXCEPT ![n].newState = TRUE, ![n].nextTick = sysTick + timer[n].tick]
                ELSE timer
    /\ Loop("timer", TimerNum, "idle")
    /\ fired' = [periodic |-> FALSE, generation |-> 0]
    /\ UNCHANGED <<clock, alarm, main, sets, due, wake>>

\* A callback sets a timer or an alarm; nothing comes between its stores.
CallbackSets(c) ==
    /\ isr \in {"alarmCB", "timerCB"} /\ sets < MaxSets
    /\ sets' = sets + 1
    /\ Ask(c)
    /\ IF c.kind = "timer"
       THEN timer' = [timer EXCEPT ![c.id] = TimerSet(c)] /\ UNCHANGED alarm
       ELSE alarm' = [alarm EXCEPT ![c.id] = AlarmSet(c)] /\ UNCHANGED timer
    /\ UNCHANGED <<clock, scan, main>>

-----------------------------------------------------------------------------

TickStep == AlarmSkip \/ AlarmFire \/ AlarmReturn \/ TimerSkip \/ TimerFire \/ TimerReturn

Next ==
    \/ TickBegin \/ TickStep \/ TimerStore \/ AlarmStore \/ ReadClock
    \/ \E c \in TimerCalls \cup AlarmCalls : MainCall(c) \/ CallbackSets(c)
    \/ \E s \in Seconds : SetDate(s)

Spec == Init /\ [][Next]_vars

-----------------------------------------------------------------------------
(* Properties.                                                               *)

\* Every variable keeps the type its C declaration gives it.
TypeOK ==
    /\ sysTick \in 0 .. MaxTick /\ rtc_counter \in 0 .. TicksPerSec - 1 /\ sec \in Nat
    /\ timer \in [Timers -> [newState : BOOLEAN, isPeriodic : BOOLEAN, tick : Nat, timerCB : BOOLEAN,
                             nextTick : Nat, generation : Nat]]
    /\ alarm \in [Alarms -> [sec : Nat, CB : BOOLEAN]]
    /\ fired \in [periodic : BOOLEAN, generation : Nat]
    /\ \/ isr = "idle" /\ n = 0
       \/ isr \in {"alarm", "alarmCB"} /\ n \in Alarms
       \/ isr \in {"timer", "timerCB"} /\ n \in Timers
    /\ \/ pc = 0 /\ arg = NoCall
       \/ pc \in DOMAIN TimerFields /\ arg \in TimerCalls
       \/ pc \in DOMAIN AlarmFields /\ arg \in AlarmCalls
    /\ sets \in 0 .. MaxSets
    /\ due \in [Timers -> Nat \cup {Off}] /\ wake \in [Alarms -> Nat \cup {Off}]

\* A timer's callback runs at the tick that was asked for, never earlier and never for a
\* setting that has been replaced (llos.c:377-405, 462-482).
FiresOnTime == [][TimerFire => due[n] = sysTick]_vars

\* No timer is missed: when the tick interrupt returns, every timer that is to run is
\* still to come, periodic ones and those set by a callback included (llos.c:377-405).
NoneOverdue == isr = "idle" => \A t \in Timers : due[t] # Off => due[t] > sysTick

\* Both of these, in every state: tables, counters and scans keep their types, and no
\* timer is missed (llos.c:347-405).
Inv == TypeOK /\ NoneOverdue

\* The last setting wins: between calls and ticks a timer is armed exactly as the last
\* LLOS_Timer_Set or its own period asked for, whoever made that call and whenever; the
\* re-arming after a callback does not undo what the callback did (llos.c:381-404).
LastSettingWins ==
    isr = "idle" /\ pc = 0 =>
        \A t \in Timers : due[t] = IF timer[t].newState THEN timer[t].nextTick ELSE Off

\* An alarm's callback runs once for each time it is set and not before its time, and the
\* scan of a new second passes over an alarm only if it is not set or its time is still to
\* come, whatever callbacks and SetDate have done (llos.c:358-372, 587-628).
AlarmsOnTime ==
    [][/\ AlarmFire => wake[n] # Off /\ sec >= wake[n]
       /\ AlarmSkip => wake[n] = Off \/ wake[n] > sec]_vars

=============================================================================
