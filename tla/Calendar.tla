------------------------------ MODULE Calendar ------------------------------
(***************************************************************************)
(* The calendar of LLOS (kernel/llos.c): LLOS_RTC_SetDate, LLOS_RTC_GetDate*)
(* and the conversions between seconds since 2000-01-01 and dates.         *)
(*                                                                         *)
(* LLOS_RTC_GetDate keeps the date it computed last in static variables    *)
(* and computes a new one only if the day has changed.  Interrupts come    *)
(* between any two of its accesses to them: the tick moves the clock, and  *)
(* a timer callback may call LLOS_RTC_GetDate itself.                      *)
(*                                                                         *)
(* A time is a day and a second of it, day * 86400 + second in the code.   *)
(***************************************************************************)
EXTENDS Integers, Sequences

CONSTANTS
    Dates,       \* <<year, mon, day>>: the arguments of LLOS_RTC_SetDate
    DaySeconds,  \* seconds of the day it is called with
    IsrReadsAt,  \* points of the main program at which an interrupt calls GetDate
    MaxTicks,    \* bound: seconds the clock runs
    MaxCalls     \* bound: calls of the main program

SecPerDay == 86400

ASSUME CallerAssumption ==
    /\ Dates \subseteq (0 .. 65535) \X (0 .. 255) \X (0 .. 255)
    /\ DaySeconds \subseteq 0 .. SecPerDay - 1
ASSUME BoundAssumption == MaxTicks \in Nat /\ MaxCalls \in Nat

-----------------------------------------------------------------------------
(* Conversions. *)

table_week == <<0, 3, 3, 6, 1, 4, 6, 2, 5, 0, 3, 5>>
table_mon == <<31, 28, 31, 30, 31, 30, 31, 31, 30, 31, 30, 31>>

RTC_Is_Leap_Year(year) == year % 4 = 0 /\ (year % 100 # 0 \/ year % 400 = 0)

RTC_Is_Valid_Date(year, mon, day) ==
    /\ year \in 2000 .. 2099 /\ mon \in 1 .. 12
    /\ day \in 1 .. IF mon = 2 /\ RTC_Is_Leap_Year(year) THEN 29 ELSE table_mon[mon]

YearLength(year) == IF RTC_Is_Leap_Year(year) THEN 366 ELSE 365
MonthLength(year, mon) == table_mon[mon] + IF RTC_Is_Leap_Year(year) /\ mon = 2 THEN 1 ELSE 0

\* days of the years from 2000 up to, and of the months before, a date
DaysBeforeYear[year \in Nat] ==
    IF year <= 2000 THEN 0
    ELSE DaysBeforeYear[year - 1] + YearLength(year - 1)

DaysBeforeMonth(year, mon) ==
    LET days[m \in 1 .. 12] == IF m = 1 THEN 0 ELSE days[m - 1] + MonthLength(year, m - 1)
    IN days[mon]

\* LLOS_RTC_SetDate
DayOf(year, mon, day) == DaysBeforeYear[year] + DaysBeforeMonth(year, mon) + day - 1

\* LLOS_RTC_GetDate: the loop over the years yields <<day of the year, year>>
YearLoop[at \in Nat \X Nat] ==
    LET temp == at[1]
        year == at[2]
    IN IF temp < YearLength(year) THEN at ELSE YearLoop[<<temp - YearLength(year), year + 1>>]

\* and the loop over the months <<day of the month, month>>, both counted from 0.  There
\* is no month 12 in table_mon: no 28 days are left when the loop gets there.
MonthLoop(year, dayOfYear) ==
    LET loop[at \in (0 .. 365) \X (0 .. 12)] ==
            LET temp == at[1]
                mon == at[2]
            IN IF temp < 28 \/ mon = 12 \/ temp < MonthLength(year, mon + 1) THEN at
               ELSE loop[<<temp - MonthLength(year, mon + 1), mon + 1>>]
    IN loop[<<dayOfYear, 0>>]

DayOfYear(day) == YearLoop[<<day, 2000>>][1]
Year(day) == YearLoop[<<day, 2000>>][2]
DayOfMonth(year, temp) == MonthLoop(year, temp)[1] + 1
Month(year, temp) == MonthLoop(year, temp)[2] + 1

DateOf(day) ==
    <<Year(day), Month(Year(day), DayOfYear(day)), DayOfMonth(Year(day), DayOfYear(day))>>

\* Zeller's rule
WeekSum(year, month, day) ==
    LET yearL == (year % 100) + IF year \div 100 > 19 THEN 100 ELSE 0
        leap == IF yearL % 4 = 0 /\ month < 3 THEN 1 ELSE 0
    IN [sum |-> ((yearL + yearL \div 4) % 7) + day + table_week[month], leap |-> leap]
RTC_Get_Week_noLeap(year, month, day) ==   \* mutant: January of a leap year is not corrected
    IF month \notin 1 .. 12 THEN 0 ELSE WeekSum(year, month, day).sum % 7
RTC_Get_Week(year, month, day) ==
    IF month \notin 1 .. 12 THEN 0
    ELSE (WeekSum(year, month, day).sum - WeekSum(year, month, day).leap) % 7

\* the date that LLOS_RTC_GetDate owes for a time
Hour(s) == s \div 3600
Minute(s) == (s % 3600) \div 60
Second(s) == (s % 3600) % 60
Calendar(t) ==
    LET d == DateOf(t.day) IN
    [year |-> d[1], mon |-> d[2], day |-> d[3],
     hour |-> Hour(t.s), min |-> Minute(t.s), sec |-> Second(t.s),
     week |-> RTC_Get_Week(d[1], d[2], d[3])]

-----------------------------------------------------------------------------
VARIABLES
    rtc,                \* rtc.sec
    ll_calendar,        \* the date computed last
    ll_calendar_valid,
    daycnt,             \* the day of that date
    getDate,            \* the main program: its next access in LLOS_RTC_GetDate
    toTime,             \* the time it read there
    got,                \* the date returned last, by any call, and the time it is of
    ticks, calls        \* the clock's seconds and the main program's calls so far

date == <<ll_calendar, ll_calendar_valid, daycnt>>
dateVars == <<rtc, date, getDate, toTime, got, ticks, calls>>

Start == [day |-> 0, s |-> 0]
Zero == [year |-> 0, mon |-> 0, day |-> 0, hour |-> 0, min |-> 0, sec |-> 0, week |-> 0]

DateInit ==
    /\ rtc = Start
    /\ ll_calendar = Zero /\ ll_calendar_valid = FALSE /\ daycnt = 0
    /\ getDate = "main" /\ toTime = Start
    /\ got = [of |-> Start, date |-> Calendar(Start)]
    /\ ticks = 0 /\ calls = 0

Call == getDate = "main" /\ calls < MaxCalls /\ calls' = calls + 1

\* LLOS_Init resets the clock and the date, but not the static daycnt.
Reinit == ll_calendar' = Zero /\ ll_calendar_valid' = FALSE

LLOS_Init ==
    /\ Call
    /\ rtc' = Start
    /\ Reinit
    /\ UNCHANGED <<daycnt, getDate, toTime, got, ticks>>

LLOS_RTC_SetDate(d, s) ==
    /\ Call
    /\ RTC_Is_Valid_Date(d[1], d[2], d[3])
    /\ rtc' = [day |-> DayOf(d[1], d[2], d[3]), s |-> s]
    /\ UNCHANGED <<date, getDate, toTime, got, ticks>>

-----------------------------------------------------------------------------
(* LLOS_RTC_GetDate of the main program, access by access.                   *)

Read ==
    /\ Call
    /\ toTime' = rtc
    /\ getDate' = "check"
    /\ UNCHANGED <<rtc, date, got, ticks>>

Stale_day(t) == daycnt # t.day   \* mutant: the valid flag is not looked at
Stale(t) == ~ll_calendar_valid \/ daycnt # t.day

Check ==
    /\ getDate = "check"
    /\ IF Stale(toTime) THEN daycnt' = toTime.day /\ getDate' = "year"
                        ELSE getDate' = "time" /\ UNCHANGED daycnt
    /\ UNCHANGED <<rtc, ll_calendar, ll_calendar_valid, toTime, got, ticks, calls>>

Step(from, to, new) ==
    /\ getDate = from
    /\ ll_calendar' = new
    /\ getDate' = to
    /\ UNCHANGED <<rtc, daycnt, toTime, got, ticks, calls>>

\* the months are counted in the year that is in ll_calendar by then
StoreYear ==
    /\ Step("year", "mon", [ll_calendar EXCEPT !.year = Year(toTime.day)])
    /\ UNCHANGED ll_calendar_valid
StoreMonth ==
    /\ Step("mon", "day", [ll_calendar EXCEPT
              !.mon = Month(ll_calendar.year, DayOfYear(toTime.day))])
    /\ UNCHANGED ll_calendar_valid
StoreDay ==
    /\ Step("day", "time", [ll_calendar EXCEPT
              !.day = DayOfMonth(ll_calendar.year, DayOfYear(toTime.day))])
    /\ ll_calendar_valid' = TRUE
StoreTime ==
    /\ Step("time", "week", [ll_calendar EXCEPT !.hour = Hour(toTime.s), !.min = Minute(toTime.s),
                                                !.sec = Second(toTime.s)])
    /\ UNCHANGED ll_calendar_valid
StoreWeek ==
    /\ Step("week", "copy", [ll_calendar EXCEPT
              !.week = RTC_Get_Week(ll_calendar.year, ll_calendar.mon, ll_calendar.day)])
    /\ UNCHANGED ll_calendar_valid

Copy ==
    /\ getDate = "copy"
    /\ got' = [of |-> toTime, date |-> ll_calendar]
    /\ getDate' = "main" /\ toTime' = Start
    /\ UNCHANGED <<rtc, date, ticks, calls>>

-----------------------------------------------------------------------------
(* The tick interrupt.                                                       *)

SecondPasses ==
    /\ ticks < MaxTicks
    /\ ticks' = ticks + 1
    /\ rtc' = IF rtc.s + 1 = SecPerDay THEN [day |-> rtc.day + 1, s |-> 0]
                                       ELSE [rtc EXCEPT !.s = @ + 1]
    /\ UNCHANGED <<date, getDate, toTime, got, calls>>

\* LLOS_RTC_GetDate from a timer or alarm callback, which nothing interrupts
IsrReads ==
    /\ getDate \in IsrReadsAt
    /\ LET new == IF Stale(rtc) THEN Calendar(rtc)
                  ELSE [ll_calendar EXCEPT
                          !.hour = Hour(rtc.s), !.min = Minute(rtc.s), !.sec = Second(rtc.s),
                          !.week = RTC_Get_Week(ll_calendar.year, ll_calendar.mon,
                                                ll_calendar.day)]
       IN ll_calendar' = new /\ got' = [of |-> rtc, date |-> new]
    /\ ll_calendar_valid' = TRUE
    /\ daycnt' = rtc.day
    /\ UNCHANGED <<rtc, getDate, toTime, ticks, calls>>

DateNext ==
    \/ LLOS_Init \/ \E d \in Dates, s \in DaySeconds : LLOS_RTC_SetDate(d, s)
    \/ Read \/ Check \/ StoreYear \/ StoreMonth \/ StoreDay \/ StoreTime \/ StoreWeek \/ Copy
    \/ SecondPasses \/ IsrReads

DateSpec == DateInit /\ [][DateNext]_dateVars

-----------------------------------------------------------------------------
(* Properties.                                                               *)

\* The day after a date, by the rules of the Gregorian calendar.
DayAfter(d) ==
    LET leap == (d[1] % 4 = 0 /\ d[1] % 100 # 0) \/ d[1] % 400 = 0
        length == CASE d[2] \in {4, 6, 9, 11} -> 30
                    [] d[2] = 2 -> IF leap THEN 29 ELSE 28
                    [] OTHER -> 31
    IN CASE d[3] < length            -> <<d[1], d[2], d[3] + 1>>
         [] d[3] = length /\ d[2] < 12 -> <<d[1], d[2] + 1, 1>>
         [] OTHER                      -> <<d[1] + 1, 1, 1>>

DateExists(year, mon, day) ==
    /\ year \in 2000 .. 2099 /\ mon \in 1 .. 12 /\ day > 0
    /\ DateOf(DayOf(year, mon, day)) = <<year, mon, day>>

LastDay == 36524   \* 2099-12-31, the last day LLOS_RTC_SetDate accepts

\* LLOS_RTC_SetDate and LLOS_RTC_SetAlarm accept a date if and only if some day from
\* 2000-01-01 to 2099-12-31 has it (llos.c:653-659).
ValidDatesExist ==
    \A year \in {1999, 2000, 2001, 2004, 2096, 2099, 2100}, mon \in 0 .. 13, day \in 0 .. 32 :
        RTC_Is_Valid_Date(year, mon, day) <=> DateExists(year, mon, day)

\* Every day from 2000-01-01, a Saturday, to 2099-12-31 has the date and the weekday
\* that follow those of the day before (llos.c:522-586, 630-652), and LLOS_RTC_SetDate
\* turns that date back into the same day (llos.c:491-521).
GregorianDates ==
    /\ DateOf(0) = <<2000, 1, 1>> /\ RTC_Get_Week(2000, 1, 1) = 6
    /\ \A n \in 0 .. LastDay :
         LET d == DateOf(n)
             e == DateOf(n + 1)
         IN /\ e = DayAfter(d)
            /\ DayOf(d[1], d[2], d[3]) = n
            /\ n < LastDay => RTC_Get_Week(e[1], e[2], e[3])
                                = (RTC_Get_Week(d[1], d[2], d[3]) + 1) % 7

\* Both of these.  They are about the conversions alone, so the initial state is enough
\* to say so in (llos.c:491-586, 630-659).
DatesAreRight == DateInit => ValidDatesExist /\ GregorianDates

\* Whoever calls LLOS_RTC_GetDate gets the date of the time at which the call read
\* the clock, across midnight, LLOS_RTC_SetDate and LLOS_Init, provided no interrupt
\* calls it while the main program is behind the check of the day (llos.c:522-586).
GotRight == got.date = Calendar(got.of)
=============================================================================
