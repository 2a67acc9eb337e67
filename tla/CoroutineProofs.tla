--------------------------- MODULE CoroutineProofs ---------------------------
(***************************************************************************)
(* What TLC checks of Coroutine on two contexts and two table entries,     *)
(* proved for any number of contexts, table entries, events and calls.     *)
(***************************************************************************)
EXTENDS Coroutine, WellFoundedInduction, TLAPS

Calls == [ctx : Coroutines \cup {0}, events : SUBSET Events, back : {"main", "run"}]
Contexts == [state : States, wakeTick : Ticks, eventMask : SUBSET Events]
Times == [tempAll : Int, tempBusy : Int, ticksAll : Int, ticksBusy : Int, tick : Int]

\* The points inside the API calls that work on the event words.
CallPoints == {"register", "registerStore", "setLoad", "setStore", "clearLoad", "clearStore"}
\* A coroutine is resumed: from the test of its macro to its return, API calls included.
Resumed ==
    \/ pc \in {"test", "wait", "waitStore", "run", "return"}
    \/ pc \in CallPoints /\ call.back = "run"

\* TypeOK, and what the types of later steps hang on: a registration has found room, the
\* task at hand is registered and its state is the one its macro tests.
PointInv ==
    /\ pc \in {"register", "registerStore"} => Count < TasksMax /\ call.ctx \in Coroutines /\ k = 0
    /\ Resumed => i \in 1 .. Count
    /\ pc = "loop" => i \in 1 .. Count + 1
    /\ pc = "test" => ctx[Running].state \notin {"event", "end"}
    /\ pc \in {"wait", "waitStore"} => ctx[Running].state = "event"
    /\ pc = "waitStore" => k = FirstTask(Running)

TypeInv ==
    /\ TypeOK /\ tasks \in Seq(Coroutines) /\ call \in Calls /\ cpu \in Times
    /\ PointInv

\* The types in the form the steps use.
LEMMA TypeFacts ==
    ASSUME TypeInv
    PROVE  /\ sysTick \in Ticks /\ sysTick \in Nat /\ Ticks \subseteq Nat
           /\ Count \in Nat /\ Count <= TasksMax /\ TasksMax \in Nat /\ Words = 0 .. TasksMax
           /\ tasks \in Seq(Coroutines) /\ \A w \in 1 .. Count : tasks[w] \in Coroutines
           /\ word \in [Words -> SUBSET Events] /\ owed \in [Words -> SUBSET Events]
           /\ ctx \in [Coroutines -> Contexts]
           /\ call \in Calls /\ call.events \in SUBSET Events /\ call.back \in {"main", "run"}
           /\ cpu \in Times /\ k \in 0 .. Count /\ k \in Words /\ reg \in SUBSET Events
           /\ due \subseteq Coroutines
BY TableAssumption, BoundAssumption DEF TypeInv, TypeOK, Words, Ticks, Count, Contexts, Calls

LEMMA ConstantFacts ==
    /\ 0 \in Words /\ 0 \in Ticks /\ 0 \in 0 .. MaxCalls /\ TasksMax \in Nat /\ MaxCalls \in Nat
    /\ MaxTick \in Nat
    /\ \A m \in Masks : m \in SUBSET Events
    /\ Delays \subseteq Nat
BY TableAssumption, BoundAssumption, CallerAssumption DEF Words, Ticks

LEMMA FreshType == Fresh \in Contexts /\ Fresh.state = "start"
BY ConstantFacts DEF Fresh, Context, Contexts, States

-----------------------------------------------------------------------------
(* The task whose events a context's coroutine waits for.                    *)

\* A set of natural numbers has a least element.
LEMMA Least ==
    ASSUME NEW T \in SUBSET Nat, T # {}
    PROVE  \E x \in T : \A y \in T : x <= y
<1>1. PICK x \in T : \A y \in T : ~ (<<y, x>> \in OpToRel(<, Nat))
  BY NatLessThanWellFounded, WFMin
<1>2. ASSUME NEW y \in T, y < x PROVE FALSE
  <2>1. <<y, x>> \in OpToRel(<, Nat)
    BY <1>2 DEF OpToRel
  <2> QED
    BY <1>1, <2>1
<1> QED
  BY <1>2

\* w is the first of the n entries of table s that holds c.
IsFirst(s, n, w, c) == w \in 1 .. n /\ s[w] = c /\ \A v \in 1 .. w - 1 : s[v] # c

LEMMA OneFirst ==
    ASSUME NEW s, NEW n \in Nat, NEW c, NEW w, NEW v, IsFirst(s, n, w, c), IsFirst(s, n, v, c)
    PROVE  w = v
BY DEF IsFirst

\* More entries behind them do not change which is the first.
LEMMA FirstStays ==
    ASSUME NEW s, NEW r, NEW n \in Nat, NEW c, NEW w, IsFirst(s, n, w, c),
           \A v \in 1 .. n : r[v] = s[v]
    PROVE  IsFirst(r, n + 1, w, c)
BY DEF IsFirst

\* FirstTask is that entry, in this table and in any other.
FirstIn(s, n, c) == CHOOSE w \in 1 .. n : s[w] = c /\ \A v \in 1 .. w - 1 : s[v] # c

LEMMA FirstInIs ==
    ASSUME NEW s, NEW n \in Nat, NEW c, \E w \in 1 .. n : s[w] = c
    PROVE  IsFirst(s, n, FirstIn(s, n, c), c)
<1> DEFINE T == {w \in 1 .. n : s[w] = c}
<1>1. T \in SUBSET Nat /\ T # {}
  OBVIOUS
<1>2. PICK x \in T : \A y \in T : x <= y
  BY <1>1, Least
<1>3. x \in 1 .. n /\ s[x] = c /\ \A v \in 1 .. x - 1 : s[v] # c
  BY <1>2
<1> QED
  BY <1>3 DEF FirstIn, IsFirst

LEMMA FirstTaskIs ==
    ASSUME Count \in Nat, NEW c, c \in Registered
    PROVE  /\ IsFirst(tasks, Count, FirstTask(c), c)
           /\ FirstTask(c) \in 1 .. Count /\ tasks[FirstTask(c)] = c
<1>1. IsFirst(tasks, Count, FirstIn(tasks, Count, c), c)
  BY FirstInIs DEF Registered
<1>2. FirstTask(c) = FirstIn(tasks, Count, c)
  BY DEF FirstTask, FirstIn
<1> QED
  BY <1>1, <1>2 DEF IsFirst

\* A registration leaves the first entries where they are.
LEMMA FirstTaskStays ==
    ASSUME tasks \in Seq(Coroutines), NEW d \in Coroutines, tasks' = Append(tasks, d),
           NEW c, c \in Registered
    PROVE  FirstTask(c)' = FirstTask(c) /\ (c \in Registered)'
<1>1. Count \in Nat /\ Count' = Count + 1 /\ \A w \in 1 .. Count : tasks'[w] = tasks[w]
  BY DEF Count
<1>2. IsFirst(tasks', Count + 1, FirstTask(c), c)
  BY <1>1, FirstTaskIs, FirstStays
<1>3. FirstTask(c) \in 1 .. Count' /\ tasks'[FirstTask(c)] = c
  BY <1>1, <1>2 DEF IsFirst
<1>4. (c \in Registered)'
  BY <1>3 DEF Registered
<1>5. Count' \in Nat
  BY <1>1
<1>6. IsFirst(tasks', Count', FirstTask(c)', c)
  <2>1. FirstTask(c)' = FirstIn(tasks', Count', c)
    BY DEF FirstTask, FirstIn
  <2> QED
    BY <1>3, <1>5, <2>1, FirstInIs
<1> QED
  BY <1>1, <1>2, <1>4, <1>5, <1>6, OneFirst

-----------------------------------------------------------------------------
(* Types.                                                                    *)

LEMMA InitTypes == Init => TypeInv
<1> SUFFICES ASSUME Init PROVE TypeInv
  OBVIOUS
<1> USE ConstantFacts, FreshType DEF Init
<1>1. tasks \in Seq(Coroutines) /\ Count = 0 /\ Registered = {}
  BY DEF Count, Registered
<1>2. word \in [Words -> SUBSET Events] /\ owed \in [Words -> SUBSET Events]
  OBVIOUS
<1>3. ctx \in [Coroutines -> Contexts]
  OBVIOUS
<1>4. call \in Calls /\ cpu \in Times /\ call.events = {}
  BY DEF NoCall, Calls, Times
<1>5. PointInv
  BY DEF PointInv, Resumed, CallPoints
<1>6. TypeOK
  BY <1>1, <1>2, <1>3, <1>4 DEF TypeOK, Points, Contexts
<1> QED
  BY <1>1, <1>4, <1>5, <1>6 DEF TypeInv

\* A call enters the API with arguments of its type.
LEMMA EnterTypes ==
    ASSUME TypeInv, NEW point \in CallPoints, NEW c \in Coroutines \cup {0}, NEW evs \in SUBSET Events,
           Enter(point, c, evs), point # "registerStore",
           point = "register" => c \in Coroutines /\ ~FullTable
    PROVE  TypeInv'
<1> USE TypeFacts, ConstantFacts DEF Enter, kernel
<1>1. call' \in Calls /\ call'.events = evs /\ call'.ctx = c /\ call'.back = pc /\ pc \in {"main", "run"}
  BY DEF CanCall, Calls
<1>2. calls' \in 0 .. MaxCalls
  BY DEF CanCall, TypeInv, TypeOK
<1>3. TypeOK'
  BY <1>1, <1>2 DEF TypeInv, TypeOK, Points, CallPoints, Count, Registered
<1>4. PointInv'
  BY <1>1 DEF TypeInv, PointInv, Resumed, CallPoints, FullTable, Count, Running
<1> QED
  BY <1>1, <1>3, <1>4 DEF TypeInv

LEMMA CallTypes == TypeInv /\ Call => TypeInv'
<1> SUFFICES ASSUME TypeInv, Call PROVE TypeInv'
  OBVIOUS
<1>1. ASSUME NEW c \in Coroutines, Register(c) PROVE TypeInv'
  BY <1>1, EnterTypes DEF Register, CallPoints
<1>2. ASSUME NEW c \in Coroutines, Reset(c) PROVE TypeInv'
  <2>1. ctx' \in [Coroutines -> Contexts] /\ calls' \in 0 .. MaxCalls
    BY <1>2, TypeFacts, FreshType, ConstantFacts DEF Reset, CanCall, TypeInv, TypeOK
  <2>2. TypeOK'
    BY <1>2, <2>1, TypeFacts DEF Reset, TypeInv, TypeOK, Contexts, Count, Registered
  <2>3. PointInv'
    BY <1>2 DEF Reset, CanCall, TypeInv, PointInv, Resumed, Count, Running
  <2> QED
    BY <1>2, <2>2, <2>3 DEF TypeInv, Reset
<1>3. ASSUME NEW e \in Events, SetEvents({e}) PROVE TypeInv'
  BY <1>3, EnterTypes DEF SetEvents, CallPoints
<1>4. ASSUME NEW e \in Events, ClearEvents({e}) PROVE TypeInv'
  BY <1>4, EnterTypes DEF ClearEvents, CallPoints
<1> QED
  BY <1>1, <1>2, <1>3, <1>4 DEF Call

LEMMA LoadTypes ==
    ASSUME TypeInv,
           \/ Load("register", "registerStore")
           \/ Load("setLoad", "setStore")
           \/ Load("clearLoad", "clearStore")
    PROVE  TypeInv'
<1> USE DEF Load, kernel
<1>1. TypeOK'
  BY TypeFacts DEF TypeInv, TypeOK, Points, Count, Registered
<1>2. PointInv'
  BY DEF TypeInv, PointInv, Resumed, CallPoints, Count, Running
<1> QED
  BY <1>1, <1>2 DEF TypeInv

\* A store of a word changes only that; then the call goes to the next word or returns.
LEMMA WordStoreTypes == TypeInv /\ (SetStore \/ ClearStore) => TypeInv'
<1> SUFFICES ASSUME TypeInv, SetStore \/ ClearStore PROVE TypeInv'
  OBVIOUS
<1>0. /\ UNCHANGED <<sysTick, tasks, ctx, i, cpu, calls>> /\ due' \subseteq due
      /\ word' \in [Words -> SUBSET Events] /\ owed' \in [Words -> SUBSET Events]
  BY TypeFacts DEF SetStore, ClearStore, NextWord, Leave
<1>1. /\ pc \in {"setStore", "clearStore"} /\ reg' = {}
      /\ \/ k' \in 0 .. Count /\ pc' \in {"setLoad", "clearLoad"} /\ call' = call
         \/ k' = 0 /\ pc' = call.back /\ call' = NoCall
  BY TypeFacts DEF SetStore, ClearStore, NextWord, Leave
<1>2. call' \in Calls /\ call'.events \subseteq Events /\ k' \in 0 .. Count
  BY <1>1, TypeFacts DEF NoCall, Calls
<1>3. TypeOK'
  BY <1>0, <1>1, <1>2, TypeFacts DEF TypeInv, TypeOK, Points, Contexts, Count, Registered
<1>4. PointInv'
  BY <1>0, <1>1, TypeFacts DEF TypeInv, PointInv, Resumed, CallPoints, Count, Running
<1> QED
  BY <1>0, <1>2, <1>3, <1>4 DEF TypeInv

\* The table after a registration.
LEMMA RegisterAt ==
    ASSUME TypeInv, RegisterStore
    PROVE  /\ pc = "registerStore" /\ k = 0 /\ call.ctx \in Coroutines /\ Count < TasksMax
           /\ tasks' = Append(tasks, call.ctx) /\ tasks' \in Seq(Coroutines) /\ Count' = Count + 1
           /\ \A w \in 1 .. Count : tasks'[w] = tasks[w]
           /\ tasks'[Count + 1] = call.ctx
           /\ Registered' = Registered \cup {call.ctx}
<1>1. /\ pc = "registerStore" /\ k = 0 /\ call.ctx \in Coroutines /\ Count < TasksMax
      /\ tasks' = Append(tasks, call.ctx)
  BY DEF RegisterStore, TypeInv, PointInv
<1>2. /\ tasks' \in Seq(Coroutines) /\ Count' = Count + 1 /\ tasks'[Count + 1] = call.ctx
      /\ \A w \in 1 .. Count : tasks'[w] = tasks[w]
  BY <1>1, TypeFacts DEF Count
<1>3. Registered' = Registered \cup {call.ctx}
  <2>1. Registered' = {tasks'[w] : w \in 1 .. Count + 1}
    BY <1>2 DEF Registered
  <2>2. ASSUME NEW w \in 1 .. Count PROVE tasks[w] \in Registered'
    <3>1. w \in 1 .. Count + 1 /\ tasks'[w] = tasks[w]
      BY <1>2, TypeFacts
    <3> QED
      BY <2>1, <3>1
  <2>3. call.ctx \in Registered'
    BY <1>2, <2>1, TypeFacts
  <2>4. ASSUME NEW w \in 1 .. Count + 1 PROVE tasks'[w] \in Registered \cup {call.ctx}
    <3>1. CASE w \in 1 .. Count
      BY <1>2, <3>1 DEF Registered
    <3>2. CASE w = Count + 1
      BY <1>2, <3>2
    <3> QED
      BY <3>1, <3>2, TypeFacts
  <2> QED
    BY <2>1, <2>2, <2>3, <2>4 DEF Registered
<1> QED
  BY <1>1, <1>2, <1>3

LEMMA RegisterStoreTypes == TypeInv /\ RegisterStore => TypeInv'
<1> SUFFICES ASSUME TypeInv, RegisterStore PROVE TypeInv'
  OBVIOUS
<1>1. /\ pc' = call.back /\ call' = NoCall /\ k' = 0 /\ reg' = {}
      /\ UNCHANGED <<sysTick, i, cpu, due, calls>>
  BY DEF RegisterStore, Leave
<1>2. Count + 1 \in Words
  BY RegisterAt, TypeFacts
<1>3. /\ word' \in [Words -> SUBSET Events] /\ owed' \in [Words -> SUBSET Events]
      /\ ctx' \in [Coroutines -> Contexts]
  BY <1>2, RegisterAt, TypeFacts, FreshType DEF RegisterStore, Inherited, Words
<1>4. call' \in Calls /\ call'.events \subseteq Events
  BY <1>1 DEF NoCall, Calls
<1>5. TypeOK'
  <2>1. Count' \in Nat /\ Count' <= TasksMax /\ Registered' \subseteq Coroutines
    BY RegisterAt, TypeFacts DEF TypeInv, TypeOK
  <2>2. pc' \in Points /\ k' \in 0 .. Count'
    BY <1>1, <2>1, TypeFacts DEF Points
  <2> QED
    BY <1>1, <1>3, <1>4, <2>1, <2>2 DEF TypeInv, TypeOK, Contexts
<1>6. PointInv'
  BY <1>1, RegisterAt, TypeFacts DEF TypeInv, PointInv, Resumed, CallPoints
<1> QED
  BY <1>1, <1>4, <1>5, <1>6, RegisterAt DEF TypeInv

\* The task at hand is registered.
LEMMA RunningIs ==
    ASSUME TypeInv, Resumed \/ (pc = "loop" /\ i <= Count)
    PROVE  i \in 1 .. Count /\ Running \in Coroutines /\ Running \in Registered
BY TypeFacts DEF TypeInv, PointInv, Running, Registered

\* The changes of the CPU accounting keep its type.
LEMMA TimesTypes ==
    ASSUME TypeInv
    PROVE  /\ [cpu EXCEPT !.tempAll = sysTick] \in Times
           /\ [cpu EXCEPT !.tempBusy = sysTick] \in Times
           /\ [cpu EXCEPT !.ticksBusy = @ + sysTick - cpu.tempBusy, !.tempBusy = 0] \in Times
           /\ [cpu EXCEPT !.ticksAll = cpu.ticksAll + sysTick - cpu.tempAll, !.tempAll = 0] \in Times
           /\ [cpu EXCEPT !.tick = @ + 1] \in Times
           /\ [tempAll |-> 0, tempBusy |-> 0, ticksAll |-> 1, ticksBusy |-> 0, tick |-> 0] \in Times
<1>0. cpu \in Times /\ sysTick \in Int
  BY TypeFacts
<1>1. [cpu EXCEPT !.tempAll = sysTick] \in Times /\ [cpu EXCEPT !.tempBusy = sysTick] \in Times
  BY <1>0 DEF Times
<1>2. [cpu EXCEPT !.tick = @ + 1] \in Times
  BY <1>0 DEF Times
<1>3. ASSUME NEW x \in Int PROVE [cpu EXCEPT !.ticksBusy = x, !.tempBusy = 0] \in Times
  <2> DEFINE c == [cpu EXCEPT !.ticksBusy = x]
  <2>1. c \in Times
    BY <1>0, <1>3 DEF Times
  <2>2. [cpu EXCEPT !.ticksBusy = x, !.tempBusy = 0] = [c EXCEPT !.tempBusy = 0]
    BY <1>0
  <2> HIDE DEF c
  <2>3. [c EXCEPT !.tempBusy = 0] \in Times
    BY <2>1 DEF Times
  <2> QED
    BY <2>2, <2>3
<1>4. ASSUME NEW x \in Int PROVE [cpu EXCEPT !.ticksAll = x, !.tempAll = 0] \in Times
  <2> DEFINE c == [cpu EXCEPT !.ticksAll = x]
  <2>1. c \in Times
    BY <1>0, <1>4 DEF Times
  <2>2. [cpu EXCEPT !.ticksAll = x, !.tempAll = 0] = [c EXCEPT !.tempAll = 0]
    BY <1>0
  <2> HIDE DEF c
  <2>3. [c EXCEPT !.tempAll = 0] \in Times
    BY <2>1 DEF Times
  <2> QED
    BY <2>2, <2>3
<1>5. cpu.ticksBusy + sysTick - cpu.tempBusy \in Int /\ cpu.ticksAll + sysTick - cpu.tempAll \in Int
  BY <1>0 DEF Times
<1>6. [tempAll |-> 0, tempBusy |-> 0, ticksAll |-> 1, ticksBusy |-> 0, tick |-> 0] \in Times
  BY <1>0 DEF Times
<1> QED
  BY <1>1, <1>2, <1>3, <1>4, <1>5, <1>6

LEMMA LoopTypes == TypeInv /\ (LoopBegin \/ PassOver \/ Resume \/ Returned \/ LoopEnd) => TypeInv'
<1> SUFFICES ASSUME TypeInv, LoopBegin \/ PassOver \/ Resume \/ Returned \/ LoopEnd PROVE TypeInv'
  OBVIOUS
<1> USE TypeFacts DEF kernel, api
<1>0. \A c : UNCHANGED <<tasks, ctx>> => Count' = Count /\ Registered' = Registered
  BY DEF Count, Registered
<1>1. CASE LoopBegin
  <2>1. cpu' \in Times /\ due' \subseteq Coroutines
    BY <1>1, TimesTypes DEF LoopBegin, TypeInv, TypeOK
  <2>2. TypeOK'
    BY <1>0, <1>1, <2>1 DEF LoopBegin, TypeInv, TypeOK, Points, Contexts
  <2>3. PointInv'
    BY <1>0, <1>1 DEF LoopBegin, PointInv, Resumed, CallPoints
  <2> QED
    BY <1>1, <2>1, <2>2, <2>3 DEF LoopBegin, TypeInv
<1>2. CASE PassOver
  <2>1. TypeOK'
    BY <1>0, <1>2 DEF PassOver, TypeInv, TypeOK, Points, Contexts
  <2>2. PointInv'
    BY <1>0, <1>2 DEF PassOver, TypeInv, PointInv, Resumed, CallPoints
  <2> QED
    BY <1>2, <2>1, <2>2 DEF PassOver, TypeInv
<1>3. CASE Resume
  <2>1. cpu' \in Times
    BY <1>3, TimesTypes DEF Resume, BusyFrom
  <2>2. TypeOK'
    BY <1>0, <1>3 DEF Resume, TypeInv, TypeOK, Points, Contexts
  <2>3. PointInv'
    BY <1>0, <1>3 DEF Resume, Finished, TypeInv, PointInv, Resumed, CallPoints, Running
  <2> QED
    BY <1>3, <2>1, <2>2, <2>3 DEF Resume, TypeInv
<1>4. CASE Returned
  <2>1. cpu' \in Times
    BY <1>4, TimesTypes DEF Returned
  <2>2. pc = "return" /\ i \in 1 .. Count /\ i' = i + 1
    BY <1>4, RunningIs DEF Returned, Resumed
  <2>3. TypeOK'
    BY <1>0, <1>4, <2>2 DEF Returned, TypeInv, TypeOK, Points, Contexts
  <2>4. PointInv'
    BY <1>0, <1>4, <2>2 DEF Returned, PointInv, Resumed, CallPoints
  <2> QED
    BY <1>4, <2>1, <2>3, <2>4 DEF Returned, TypeInv
<1>5. CASE LoopEnd
  <2>1. cpu' \in Times
    BY <1>5, TimesTypes DEF LoopEnd
  <2>2. TypeOK'
    BY <1>0, <1>5, ConstantFacts DEF LoopEnd, TypeInv, TypeOK, Points, Contexts
  <2>3. PointInv'
    BY <1>0, <1>5 DEF LoopEnd, PointInv, Resumed, CallPoints
  <2> QED
    BY <1>5, <2>1, <2>2, <2>3 DEF LoopEnd, TypeInv
<1> QED
  BY <1>1, <1>2, <1>3, <1>4, <1>5

LEMMA MacroTypes == TypeInv /\ (Test \/ WaitLoad \/ WaitStore \/ Macro) => TypeInv'
<1> SUFFICES ASSUME TypeInv, Test \/ WaitLoad \/ WaitStore \/ Macro PROVE TypeInv'
  OBVIOUS
<1> USE TypeFacts DEF kernel, api
<1>0. UNCHANGED tasks => Count' = Count /\ Registered' = Registered
  BY DEF Count, Registered
<1>1. CASE Test
  <2>1. pc = "test" /\ pc' \in {"run", "return"} /\ due' \subseteq due
    BY <1>1 DEF Test, GoOn, Return
  <2>2. TypeOK'
    BY <1>0, <1>1, <2>1 DEF Test, TypeInv, TypeOK, Points, Contexts
  <2>3. PointInv'
    BY <1>0, <1>1, <2>1 DEF Test, TypeInv, PointInv, Resumed, CallPoints
  <2> QED
    BY <1>1, <2>2, <2>3 DEF Test, TypeInv
<1>2. CASE WaitLoad
  <2>1. FirstTask(Running) \in 1 .. Count
    BY <1>2, RunningIs, FirstTaskIs DEF WaitLoad, Resumed
  <2>2. k' = FirstTask(Running) /\ k' \in 0 .. Count /\ reg' \subseteq Events
    BY <1>2, <2>1 DEF WaitLoad
  <2>3. TypeOK'
    BY <1>0, <1>2, <2>2 DEF WaitLoad, TypeInv, TypeOK, Points, Contexts
  <2>4. FirstTask(Running)' = FirstTask(Running) /\ ctx' = ctx /\ Running' = Running
    BY <1>2 DEF WaitLoad, FirstTask, Running, Count
  <2>5. PointInv'
    BY <1>0, <1>2, <2>2, <2>4 DEF WaitLoad, TypeInv, PointInv, Resumed, CallPoints
  <2> QED
    BY <1>2, <2>3, <2>5 DEF WaitLoad, TypeInv
<1>3. CASE WaitStore
  <2>1. /\ word' \in [Words -> SUBSET Events] /\ owed' \in [Words -> SUBSET Events]
        /\ pc = "waitStore" /\ pc' \in {"run", "return"} /\ due' \subseteq due
    BY <1>3 DEF WaitStore, Consumed
  <2>2. TypeOK'
    BY <1>0, <1>3, <2>1 DEF WaitStore, TypeInv, TypeOK, Points, Contexts
  <2>3. PointInv'
    BY <1>0, <1>3, <2>1 DEF WaitStore, TypeInv, PointInv, Resumed, CallPoints
  <2> QED
    BY <1>3, <2>2, <2>3 DEF WaitStore, TypeInv
<1>4. ASSUME NEW x \in Contexts, Reach(x) PROVE TypeInv'
  <2>1. ctx' \in [Coroutines -> Contexts]
    BY <1>4 DEF Reach
  <2>2. TypeOK'
    BY <1>0, <1>4, <2>1 DEF Reach, TypeInv, TypeOK, Points, Contexts
  <2>3. PointInv'
    BY <1>0, <1>4 DEF Reach, TypeInv, PointInv, Resumed, CallPoints
  <2> QED
    BY <1>4, <2>2, <2>3 DEF Reach, TypeInv
<1>5. CASE Macro
  <2>1. ASSUME NEW st \in States, NEW wt \in Ticks, NEW evs \in SUBSET Events
        PROVE  Context(st, wt, evs) \in Contexts
    BY DEF Context, Contexts
  <2>2. {"yield", "sleep", "event", "until", "timeout", "end"} \subseteq States /\ {} \in SUBSET Events
    BY DEF States
  <2>3. ASSUME NEW d \in Delays, sysTick + d <= MaxTick PROVE sysTick + d \in Ticks
    BY <2>3, ConstantFacts DEF Ticks
  <2> QED
    BY <1>4, <1>5, <2>1, <2>2, <2>3, ConstantFacts
       DEF Macro, Yield, Sleep, WaitEvent, WaitUntil, WaitTimeout, End
<1> QED
  BY <1>1, <1>2, <1>3, <1>5

LEMMA InterruptTypes == TypeInv /\ Interrupt => TypeInv'
<1> SUFFICES ASSUME TypeInv, Interrupt PROVE TypeInv'
  OBVIOUS
<1> USE TypeFacts DEF kernel, api
<1>0. UNCHANGED tasks => Count' = Count /\ Registered' = Registered
  BY DEF Count, Registered
<1>1. UNCHANGED <<tasks, ctx, pc, i, k, call>> => PointInv'
  BY DEF TypeInv, PointInv, Resumed, CallPoints, Count, Running, FirstTask
<1>2. CASE Tick
  <2>1. sysTick' \in Ticks /\ cpu' \in Times
    BY <1>2, ConstantFacts, TimesTypes DEF Tick, Ticks
  <2>2. TypeOK'
    BY <1>0, <1>2, <2>1 DEF Tick, TypeInv, TypeOK, Points, Contexts
  <2> QED
    BY <1>1, <1>2, <2>1, <2>2 DEF Tick, TypeInv
<1>3. ASSUME NEW e \in Events, InterruptSets({e}) PROVE TypeInv'
  <2>1. word' \in [Words -> SUBSET Events] /\ owed' \in [Words -> SUBSET Events]
    BY <1>3 DEF InterruptSets
  <2>2. TypeOK'
    BY <1>0, <1>3, <2>1 DEF InterruptSets, TypeInv, TypeOK, Points, Contexts
  <2> QED
    BY <1>1, <1>3, <2>2 DEF InterruptSets, TypeInv
<1> QED
  BY <1>2, <1>3 DEF Interrupt

LEMMA NextTypes == TypeInv /\ [Next]_vars => TypeInv'
<1>1. TypeInv /\ UNCHANGED vars => TypeInv'
  BY DEF TypeInv, TypeOK, PointInv, Resumed, Count, Registered, Running, FirstTask, vars, kernel, api
<1>2. TypeInv /\ (RegisterLoad \/ SetLoad \/ ClearLoad) => TypeInv'
  BY LoadTypes DEF RegisterLoad, SetLoad, ClearLoad
<1> QED
  BY <1>1, <1>2, CallTypes, WordStoreTypes, RegisterStoreTypes, LoopTypes, MacroTypes, InterruptTypes
     DEF Next, Main

LEMMA TypesHold == Spec => []TypeInv
BY InitTypes, NextTypes, PTL DEF Spec

\* Whatever main(), the coroutines and the interrupts do, every variable keeps its type: the
\* task table never overflows, and the loop resumes only registered tasks (llos.c:67, 267-275).
THEOREM CoroutineTypes == Spec => []TypeOK
<1>1. TypeInv => TypeOK
  BY DEF TypeInv
<1> QED
  BY <1>1, TypesHold, PTL

-----------------------------------------------------------------------------
(* The phases of the main program: between two passes, in the loop between two *)
(* tasks, and while a task is resumed.  API calls stay within their phase.     *)

SamePhase == (Resumed' <=> Resumed) /\ (pc' = "loop" <=> pc = "loop")

LEMMA CallPhase ==
    TypeInv /\ (Call \/ RegisterLoad \/ RegisterStore \/ SetLoad \/ SetStore \/ ClearLoad \/ ClearStore)
        => /\ SamePhase /\ pc # "loop" /\ pc' # "loop"
           /\ pc \notin {"test", "wait", "waitStore"} /\ pc' \notin {"test", "wait", "waitStore"}
           /\ UNCHANGED <<sysTick, i, cpu>>
<1> USE DEF SamePhase, Resumed, CallPoints
<1>1. ASSUME NEW point \in CallPoints, NEW c, NEW evs, Enter(point, c, evs)
      PROVE  /\ SamePhase /\ pc \in {"main", "run"} /\ pc' \in CallPoints
             /\ UNCHANGED <<sysTick, i, cpu>>
  BY <1>1 DEF Enter, CanCall
<1>2. Call => /\ SamePhase /\ pc \in {"main", "run"} /\ (pc' \in CallPoints \/ pc' = pc)
              /\ UNCHANGED <<sysTick, i, cpu>>
  BY <1>1 DEF Call, Register, SetEvents, ClearEvents, Reset, CanCall
<1>3. RegisterLoad \/ SetLoad \/ ClearLoad =>
          SamePhase /\ pc \in CallPoints /\ pc' \in CallPoints /\ UNCHANGED <<sysTick, i, cpu>>
  BY DEF RegisterLoad, SetLoad, ClearLoad, Load
<1>4. TypeInv /\ (RegisterStore \/ SetStore \/ ClearStore) =>
          /\ SamePhase /\ pc \in CallPoints /\ pc' \in CallPoints \cup {"main", "run"}
          /\ UNCHANGED <<sysTick, i, cpu>>
  BY TypeFacts DEF RegisterStore, SetStore, ClearStore, NextWord, Leave
<1> QED
  BY <1>2, <1>3, <1>4

\* While the time of a task is counted, the time of the pass is ahead of all tasks' time.
CpuInv ==
    /\ BusyWithinAll
    /\ Resumed => cpu.ticksBusy - cpu.tempBusy < cpu.ticksAll - cpu.tempAll
    /\ ~Resumed /\ pc # "loop" => cpu.ticksBusy < cpu.ticksAll

LEMMA CpuStep == TypeInv /\ CpuInv /\ [Next]_vars => CpuInv'
<1> SUFFICES ASSUME TypeInv, CpuInv, [Next]_vars PROVE CpuInv'
  OBVIOUS
<1> USE DEF CpuInv, BusyWithinAll
<1>0. /\ cpu \in Times /\ sysTick \in Nat
      /\ cpu.ticksBusy \in Int /\ cpu.ticksAll \in Int /\ cpu.tempBusy \in Int /\ cpu.tempAll \in Int
  BY TypeFacts DEF Times
<1>1. ASSUME SamePhase, UNCHANGED <<sysTick, cpu>> PROVE CpuInv'
  BY <1>1 DEF SamePhase
<1>2. CASE Call \/ RegisterLoad \/ RegisterStore \/ SetLoad \/ SetStore \/ ClearLoad \/ ClearStore
  BY <1>1, <1>2, CallPhase
<1>3. CASE LoopBegin
  <2>1. /\ pc' = "loop" /\ ~Resumed /\ ~Resumed' /\ pc # "loop" /\ sysTick' = sysTick
        /\ cpu'.tempAll = sysTick /\ cpu'.ticksBusy = cpu.ticksBusy /\ cpu'.ticksAll = cpu.ticksAll
    BY <1>0, <1>3 DEF LoopBegin, Resumed, CallPoints, Times
  <2> QED
    BY <1>0, <2>1
<1>4. CASE PassOver
  BY <1>1, <1>4 DEF PassOver, SamePhase, Resumed, CallPoints
<1>5. CASE Resume
  <2>1. /\ pc = "loop" /\ pc' \in {"wait", "test"} /\ Resumed'
        /\ cpu'.tempBusy = sysTick /\ cpu'.ticksBusy = cpu.ticksBusy
        /\ cpu'.ticksAll = cpu.ticksAll /\ cpu'.tempAll = cpu.tempAll
    BY <1>0, <1>5 DEF Resume, BusyFrom, Resumed, Times
  <2> QED
    BY <1>0, <2>1
<1>6. CASE Test \/ WaitLoad \/ WaitStore \/ Macro
  BY <1>1, <1>6 DEF Test, WaitLoad, WaitStore, Macro, Yield, Sleep, WaitEvent, WaitUntil, WaitTimeout,
                    End, Reach, GoOn, Return, SamePhase, Resumed, CallPoints, api
<1>7. CASE Returned
  <2>1. /\ Resumed /\ ~Resumed' /\ pc' = "loop" /\ sysTick' = sysTick
        /\ cpu'.ticksBusy = cpu.ticksBusy + sysTick - cpu.tempBusy
        /\ cpu'.ticksAll = cpu.ticksAll /\ cpu'.tempAll = cpu.tempAll
    BY <1>0, <1>7 DEF Returned, Resumed, CallPoints, Times
  <2> QED
    BY <1>0, <2>1
<1>8. CASE LoopEnd
  <2>1. /\ pc = "loop" /\ pc' = "main" /\ ~Resumed' /\ sysTick' = sysTick
        /\ \/ cpu'.ticksBusy = 0 /\ cpu'.ticksAll = 1
           \/ /\ cpu'.ticksBusy = cpu.ticksBusy
              /\ cpu'.ticksAll = cpu.ticksAll + sysTick - cpu.tempAll
    BY <1>0, <1>8 DEF LoopEnd, Resumed, CallPoints, Times
  <2> QED
    BY <1>0, <2>1
<1>9. CASE Tick
  <2>1. /\ SamePhase /\ pc' = pc /\ sysTick' = sysTick + 1
        /\ cpu'.ticksBusy = cpu.ticksBusy /\ cpu'.ticksAll = cpu.ticksAll
        /\ cpu'.tempBusy = cpu.tempBusy /\ cpu'.tempAll = cpu.tempAll
    BY <1>0, <1>9 DEF Tick, SamePhase, Resumed, api, Times
  <2> QED
    BY <1>0, <2>1 DEF SamePhase
<1>10. ASSUME NEW e \in Events, InterruptSets({e}) PROVE CpuInv'
  BY <1>1, <1>10 DEF InterruptSets, SamePhase, Resumed, api
<1>11. CASE UNCHANGED vars
  BY <1>1, <1>11 DEF vars, api, SamePhase, Resumed
<1> QED
  BY <1>2, <1>3, <1>4, <1>5, <1>6, <1>7, <1>8, <1>9, <1>10, <1>11 DEF Next, Main, Interrupt

\* The coroutines are never charged more time than the passes took, however long interrupts
\* and callbacks delay the loop and wherever the usage is evaluated (llos.c:233, 267-286).
THEOREM ChargedTimeIsReal == Spec => []BusyWithinAll
<1>1. Init => CpuInv
  BY DEF Init, CpuInv, BusyWithinAll, Resumed, CallPoints
<1>2. CpuInv => BusyWithinAll
  BY DEF CpuInv
<1> QED
  BY <1>1, <1>2, CpuStep, TypesHold, PTL DEF Spec

-----------------------------------------------------------------------------
(* The event words, when no interrupt sets events between the load and the   *)
(* store of one of them.                                                     *)

StorePoints == {"registerStore", "setStore", "clearStore", "waitStore"}
StoresAreQuiet == StorePoints \subseteq QuietAt

\* What was loaded from a word is what is stored in it.
ExactInv == EventsExact /\ (pc \in StorePoints => reg = word[k])

LEMMA ExactStep == ASSUME StoresAreQuiet PROVE TypeInv /\ ExactInv /\ [Next]_vars => ExactInv'
<1> SUFFICES ASSUME TypeInv, ExactInv, [Next]_vars PROVE ExactInv'
  OBVIOUS
<1> USE TypeFacts DEF ExactInv, EventsExact
<1>0. UNCHANGED tasks => Count' = Count
  BY DEF Count
<1>1. ASSUME UNCHANGED <<tasks, word, owed>>, pc' \in StorePoints => pc' = pc /\ UNCHANGED <<k, reg>>
      PROVE  ExactInv'
  BY <1>0, <1>1
<1>2. CASE Call
  <2>1. ASSUME NEW c, NEW evs, NEW point, point \notin StorePoints, Enter(point, c, evs) PROVE ExactInv'
    BY <1>1, <2>1 DEF Enter, kernel
  <2>2. ASSUME NEW c, Reset(c) PROVE ExactInv'
    BY <1>1, <2>2 DEF Reset
  <2>3. {"register", "setLoad", "clearLoad"} \cap StorePoints = {}
    BY DEF StorePoints
  <2> QED
    BY <1>2, <2>1, <2>2, <2>3 DEF Call, Register, SetEvents, ClearEvents
<1>3. CASE RegisterLoad \/ SetLoad \/ ClearLoad
  <2>1. UNCHANGED <<tasks, word, owed, k>> /\ reg' = word[k]
    BY <1>3 DEF RegisterLoad, SetLoad, ClearLoad, Load, kernel
  <2> QED
    BY <1>0, <2>1
<1>4. CASE RegisterStore
  <2>1. /\ pc' \notin StorePoints /\ pc \in StorePoints
        /\ word' = [word EXCEPT ![Count + 1] = reg] /\ owed' = [owed EXCEPT ![Count + 1] = owed[0]]
    BY <1>4 DEF RegisterStore, Leave, StorePoints, Inherited
  <2>2. reg = owed[0]
    BY <1>4, <2>1, RegisterAt
  <2>3. Count + 1 \in Words /\ Count' = Count + 1
    BY <1>4, RegisterAt
  <2>4. ASSUME NEW w \in 0 .. Count + 1 PROVE word'[w] = owed'[w]
    <3>1. CASE w = Count + 1
      BY <2>1, <2>2, <2>3, <3>1
    <3>2. CASE w \in 0 .. Count
      BY <2>1, <2>3, <3>2
    <3> QED
      BY <3>1, <3>2
  <2> QED
    BY <2>1, <2>3, <2>4
<1>5. CASE SetStore
  <2>1. /\ word' = [word EXCEPT ![k] = reg \cup call.events]
        /\ owed' = [owed EXCEPT ![k] = owed[k] \cup call.events]
        /\ pc \in StorePoints /\ pc' \notin StorePoints /\ UNCHANGED tasks
    BY <1>5 DEF SetStore, NextWord, Leave, StorePoints
  <2>2. reg = owed[k] /\ reg = word[k]
    BY <2>1
  <2>3. \A w \in 0 .. Count : word'[w] = owed'[w]
    BY <2>1, <2>2
  <2> QED
    BY <1>0, <2>1, <2>3
<1>6. CASE ClearStore
  <2>1. /\ word' = [word EXCEPT ![k] = reg \ call.events]
        /\ owed' = [owed EXCEPT ![k] = owed[k] \ call.events]
        /\ pc \in StorePoints /\ pc' \notin StorePoints /\ UNCHANGED tasks
    BY <1>6 DEF ClearStore, NextWord, Leave, StorePoints
  <2>2. reg = owed[k] /\ reg = word[k]
    BY <2>1
  <2>3. \A w \in 0 .. Count : word'[w] = owed'[w]
    BY <2>1, <2>2
  <2> QED
    BY <1>0, <2>1, <2>3
<1>7. CASE LoopBegin \/ PassOver \/ Resume \/ Test \/ Returned \/ LoopEnd
  <2>1. UNCHANGED <<tasks, word, owed>> /\ pc' \notin StorePoints
    BY <1>7 DEF LoopBegin, PassOver, Resume, Test, GoOn, Return, Returned, LoopEnd, kernel, StorePoints
  <2> QED
    BY <1>1, <2>1
<1>8. CASE WaitLoad
  <2>1. UNCHANGED <<tasks, word, owed>> /\ reg' = word[k']
    BY <1>8 DEF WaitLoad, kernel
  <2> QED
    BY <1>0, <2>1
<1>9. CASE WaitStore
  <2> DEFINE reported == reg \cap ctx[Running].eventMask
  <2>1. /\ word' = [word EXCEPT ![k] = reg \ reported] /\ owed' = [owed EXCEPT ![k] = owed[k] \ reported]
        /\ pc \in StorePoints /\ pc' \notin StorePoints /\ UNCHANGED tasks
    BY <1>9 DEF WaitStore, Consumed, StorePoints
  <2> HIDE DEF reported
  <2>2. reg = owed[k] /\ reg = word[k]
    BY <2>1
  <2> QED
    BY <1>0, <2>1, <2>2
<1>10. CASE Macro
  <2>1. UNCHANGED <<tasks, word, owed>> /\ pc' \notin StorePoints
    BY <1>10 DEF Macro, Yield, Sleep, WaitEvent, WaitUntil, WaitTimeout, End, Reach, StorePoints
  <2> QED
    BY <1>1, <2>1
<1>11. CASE Tick
  BY <1>1, <1>11 DEF Tick, kernel, api
<1>12. ASSUME NEW e \in Events, InterruptSets({e}) PROVE ExactInv'
  <2>1. pc' = pc /\ pc \notin StorePoints /\ UNCHANGED tasks
    BY <1>12, StoresAreQuiet DEF InterruptSets, StoresAreQuiet
  <2>2. \A w \in 0 .. Count : word'[w] = word[w] \cup {e} /\ owed'[w] = owed[w] \cup {e}
    BY <1>12 DEF InterruptSets
  <2> QED
    BY <1>0, <2>1, <2>2
<1>13. CASE UNCHANGED vars
  BY <1>1, <1>13 DEF vars, kernel, api
<1> QED
  BY <1>2, <1>3, <1>4, <1>5, <1>6, <1>7, <1>8, <1>9, <1>10, <1>11, <1>12, <1>13
     DEF Next, Main, Interrupt

LEMMA ExactHolds == ASSUME StoresAreQuiet PROVE Spec => []ExactInv
<1>1. Init => ExactInv
  <2> SUFFICES ASSUME Init PROVE ExactInv
    OBVIOUS
  <2>1. \A w \in Words : word[w] = owed[w]
    BY DEF Init
  <2>2. Count = 0 /\ 0 \in Words /\ pc \notin StorePoints
    BY ConstantFacts DEF Init, Count, StorePoints
  <2> QED
    BY <2>1, <2>2 DEF ExactInv, EventsExact
<1> QED
  BY <1>1, ExactStep, TypesHold, PTL DEF Spec

\* No wake-up is lost and none is made up: if no interrupt sets events between the load and the
\* store of an event word, each word holds the events that were set and since then neither
\* cleared nor reported, through every registration, SetEvents, ClearEvents and WaitEvent
\* (llos.c:62-139).
THEOREM NoEventIsLost == ASSUME StoresAreQuiet PROVE Spec => []EventsExact
<1>1. ExactInv => EventsExact
  BY DEF ExactInv
<1> QED
  BY <1>1, ExactHolds, PTL

-----------------------------------------------------------------------------
(* The pass.                                                                 *)

\* The loop still comes to context c.
Ahead(c) == \E w \in i .. Count : tasks[w] = c
Tested == pc \in {"test", "wait", "waitStore"}

\* Who was ready when the pass began and has not been resumed is still ready and still ahead;
\* the task at hand is so until its test is made, and nobody is between two passes.
DueInv ==
    /\ \A c \in due : Ready(c)
    /\ Resumed \/ pc = "loop" => \A c \in due : Ahead(c)
    /\ Resumed /\ ~Tested => Running \notin due
    /\ Resumed \/ pc = "loop" \/ due = {}

\* A reason to go on does not go away while nobody clears or takes events.
LEMMA ReadyStays ==
    ASSUME TypeInv, NEW c \in Coroutines, Ready(c), UNCHANGED tasks, ctx'[c] = ctx[c],
           sysTick' \in Nat, sysTick' >= sysTick, owed[FirstTask(c)] \subseteq owed'[FirstTask(c)]
    PROVE  Ready(c)'
<1>1. FirstTask(c)' = FirstTask(c)
  BY DEF FirstTask, Count
<1>2. CASE ctx[c].state \in {"start", "yield"}
  BY <1>2 DEF Ready
<1>3. CASE ctx[c].state \in {"sleep", "timeout"} /\ sysTick >= ctx[c].wakeTick
  <2>1. ctx[c].wakeTick \in Nat /\ sysTick \in Nat
    BY TypeFacts DEF Contexts
  <2> QED
    BY <1>3, <2>1 DEF Ready
<1>4. CASE EventOwed(c)
  BY <1>1, <1>4 DEF EventOwed, Ready
<1> QED
  BY <1>2, <1>3, <1>4 DEF Ready

\* A context that is due is in the table.
LEMMA DueIs ==
    ASSUME TypeInv, DueInv, NEW c \in due
    PROVE  /\ c \in Coroutines /\ Ready(c) /\ Ahead(c) /\ c \in Registered
           /\ Resumed \/ pc = "loop"
           /\ FirstTask(c) \in 1 .. Count /\ FirstTask(c) \in Words /\ tasks[FirstTask(c)] = c
<1>1. c \in Coroutines /\ Ready(c) /\ Ahead(c) /\ (Resumed \/ pc = "loop")
  BY TypeFacts DEF DueInv
<1>2. i \in Nat /\ i >= 1
  BY <1>1, TypeFacts DEF TypeInv, PointInv
<1>3. c \in Registered
  BY <1>1, <1>2, TypeFacts DEF Ahead, Registered
<1> QED
  BY <1>1, <1>3, FirstTaskIs, TypeFacts

\* What is left to do for a step within a phase that leaves the table alone.
LEMMA DueFrame ==
    ASSUME DueInv, SamePhase, UNCHANGED <<tasks, i>>, due' \subseteq due, \A c \in due' : Ready(c)',
           Resumed /\ ~Tested' => Running \notin due'
    PROVE  DueInv'
BY DEF DueInv, SamePhase, Ahead, Count, Running

\* The next task: the one at hand is due no more.
LEMMA DueMoves ==
    ASSUME TypeInv, DueInv, i' = i + 1, UNCHANGED <<tasks, due>>, Running \notin due, pc' = "loop",
           \A c \in due : Ready(c)'
    PROVE  DueInv'
<1>1. ASSUME NEW c \in due PROVE Ahead(c)'
  <2>1. /\ Ahead(c) /\ i \in Nat /\ Count \in Nat /\ Count' = Count
    BY DueIs, TypeFacts DEF TypeInv, TypeOK, Count
  <2>2. PICK w \in i .. Count : tasks[w] = c
    BY <2>1 DEF Ahead
  <2>3. w # i
    BY <2>2 DEF Running
  <2>4. w \in i + 1 .. Count
    BY <2>1, <2>2, <2>3
  <2> QED
    BY <2>1, <2>2, <2>4 DEF Ahead
<1>2. ~Resumed'
  BY DEF Resumed, CallPoints
<1> QED
  BY <1>1, <1>2 DEF DueInv

LEMMA DueCall ==
    ASSUME TypeInv, DueInv,
           Call \/ RegisterLoad \/ RegisterStore \/ SetLoad \/ SetStore \/ ClearLoad \/ ClearStore
    PROVE  DueInv'
<1>0. SamePhase /\ pc # "loop" /\ pc' # "loop" /\ ~Tested /\ ~Tested' /\ UNCHANGED <<sysTick, i, cpu>>
  BY CallPhase DEF Tested
<1>1. Running \notin due \/ ~Resumed
  BY <1>0 DEF DueInv
<1> USE TypeFacts
<1>2. ASSUME UNCHANGED <<tasks, ctx, owed, due>> PROVE DueInv'
  BY <1>0, <1>1, <1>2, DueFrame, DueIs, ReadyStays
<1>3. CASE Call
  <2>1. ASSUME NEW c \in Coroutines, Reset(c) PROVE DueInv'
    <3>1. UNCHANGED <<tasks, owed, due>> /\ ctx' = [ctx EXCEPT ![c] = Fresh]
      BY <2>1 DEF Reset
    <3>2. ASSUME NEW d \in due PROVE Ready(d)'
      <4>1. CASE d = c
        BY <3>1, <4>1, FreshType DEF Ready
      <4>2. CASE d # c
        <5>1. ctx'[d] = ctx[d]
          BY <3>1, <4>2, DueIs
        <5> QED
          BY <1>0, <3>1, <5>1, DueIs, ReadyStays
      <4> QED
        BY <4>1, <4>2
    <3> QED
      BY <1>0, <1>1, <3>1, <3>2, DueFrame
  <2>2. ASSUME NEW point, NEW c, NEW evs, Enter(point, c, evs) PROVE DueInv'
    BY <1>2, <2>2 DEF Enter, kernel
  <2> QED
    BY <1>3, <2>1, <2>2 DEF Call, Register, SetEvents, ClearEvents
<1>4. CASE RegisterLoad \/ SetLoad \/ ClearLoad
  BY <1>2, <1>4 DEF RegisterLoad, SetLoad, ClearLoad, Load, kernel
<1>5. CASE RegisterStore
  <2>1. /\ ctx' = [ctx EXCEPT ![call.ctx] = Fresh] /\ UNCHANGED due
        /\ owed' = [owed EXCEPT ![Count + 1] = owed[0]]
    BY <1>5 DEF RegisterStore
  <2>2. /\ call.ctx \in Coroutines /\ tasks' = Append(tasks, call.ctx) /\ Count' = Count + 1
        /\ \A w \in 1 .. Count : tasks'[w] = tasks[w]
    BY <1>5, RegisterAt
  <2>3. ASSUME NEW d \in due PROVE Ready(d)' /\ Ahead(d)'
    <3>1. Ahead(d)'
      <4>1. PICK w \in i .. Count : tasks[w] = d
        BY DueIs DEF Ahead
      <4>2. i \in 1 .. Count
        BY <1>0, DueIs DEF TypeInv, PointInv
      <4>3. w \in 1 .. Count /\ w \in i .. Count + 1
        BY <4>1, <4>2
      <4>4. tasks'[w] = d
        BY <2>2, <4>1, <4>3
      <4> QED
        BY <1>0, <2>2, <4>3, <4>4 DEF Ahead
    <3>2. CASE d = call.ctx
      <4>1. ctx'[d] = Fresh
        BY <2>1, <2>2, <3>2
      <4> QED
        BY <3>1, <4>1, FreshType DEF Ready
    <3>3. CASE d # call.ctx
      <4>1. ctx'[d] = ctx[d]
        BY <2>1, <3>3, DueIs
      <4>2. FirstTask(d)' = FirstTask(d)
        BY <2>2, DueIs, FirstTaskStays
      <4>3. owed'[FirstTask(d)] = owed[FirstTask(d)]
        BY <2>1, DueIs
      <4>4. EventOwed(d) => EventOwed(d)'
        BY <4>1, <4>2, <4>3 DEF EventOwed
      <4> QED
        BY <1>0, <3>1, <4>1, <4>4, DueIs DEF Ready
    <3> QED
      BY <3>2, <3>3
  <2>4. Resumed => Running' = Running
    BY <1>0, <2>2 DEF TypeInv, PointInv, Running
  <2> QED
    BY <1>0, <1>1, <2>1, <2>3, <2>4 DEF DueInv, SamePhase
<1>6. CASE SetStore
  <2>1. UNCHANGED <<tasks, ctx, due>> /\ owed' = [owed EXCEPT ![k] = owed[k] \cup call.events]
    BY <1>6 DEF SetStore
  <2>2. \A w \in Words : owed[w] \subseteq owed'[w]
    BY <2>1
  <2>3. \A c \in due : Ready(c)'
    BY <1>0, <2>1, <2>2, DueIs, ReadyStays
  <2> QED
    BY <1>0, <1>1, <2>1, <2>3, DueFrame
<1>7. CASE ClearStore
  <2>1. UNCHANGED tasks /\ due' \subseteq due /\ \A c \in due' : Ready(c)'
    BY <1>7 DEF ClearStore
  <2> QED
    BY <1>0, <1>1, <2>1, DueFrame
<1> QED
  BY <1>3, <1>4, <1>5, <1>6, <1>7

LEMMA DueLoop ==
    ASSUME TypeInv, DueInv, LoopBegin \/ PassOver \/ Resume \/ Returned \/ LoopEnd
    PROVE  DueInv'
<1> USE TypeFacts DEF kernel, api
<1>1. ASSUME NEW c \in Coroutines, Ready(c), UNCHANGED <<tasks, ctx, owed, sysTick>> PROVE Ready(c)'
  BY <1>1, ReadyStays
<1>2. CASE LoopBegin
  <2>1. /\ UNCHANGED <<sysTick, tasks, ctx, owed>> /\ pc' = "loop" /\ i' = 1
        /\ due' = {c \in Registered : Ready(c)}
    BY <1>2 DEF LoopBegin
  <2>2. ASSUME NEW c \in due' PROVE Ready(c)' /\ Ahead(c)'
    BY <1>1, <2>1 DEF Registered, Ahead, Count
  <2>3. ~Resumed'
    BY <2>1 DEF Resumed, CallPoints
  <2> QED
    BY <2>1, <2>2, <2>3 DEF DueInv
<1>3. CASE PassOver
  <2>1. /\ pc = "loop" /\ pc' = "loop" /\ i' = i + 1 /\ UNCHANGED <<sysTick, tasks, ctx, owed, due>>
        /\ ctx[Running].state = "end"
    BY <1>3 DEF PassOver, Finished
  <2>2. Running \notin due
    BY <2>1, DueIs DEF Ready, EventOwed
  <2> QED
    BY <1>1, <2>1, <2>2, DueIs, DueMoves
<1>4. CASE Resume
  <2>1. /\ pc = "loop" /\ pc' \in {"test", "wait"} /\ UNCHANGED <<sysTick, tasks, ctx, owed, due, i>>
    BY <1>4 DEF Resume
  <2>2. Tested' /\ Resumed'
    BY <2>1 DEF Tested, Resumed
  <2>3. \A c \in due : Ready(c)' /\ Ahead(c)'
    BY <1>1, <2>1, DueIs DEF Ahead, Count
  <2> QED
    BY <2>1, <2>2, <2>3 DEF DueInv
<1>5. CASE Returned
  <2>1. pc = "return" /\ pc' = "loop" /\ i' = i + 1 /\ UNCHANGED <<sysTick, tasks, ctx, owed, due>>
    BY <1>5 DEF Returned
  <2>2. Running \notin due
    BY <2>1 DEF DueInv, Resumed, Tested
  <2> QED
    BY <1>1, <2>1, <2>2, DueIs, DueMoves
<1>6. CASE LoopEnd
  <2>1. pc = "loop" /\ i > Count /\ UNCHANGED due /\ pc' = "main"
    BY <1>6 DEF LoopEnd
  <2>2. i \in Nat
    BY DEF TypeInv, TypeOK
  <2>3. due = {}
    BY <2>1, <2>2, DueIs DEF Ahead
  <2>4. ~Resumed'
    BY <2>1 DEF Resumed, CallPoints
  <2> QED
    BY <2>1, <2>3, <2>4 DEF DueInv
<1> QED
  BY <1>2, <1>3, <1>4, <1>5, <1>6

LEMMA DueMacro ==
    ASSUME TypeInv, ExactInv, DueInv, Test \/ WaitLoad \/ WaitStore \/ Macro
    PROVE  DueInv'
<1> USE TypeFacts DEF kernel, api
<1>0. SamePhase /\ Resumed
  BY DEF Test, WaitLoad, WaitStore, Macro, Yield, Sleep, WaitEvent, WaitUntil, WaitTimeout,
         End, Reach, GoOn, Return, SamePhase, Resumed
<1>1. ASSUME UNCHANGED <<sysTick, tasks, ctx, owed, i>>, due' \subseteq due,
             ~Tested' => Running \notin due'
      PROVE  DueInv'
  BY <1>0, <1>1, DueFrame, DueIs, ReadyStays
<1>2. CASE Test
  <2>1. UNCHANGED <<sysTick, tasks, ctx, owed, i>>
    BY <1>2 DEF Test
  <2>2. CASE due' = due \ {Running}
    BY <1>1, <2>1, <2>2
  <2>3. CASE Return /\ ctx[Running].state = "until"
    BY <1>1, <2>1, <2>3, DueIs DEF Return, Ready, EventOwed
  <2>4. CASE Return /\ ctx[Running].state \in {"sleep", "timeout"} /\ Asleep
    <3>1. Running \in Coroutines /\ ctx[Running].wakeTick \in Nat
      BY <1>0, RunningIs DEF Contexts
    <3>2. Running \notin due
      BY <2>4, <3>1, DueIs DEF Asleep, Ready, EventOwed
    <3> QED
      BY <1>1, <2>1, <2>4, <3>2 DEF Return
  <2> QED
    BY <1>2, <2>2, <2>3, <2>4 DEF Test, GoOn
<1>3. CASE WaitLoad
  BY <1>1, <1>3 DEF WaitLoad, Tested
<1>4. CASE WaitStore
  <2> DEFINE reported == reg \cap ctx[Running].eventMask
  <2>1. /\ pc = "waitStore" /\ UNCHANGED <<sysTick, tasks, ctx, i>>
        /\ owed' = [owed EXCEPT ![k] = owed[k] \ reported]
        /\ due' = IF reported # {} THEN due \ {Running} ELSE due
    BY <1>4 DEF WaitStore
  <2>2. Running \in Coroutines /\ Running \in Registered
    BY <1>0, RunningIs
  <2>3. k = FirstTask(Running) /\ ctx[Running].state = "event" /\ tasks[k] = Running /\ reg = owed[k]
    BY <2>1, <2>2, FirstTaskIs DEF TypeInv, PointInv, ExactInv, EventsExact, StorePoints
  <2>4. reported = {} => Running \notin due
    BY <2>3, DueIs DEF Ready, EventOwed
  <2> HIDE DEF reported
  <2>5. due' \subseteq due /\ Running \notin due'
    BY <2>1, <2>4
  <2>6. ASSUME NEW c \in due' PROVE Ready(c)'
    <3>1. c \in due /\ FirstTask(c) # k
      BY <2>3, <2>5, DueIs
    <3>2. owed'[FirstTask(c)] = owed[FirstTask(c)]
      BY <2>1, <3>1
    <3> QED
      BY <2>1, <3>1, <3>2, DueIs, ReadyStays
  <2> QED
    BY <1>0, <2>1, <2>5, <2>6, DueFrame
<1>5. ASSUME NEW x, Reach(x) PROVE DueInv'
  <2>1. /\ pc = "run" /\ UNCHANGED <<sysTick, tasks, owed, i, due>>
        /\ ctx' = [ctx EXCEPT ![Running] = x]
    BY <1>5 DEF Reach
  <2>2. Running \notin due
    BY <1>0, <2>1 DEF DueInv, Tested
  <2>3. \A c \in due : ctx'[c] = ctx[c]
    BY <2>1, <2>2, DueIs
  <2>4. \A c \in due : Ready(c)'
    BY <2>1, <2>3, DueIs, ReadyStays
  <2> QED
    BY <1>0, <2>1, <2>2, <2>4, DueFrame
<1>6. CASE Macro
  BY <1>5, <1>6 DEF Macro, Yield, Sleep, WaitEvent, WaitUntil, WaitTimeout, End
<1> QED
  BY <1>2, <1>3, <1>4, <1>6

LEMMA DueStep == TypeInv /\ ExactInv /\ DueInv /\ [Next]_vars => DueInv'
<1> SUFFICES ASSUME TypeInv, ExactInv, DueInv, [Next]_vars PROVE DueInv'
  OBVIOUS
<1> USE TypeFacts DEF kernel, api
<1>1. ASSUME UNCHANGED <<tasks, ctx, pc, i, call, due>>, sysTick' \in Nat, sysTick' >= sysTick,
             \A w \in 1 .. Count : owed[w] \subseteq owed'[w]
      PROVE  DueInv'
  <2>1. SamePhase /\ Tested' = Tested
    BY <1>1 DEF SamePhase, Resumed, Tested
  <2>2. \A c \in due : Ready(c)'
    BY <1>1, DueIs, ReadyStays
  <2>3. Resumed /\ ~Tested => Running \notin due
    BY DEF DueInv
  <2> QED
    BY <1>1, <2>1, <2>2, <2>3, DueFrame
<1>2. CASE Tick
  BY <1>1, <1>2 DEF Tick
<1>3. ASSUME NEW e \in Events, InterruptSets({e}) PROVE DueInv'
  BY <1>1, <1>3 DEF InterruptSets
<1>4. CASE UNCHANGED vars
  BY <1>1, <1>4 DEF vars
<1> QED
  BY <1>2, <1>3, <1>4, DueCall, DueLoop, DueMacro DEF Next, Main, Interrupt

\* One pass of LLOS_Loop resumes every coroutine that had a reason to go on when it began,
\* whatever the coroutines before it register, reset, set or clear and whenever ticks and
\* events come in (llos.c:267-275), if no interrupt sets events between the load and the
\* store of an event word.
THEOREM EveryReadyOneResumed == ASSUME StoresAreQuiet PROVE Spec => []NonePassedOver
<1>1. Init => DueInv
  BY DEF Init, DueInv
<1>2. DueInv => NonePassedOver
  BY DEF DueInv, NonePassedOver, Resumed, CallPoints
<1> QED
  BY <1>1, <1>2, DueStep, ExactHolds, TypesHold, PTL DEF Spec
=============================================================================
