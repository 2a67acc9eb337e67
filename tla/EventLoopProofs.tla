--------------------------- MODULE EventLoopProofs ---------------------------
(***************************************************************************)
(* What TLC checks of EventLoop on two tasks or three events, proved for   *)
(* every number of tasks, events, delays and ticks, and every number of    *)
(* API calls per callback.                                                 *)
(***************************************************************************)
EXTENDS EventLoop, TLAPS

\* What the proofs use of the index sets and the constants.
LEMMA Tables ==
    /\ 0 \in Tasks /\ 0 \in Events /\ LL_EVENT_MSG \in Events
    /\ Tasks \subseteq Nat /\ Events \subseteq Nat
BY TableAssumption DEF Tasks, Events, LL_EVENT_MSG

LEMMA Bounds ==
    /\ 0 \in Ticks /\ Ticks \subseteq Nat
    /\ 0 \in 0 .. MaxCalls /\ 0 \in 0 .. TaskNum
    /\ Delays \subseteq Nat
BY TableAssumption, CallerAssumption, BoundAssumption DEF Ticks

\* The record of an API call, and the one that stands for no call.
LEMMA CallType ==
    ASSUME NEW t \in Tasks, NEW evs \in SUBSET Events, NEW d \in Nat,
           NEW back \in {"main", "callback"}
    PROVE  [task |-> t, events |-> evs, tick |-> d, back |-> back]
             \in [task : Tasks, events : SUBSET Events, tick : Nat, back : {"main", "callback"}]
OBVIOUS

LEMMA NoCallType ==
    NoCall \in [task : Tasks, events : SUBSET Events, tick : Nat, back : {"main", "callback"}]
BY Tables, CallType DEF NoCall

LEMMA InitTypeOK == Init => TypeOK
<1> SUFFICES ASSUME Init PROVE TypeOK
  OBVIOUS
<1> USE Tables, Bounds DEF Init
<1>1. call \in [task : Tasks, events : SUBSET Events, tick : Nat, back : {"main", "callback"}]
  BY NoCallType
<1>2. startTick \in [Tasks -> [Events -> Nat]]
  OBVIOUS
<1>3. want \in [Tasks -> [Events -> Nat \cup {Idle}]]
  OBVIOUS
<1>4. newEvents \in [Tasks -> SUBSET Events] /\ oldEvents \in [Tasks -> SUBSET Events]
  OBVIOUS
<1>5. msg_list \in [Tasks -> Messages \cup {NULL}] /\ received \in Messages \cup {NULL}
  OBVIOUS
<1>6. sysTick \in Ticks /\ taskIndex \in 0 .. TaskNum /\ calls \in 0 .. MaxCalls
  OBVIOUS
<1> QED
  BY <1>1, <1>2, <1>3, <1>4, <1>5, <1>6 DEF TypeOK, Points

\* Rearm and Disarm keep the types of the tables they change.
LEMMA RearmType ==
    ASSUME TypeOK, NEW t \in Tasks, NEW evs, NEW d \in Nat
    PROVE  /\ Rearm(startTick, t, evs, d) \in [Tasks -> [Events -> Nat]]
           /\ Rearm(want, t, evs, d) \in [Tasks -> [Events -> Nat \cup {Idle}]]
           /\ Disarm(want, t, evs) \in [Tasks -> [Events -> Nat \cup {Idle}]]
<1>1. sysTick + d \in Nat
  BY Bounds DEF TypeOK
<1>2. \A e \in Events : startTick[t][e] \in Nat /\ want[t][e] \in Nat \cup {Idle}
  BY DEF TypeOK
<1>3. [e \in Events |-> IF e \in evs THEN sysTick + d ELSE startTick[t][e]] \in [Events -> Nat]
  BY <1>1, <1>2
<1>4. [e \in Events |-> IF e \in evs THEN sysTick + d ELSE want[t][e]]
        \in [Events -> Nat \cup {Idle}]
  BY <1>1, <1>2
<1>5. [e \in Events |-> IF e \in evs THEN Idle ELSE want[t][e]] \in [Events -> Nat \cup {Idle}]
  BY <1>2
<1> QED
  BY <1>3, <1>4, <1>5 DEF TypeOK, Rearm, Disarm

\* The two for loops stay inside the task table and the event word.
LEMMA AdvanceType ==
    ASSUME TypeOK, Advance
    PROVE  /\ i' \in Tasks /\ j' \in Events /\ pc' \in Points
           /\ event' \in BOOLEAN /\ deadline' \in Nat /\ asked' \in Nat \cup {Idle}
           /\ clear' \subseteq Events /\ reg' \subseteq Events
           /\ received' \in Messages \cup {NULL} /\ calls' \in 0 .. MaxCalls
<1>1. i' \in Tasks /\ j' \in Events
  <2> USE TableAssumption DEF Tasks, Events
  <2>1. CASE NextEvent
    BY <2>1 DEF NextEvent, TypeOK
  <2>2. CASE NextTask
    BY <2>2 DEF NextTask, TypeOK
  <2>3. CASE LoopEnd
    BY <2>3 DEF LoopEnd, TypeOK
  <2> QED
    BY <2>1, <2>2, <2>3 DEF Advance
<1>2. pc' \in Points
  BY DEF Advance, NextEvent, NextTask, LoopEnd, Points, LoopPoints
<1> QED
  BY <1>1, <1>2, Bounds DEF Advance

LEMMA LoadType ==
    ASSUME TypeOK, NEW from, NEW to \in Points, NEW word \in SUBSET Events, Load(from, to, word)
    PROVE  TypeOK'
BY DEF TypeOK, Load, kernel, loop

LEMMA LoopStepType == TypeOK /\ LoopStep => TypeOK'
<1> SUFFICES ASSUME TypeOK, LoopStep PROVE TypeOK'
  OBVIOUS
<1> USE Tables, Bounds DEF kernel, loop
<1>1. CASE Take
  BY <1>1 DEF Take, TypeOK, Points, LoopPoints
<1>2. CASE TakeClear
  BY <1>2 DEF TakeClear, NotTaken, TypeOK, Points, LoopPoints
<1>3. CASE MergeLoad
  BY <1>3, LoadType DEF MergeLoad, TypeOK, Points, LoopPoints
<1>4. CASE MergeStore
  BY <1>4 DEF MergeStore, Merged, FirstScanned, TypeOK, Points, LoopPoints
<1>5. CASE ScanBit
  BY <1>5 DEF ScanBit, TypeOK, Points, LoopPoints
<1>6. CASE ReadTick
  BY <1>6 DEF ReadTick, TypeOK, Points, LoopPoints
<1>7. CASE Dispatch
  BY <1>7 DEF Dispatch, TypeOK, Points, LoopPoints
<1>8. CASE Skip
  BY <1>8, AdvanceType DEF Skip, TypeOK
<1>9. CASE MsgReceive
  BY <1>9 DEF MsgReceive, TypeOK, Points, LoopPoints
<1>10. CASE MsgClear
  BY <1>10 DEF MsgClear, TypeOK, Points, LoopPoints
<1>11. CASE ClearLoad
  BY <1>11, LoadType DEF ClearLoad, TypeOK, Points, LoopPoints
<1>12. CASE ClearStore
  <2>1. want' \in [Tasks -> [Events -> Nat \cup {Idle}]]
    BY <1>12 DEF ClearStore, TypeOK
  <2>2. oldEvents' \in [Tasks -> SUBSET Events]
    BY <1>12 DEF ClearStore, TypeOK
  <2> QED BY <1>12, <2>1, <2>2, AdvanceType DEF ClearStore, TypeOK
<1> QED
  BY <1>1, <1>2, <1>3, <1>4, <1>5, <1>6, <1>7, <1>8, <1>9, <1>10, <1>11, <1>12 DEF LoopStep

LEMMA ApiStepType == TypeOK /\ ApiStep => TypeOK'
<1> SUFFICES ASSUME TypeOK, ApiStep PROVE TypeOK'
  OBVIOUS
<1> USE Tables DEF kernel, loop
<1>0. /\ call.task \in Tasks /\ call.tick \in Nat /\ call.events \in SUBSET Events
      /\ call.back \in Points
  BY DEF TypeOK, Points, LoopPoints
<1>1. CASE StartTick
  BY <1>0, <1>1, RearmType DEF StartTick, TypeOK, Points, StartPoints
<1>2. CASE StartLoad
  BY <1>0, <1>2, LoadType DEF StartLoad, TypeOK, Points, StartPoints
<1>3. CASE StartStore
  BY <1>0, <1>3 DEF StartStore, Leave, NoCall, TypeOK
<1>4. CASE StopNewLoad
  BY <1>0, <1>4, LoadType DEF StopNewLoad, TypeOK, Points, StopPoints
<1>5. CASE StopNewStore
  BY <1>0, <1>5 DEF StopNewStore, TypeOK, Points, StopPoints
<1>6. CASE StopOldLoad
  BY <1>0, <1>6, LoadType DEF StopOldLoad, TypeOK, Points, StopPoints
<1>7. CASE StopOldStore
  BY <1>0, <1>7, RearmType DEF StopOldStore, NotStopped, Leave, NoCall, TypeOK
<1> QED
  BY <1>1, <1>2, <1>3, <1>4, <1>5, <1>6, <1>7 DEF ApiStep

\* A call made below the bound enters the API with arguments of its type.
LEMMA EnterType ==
    ASSUME TypeOK, NEW point \in Points, NEW t \in Tasks, NEW evs \in SUBSET Events,
           NEW d \in Nat, Enter(point, t, evs, d)
    PROVE  /\ pc' \in Points /\ calls' \in 0 .. MaxCalls
           /\ call' \in [task : Tasks, events : SUBSET Events, tick : Nat,
                        back : {"main", "callback"}]
<1>1. pc \in {"main", "callback"} /\ calls' \in 0 .. MaxCalls /\ pc' \in Points
  BY BoundAssumption DEF Enter, CanCall, TypeOK
<1> QED
  BY <1>1, CallType DEF Enter

LEMMA UserEventsType == \A evs \in UserEvents : evs \subseteq Events
BY DEF UserEvents

LEMMA AppStepType == TypeOK /\ AppStep => TypeOK'
<1> SUFFICES ASSUME TypeOK, AppStep PROVE TypeOK'
  OBVIOUS
<1> USE Tables, Bounds DEF kernel, loop
<1>1. CASE RegisterEvents
  <2>1. taskIndex' \in 0 .. TaskNum
    BY <1>1, TableAssumption DEF RegisterEvents, TableFull, TypeOK
  <2> QED
    BY <1>1, <2>1 DEF RegisterEvents, TypeOK
<1>2. CASE LoopBegin
  BY <1>2 DEF LoopBegin, TypeOK, Points, LoopPoints
<1>3. ASSUME NEW evs \in SUBSET Events, Return(evs) PROVE TypeOK'
  BY <1>3 DEF Return, TypeOK, Points, LoopPoints
<1>4. ASSUME NEW t \in Tasks, NEW evs \in UserEvents, NEW d \in Delays, CallStart(t, evs, d)
      PROVE  TypeOK'
  <2>1. "startTick" \in Points /\ d \in Nat /\ Enter("startTick", t, evs, d)
    BY <1>4 DEF CallStart, Points, StartPoints
  <2> QED
    BY <1>4, <2>1, EnterType, UserEventsType DEF CallStart, TypeOK
<1>5. ASSUME NEW t \in Tasks, NEW evs \in UserEvents, CallStop(t, evs) PROVE TypeOK'
  <2>1. "stopNewLoad" \in Points /\ Enter("stopNewLoad", t, evs, 0)
    BY <1>5 DEF CallStop, Points, StopPoints
  <2> QED
    BY <1>5, <2>1, EnterType, UserEventsType DEF CallStop, TypeOK
<1>6. ASSUME NEW t \in Tasks, NEW m \in Messages, CallSend(t, m) PROVE TypeOK'
  <2>1. "startTick" \in Points /\ Enter("startTick", t, {LL_EVENT_MSG}, 0)
    BY <1>6 DEF CallSend, Points, StartPoints
  <2> QED
    BY <1>6, <2>1, EnterType DEF CallSend, TypeOK
<1> QED
  BY <1>1, <1>2, <1>3, <1>4, <1>5, <1>6 DEF AppStep

LEMMA IsrType == TypeOK /\ (Tick \/ Isr) => TypeOK'
<1> SUFFICES ASSUME TypeOK, Tick \/ Isr PROVE TypeOK'
  OBVIOUS
<1> USE Tables, Bounds DEF kernel, loop
<1>1. CASE Tick
  <2>1. sysTick' \in Ticks
    BY <1>1, BoundAssumption DEF Tick, Ticks, TypeOK
  <2> QED
    BY <1>1, <2>1 DEF Tick, TypeOK
<1>2. ASSUME NEW t \in Tasks, NEW evs \in UserEvents, NEW d \in Delays, IsrStart(t, evs, d)
      PROVE  TypeOK'
  BY <1>2, RearmType, UserEventsType DEF IsrStart, TypeOK
<1>3. ASSUME NEW t \in Tasks, NEW evs \in UserEvents, IsrStop(t, evs) PROVE TypeOK'
  BY <1>3, RearmType DEF IsrStop, TypeOK
<1>4. ASSUME NEW t \in Tasks, NEW m \in Messages, IsrSend(t, m) PROVE TypeOK'
  BY <1>4, RearmType DEF IsrSend, TypeOK
<1> QED
  BY <1>1, <1>2, <1>3, <1>4 DEF Isr

LEMMA NextTypeOK == TypeOK /\ [Next]_vars => TypeOK'
<1>1. TypeOK /\ UNCHANGED vars => TypeOK'
  BY DEF TypeOK, vars, kernel, loop
<1> QED
  BY <1>1, LoopStepType, ApiStepType, AppStepType, IsrType DEF Next, Main

\* Whatever the tables, the callers and the interrupts, every variable keeps its type:
\* no task or event index leaves its table.
THEOREM SchedulerTypes == Spec => []TypeOK
BY InitTypeOK, NextTypeOK, PTL DEF Spec

-----------------------------------------------------------------------------
(* Where CallsAreHonoured, no start is lost and no stopped event comes back.  *)
(* NoLostStart and NoGhostRequest are not inductive alone: they need to know   *)
(* what the local copies of the main program hold while it is between a load   *)
(* and its store.                                                              *)

\* LLOS_Loop: its local copy is in use only while it moves the new events, it is the
\* word that is about to be zeroed, and a loaded word is still the stored one.
LoopInv ==
    /\ pc \notin {"takeClear", "mergeLoad", "mergeStore"} => pending = {}
    /\ pc = "takeClear" => pending = newEvents[i]
    /\ pc \in {"mergeStore", "clearStore"} => reg = oldEvents[i]

\* An API call of the main program: what it has loaded is still stored, an event it
\* starts is requested, and an event it stops is gone from newEvents first.
ApiInv ==
    /\ pc \in {"startStore", "stopNewStore"} => reg = newEvents[call.task]
    /\ pc = "stopOldStore" => reg = oldEvents[call.task]
    /\ pc \in {"startLoad", "startStore"} =>
         \A e \in Events : e \in call.events => want[call.task][e] # Idle
    /\ pc \in {"stopOldLoad", "stopOldStore"} => newEvents[call.task] \cap call.events = {}

\* An outstanding request is for the tick in startTick.
TickInv == \A t \in Tasks, e \in Events : want[t][e] # Idle => want[t][e] = startTick[t][e]

\* The event under scan was requested when its bit was read, and the deadline that is
\* compared is the one that was asked for.
ScanInv ==
    /\ pc = "readTick" /\ event => want[i][j] # Idle
    /\ pc = "compare" /\ event => asked # Idle /\ asked = deadline

SafeInv == NoLostStart /\ NoGhostRequest /\ LoopInv /\ ApiInv /\ TickInv /\ ScanInv
IInv == TypeOK /\ SafeInv

LEMMA IdleIsNoTick == Idle \notin Nat
BY DEF Idle

\* Rearm (and Disarm below) changes the deadline of the given events of the given task only.
LEMMA RearmAt ==
    ASSUME TypeOK, NEW t \in Tasks, NEW evs, NEW d \in Nat, NEW u \in Tasks, NEW e \in Events
    PROVE  /\ Rearm(startTick, t, evs, d)[u][e] =
                IF u = t /\ e \in evs THEN sysTick + d ELSE startTick[u][e]
           /\ Rearm(want, t, evs, d)[u][e] =
                IF u = t /\ e \in evs THEN sysTick + d ELSE want[u][e]
           /\ sysTick + d # Idle
BY Bounds, IdleIsNoTick DEF TypeOK, Rearm

LEMMA DisarmAt ==
    ASSUME TypeOK, NEW t \in Tasks, NEW evs, NEW u \in Tasks, NEW e \in Events
    PROVE  Disarm(want, t, evs)[u][e] = IF u = t /\ e \in evs THEN Idle ELSE want[u][e]
BY DEF TypeOK, Disarm

LEMMA InitSafe == Init => SafeInv
BY Tables DEF Init, NoCall, SafeInv, NoLostStart, NoGhostRequest, LoopInv, ApiInv, TickInv,
              ScanInv, Held, Taken, Starting, Stopping, StartPoints, StopPoints

LEMMA LoopStepSafe == IInv /\ LoopStep => SafeInv'
<1> SUFFICES ASSUME IInv, LoopStep PROVE SafeInv'
  OBVIOUS
<1> USE Tables DEF IInv, TypeOK, SafeInv, NoLostStart, NoGhostRequest, LoopInv, ApiInv, TickInv,
                   ScanInv, Held, Taken, Starting, Stopping, StopPoints, kernel, loop
<1>1. CASE Take
  BY <1>1 DEF Take
<1>2. CASE TakeClear
  BY <1>2 DEF TakeClear, NotTaken
<1>3. CASE MergeLoad
  BY <1>3 DEF MergeLoad, Load
<1>4. CASE MergeStore
  BY <1>4 DEF MergeStore, Merged, FirstScanned
<1>5. CASE ScanBit
  <2>1. event' => want[i][j] # Idle
    BY <1>5 DEF ScanBit
  <2>2. ScanInv'
    BY <1>5, <2>1 DEF ScanBit
  <2> QED
    BY <1>5, <2>2 DEF ScanBit
<1>6. CASE ReadTick
  BY <1>6 DEF ReadTick
<1>7. CASE Dispatch
  BY <1>7 DEF Dispatch
<1>8. CASE Skip
  BY <1>8, AdvanceType DEF Skip, Advance, NextEvent, NextTask, LoopEnd
<1>9. CASE MsgReceive
  BY <1>9 DEF MsgReceive
<1>10. CASE MsgClear
  BY <1>10 DEF MsgClear
<1>11. CASE ClearLoad
  BY <1>11 DEF ClearLoad, Load
<1>12. CASE ClearStore
  BY <1>12, AdvanceType DEF ClearStore, Advance, NextEvent, NextTask, LoopEnd
<1> QED
  BY <1>1, <1>2, <1>3, <1>4, <1>5, <1>6, <1>7, <1>8, <1>9, <1>10, <1>11, <1>12 DEF LoopStep

LEMMA ApiStepSafe == IInv /\ ApiStep => SafeInv'
<1> SUFFICES ASSUME IInv, ApiStep PROVE SafeInv'
  OBVIOUS
<1> USE DEF IInv, SafeInv, NoLostStart, NoGhostRequest, LoopInv, ApiInv, TickInv,
            ScanInv, Held, Taken, Starting, Stopping, StopPoints, kernel, loop
<1>0. /\ call.task \in Tasks /\ call.tick \in Nat /\ call.events \in SUBSET Events
      /\ call.back \in {"main", "callback"}
  BY DEF TypeOK
<1>1. CASE StartTick
  <2>1. \A u \in Tasks, e \in Events :
          IF u = call.task /\ e \in call.events
          THEN want'[u][e] # Idle /\ want'[u][e] = startTick'[u][e]
          ELSE want'[u][e] = want[u][e] /\ startTick'[u][e] = startTick[u][e]
    BY <1>0, <1>1, RearmAt DEF StartTick
  <2>2. NoLostStart' /\ NoGhostRequest'
    BY <1>0, <1>1, <2>1 DEF StartTick, TypeOK
  <2>3. LoopInv' /\ ApiInv' /\ TickInv' /\ ScanInv'
    BY <1>0, <1>1, <2>1 DEF StartTick, TypeOK
  <2> QED
    BY <2>2, <2>3
<1>2. CASE StartLoad
  BY <1>0, <1>2 DEF StartLoad, Load, TypeOK
<1>3. CASE StartStore
  BY <1>0, <1>3 DEF StartStore, Leave, NoCall, TypeOK
<1>4. CASE StopNewLoad
  BY <1>0, <1>4 DEF StopNewLoad, Load, TypeOK
<1>5. CASE StopNewStore
  BY <1>0, <1>5 DEF StopNewStore, TypeOK
<1>6. CASE StopOldLoad
  BY <1>0, <1>6 DEF StopOldLoad, Load, TypeOK
<1>7. CASE StopOldStore
  <2>1. \A u \in Tasks, e \in Events :
          want'[u][e] = IF u = call.task /\ e \in call.events THEN Idle ELSE want[u][e]
    BY <1>0, <1>7, DisarmAt DEF StopOldStore
  <2>2. /\ oldEvents' = [oldEvents EXCEPT ![call.task] = oldEvents[call.task] \ call.events]
        /\ newEvents[call.task] \cap call.events = {} /\ pending = {}
        /\ pc' \in {"main", "callback"}
    BY <1>0, <1>7 DEF StopOldStore, NotStopped, Leave
  <2>3. NoLostStart'
    BY <1>0, <1>7, <2>1, <2>2 DEF StopOldStore, TypeOK
  <2>4. NoGhostRequest'
    BY <1>0, <1>7, <2>1, <2>2 DEF StopOldStore, TypeOK
  <2>5. LoopInv' /\ ApiInv' /\ TickInv' /\ ScanInv'
    BY <1>0, <1>7, <2>1, <2>2, IdleIsNoTick DEF StopOldStore, TypeOK
  <2> QED
    BY <2>3, <2>4, <2>5
<1> QED
  BY <1>1, <1>2, <1>3, <1>4, <1>5, <1>6, <1>7 DEF ApiStep

LEMMA AppStepSafe == IInv /\ AppStep => SafeInv'
<1> SUFFICES ASSUME IInv, AppStep PROVE SafeInv'
  OBVIOUS
<1> USE Tables DEF IInv, TypeOK, SafeInv, NoLostStart, NoGhostRequest, LoopInv, ApiInv, TickInv,
                   ScanInv, Held, Taken, Starting, Stopping, StopPoints, kernel, loop
<1>1. CASE RegisterEvents
  BY <1>1 DEF RegisterEvents
<1>2. CASE LoopBegin
  BY <1>2 DEF LoopBegin
<1>3. ASSUME NEW evs \in SUBSET Events, Return(evs) PROVE SafeInv'
  BY <1>3 DEF Return
<1>4. ASSUME NEW t \in Tasks, NEW evs \in UserEvents, NEW d \in Delays, CallStart(t, evs, d)
      PROVE  SafeInv'
  BY <1>4 DEF CallStart, Enter, CanCall
<1>5. ASSUME NEW t \in Tasks, NEW evs \in UserEvents, CallStop(t, evs) PROVE SafeInv'
  BY <1>5 DEF CallStop, Enter, CanCall
<1>6. ASSUME NEW t \in Tasks, NEW m \in Messages, CallSend(t, m) PROVE SafeInv'
  BY <1>6 DEF CallSend, Enter, CanCall
<1> QED
  BY <1>1, <1>2, <1>3, <1>4, <1>5, <1>6 DEF AppStep

\* LLOS_Start_Event run as one step away from the critical sections and losing points.
LEMMA AtomicStartSafe ==
    ASSUME IInv, NEW t \in Tasks, NEW evs \in SUBSET Events, NEW d \in Nat,
           pc \notin LosingPoints \cup StartPoints \cup StopPoints,
           startTick' = Rearm(startTick, t, evs, d),
           newEvents' = [newEvents EXCEPT ![t] = @ \cup evs],
           want' = Rearm(want, t, evs, d),
           UNCHANGED <<oldEvents, pc, loop, reg, call, asked>>
    PROVE  SafeInv'
<1>1. \A u \in Tasks, e \in Events :
        IF u = t /\ e \in evs
        THEN want'[u][e] # Idle /\ want'[u][e] = startTick'[u][e]
        ELSE want'[u][e] = want[u][e] /\ startTick'[u][e] = startTick[u][e]
  BY RearmAt DEF IInv
<1>2. TickInv'
  BY <1>1 DEF IInv, SafeInv, TickInv
<1> USE Tables DEF IInv, TypeOK, SafeInv, NoLostStart, NoGhostRequest, LoopInv, ApiInv, TickInv,
                   ScanInv, Held, Taken, Starting, Stopping, StartPoints, StopPoints, loop
<1>3. \A u \in Tasks : newEvents'[u] = newEvents[u] \cup (IF u = t THEN evs ELSE {})
  OBVIOUS
<1>4. NoLostStart'
  BY <1>1, <1>3
<1>5. NoGhostRequest'
  BY <1>1, <1>3
<1>6. LoopInv' /\ ApiInv'
  BY <1>1, <1>3 DEF LosingPoints
<1>7. ScanInv'
  BY DEF LosingPoints
<1> QED
  BY <1>2, <1>4, <1>5, <1>6, <1>7

\* An interrupt that calls the API finds the main program outside a critical section and
\* away from the losing points, so no loaded word goes stale.
LEMMA IsrSafe ==
    ASSUME CallsAreHonoured
    PROVE  IInv /\ (Tick \/ Isr) => SafeInv'
<1> SUFFICES ASSUME IInv, Tick \/ Isr PROVE SafeInv'
  OBVIOUS
<1> USE DEF IInv, SafeInv, NoLostStart, NoGhostRequest, LoopInv, ApiInv, TickInv,
            ScanInv, Held, Taken, Starting, Stopping, StartPoints, StopPoints, kernel, loop
<1>0. ASSUME NEW name, IsrMayCall(name)
      PROVE  pc \notin LosingPoints \cup StartPoints \cup StopPoints
  BY <1>0 DEF IsrMayCall, Interruptible, CallsAreHonoured
<1>1. CASE Tick
  BY <1>1 DEF Tick
<1>2. ASSUME NEW t \in Tasks, NEW evs \in UserEvents, NEW d \in Delays, IsrStart(t, evs, d)
      PROVE  SafeInv'
  <2>1. d \in Nat /\ evs \in SUBSET Events
    BY Bounds, UserEventsType
  <2> QED
    BY <1>0, <1>2, <2>1, AtomicStartSafe DEF IsrStart
<1>3. ASSUME NEW t \in Tasks, NEW evs \in UserEvents, IsrStop(t, evs) PROVE SafeInv'
  <2>1. \A u \in Tasks, e \in Events :
          want'[u][e] = IF u = t /\ e \in evs THEN Idle ELSE want[u][e]
    BY <1>3, DisarmAt DEF IsrStop
  <2>2. pc \notin LosingPoints \cup StartPoints \cup StopPoints
    BY <1>0, <1>3 DEF IsrStop
  <2>3. pending = {}
    BY <2>2 DEF LosingPoints
  <2>4. NoLostStart' /\ NoGhostRequest'
    BY <1>3, <2>1, <2>2, <2>3 DEF IsrStop, TypeOK
  <2>5. LoopInv' /\ ApiInv' /\ TickInv' /\ ScanInv'
    BY <1>3, <2>1, <2>2, Tables DEF IsrStop, LosingPoints, TypeOK
  <2> QED
    BY <2>4, <2>5
<1>4. ASSUME NEW t \in Tasks, NEW m \in Messages, IsrSend(t, m) PROVE SafeInv'
  BY <1>0, <1>4, Tables, AtomicStartSafe DEF IsrSend
<1> QED
  BY <1>1, <1>2, <1>3, <1>4 DEF Isr

LEMMA NextIInv ==
    ASSUME CallsAreHonoured
    PROVE  IInv /\ [Next]_vars => IInv'
<1>1. IInv /\ UNCHANGED vars => SafeInv'
  BY DEF IInv, SafeInv, NoLostStart, NoGhostRequest, LoopInv, ApiInv, TickInv, ScanInv, Held,
         Taken, Starting, Stopping, StartPoints, StopPoints, vars, kernel, loop
<1>2. IInv /\ Next => SafeInv'
  BY LoopStepSafe, ApiStepSafe, AppStepSafe, IsrSafe DEF Next, Main
<1> QED
  BY <1>1, <1>2, NextTypeOK DEF IInv

LEMMA IInvHolds ==
    ASSUME CallsAreHonoured
    PROVE  Spec => []IInv
<1>1. Init => IInv
  BY InitTypeOK, InitSafe DEF IInv
<1> QED
  BY <1>1, NextIInv, PTL DEF Spec

\* A started event is never forgotten, for any number of tasks, events and callers, as
\* long as interrupts call the API only where LLOS honours their calls.
THEOREM StartsAreKept ==
    ASSUME CallsAreHonoured
    PROVE  Spec => []NoLostStart
<1>1. IInv => NoLostStart
  BY DEF IInv, SafeInv
<1> QED
  BY <1>1, IInvHolds, PTL

\* Under the same condition a stopped or cleared event never comes back.
THEOREM StopsAreFinal ==
    ASSUME CallsAreHonoured
    PROVE  Spec => []NoGhostRequest
<1>1. IInv => NoGhostRequest
  BY DEF IInv, SafeInv
<1> QED
  BY <1>1, IInvHolds, PTL

\* And every dispatch answers the latest request for its event, at or after its tick.
THEOREM DispatchIsRequested ==
    ASSUME CallsAreHonoured
    PROVE  Spec => RunsAsRequested
<1>1. IInv /\ [Next]_vars => [Dispatch => asked # Idle /\ sysTick >= asked]_vars
  BY DEF IInv, SafeInv, ScanInv, Dispatch, Due
<1> QED
  BY <1>1, IInvHolds, PTL DEF Spec, RunsAsRequested

-----------------------------------------------------------------------------
(* The mailbox.  That a message event finds a message needs no hooks, only     *)
(* that interrupts send none from where LLOS_Loop takes LL_EVENT_MSG to the    *)
(* LLOS_Msg_Clear of its callback; they may call the rest of the API anywhere. *)

MessagesAreSerial == "send" \in IsrCalls => MessagePoints \subseteq QuietAt \cup SendQuietAt

\* A message callback runs and has cleared its mailbox.
MsgRuns ==
    /\ j = LL_EVENT_MSG
    /\ \/ pc \in {"callback", "clearLoad", "clearStore"}
       \/ pc \in StartPoints \cup StopPoints /\ call.back = "callback"

\* Where LL_EVENT_MSG is requested there is a message, unless its callback runs.
MailInv ==
    \A t \in Tasks :
        /\ LL_EVENT_MSG \in newEvents[t] => msg_list[t] # NULL
        /\ LL_EVENT_MSG \in oldEvents[t] \cup Taken(t) => msg_list[t] # NULL \/ (MsgRuns /\ t = i)

\* A loaded register brings back no message event: nobody but the main program withdraws it.
MailRegInv ==
    /\ pc \in StartPoints /\ LL_EVENT_MSG \in call.events => msg_list[call.task] # NULL
    /\ pc \in {"startStore", "stopNewStore"} /\ LL_EVENT_MSG \in reg =>
         LL_EVENT_MSG \in newEvents[call.task]
    /\ pc = "stopOldStore" /\ LL_EVENT_MSG \in reg => LL_EVENT_MSG \in oldEvents[call.task]
    /\ pc \in {"mergeStore", "clearStore"} /\ LL_EVENT_MSG \in reg =>
         LL_EVENT_MSG \in oldEvents[i]

\* From the take to LLOS_Msg_Clear no second message is announced, and the event that is
\* scanned, run and cleared is the one that was taken.
MailLoopInv ==
    /\ pc \notin {"takeClear", "mergeLoad", "mergeStore"} => pending = {}
    /\ pc \in {"mergeLoad", "mergeStore"} => LL_EVENT_MSG \notin newEvents[i]
    /\ pc \in {"scan", "readTick", "compare", "receive", "msgClear"} /\ j = LL_EVENT_MSG =>
         LL_EVENT_MSG \notin newEvents[i]
    /\ pc \in {"readTick", "compare"} /\ event /\ j = LL_EVENT_MSG => LL_EVENT_MSG \in oldEvents[i]
    /\ pc = "receive" => LL_EVENT_MSG \in oldEvents[i]
    /\ pc \in {"receive", "msgClear"} => j = LL_EVENT_MSG
    /\ pc \in {"clearLoad", "clearStore"} /\ j = LL_EVENT_MSG => clear = {j}

MsgSafe == MailInv /\ MailRegInv /\ MailLoopInv /\ MsgNotNull
MsgInv == TypeOK /\ MsgSafe

LEMMA InitMsg == Init => MsgSafe
BY Tables DEF Init, MsgSafe, MailInv, MailRegInv, MailLoopInv, MsgNotNull, Taken, NoCall, StartPoints

\* No message is NULL.
LEMMA MessageIsNotNull == \A m \in Messages : m # NULL
BY CallerAssumption

LEMMA LoopStepMsg == MsgInv /\ LoopStep => MsgSafe'
<1> SUFFICES ASSUME MsgInv, LoopStep PROVE MsgSafe'
  OBVIOUS
<1> USE Tables DEF MsgInv, TypeOK, MsgSafe, MailInv, MailRegInv, MailLoopInv, MsgNotNull, MsgRuns, Taken,
                   StartPoints, StopPoints, kernel, loop
<1>1. CASE Take
  BY <1>1 DEF Take
<1>2. CASE TakeClear
  BY <1>2 DEF TakeClear, NotTaken
<1>3. CASE MergeLoad
  BY <1>3 DEF MergeLoad, Load
<1>4. CASE MergeStore
  BY <1>4 DEF MergeStore, Merged, FirstScanned
<1>5. CASE ScanBit
  BY <1>5 DEF ScanBit
<1>6. CASE ReadTick
  BY <1>6 DEF ReadTick
<1>7. CASE Dispatch
  BY <1>7 DEF Dispatch, Due
<1>8. CASE Skip
  <2>1. /\ pc = "compare" /\ pc' \in {"scan", "take", "main"} /\ ~event' /\ clear' = {}
        /\ received' = NULL /\ reg' = {} /\ i' \in Tasks
        /\ pc' = "scan" => i' = i /\ j' = j - 1 /\ j > 0
        /\ UNCHANGED <<newEvents, oldEvents, msg_list, pending, call>>
    BY <1>8, AdvanceType DEF Skip, Advance, NextEvent, NextTask, LoopEnd
  <2>2. j' # LL_EVENT_MSG \/ pc' # "scan"
    BY <2>1 DEF Events, LL_EVENT_MSG
  <2> QED
    BY <2>1, <2>2
<1>9. CASE MsgReceive
  BY <1>9 DEF MsgReceive
<1>10. CASE MsgClear
  BY <1>10 DEF MsgClear
<1>11. CASE ClearLoad
  BY <1>11 DEF ClearLoad, Load
<1>12. CASE ClearStore
  <2>1. /\ pc = "clearStore" /\ pc' \in {"scan", "take", "main"} /\ ~event' /\ clear' = {}
        /\ received' = NULL /\ reg' = {} /\ i' \in Tasks
        /\ pc' = "scan" => i' = i /\ j' = j - 1 /\ j > 0
        /\ oldEvents' = [oldEvents EXCEPT ![i] = reg \ clear]
        /\ UNCHANGED <<newEvents, msg_list, pending, call>>
    BY <1>12, AdvanceType DEF ClearStore, Advance, NextEvent, NextTask, LoopEnd
  <2>2. j' # LL_EVENT_MSG \/ pc' # "scan"
    BY <2>1 DEF Events, LL_EVENT_MSG
  <2>3. MailInv'
    BY <2>1
  <2>4. MailRegInv'
    BY <2>1
  <2>5. MailLoopInv' /\ MsgNotNull'
    BY <2>1, <2>2
  <2> QED
    BY <2>3, <2>4, <2>5
<1> QED
  BY <1>1, <1>2, <1>3, <1>4, <1>5, <1>6, <1>7, <1>8, <1>9, <1>10, <1>11, <1>12 DEF LoopStep

LEMMA ApiStepMsg == MsgInv /\ ApiStep => MsgSafe'
<1> SUFFICES ASSUME MsgInv, ApiStep PROVE MsgSafe'
  OBVIOUS
<1> USE DEF MsgInv, MsgSafe, MailInv, MailRegInv, MailLoopInv, MsgNotNull, MsgRuns, Taken,
            StartPoints, StopPoints, kernel, loop
<1>0. /\ call.task \in Tasks /\ call.tick \in Nat /\ call.events \in SUBSET Events
      /\ call.back \in {"main", "callback"}
  BY DEF TypeOK
<1>1. CASE StartTick
  BY <1>0, <1>1 DEF StartTick, TypeOK
<1>2. CASE StartLoad
  BY <1>0, <1>2 DEF StartLoad, Load, TypeOK
<1>3. CASE StartStore
  <2>1. /\ pc = "startStore" /\ pc' = call.back /\ reg' = {}
        /\ newEvents' = [newEvents EXCEPT ![call.task] = reg \cup call.events]
        /\ UNCHANGED <<oldEvents, msg_list, i, j, pending, event, clear, received>>
    BY <1>3 DEF StartStore, Leave
  <2>2. LL_EVENT_MSG \in reg \cup call.events => msg_list[call.task] # NULL
    BY <1>0, <2>1
  <2>3. MsgRuns => MsgRuns'
    BY <1>0, <2>1
  <2>4. MailInv'
    BY <1>0, <2>1, <2>2, <2>3 DEF TypeOK
  <2>5. MailRegInv' /\ MailLoopInv' /\ MsgNotNull'
    BY <1>0, <2>1
  <2> QED
    BY <2>4, <2>5
<1>4. CASE StopNewLoad
  BY <1>0, <1>4 DEF StopNewLoad, Load, TypeOK
<1>5. CASE StopNewStore
  BY <1>0, <1>5 DEF StopNewStore, TypeOK
<1>6. CASE StopOldLoad
  BY <1>0, <1>6 DEF StopOldLoad, Load, TypeOK
<1>7. CASE StopOldStore
  <2>1. /\ pc = "stopOldStore" /\ pc' = call.back /\ reg' = {}
        /\ oldEvents' = [oldEvents EXCEPT ![call.task] = reg \ call.events]
        /\ UNCHANGED <<newEvents, msg_list, i, j, pending, event, clear, received>>
    BY <1>7 DEF StopOldStore, NotStopped, Leave
  <2>2. MsgRuns => MsgRuns'
    BY <1>0, <2>1
  <2>3. \A t \in Tasks : LL_EVENT_MSG \in oldEvents'[t] => LL_EVENT_MSG \in oldEvents[t]
    BY <1>0, <2>1 DEF TypeOK
  <2>4. MailInv'
    BY <1>0, <2>1, <2>2, <2>3 DEF TypeOK
  <2>5. MailRegInv' /\ MailLoopInv' /\ MsgNotNull'
    BY <1>0, <2>1
  <2> QED
    BY <2>4, <2>5
<1> QED
  BY <1>1, <1>2, <1>3, <1>4, <1>5, <1>6, <1>7 DEF ApiStep

LEMMA NotMsg == \A evs \in UserEvents : LL_EVENT_MSG \notin evs
BY DEF UserEvents

LEMMA AppStepMsg == MsgInv /\ AppStep => MsgSafe'
<1> SUFFICES ASSUME MsgInv, AppStep PROVE MsgSafe'
  OBVIOUS
<1> USE Tables DEF MsgInv, TypeOK, MsgSafe, MailInv, MailRegInv, MailLoopInv, MsgNotNull, MsgRuns, Taken,
                   StartPoints, StopPoints, kernel, loop
<1>1. CASE RegisterEvents
  BY <1>1 DEF RegisterEvents
<1>2. CASE LoopBegin
  BY <1>2 DEF LoopBegin
<1>3. ASSUME NEW evs \in SUBSET Events, Return(evs) PROVE MsgSafe'
  BY <1>3 DEF Return, Returns
<1>4. ASSUME NEW t \in Tasks, NEW evs \in UserEvents, NEW d \in Delays, CallStart(t, evs, d)
      PROVE  MsgSafe'
  BY <1>4, NotMsg DEF CallStart, Enter, CanCall
<1>5. ASSUME NEW t \in Tasks, NEW evs \in UserEvents, CallStop(t, evs) PROVE MsgSafe'
  BY <1>5, NotMsg DEF CallStop, Enter, CanCall
<1>6. ASSUME NEW t \in Tasks, NEW m \in Messages, CallSend(t, m) PROVE MsgSafe'
  BY <1>6, MessageIsNotNull DEF CallSend, Enter, CanCall
<1> QED
  BY <1>1, <1>2, <1>3, <1>4, <1>5, <1>6 DEF AppStep

LEMMA IsrMsg ==
    ASSUME MessagesAreSerial
    PROVE  MsgInv /\ (Tick \/ Isr) => MsgSafe'
<1> SUFFICES ASSUME MsgInv, Tick \/ Isr PROVE MsgSafe'
  OBVIOUS
<1> USE Tables DEF MsgInv, TypeOK, MsgSafe, MailInv, MailRegInv, MailLoopInv, MsgNotNull, MsgRuns, Taken,
                   StartPoints, StopPoints, kernel, loop
<1>1. CASE Tick
  BY <1>1 DEF Tick
<1>2. ASSUME NEW t \in Tasks, NEW evs \in UserEvents, NEW d \in Delays, IsrStart(t, evs, d)
      PROVE  MsgSafe'
  BY <1>2, NotMsg DEF IsrStart
<1>3. ASSUME NEW t \in Tasks, NEW evs \in UserEvents, IsrStop(t, evs) PROVE MsgSafe'
  BY <1>3, NotMsg DEF IsrStop
<1>4. ASSUME NEW t \in Tasks, NEW m \in Messages, IsrSend(t, m) PROVE MsgSafe'
  <2>1. pc \notin MessagePoints
    BY <1>4 DEF IsrSend, IsrMayCall, MessagesAreSerial
  <2> QED
    BY <1>4, <2>1, MessageIsNotNull DEF IsrSend, MessagePoints
<1> QED
  BY <1>1, <1>2, <1>3, <1>4 DEF Isr

\* A message callback is never handed NULL, whatever the hooks, if no interrupt sends a
\* message between the take of LL_EVENT_MSG and the LLOS_Msg_Clear of its callback
\* (llos.c:241-243, 408-436).
THEOREM MessagesArrive ==
    ASSUME MessagesAreSerial
    PROVE  Spec => []MsgNotNull
<1>1. Init => MsgInv
  BY InitTypeOK, InitMsg DEF MsgInv
<1>2. MsgInv /\ UNCHANGED vars => MsgSafe'
  BY DEF MsgInv, MsgSafe, MailInv, MailRegInv, MailLoopInv, MsgNotNull, MsgRuns, Taken, vars, kernel, loop
<1>3. MsgInv /\ [Next]_vars => MsgInv'
  BY <1>2, NextTypeOK, LoopStepMsg, ApiStepMsg, AppStepMsg, IsrMsg DEF Next, Main, MsgInv
<1>4. MsgInv => MsgNotNull
  BY DEF MsgInv, MsgSafe
<1> QED
  BY <1>1, <1>3, <1>4, PTL DEF Spec
=============================================================================
