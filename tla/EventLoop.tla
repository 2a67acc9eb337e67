------------------------------ MODULE EventLoop ------------------------------
(***************************************************************************)
(* The event scheduler of LLOS (kernel/llos.c): LLOS_Register_Events,      *)
(* LLOS_Loop, LLOS_Start_Event, LLOS_Stop_Event, LLOS_Msg_Send / _Receive  *)
(* / _Clear and the clock of LLOS_Tick_Increase.                           *)
(*                                                                         *)
(* Two actors share the task table.  The main program runs LLOS_Loop and,  *)
(* from its event callbacks, the API; it is interruptible between any two  *)
(* accesses to shared memory, so each of its accesses is a step of its     *)
(* own, and `x |= y` is a load and a store.  An interrupt handler runs to  *)
(* completion on the single core, so each API call it makes is one step.   *)
(*                                                                         *)
(* LLOS_Critical calls hooks the integrator may leave NULL (the demos do): *)
(* CriticalHooks says whether they are there.                              *)
(***************************************************************************)
EXTENDS Integers

CONSTANTS
    TaskNum,        \* cfgs->taskNum
    EventNum,       \* events per task; 32 in the code, the last one is MSG
    Delays,         \* delays that callers of LLOS_Start_Event ask for
    Messages,       \* message addresses, all different from NULL
    NULL,
    CriticalHooks,  \* are criticalEnter / criticalEXIT registered?
    IsrCalls,       \* API calls interrupts make: subset of {"start","stop","send"}
    QuietAt,        \* points of the main program at which interrupts make none
    SendQuietAt,    \* points at which they make no call of LLOS_Msg_Send
    MaxTick,        \* bound: sysTick stays within 0..MaxTick
    MaxCalls        \* bound: API calls per callback (and between two loops)

ASSUME TableAssumption ==
    /\ TaskNum \in Nat \ {0}
    /\ EventNum \in Nat \ {0}
ASSUME CallerAssumption ==
    /\ Delays \subseteq Nat
    /\ NULL \notin Messages
    /\ CriticalHooks \in BOOLEAN
    /\ IsrCalls \subseteq {"start", "stop", "send"}
ASSUME BoundAssumption == MaxTick \in Nat /\ MaxCalls \in Nat

Tasks  == 0 .. TaskNum - 1
Events == 0 .. EventNum - 1
Ticks  == 0 .. MaxTick

LL_EVENT_MSG == EventNum - 1

VARIABLES
    sysTick,    \* the clock
    taskIndex,  \* number of registered tasks
    newEvents,  \* per task, events requested since the loop last took them
    oldEvents,  \* per task, events the loop holds
    startTick,  \* per task and event, the tick from which it may run
    msg_list,   \* per task, its one-slot mailbox
    pc,         \* the main program: the access it makes next
    i, j,       \* LLOS_Loop: task and event under scan
    pending,    \* LLOS_Loop: the new events it has taken
    event,      \* LLOS_Loop: was the bit of event j set when it was read?
    deadline,   \* LLOS_Loop: startTick[j] as it was read
    reg,        \* processor register between the load and the store of |= or &=
    clear,      \* what the callback returned: the events to clear
    received,   \* what LLOS_Msg_Receive returned to the running callback
    call,       \* arguments of the API call the main program is in, and its return point
    calls,      \* API calls made so far in this callback
    want,       \* history: per task and event, the deadline requested, or Idle
    asked       \* history: want of the event under scan when startTick was read

kernel == <<newEvents, oldEvents, startTick, msg_list>>
loop   == <<i, j, pending, event, deadline, clear, received>>
vars   == <<sysTick, taskIndex, kernel, pc, loop, reg, call, calls, want, asked>>

Idle   == -1   \* no request outstanding
NoCall == [task |-> 0, events |-> {}, tick |-> 0, back |-> "main"]

StartPoints == {"startTick", "startLoad", "startStore"}
StopPoints  == {"stopNewLoad", "stopNewStore", "stopOldLoad", "stopOldStore"}
LoopPoints  == {"take", "takeClear", "mergeLoad", "mergeStore", "scan", "readTick",
                "compare", "receive", "msgClear", "callback", "clearLoad", "clearStore"}

Init ==
    /\ sysTick = 0
    /\ taskIndex = 0
    /\ newEvents = [t \in Tasks |-> {}]
    /\ oldEvents = [t \in Tasks |-> {}]
    /\ startTick = [t \in Tasks |-> [e \in Events |-> 0]]
    /\ msg_list = [t \in Tasks |-> NULL]
    /\ pc = "main"
    /\ i = 0 /\ j = 0
    /\ pending = {} /\ event = FALSE /\ deadline = 0
    /\ reg = {} /\ clear = {} /\ received = NULL
    /\ call = NoCall /\ calls = 0
    /\ want = [t \in Tasks |-> [e \in Events |-> Idle]]
    /\ asked = Idle

\* the load of a |= or &=, from one point of the main program to the next
Load(from, to, word) ==
    /\ pc = from
    /\ reg' = word
    /\ pc' = to
    /\ UNCHANGED <<sysTick, taskIndex, kernel, loop, call, calls, want, asked>>

-----------------------------------------------------------------------------
(* Task registration, and the while(1) of main(). *)

TableFull_late == taskIndex > TaskNum   \* mutant: off by one
TableFull == taskIndex >= TaskNum

\* LLOS_Register_Events, from main() or a callback; with a full table or a NULL
\* callback it changes nothing.
RegisterEvents ==
    /\ pc \in {"main", "callback"}
    /\ ~TableFull
    /\ taskIndex' = taskIndex + 1
    /\ UNCHANGED <<sysTick, kernel, pc, loop, reg, call, calls, want, asked>>

\* LLOS_Loop begins its pass with task 0.
LoopBegin ==
    /\ pc = "main" /\ taskIndex > 0
    /\ pc' = "take" /\ i' = 0 /\ calls' = 0
    /\ UNCHANGED <<sysTick, taskIndex, kernel, j, pending, event, deadline,
                   clear, received, reg, call, want, asked>>

-----------------------------------------------------------------------------
(* LLOS_Loop: moving the new events of task i to the events the loop holds. *)

Take ==
    /\ pc = "take"
    /\ pending' = newEvents[i]
    /\ pc' = "takeClear"
    /\ UNCHANGED <<sysTick, taskIndex, kernel, i, j, event, deadline, clear,
                   received, reg, call, calls, want, asked>>

NotTaken_all == newEvents[i]   \* mutant: what was taken is not removed
NotTaken == {}

TakeClear ==
    /\ pc = "takeClear"
    /\ newEvents' = [newEvents EXCEPT ![i] = NotTaken]
    /\ pc' = "mergeLoad"
    /\ UNCHANGED <<sysTick, taskIndex, oldEvents, startTick, msg_list, loop,
                   reg, call, calls, want, asked>>

MergeLoad == Load("mergeLoad", "mergeStore", oldEvents[i])

Merged_overwrites == pending   \* mutant: oldEvents = pending, not |= pending
Merged == reg \cup pending

FirstScanned == LL_EVENT_MSG

MergeStore ==
    /\ pc = "mergeStore"
    /\ oldEvents' = [oldEvents EXCEPT ![i] = Merged]
    /\ j' = FirstScanned
    /\ reg' = {} /\ pending' = {}
    /\ pc' = "scan"
    /\ UNCHANGED <<sysTick, taskIndex, newEvents, startTick, msg_list, i, event,
                   deadline, clear, received, call, calls, want, asked>>

-----------------------------------------------------------------------------
(* LLOS_Loop: the scan of task i, from the message event downwards. *)

ScanBit ==
    /\ pc = "scan"
    /\ event' = (j \in oldEvents[i])
    /\ pc' = "readTick"
    /\ UNCHANGED <<sysTick, taskIndex, kernel, i, j, pending, deadline, clear,
                   received, reg, call, calls, want, asked>>

ReadTick ==
    /\ pc = "readTick"
    /\ deadline' = startTick[i][j]
    /\ asked' = want[i][j]
    /\ pc' = "compare"
    /\ UNCHANGED <<sysTick, taskIndex, kernel, i, j, pending, event, clear,
                   received, reg, call, calls, want>>

\* the two for loops move on: next event, next task, or the end of the pass
NextEvent ==
    /\ j > 0
    /\ pc' = "scan" /\ j' = j - 1 /\ UNCHANGED i
NextTask ==
    /\ j = 0 /\ i + 1 < taskIndex
    /\ pc' = "take" /\ i' = i + 1 /\ UNCHANGED j
LoopEnd ==
    /\ j = 0 /\ i + 1 >= taskIndex
    /\ pc' = "main" /\ i' = 0 /\ UNCHANGED j
Advance ==
    /\ NextEvent \/ NextTask \/ LoopEnd
    /\ event' = FALSE /\ deadline' = 0 /\ asked' = Idle
    /\ clear' = {} /\ received' = NULL /\ calls' = 0 /\ reg' = {}

Due_strict == event /\ sysTick > deadline   \* mutant: one tick late
Due_anyTick == event                        \* mutant: the tick is not looked at
Due == event /\ sysTick >= deadline

Dispatch ==
    /\ pc = "compare" /\ Due
    /\ pc' = IF j = LL_EVENT_MSG THEN "receive" ELSE "callback"
    /\ calls' = 0
    /\ UNCHANGED <<sysTick, taskIndex, kernel, loop, reg, call, want, asked>>

Skip ==
    /\ pc = "compare" /\ ~Due
    /\ Advance
    /\ UNCHANGED <<sysTick, taskIndex, kernel, pending, call, want>>

\* oldEvents &= ~clearEvents.  A request that is back in newEvents outlives it.
ClearLoad == Load("clearLoad", "clearStore", oldEvents[i])

ClearStore ==
    /\ pc = "clearStore"
    /\ oldEvents' = [oldEvents EXCEPT ![i] = reg \ clear]
    /\ want' = [want EXCEPT ![i] =
                  [e \in Events |-> IF e \in clear \ newEvents[i] THEN Idle ELSE @[e]]]
    /\ Advance
    /\ UNCHANGED <<sysTick, taskIndex, newEvents, startTick, msg_list, pending,
                   call>>

-----------------------------------------------------------------------------
(* The callback of task i for event j.  A message callback receives and then *)
(* clears its message; every callback may call the API before it returns.    *)

MsgReceive ==
    /\ pc = "receive"
    /\ received' = msg_list[i]
    /\ pc' = "msgClear"
    /\ UNCHANGED <<sysTick, taskIndex, kernel, i, j, pending, event, deadline,
                   clear, reg, call, calls, want, asked>>

MsgClear ==
    /\ pc = "msgClear"
    /\ msg_list' = [msg_list EXCEPT ![i] = NULL]
    /\ pc' = "callback"
    /\ UNCHANGED <<sysTick, taskIndex, newEvents, oldEvents, startTick, loop,
                   reg, call, calls, want, asked>>

\* What callbacks return: nothing, their event, or (the demos' default) 0xFFFF.
Returns == IF j = LL_EVENT_MSG THEN {{j}} ELSE {{}, {j}, Events \ {LL_EVENT_MSG}}

Return(evs) ==
    /\ pc = "callback"
    /\ evs \in Returns
    /\ clear' = evs
    /\ pc' = "clearLoad" /\ calls' = 0
    /\ UNCHANGED <<sysTick, taskIndex, kernel, i, j, pending, event, deadline,
                   received, reg, call, want, asked>>

-----------------------------------------------------------------------------
(* API calls of the main program, access by access.                          *)

CanCall == pc \in {"main", "callback"} /\ calls < MaxCalls

Enter(point, t, evs, d) ==
    /\ CanCall
    /\ pc' = point
    /\ call' = [task |-> t, events |-> evs, tick |-> d, back |-> pc]
    /\ calls' = calls + 1

Leave == pc' = call.back /\ call' = NoCall /\ reg' = {}

CallStart(t, evs, d) ==
    /\ Enter("startTick", t, evs, d)
    /\ UNCHANGED <<sysTick, taskIndex, kernel, loop, reg, want, asked>>

CallStop(t, evs) ==
    /\ Enter("stopNewLoad", t, evs, 0)
    /\ UNCHANGED <<sysTick, taskIndex, kernel, loop, reg, want, asked>>

\* LLOS_Msg_Send stores the address, then starts LL_EVENT_MSG with delay 0.  The store and the
\* entry into LLOS_Start_Event are one step: an interrupt between them starts, stops and sends
\* what it would have before the store, but for whose message stays in the mailbox, and the
\* properties only ask whether there is one.
CallSend(t, m) ==
    /\ Enter("startTick", t, {LL_EVENT_MSG}, 0)
    /\ msg_list' = [msg_list EXCEPT ![t] = m]
    /\ UNCHANGED <<sysTick, taskIndex, newEvents, oldEvents, startTick, loop,
                   reg, want, asked>>

\* f with the deadline of events evs of task t set to now + d
Rearm(f, t, evs, d) ==
    [f EXCEPT ![t] = [e \in Events |-> IF e \in evs THEN sysTick + d ELSE @[e]]]
\* f with no request left for events evs of task t
Disarm(f, t, evs) ==
    [f EXCEPT ![t] = [e \in Events |-> IF e \in evs THEN Idle ELSE @[e]]]

\* LLOS_Start_Event: the for loop over startTick, then newEvents |= events
StartTick ==
    /\ pc = "startTick"
    /\ startTick' = Rearm(startTick, call.task, call.events, call.tick)
    /\ want' = Rearm(want, call.task, call.events, call.tick)
    /\ pc' = "startLoad"
    /\ UNCHANGED <<sysTick, taskIndex, newEvents, oldEvents, msg_list, loop, reg,
                   call, calls, asked>>

StartLoad == Load("startLoad", "startStore", newEvents[call.task])

StartStore ==
    /\ pc = "startStore"
    /\ newEvents' = [newEvents EXCEPT ![call.task] = reg \cup call.events]
    /\ Leave
    /\ UNCHANGED <<sysTick, taskIndex, oldEvents, startTick, msg_list, loop,
                   calls, want, asked>>

\* LLOS_Stop_Event: newEvents &= ~events, then oldEvents &= ~events
StopNewLoad == Load("stopNewLoad", "stopNewStore", newEvents[call.task])

StopNewStore ==
    /\ pc = "stopNewStore"
    /\ newEvents' = [newEvents EXCEPT ![call.task] = reg \ call.events]
    /\ pc' = "stopOldLoad"
    /\ UNCHANGED <<sysTick, taskIndex, oldEvents, startTick, msg_list, loop, reg,
                   call, calls, want, asked>>

StopOldLoad == Load("stopOldLoad", "stopOldStore", oldEvents[call.task])

NotStopped_all == reg   \* mutant: oldEvents is left as it is
NotStopped == reg \ call.events

StopOldStore ==
    /\ pc = "stopOldStore"
    /\ oldEvents' = [oldEvents EXCEPT ![call.task] = NotStopped]
    /\ want' = Disarm(want, call.task, call.events)
    /\ Leave
    /\ UNCHANGED <<sysTick, taskIndex, newEvents, startTick, msg_list, loop,
                   calls, asked>>

-----------------------------------------------------------------------------
(* Interrupts.  They find the main program outside a critical section, if     *)
(* there are critical sections.                                               *)

Interruptible == ~CriticalHooks \/ pc \notin StartPoints \cup StopPoints

\* LLOS_Tick_Increase (its timers and alarms are in SoftTimer)
Tick ==
    /\ Interruptible
    /\ sysTick < MaxTick
    /\ sysTick' = sysTick + 1
    /\ UNCHANGED <<taskIndex, kernel, pc, loop, reg, call, calls, want, asked>>

IsrMayCall(name) == Interruptible /\ name \in IsrCalls /\ pc \notin QuietAt

IsrStart(t, evs, d) ==
    /\ IsrMayCall("start")
    /\ startTick' = Rearm(startTick, t, evs, d)
    /\ newEvents' = [newEvents EXCEPT ![t] = @ \cup evs]
    /\ want' = Rearm(want, t, evs, d)
    /\ UNCHANGED <<sysTick, taskIndex, oldEvents, msg_list, pc, loop, reg, call,
                   calls, asked>>

IsrStop(t, evs) ==
    /\ IsrMayCall("stop")
    /\ newEvents' = [newEvents EXCEPT ![t] = @ \ evs]
    /\ oldEvents' = [oldEvents EXCEPT ![t] = @ \ evs]
    /\ want' = Disarm(want, t, evs)
    /\ UNCHANGED <<sysTick, taskIndex, startTick, msg_list, pc, loop, reg, call,
                   calls, asked>>

IsrSend(t, m) ==
    /\ IsrMayCall("send") /\ pc \notin SendQuietAt
    /\ msg_list' = [msg_list EXCEPT ![t] = m]
    /\ startTick' = Rearm(startTick, t, {LL_EVENT_MSG}, 0)
    /\ newEvents' = [newEvents EXCEPT ![t] = @ \cup {LL_EVENT_MSG}]
    /\ want' = Rearm(want, t, {LL_EVENT_MSG}, 0)
    /\ UNCHANGED <<sysTick, taskIndex, oldEvents, pc, loop, reg, call, calls, asked>>

-----------------------------------------------------------------------------

UserEvents == {evs \in SUBSET (Events \ {LL_EVENT_MSG}) : evs # {}}

\* LLOS_Loop between its callbacks: no choice of the application is involved
LoopStep ==
    \/ Take \/ TakeClear \/ MergeLoad \/ MergeStore
    \/ ScanBit \/ ReadTick \/ Dispatch \/ Skip
    \/ MsgReceive \/ MsgClear \/ ClearLoad \/ ClearStore

ApiStep ==
    \/ StartTick \/ StartLoad \/ StartStore
    \/ StopNewLoad \/ StopNewStore \/ StopOldLoad \/ StopOldStore

AppStep ==
    \/ RegisterEvents \/ LoopBegin
    \/ \E evs \in SUBSET Events : Return(evs)
    \/ \E t \in Tasks, evs \in UserEvents, d \in Delays : CallStart(t, evs, d)
    \/ \E t \in Tasks, evs \in UserEvents : CallStop(t, evs)
    \/ \E t \in Tasks, m \in Messages : CallSend(t, m)

Main == LoopStep \/ ApiStep \/ AppStep

Isr ==
    \/ \E t \in Tasks, evs \in UserEvents, d \in Delays : IsrStart(t, evs, d)
    \/ \E t \in Tasks, evs \in UserEvents : IsrStop(t, evs)
    \/ \E t \in Tasks, m \in Messages : IsrSend(t, m)

Next == Main \/ Tick \/ Isr

Spec == Init /\ [][Next]_vars

\* The main program runs whenever no interrupt does; a tick that finds interrupts
\* disabled stays pending and is taken when they are enabled again.
FairSpec == Spec /\ WF_vars(Main) /\ SF_vars(Tick)

-----------------------------------------------------------------------------
(* Properties.                                                               *)

\* The points at which llos.c does not honour an API call made by an interrupt,
\* whatever the hooks: between the two accesses of `pending = newEvents;
\* newEvents = 0`, while `pending` is only in a local variable, in the middle of
\* `oldEvents &= ~clearEvents`, and after the bit of an event has been read.
LosingPoints == {"takeClear", "mergeLoad", "mergeStore", "clearStore", "readTick"}

\* The points at which a message sent by an interrupt meets the previous one: from
\* where LLOS_Loop takes LL_EVENT_MSG to the LLOS_Msg_Clear of its callback.
MessagePoints == {"takeClear", "mergeLoad", "mergeStore", "scan", "readTick", "compare",
                  "receive", "msgClear"}

\* Interrupts make no API call, or there are hooks and the calls miss those points.
CallsAreHonoured == IsrCalls = {} \/ (CriticalHooks /\ LosingPoints \subseteq QuietAt)

Points == {"main"} \cup LoopPoints \cup StartPoints \cup StopPoints

\* Every variable keeps the type its C declaration gives it.
TypeOK ==
    /\ sysTick \in Ticks
    /\ taskIndex \in 0 .. TaskNum
    /\ newEvents \in [Tasks -> SUBSET Events]
    /\ oldEvents \in [Tasks -> SUBSET Events]
    /\ startTick \in [Tasks -> [Events -> Nat]]
    /\ msg_list \in [Tasks -> Messages \cup {NULL}]
    /\ pc \in Points
    /\ i \in Tasks /\ j \in Events
    /\ pending \subseteq Events /\ event \in BOOLEAN /\ deadline \in Nat
    /\ reg \subseteq Events /\ clear \subseteq Events
    /\ received \in Messages \cup {NULL}
    /\ call \in [task : Tasks, events : SUBSET Events, tick : Nat,
                 back : {"main", "callback"}]
    /\ calls \in 0 .. MaxCalls
    /\ want \in [Tasks -> [Events -> Nat \cup {Idle}]]
    /\ asked \in Nat \cup {Idle}

\* The requests for task t that are stored somewhere: in its table entry, in the
\* local copy LLOS_Loop has taken, or in a LLOS_Start_Event that is under way.
Taken(t)    == IF i = t THEN pending ELSE {}
Starting(t) == IF call.task = t /\ pc \in {"startLoad", "startStore"} THEN call.events ELSE {}
Stopping(t) == IF call.task = t /\ pc \in StopPoints THEN call.events ELSE {}
Held(t)     == newEvents[t] \cup oldEvents[t] \cup Taken(t)

\* A started event is never forgotten: until its callback clears it or someone
\* stops it, its bit is in newEvents, in oldEvents or in the loop's local copy
\* (llos.c:241-243, 258, 307).
NoLostStart ==
    \A t \in Tasks : \A e \in Events \ Stopping(t) :
        want[t][e] # Idle => e \in Held(t) \cup Starting(t)

\* A stopped or cleared event never comes back: every bit the scheduler holds
\* stands for a request that nobody has withdrawn since (llos.c:241-243, 258, 319-320).
NoGhostRequest ==
    \A t \in Tasks : \A e \in Held(t) : want[t][e] # Idle

\* A message callback is never handed NULL: when LL_EVENT_MSG runs, the mailbox
\* still holds a message (llos.c:416-418, 422-436).
MsgNotNull == pc = "msgClear" => received # NULL

\* A callback runs for a request, and not before its tick: when the loop dispatches
\* an event, the latest request for it had not been stopped when its startTick was
\* read, and its deadline has come (llos.c:241-253, 302, 319-320).
RunsAsRequested == [][Dispatch => asked # Idle /\ sysTick >= asked]_vars

Running(t, e) == pc \in {"receive", "callback"} /\ i = t /\ j = e

Cleared(t, e) == pc = "clearStore" /\ i = t /\ e \in clear

\* Every request on a registered task whose tick comes is run, unless it is first
\* replaced by another request, stopped, or cleared by what some callback returns
\* (llos.c:234-263).
EveryRequestRuns ==
    \A t \in Tasks, e \in Events, d \in Ticks :
        (want[t][e] = d /\ t < taskIndex) ~> (Running(t, e) \/ want[t][e] # d \/ Cleared(t, e))

=============================================================================
