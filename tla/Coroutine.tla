------------------------------ MODULE Coroutine ------------------------------
(***************************************************************************)
(* The stackless coroutines of LLOS: the macros of kernel/llos_coroutine.h,*)
(* LLOS_Coroutine_Register / _SetEvents / _ClearEvents / _WaitEventReady,  *)
(* the second half of LLOS_Loop, which resumes every coroutine once a      *)
(* pass, and the CPU accounting of that loop (kernel/llos.c).              *)
(*                                                                         *)
(* What a coroutine does between two macros is unknown to the kernel: in   *)
(* the model it may call the API and then reach any macro.                 *)
(*                                                                         *)
(* Nothing here is a critical section.  The main program can be            *)
(* interrupted between the load and the store of every |= and &=.  The     *)
(* words they work on are numbered: 0 is ll_coroutine_events, k is the     *)
(* pendingEvents of the k-th registered task.                              *)
(***************************************************************************)
EXTENDS Integers, Sequences

CONSTANTS
    Coroutines,   \* contexts (struct ll_coroutine_ctx_t)
    TasksMax,     \* LL_COROUTINES_MAX
    Events,       \* event bits in use
    Masks,        \* masks that WaitEvent is called with, all different from {}
    Delays,       \* ticks that Sleep and WaitTimeout ask for
    QuietAt,      \* points of the main program at which no interrupt sets events
    Window,       \* ticks between two evaluations of the CPU usage; 1000
    MaxTick,      \* bound: sysTick stays within 0..MaxTick
    MaxCalls      \* bound: API calls from one pass's end to the next one's

ASSUME TableAssumption == TasksMax \in Nat
ASSUME CallerAssumption == Masks \subseteq SUBSET Events /\ Delays \subseteq Nat /\ Window \in Nat
ASSUME BoundAssumption == MaxTick \in Nat /\ MaxCalls \in Nat

Words == 0 .. TasksMax
Ticks == 0 .. MaxTick

VARIABLES
    sysTick,
    tasks,        \* the contexts in ll_coroutine_tasks[0 .. count-1]
    word,         \* the event words
    ctx,          \* per context: where its coroutine waits, until when, for what
    pc,           \* the main program: what it does next
    i,            \* LLOS_Loop: the task it is at
    k,            \* the word an API call works on
    reg,          \* register between the load and the store of a word
    call,         \* the API call of the main program
    calls,        \* API calls made since the last pass ended
    cpu,          \* tempAll, tempBusy, ticksAll, ticksBusy, cpuUsageTick
    owed,         \* history: per word, events set and neither cleared nor reported
    due           \* history: contexts ready when the pass began, not yet resumed

kernel == <<tasks, word, ctx>>
api    == <<k, reg, call, calls>>
vars   == <<sysTick, kernel, pc, i, api, cpu, owed, due>>

Count == Len(tasks)
Running == tasks[i]
NoCall == [ctx |-> 0, events |-> {}, back |-> "main"]

\* A context.  wakeTick and eventMask mean something only in the states that
\* test them; elsewhere the model holds 0 and {}.
Context(state, wakeTick, eventMask) ==
    [state |-> state, wakeTick |-> wakeTick, eventMask |-> eventMask]
Fresh == Context("start", 0, {})

Init ==
    /\ sysTick = 0
    /\ tasks = <<>>
    /\ word = [w \in Words |-> {}]
    /\ ctx = [c \in Coroutines |-> Fresh]
    /\ pc = "main" /\ i = 0
    /\ k = 0 /\ reg = {} /\ call = NoCall /\ calls = 0
    /\ cpu = [tempAll |-> 0, tempBusy |-> 0, ticksAll |-> 1, ticksBusy |-> 0, tick |-> 0]
    /\ owed = [w \in Words |-> {}]
    /\ due = {}

-----------------------------------------------------------------------------
(* API calls, made by main() between two passes or by a resumed coroutine.   *)

CanCall == pc \in {"main", "run"} /\ calls < MaxCalls

Enter(point, c, evs) ==
    /\ CanCall
    /\ pc' = point
    /\ call' = [ctx |-> c, events |-> evs, back |-> pc]
    /\ calls' = calls + 1
    /\ k' = 0 /\ reg' = {}
    /\ UNCHANGED <<sysTick, kernel, i, cpu, owed, due>>

Leave == pc' = call.back /\ call' = NoCall /\ k' = 0 /\ reg' = {} /\ UNCHANGED calls

\* the load of word k
Load(from, to) ==
    /\ pc = from
    /\ reg' = word[k]
    /\ pc' = to
    /\ UNCHANGED <<sysTick, kernel, i, k, call, calls, cpu, owed, due>>

\* the next word of LLOS_Coroutine_SetEvents / _ClearEvents, or its end
NextWord(point) ==
    \/ k < Count /\ k' = k + 1 /\ reg' = {} /\ pc' = point /\ UNCHANGED <<call, calls>>
    \/ k = Count /\ Leave

\* LLOS_Coroutine_Register; with a full table it changes nothing.  A context may
\* be registered again, and starts from its beginning.
FullTable_late == Count > TasksMax   \* mutant: off by one
FullTable == Count >= TasksMax

Register(c) == ~FullTable /\ Enter("register", c, {})

RegisterLoad == Load("register", "registerStore")

Inherited_nothing == {}   \* mutant: events that are set already are not seen
Inherited == reg

\* The stores of the entry, of the number of tasks and of the state are one step: before the
\* number is stored an interrupt that sets events does not reach the entry, as before them all,
\* and after it the interrupt does, as after them all; it never looks at the state.
RegisterStore ==
    /\ pc = "registerStore"
    /\ tasks' = Append(tasks, call.ctx)
    /\ word' = [word EXCEPT ![Count + 1] = Inherited]
    /\ ctx' = [ctx EXCEPT ![call.ctx] = Fresh]
    /\ owed' = [owed EXCEPT ![Count + 1] = owed[0]]
    /\ Leave
    /\ UNCHANGED <<sysTick, i, cpu, due>>

\* LLOS_Coroutine_SetEvents
SetEvents(evs) == Enter("setLoad", 0, evs)

SetLoad == Load("setLoad", "setStore")

SetStore ==
    /\ pc = "setStore"
    /\ word' = [word EXCEPT ![k] = reg \cup call.events]
    /\ owed' = [owed EXCEPT ![k] = @ \cup call.events]
    /\ NextWord("setLoad")
    /\ UNCHANGED <<sysTick, tasks, ctx, i, cpu, due>>

Registered == {tasks[w] : w \in 1 .. Count}

\* the first task of context c: the one whose events its coroutine waits for
FirstTask(c) == CHOOSE w \in 1 .. Count :
                    tasks[w] = c /\ \A v \in 1 .. w - 1 : tasks[v] # c

EventOwed(c) == ctx[c].state = "event" /\ owed[FirstTask(c)] \cap ctx[c].eventMask # {}

\* Is there a reason to go on for the coroutine of context c?
Ready(c) ==
    \/ ctx[c].state \in {"start", "yield"}
    \/ ctx[c].state \in {"sleep", "timeout"} /\ sysTick >= ctx[c].wakeTick
    \/ EventOwed(c)

\* LLOS_Coroutine_ClearEvents
ClearEvents(evs) == Enter("clearLoad", 0, evs)

ClearLoad == Load("clearLoad", "clearStore")

ClearStore ==
    /\ pc = "clearStore"
    /\ word' = [word EXCEPT ![k] = reg \ call.events]
    /\ owed' = [owed EXCEPT ![k] = @ \ call.events]
    /\ NextWord("clearLoad")
    /\ UNCHANGED <<sysTick, tasks, ctx, i, cpu>>
    /\ due' = {c \in due : Ready(c)'}

\* LLOS_CR_Reset
Reset(c) ==
    /\ CanCall
    /\ ctx' = [ctx EXCEPT ![c] = Fresh]
    /\ calls' = calls + 1
    /\ UNCHANGED <<sysTick, tasks, word, pc, i, k, reg, call, cpu, owed, due>>

-----------------------------------------------------------------------------
(* LLOS_Loop resumes the tasks in the order of their registration.           *)

LoopBegin ==
    /\ pc = "main"
    /\ pc' = "loop" /\ i' = 1
    /\ cpu' = [cpu EXCEPT !.tempAll = sysTick]
    /\ due' = {c \in Registered : Ready(c)}
    /\ UNCHANGED <<sysTick, kernel, api, owed>>

Finished == ctx[Running].state = "end"

PassOver ==
    /\ pc = "loop" /\ i <= Count /\ Finished
    /\ i' = i + 1
    /\ UNCHANGED <<sysTick, kernel, pc, api, cpu, owed, due>>

BusyFrom_loop == cpu.tempAll   \* mutant: tempBusy is not read anew
BusyFrom == sysTick

Resume ==
    /\ pc = "loop" /\ i <= Count /\ ~Finished
    /\ cpu' = [cpu EXCEPT !.tempBusy = BusyFrom]
    /\ pc' = IF ctx[Running].state = "event" THEN "wait" ELSE "test"
    /\ UNCHANGED <<sysTick, kernel, i, api, owed, due>>

\* the coroutine goes on behind its macro, or returns to the loop at once
GoOn   == pc' = "run" /\ due' = due \ {Running}
Return == pc' = "return" /\ UNCHANGED due

Asleep_long == sysTick <= ctx[Running].wakeTick  \* mutant: one tick too long
Asleep == sysTick < ctx[Running].wakeTick

\* The test a macro makes when its coroutine is resumed.  The condition of
\* WaitUntil and WaitTimeout is the application's and may be anything.
Test ==
    /\ pc = "test"
    /\ LET state == ctx[Running].state IN
       \/ state \in {"start", "yield", "until"} /\ GoOn
       \/ state = "sleep" /\ ~Asleep /\ GoOn
       \/ state = "sleep" /\ Asleep /\ Return
       \/ state = "timeout" /\ GoOn
       \/ state = "timeout" /\ Asleep /\ Return
       \/ state = "until" /\ Return
    /\ UNCHANGED <<sysTick, kernel, i, api, cpu, owed>>

\* LLOS_Coroutine_WaitEventReady works on the first task that has this context;
\* pendingEvents is read once, and written after that.
WaitLoad ==
    /\ pc = "wait"
    /\ k' = FirstTask(Running)
    /\ reg' = word[FirstTask(Running)]
    /\ pc' = "waitStore"
    /\ UNCHANGED <<sysTick, kernel, i, call, calls, cpu, owed, due>>

Consumed_all == reg                        \* mutant: events not waited for are cleared
Consumed == reg \cap ctx[Running].eventMask

WaitStore ==
    /\ pc = "waitStore"
    /\ word' = [word EXCEPT ![k] = reg \ Consumed]
    /\ LET reported == reg \cap ctx[Running].eventMask IN
       /\ owed' = [owed EXCEPT ![k] = @ \ reported]
       /\ IF reported # {} THEN pc' = "run" ELSE pc' = "return"
       /\ due' = IF reported # {} THEN due \ {Running} ELSE due
    /\ k' = 0 /\ reg' = {}
    /\ UNCHANGED <<sysTick, tasks, ctx, i, call, calls, cpu>>

\* The coroutine reaches its next macro and returns.
Reach(x) ==
    /\ pc = "run"
    /\ ctx' = [ctx EXCEPT ![Running] = x]
    /\ pc' = "return"
    /\ UNCHANGED <<sysTick, tasks, word, i, api, cpu, owed, due>>

Yield         == Reach(Context("yield", 0, {}))
Sleep(d)      == Reach(Context("sleep", sysTick + d, {}))
WaitEvent(m)  == Reach(Context("event", 0, m))
WaitUntil     == Reach(Context("until", 0, {}))
WaitTimeout(d) == Reach(Context("timeout", sysTick + d, {}))
End           == Reach(Context("end", 0, {}))

\* back in the loop: the time of this coroutine, and the next task
Returned ==
    /\ pc = "return"
    /\ cpu' = [cpu EXCEPT !.ticksBusy = @ + sysTick - cpu.tempBusy, !.tempBusy = 0]
    /\ i' = i + 1
    /\ pc' = "loop"
    /\ UNCHANGED <<sysTick, kernel, api, owed, due>>

\* the end of the pass: the time of the whole loop, and the usage it yields
LoopEnd ==
    /\ pc = "loop" /\ i > Count
    /\ LET all == cpu.ticksAll + sysTick - cpu.tempAll IN
       cpu' = IF cpu.tick > Window
                THEN [tempAll |-> 0, tempBusy |-> 0, ticksAll |-> 1, ticksBusy |-> 0, tick |-> 0]
                ELSE [cpu EXCEPT !.ticksAll = all, !.tempAll = 0]
    /\ pc' = "main" /\ i' = 0 /\ calls' = 0
    /\ UNCHANGED <<sysTick, kernel, k, reg, call, owed, due>>

-----------------------------------------------------------------------------
(* Interrupts run to completion between two steps of the main program.       *)

Tick ==
    /\ sysTick < MaxTick
    /\ sysTick' = sysTick + 1
    /\ cpu' = [cpu EXCEPT !.tick = @ + 1]
    /\ UNCHANGED <<kernel, pc, i, api, owed, due>>

InterruptSets(evs) ==
    /\ pc \notin QuietAt
    /\ word' = [w \in Words |-> IF w <= Count THEN word[w] \cup evs ELSE word[w]]
    /\ owed' = [w \in Words |-> IF w <= Count THEN owed[w] \cup evs ELSE owed[w]]
    /\ UNCHANGED <<sysTick, tasks, ctx, pc, i, api, cpu, due>>

Call ==
    \/ \E c \in Coroutines : Register(c) \/ Reset(c)
    \/ \E e \in Events : SetEvents({e}) \/ ClearEvents({e})

Macro ==
    \/ Yield \/ WaitUntil \/ End
    \/ \E d \in Delays : sysTick + d <= MaxTick /\ (Sleep(d) \/ WaitTimeout(d))
    \/ \E m \in Masks : WaitEvent(m)

Main ==
    \/ Call \/ RegisterLoad \/ RegisterStore
    \/ SetLoad \/ SetStore \/ ClearLoad \/ ClearStore
    \/ LoopBegin \/ PassOver \/ Resume \/ Test \/ WaitLoad \/ WaitStore
    \/ Macro \/ Returned \/ LoopEnd

Interrupt == Tick \/ \E e \in Events : InterruptSets({e})

Next == Main \/ Interrupt

\* The processor runs the main program, and the tick timer is hardware.
Fairness == WF_vars(Main) /\ WF_vars(Tick)

Spec == Init /\ [][Next]_vars /\ Fairness

-----------------------------------------------------------------------------
(* Properties.                                                               *)

Points == {"main", "loop", "test", "wait", "waitStore", "run", "return", "register",
           "registerStore", "setLoad", "setStore", "clearLoad", "clearStore"}
States == {"start", "yield", "sleep", "event", "until", "timeout", "end"}

\* Every variable holds what the C declaration of its counterpart allows; the
\* table never holds more tasks than LL_COROUTINES_MAX (llos.c:67).
TypeOK ==
    /\ sysTick \in Ticks
    /\ Count <= TasksMax /\ Registered \subseteq Coroutines
    /\ word \in [Words -> SUBSET Events] /\ owed \in [Words -> SUBSET Events]
    /\ ctx \in [Coroutines -> [state : States, wakeTick : Ticks, eventMask : SUBSET Events]]
    /\ pc \in Points /\ i \in 0 .. TasksMax + 1 /\ k \in 0 .. Count
    /\ reg \subseteq Events /\ call.events \subseteq Events /\ calls \in 0 .. MaxCalls
    /\ due \subseteq Coroutines

\* No wake-up is lost and none is made up: the event words hold just the events
\* that were set and since then neither cleared nor reported to the coroutine
\* (llos.c:72-104), provided no interrupt sets events at one of QuietAt.
EventsExact == \A w \in 0 .. Count : word[w] = owed[w]

\* One pass of LLOS_Loop (llos.c:267-275) resumes every coroutine that had a
\* reason to go on when it began: no sleeper oversleeps by a pass, no event
\* waits for the next one.
NonePassedOver == pc = "main" => due = {}

\* The coroutines are never charged more time than the passes took, so the usage
\* is below 100 before it is cut off there (llos.c:233, 272-286).
BusyWithinAll == pc = "loop" => cpu.ticksBusy < cpu.ticksAll + sysTick - cpu.tempAll

\* A registered coroutine that sleeps wakes up, and one whose event was set goes
\* on unless the event is cleared first.
EveryoneWakes ==
    \A c \in Coroutines :
        /\ (c \in Registered /\ ctx[c].state = "sleep") ~> (ctx[c].state # "sleep")
        /\ (c \in Registered /\ EventOwed(c)) ~> ~EventOwed(c)

=============================================================================
