-------------------------------- MODULE Key --------------------------------
(***************************************************************************)
(* The key driver of component/llos_key.c: LLOS_Key_Init in the main       *)
(* program, and LLOS_Key_Tick, which a software timer runs every Period    *)
(* milliseconds in the tick interrupt.  Ports are independent of each      *)
(* other: this is one of them, with one key.                               *)
(*                                                                         *)
(* A tick reads the pin more than once and the user may press or release   *)
(* the key between two reads.  A gesture is up to MaxClicks presses, each  *)
(* at least MinAge ticks after the release before it and as long itself,   *)
(* and over before the 16-bit pressTime wraps.                             *)
(***************************************************************************)
EXTENDS Integers

CONSTANTS
    Period,         \* keyTaskPeriod
    OverTime,       \* ll_overTime
    LongPressTime,  \* ll_longPressTime
    Limit,          \* at which pressTime wraps: 2^16
    MaxClicks,      \* the user: presses per gesture
    MinAge,         \* the user: ticks between two changes of the level
    MaxSpan         \* the user: ticks from the first press to the last release

ASSUME TimeAssumption ==
    /\ Period \in Nat \ {0} /\ OverTime \in Nat /\ OverTime > Period
    /\ LongPressTime \in Nat \ {0} /\ Limit \in Nat \ {0}
ASSUME UserAssumption ==
    /\ MaxClicks \in Nat \ {0} /\ MinAge \in Nat \ {0} /\ MaxSpan \in Nat
    /\ MaxSpan * Period + OverTime + Period < Limit

ll_key_event_NULL      == 0
ll_key_event_Click     == 1
ll_key_event_LongPress == 4

Blocks == {"which", "config", "fsm"}

VARIABLES
    ready, blocks,   \* is the driver published?  pool blocks it owns
    pc,              \* the step of LLOS_Key_Init that is next, or "idle"
    state, event, pressTime, flag,  \* FSM_value of the port
    which,           \* ll_keyWhich of the port: what callbacks are shown
    io,              \* is the key down?
    age,             \* history: ticks since it changed, as far as it matters
    clicks, span     \* history: presses of this gesture; ticks since the first

fsm     == <<state, event, pressTime, flag>>
user    == <<io, age>>
gesture == <<clicks, span>>
vars    == <<ready, blocks, pc, fsm, which, user, gesture>>

NoKey == [event |-> ll_key_event_NULL, pressTime |-> 0]

Init ==
    /\ ready = FALSE /\ blocks = {} /\ pc = "idle"
    /\ state = "up" /\ event = ll_key_event_NULL /\ pressTime = 0 /\ flag = FALSE
    /\ which = NoKey
    /\ io = FALSE /\ age = MinAge /\ clicks = 0 /\ span = 0

-----------------------------------------------------------------------------
(* LLOS_Key_Init with good parameters, again and again.                       *)

\* No tick touches the tables from here on, and the old ones are freed.
InitBegin ==
    /\ pc = "idle"
    /\ ready' = FALSE /\ blocks' = {} /\ pc' = "which"
    /\ clicks' = 0 /\ span' = 0
    /\ UNCHANGED <<fsm, which, user>>

AfterMalloc == [which |-> "config", config |-> "fsm", fsm |-> "timer"]

InitMalloc ==
    /\ pc \in Blocks
    /\ blocks' = blocks \cup {pc} /\ pc' = AfterMalloc[pc]
    /\ UNCHANGED <<ready, fsm, which, user, gesture>>

KeptOnFailure_which == blocks \cap {"which"}   \* mutant: one block is not freed
KeptOnFailure == {}

\* The pool is exhausted, or LLOS_Timer_Set refuses the timer.
InitFail ==
    /\ pc \in Blocks \cup {"timer"}
    /\ blocks' = KeptOnFailure /\ pc' = "idle"
    /\ UNCHANGED <<ready, fsm, which, user, gesture>>

InitTimer ==
    /\ pc = "timer" /\ pc' = "publish"
    /\ UNCHANGED <<ready, blocks, fsm, which, user, gesture>>

\* A key that is down now begins a gesture.
InitPublish ==
    /\ pc = "publish"
    /\ ready' = TRUE /\ pc' = "idle"
    /\ state' = "up" /\ event' = ll_key_event_NULL /\ pressTime' = 0 /\ flag' = FALSE
    /\ which' = NoKey
    /\ clicks' = IF io THEN 1 ELSE 0
    /\ span' = clicks' /\ age' = IF io THEN 1 ELSE age
    /\ UNCHANGED <<blocks, io>>

-----------------------------------------------------------------------------
(* The user, during one period: the level is `down` after it, and the first   *)
(* and the last read of the tick see the level before or after the change.    *)

MaxAge == OverTime \div Period + MinAge

User(down, first, last) ==
    /\ <<first, last>> \in {<<io, io>>, <<io, down>>, <<down, down>>}
    /\ down # io => age >= MinAge
    /\ down /\ ~io => clicks < MaxClicks /\ span + MinAge < MaxSpan
    /\ down => span < MaxSpan
    /\ io' = down
    /\ age' = IF down # io THEN 1 ELSE IF age < MaxAge THEN age + 1 ELSE age

\* `ends`: the gesture so far is reported, a press in this period begins another.
Gesture(down, ends) ==
    LET before == IF ends THEN 0 ELSE clicks
    IN  /\ clicks' = IF down /\ ~io THEN before + 1 ELSE before
        /\ span' = IF clicks' = 0 THEN 0 ELSE IF before = 0 THEN 1 ELSE span + 1

-----------------------------------------------------------------------------
(* LLOS_Key_Tick.                                                             *)

\* not initialised; the gesture goes unnoticed
TickIgnored(down) ==
    /\ ~ready
    /\ User(down, io, io)
    /\ UNCHANGED <<ready, blocks, pc, fsm, which, gesture>>

TickUp(down, first, last) ==
    /\ ready /\ state = "up"
    /\ User(down, first, last) /\ Gesture(down, FALSE)
    /\ flag' = FALSE
    /\ state' = IF first THEN "down" ELSE "up"
    /\ event' = IF first THEN ll_key_event_Click ELSE ll_key_event_NULL
    /\ UNCHANGED <<ready, blocks, pc, pressTime, which>>

Time == (pressTime + Period) % Limit

Over_early == Time >= OverTime   \* mutant: from the first press, not from the last
Over_late == pressTime >= which.pressTime + OverTime   \* mutant: before the period is added
Over == Time >= which.pressTime + OverTime

\* `if (IO_STATUS == pinState && flag == 1)`, with the flag as the tick has set it
CountClick(last, up) ==
    IF last /\ up THEN event' = event + 1 /\ flag' = FALSE
                  ELSE flag' = up /\ UNCHANGED event

TickHeld(down, first, last) ==
    /\ ready /\ state = "down" /\ first
    /\ User(down, first, last) /\ Gesture(down, FALSE)
    /\ pressTime' = Time
    /\ which' = [which EXCEPT !.pressTime = Time]
    /\ CountClick(last, flag)
    /\ UNCHANGED <<ready, blocks, pc, state>>

TickReleased(down, first, last) ==
    /\ ready /\ state = "down" /\ ~first /\ ~Over
    /\ User(down, first, last) /\ Gesture(down, FALSE)
    /\ pressTime' = Time
    /\ CountClick(last, TRUE)
    /\ UNCHANGED <<ready, blocks, pc, state, which>>

\* what the callback is told with isUp
Told == IF which.pressTime > LongPressTime THEN ll_key_event_LongPress ELSE event

Report(down, first, last) ==
    /\ ready /\ state = "down" /\ ~first /\ Over
    /\ User(down, first, last) /\ Gesture(down, TRUE)
    /\ state' = "up" /\ flag' = FALSE /\ pressTime' = 0
    /\ which' = [which EXCEPT !.event = Told]
    /\ UNCHANGED <<ready, blocks, pc, event>>

-----------------------------------------------------------------------------

Tick ==
    \E down, first, last \in BOOLEAN :
        \/ TickUp(down, first, last) \/ TickHeld(down, first, last)
        \/ TickReleased(down, first, last) \/ Report(down, first, last)

KeyInit == InitBegin \/ InitMalloc \/ InitFail \/ InitTimer \/ InitPublish

Next ==
    \/ Tick \/ KeyInit
    \/ \E down \in BOOLEAN : TickIgnored(down)

Spec == Init /\ [][Next]_vars

-----------------------------------------------------------------------------
(* Properties.                                                               *)

\* Every variable keeps its type, and the click counter never runs into
\* ll_key_event_LongPress, which is the next value of its enumeration.
TypeOK ==
    /\ ready \in BOOLEAN /\ blocks \subseteq Blocks
    /\ pc \in Blocks \cup {"idle", "timer", "publish"}
    /\ state \in {"up", "down"} /\ flag \in BOOLEAN
    /\ event \in ll_key_event_NULL .. ll_key_event_LongPress - 1
    /\ pressTime \in 0 .. Limit - 1
    /\ which \in [event : ll_key_event_NULL .. ll_key_event_LongPress, pressTime : 0 .. Limit - 1]
    /\ io \in BOOLEAN /\ age \in 1 .. MaxAge
    /\ clicks \in 0 .. MaxClicks /\ span \in Nat

\* Ticks from the first press to the last release of the gesture that is reported.
Touch == span - age
Ending == ready /\ state = "down" /\ state' = "up"

\* The report is right: it comes when the key has been up for the over time and not during a
\* gesture, says how often the key was pressed, and says long press if and only if the
\* gesture took longer than the threshold, up to the resolution of the polling
\* (llos_key.c:148-197).
ReportIsRight ==
    [][Ending =>
        /\ ~io /\ age * Period >= OverTime - Period
        /\ which'.event = ll_key_event_LongPress => Touch * Period > LongPressTime
        /\ which'.event # ll_key_event_LongPress =>
             which'.event = clicks /\ (Touch - 2) * Period <= LongPressTime]_vars

\* No gesture is forgotten: at the latest one period after the over time it has been
\* reported, and its clicks are never added to the next one's (llos_key.c:165-183).
ReportedInTime ==
    ready /\ clicks > 0 /\ ~io => age * Period < OverTime + Period

\* An initialisation that fails at any of its allocations, or at the timer, leaves no block
\* behind, and one that succeeds frees the blocks of the one before (llos_key.c:50-103).
NoLeak == pc = "idle" => blocks = IF ready THEN Blocks ELSE {}

\* Both of these, in every state: types and the click counter's limit, and no leak
\* (llos_key.c:50-103, 195-199).
Inv == TypeOK /\ NoLeak

=============================================================================
