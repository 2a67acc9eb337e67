--------------------------------- MODULE Led ---------------------------------
(***************************************************************************)
(* The LED driver of LLOS (component/llos_led.c): LLOS_LED_Init, _Set and  *)
(* _Blink, called by the main program, and LLOS_LED_Tick, which a software *)
(* timer calls from the tick interrupt.                                    *)
(*                                                                         *)
(* The LEDs share one output port, a set of pins, and each change of it is *)
(* a load and a store.  The main program and the interrupt also share the  *)
(* configuration, a block of the memory pool that every LLOS_LED_Init      *)
(* replaces.  Set and Blink run in a critical section if the integrator    *)
(* has registered the hooks for one.                                       *)
(***************************************************************************)
EXTENDS Integers, FiniteSets

CONSTANTS
    Leds,           \* indices into the configuration that have a port and a pin
    ActiveHigh,     \* the LEDs lit by a high pin
    Timers,         \* software timers LLOS_LED_Init is called with
    Periods,        \* polling periods LLOS_LED_Init is called with, in ms
    Blinks,         \* arguments of LLOS_LED_Blink: [num, duty, ms] with ms > 0
    Blocks,         \* blocks of the memory pool that may hold a configuration
    NULL,
    CriticalHooks,  \* are criticalEnter / criticalEXIT registered?
    MaxCalls        \* bound: calls of the main program

FOREVER == 255

ASSUME PortAssumption == ActiveHigh \subseteq Leds
ASSUME CallerAssumption ==
    /\ Periods \subseteq Nat \ {0}
    /\ Blinks \subseteq [num : 0 .. FOREVER, duty : 0 .. 255, ms : Nat \ {0}]
ASSUME HeapAssumption == NULL \notin Blocks
ASSUME BoundAssumption == MaxCalls \in Nat

VARIABLES
    ready, period,   \* ready and ledTaskPeriod
    config,          \* ll_led_config: the block that holds the configuration
    blink,           \* per LED, the ledBlink of that configuration
    port,            \* the LEDs whose pin is high
    heap,            \* the blocks in use
    running,         \* the software timers that call LLOS_LED_Tick
    pc,              \* the main program: what it does next
    arg,             \* its call: the LED or timer, and the other arguments
    block,           \* LLOS_LED_Init: oldConfig, then newConfig
    reg,             \* register between the load and the store of the port
    calls,           \* calls made so far
    want,            \* history: per LED, what was asked of it, its age in ticks, and in
                     \* how many ticks of the present cycle the LED was seen lit
    pacer            \* history: the timer of the last LLOS_LED_Init that succeeded

driver == <<ready, period, config, blink>>
vars == <<driver, port, heap, running, pc, arg, block, reg, calls, want, pacer>>

NoBlink == [num |-> 0, duty |-> 0, ms |-> 0, tick |-> 0]
NoArg   == [led |-> 0]

Lit(led) == (led \in port) <=> (led \in ActiveHigh)
Level(led, on) == IF on <=> (led \in ActiveHigh) THEN {led} ELSE {}

Init ==
    /\ ready = FALSE /\ period = 0
    /\ config = NULL
    /\ blink = [led \in Leds |-> NoBlink]
    /\ port \in SUBSET Leds
    /\ heap = {} /\ running = {}
    /\ pc = "main" /\ arg = NoArg /\ block = NULL /\ reg = {} /\ calls = 0
    /\ pacer = NULL
    /\ want = [led \in Leds |-> [num |-> 0, duty |-> 0, ms |-> 0, age |-> 0, lit |-> 0, on |-> Lit(led)]]

Call(point, a) ==
    /\ pc = "main" /\ calls < MaxCalls
    /\ pc' = point /\ arg' = a /\ calls' = calls + 1

Back == pc' = "main" /\ arg' = NoArg /\ block' = NULL /\ reg' = {} /\ UNCHANGED calls

-----------------------------------------------------------------------------
(* LLOS_LED_Init replaces the configuration.                                 *)

\* the LEDs stay as they are until they are set again
Frozen == [led \in Leds |->
             [num |-> 0, duty |-> 0, ms |-> 0, age |-> 0, lit |-> 0, on |-> Lit(led)]]

\* the old configuration is taken away from LLOS_LED_Tick
InitTake(timer, ms) ==
    /\ Call("free", [timer |-> timer, ms |-> ms])
    /\ ready' = FALSE
    /\ block' = config
    /\ config' = NULL
    /\ want' = Frozen
    /\ UNCHANGED <<period, blink, port, heap, running, reg, pacer>>

Freed_none == heap    \* mutant: the old configuration is never freed
Freed == heap \ {block}

InitFree ==
    /\ pc = "free"
    /\ heap' = Freed
    /\ pc' = "malloc" /\ block' = NULL
    /\ UNCHANGED <<driver, port, running, arg, reg, calls, want, pacer>>

InitMalloc ==
    /\ pc = "malloc"
    /\ \E b \in Blocks \ heap :
         /\ heap' = heap \cup {b} /\ block' = b
         /\ pc' = "timer" /\ UNCHANGED <<arg, reg, calls>>
    /\ UNCHANGED <<driver, port, running, want, pacer>>

InitMallocFails ==
    /\ pc = "malloc"
    /\ Back
    /\ UNCHANGED <<driver, port, heap, running, want, pacer>>

\* LLOS_Timer_Set starts the periodic timer, or refuses its number.
InitTimer ==
    /\ pc = "timer"
    /\ running' = running \cup {arg.timer}
    /\ pc' = "publish"
    /\ UNCHANGED <<driver, port, heap, arg, block, reg, calls, want, pacer>>

Returned == heap \ {block}

InitTimerFails ==
    /\ pc = "timer"
    /\ heap' = Returned
    /\ config' = NULL /\ ready' = FALSE
    /\ Back
    /\ UNCHANGED <<period, blink, port, running, want, pacer>>

\* The copy of the caller's configuration, in which nothing blinks, is published.
InitPublish ==
    /\ pc = "publish"
    /\ period' = arg.ms
    /\ config' = block
    /\ blink' = [led \in Leds |-> NoBlink]
    /\ ready' = TRUE
    /\ Back
    /\ pacer' = arg.timer
    /\ UNCHANGED <<port, heap, running, want>>

-----------------------------------------------------------------------------
(* LLOS_LED_Set and LLOS_LED_Blink; without a configuration they do nothing. *)

Usable == ready /\ config # NULL

\* blinking stops, and the port is loaded
SetStop(led, mode) ==
    /\ Usable
    /\ Call("store", [led |-> led, mode |-> mode])
    /\ blink' = [blink EXCEPT ![led].num = 0]
    /\ reg' = port
    /\ UNCHANGED <<ready, period, config, port, heap, running, block, want, pacer>>

Other(led) == IF led \in reg THEN {} ELSE {led}

\* the pin of the LED as it is written for each mode
Driven(led, mode) ==
    CASE mode = "on"     -> Level(led, TRUE)
      [] mode = "off"    -> Level(led, FALSE)
      [] mode = "toggle" -> Other(led)

SetStore ==
    /\ pc = "store"
    /\ port' = (reg \ {arg.led}) \cup Driven(arg.led, arg.mode)
    /\ want' = [want EXCEPT ![arg.led] =
                  [num |-> 0, duty |-> 0, ms |-> 0, age |-> 0, lit |-> 0,
                   on |-> CASE arg.mode = "on" -> TRUE
                            [] arg.mode = "off" -> FALSE
                            [] arg.mode = "toggle" -> ~Lit(arg.led)]]
    /\ Back
    /\ UNCHANGED <<driver, heap, running, pacer>>

\* num is stored first, then duty (at most 100), ms and tick
BlinkNum(led, b) ==
    /\ Usable
    /\ Call("blink", [led |-> led, blink |-> b])
    /\ blink' = [blink EXCEPT ![led].num = b.num]
    /\ UNCHANGED <<ready, period, config, port, heap, running, block, reg, want, pacer>>

Limited(duty) == IF duty > 100 THEN 100 ELSE duty

BlinkRest ==
    /\ pc = "blink"
    /\ LET led == arg.led
           b == arg.blink IN
       /\ blink' = [blink EXCEPT ![led].duty = Limited(b.duty), ![led].ms = b.ms,
                                 ![led].tick = 0]
       /\ want' = [want EXCEPT ![led] = [num |-> b.num, duty |-> Limited(b.duty),
                                         ms |-> b.ms, age |-> 0, lit |-> 0, on |-> Lit(led)]]
    /\ Back
    /\ UNCHANGED <<ready, period, config, port, heap, running, pacer>>

-----------------------------------------------------------------------------
(* LLOS_LED_Tick, in the tick interrupt.                                     *)

Interruptible == ~CriticalHooks \/ pc \notin {"store", "blink"}

High(b) == (b.ms * b.duty) \div 100
LeftAfter(num) == IF num < FOREVER THEN num - 1 ELSE num

\* one LED, one tick later
Stepped_over(b) ==   \* mutant: the cycle ends a tick late if periods make up its time exactly
    IF b.num = 0 THEN b
    ELSE IF (b.tick + 1) * period > b.ms
           THEN [b EXCEPT !.tick = 0, !.num = LeftAfter(@)]
           ELSE [b EXCEPT !.tick = @ + 1]
Stepped(b) ==
    IF b.num = 0 THEN b
    ELSE IF (b.tick + 1) * period >= b.ms
           THEN [b EXCEPT !.tick = 0, !.num = LeftAfter(@)]
           ELSE [b EXCEPT !.tick = @ + 1]

\* tick was advanced before it is compared
Shown(b) == (b.tick + 1) * period < High(b)

\* what was asked for, one period later: ceil(ms / period) ticks make a cycle
Cycle(w) == (w.ms + period - 1) \div period
Going(w) == w.num # 0 /\ (w.num = FOREVER \/ w.age < w.num * Cycle(w))
Aged(w) ==
    IF ~Going(w) THEN w
    ELSE [w EXCEPT !.age = IF w.num = FOREVER THEN (@ % Cycle(w)) + 1 ELSE @ + 1]

\* what was seen of it: an LED that is on after this tick stays so until the next
LitFrom(w) == IF w.age % Cycle(w) = 0 THEN 0 ELSE w.lit
Seen(w, on) ==
    IF Going(w) THEN [Aged(w) EXCEPT !.lit = LitFrom(w) + IF on THEN 1 ELSE 0] ELSE w

Tick(timer) ==
    /\ Interruptible
    /\ timer \in running /\ Usable
    /\ blink' = [led \in Leds |-> Stepped(blink[led])]
    /\ port' = UNION {IF blink[led].num = 0 THEN port \cap {led}
                      ELSE Level(led, Shown(blink[led])) : led \in Leds}
    /\ want' = IF timer = pacer THEN [led \in Leds |-> Seen(want[led], Lit(led)')] ELSE want
    /\ UNCHANGED <<ready, period, config, heap, running, pc, arg, block, reg, calls, pacer>>

Next ==
    \/ \E t \in Timers, ms \in Periods : InitTake(t, ms)
    \/ InitFree \/ InitMalloc \/ InitMallocFails \/ InitTimer \/ InitTimerFails \/ InitPublish
    \/ \E led \in Leds :
         \/ \E mode \in {"on", "off", "toggle"} : SetStop(led, mode)
         \/ \E b \in Blinks : BlinkNum(led, b)
    \/ SetStore \/ BlinkRest
    \/ \E t \in Timers : Tick(t)

Spec == Init /\ [][Next]_vars

-----------------------------------------------------------------------------
(* Properties.                                                               *)

\* Every variable holds what the C declaration of its counterpart allows.
TypeOK ==
    /\ ready \in BOOLEAN /\ period \in Periods \cup {0}
    /\ config \in Blocks \cup {NULL} /\ block \in Blocks \cup {NULL}
    /\ \A led \in Leds : blink[led].num \in 0 .. FOREVER /\ blink[led].duty \in 0 .. 100
    /\ port \subseteq Leds /\ reg \subseteq Leds
    /\ heap \subseteq Blocks /\ running \subseteq Timers /\ pacer \in running \cup {NULL}
    /\ pc \in {"main", "free", "malloc", "timer", "publish", "store", "blink"}
    /\ calls \in 0 .. MaxCalls

\* the tick of its cycle a blinking LED is in, from 1, and whether it has blinked for good
Place(w) == ((w.age - 1) % Cycle(w)) + 1
Over(w) == w.num < FOREVER /\ w.age = w.num * Cycle(w)

\* Between two calls every LED shows what was last asked of it: on or off; while it
\* blinks, lit at most once in each cycle, from its start, and off for good after the number
\* of blinks asked for.  Polling rounds the time it is lit in a cycle, lit * period: it is
\* never longer than duty percent of ms, and shorter by less than a period and a ms.
\* (If duty percent of ms is a number of whole periods, it is shorter by one of them, because
\* tick is advanced before it is compared, llos_led.c:174-179: with a duty of 100 the last tick
\* of every cycle is dark, and with 50 percent of two periods the LED is never lit.
\* llos_led.h:80 warns that the polling period affects the duty.)
ShowsAsAsked ==
    pc = "main" => \A led \in Leds :
        LET w == want[led] IN
        IF w.num = 0 \/ w.age = 0 THEN Lit(led) <=> w.on
        ELSE /\ Lit(led) => w.lit = Place(w)
             /\ 100 * (w.lit * period) <= w.ms * w.duty
             /\ Place(w) = Cycle(w) => w.ms * w.duty < 100 * ((w.lit + 1) * period + 1)
             /\ Over(w) => ~Lit(led)

\* Between two calls the pool holds the published configuration and nothing else
\* of the driver, and the interrupt never works on a block that was freed, through
\* every re-initialisation and failure of it (llos_led.c:24-56).
OwnsItsConfig ==
    /\ pc = "main" => heap = {config} \ {NULL}
    /\ ready => config \in heap

\* Both of these, in every state: types, and no block lost or used after it was freed
\* (llos_led.c:24-56).
Inv == TypeOK /\ OwnsItsConfig
=============================================================================
