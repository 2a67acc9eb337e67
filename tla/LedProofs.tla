------------------------------ MODULE LedProofs ------------------------------
(***************************************************************************)
(* What TLC checks of Led on two LEDs and two blocks of the pool, proved   *)
(* for any number of LEDs, blocks, periods and patterns.                   *)
(***************************************************************************)
EXTENDS Led, TLAPS

LEMMA LedFacts ==
    /\ ActiveHigh \subseteq Leds /\ Periods \subseteq Nat \ {0} /\ NULL \notin Blocks
    /\ MaxCalls \in Nat
    /\ \A b \in Blinks : b.num \in 0 .. 255 /\ b.duty \in 0 .. 255 /\ b.ms \in Nat \ {0}
BY PortAssumption, CallerAssumption, HeapAssumption, BoundAssumption DEF FOREVER

-----------------------------------------------------------------------------
(* The configuration.                                                        *)

BlinkRecords == [num : 0 .. 255, duty : 0 .. 100, ms : Nat, tick : Nat]

Types == TypeOK /\ blink \in [Leds -> BlinkRecords]

\* The driver is in no LLOS_LED_Init.
Serving == pc \in {"main", "store", "blink"}

ArgInv ==
    /\ ~Serving => arg.timer \in Timers /\ arg.ms \in Periods
    /\ pc \in {"store", "blink"} => arg.led \in Leds
    /\ pc = "store" => arg.mode \in {"on", "off", "toggle"}
    /\ pc = "blink" => arg.blink \in Blinks

\* Which block is in use at each step of an initialisation, and who knows of it.
HeapInv ==
    /\ Serving => heap = {config} \ {NULL} /\ block = NULL
    /\ ~Serving => ~ready /\ config = NULL
    /\ pc = "free" => heap = {block} \ {NULL}
    /\ pc = "malloc" => heap = {} /\ block = NULL
    /\ pc \in {"timer", "publish"} => heap = {block} /\ block # NULL

\* A driver that is ready has what LLOS_LED_Tick needs.
ReadyInv ==
    /\ pc = "publish" => arg.timer \in running
    /\ pc \in {"store", "blink"} => ready
    /\ ready => config # NULL /\ period \in Periods /\ pacer \in running

OwnInv == Types /\ ArgInv /\ HeapInv /\ ReadyInv

LEMMA NoBlinkType == NoBlink \in BlinkRecords
BY DEF NoBlink, BlinkRecords

LEMMA BlinkTypes ==
    ASSUME NEW f \in [Leds -> BlinkRecords]
    PROVE  \A led \in Leds : f[led].num \in 0 .. FOREVER /\ f[led].duty \in 0 .. 100
BY DEF BlinkRecords, FOREVER

LEMMA LimitedType == ASSUME NEW d \in 0 .. 255 PROVE Limited(d) \in 0 .. 100
BY DEF Limited

LEMMA SteppedType == ASSUME NEW b \in BlinkRecords PROVE Stepped(b) \in BlinkRecords
<1> DEFINE full == (b.tick + 1) * period >= b.ms
<1>1. b.num \in 0 .. 255 /\ b.tick \in Nat
  BY DEF BlinkRecords
<1>2. Stepped(b) = IF b.num = 0 THEN b
                   ELSE IF full THEN [b EXCEPT !.tick = 0, !.num = LeftAfter(@)]
                                ELSE [b EXCEPT !.tick = @ + 1]
  BY DEF Stepped
<1> HIDE DEF full
<1>3. CASE b.num = 0
  BY <1>2, <1>3
<1>4. CASE b.num # 0 /\ full
  <2>1. LeftAfter(b.num) \in 0 .. 255
    BY <1>1, <1>4 DEF LeftAfter, FOREVER
  <2> DEFINE c == [b EXCEPT !.tick = 0]
  <2>2. Stepped(b) = [c EXCEPT !.num = LeftAfter(@)]
    BY <1>2, <1>4
  <2>3. c \in BlinkRecords /\ c.num = b.num
    BY DEF BlinkRecords
  <2> HIDE DEF c
  <2> QED
    BY <2>1, <2>2, <2>3 DEF BlinkRecords
<1>5. CASE b.num # 0 /\ ~full
  BY <1>1, <1>2, <1>5 DEF BlinkRecords
<1> QED
  BY <1>3, <1>4, <1>5

LEMMA InitOwn == Init => OwnInv
<1> SUFFICES ASSUME Init PROVE OwnInv
  OBVIOUS
<1>1. blink \in [Leds -> BlinkRecords]
  BY NoBlinkType DEF Init
<1>2. \A led \in Leds : blink[led].num \in 0 .. FOREVER /\ blink[led].duty \in 0 .. 100
  BY <1>1, BlinkTypes
<1>3. 0 \in 0 .. MaxCalls
  BY LedFacts
<1>4. TypeOK
  BY <1>2, <1>3 DEF Init, TypeOK
<1> QED
  BY <1>1, <1>4, LedFacts DEF Init, OwnInv, Types, Serving, ArgInv, HeapInv, ReadyInv

LEMMA InitStepOwns ==
    ASSUME OwnInv,
           \/ \E t \in Timers, ms \in Periods : InitTake(t, ms)
           \/ InitFree \/ InitMalloc \/ InitMallocFails \/ InitTimer \/ InitTimerFails \/ InitPublish
    PROVE  OwnInv'
<1> USE DEF OwnInv, Types, Serving
<1>1. CASE \E t \in Timers, ms \in Periods : InitTake(t, ms)
  <2>1. PICK t \in Timers, ms \in Periods : InitTake(t, ms)
    BY <1>1
  <2>2. arg' = [timer |-> t, ms |-> ms] /\ calls' \in 0 .. MaxCalls
    BY <2>1, LedFacts DEF InitTake, Call, TypeOK
  <2>3. arg'.timer \in Timers /\ arg'.ms \in Periods
    BY <2>2
  <2>4. /\ pc' = "free" /\ ready' = FALSE /\ config' = NULL /\ block' = config /\ pc = "main"
        /\ UNCHANGED <<period, blink, port, heap, running, reg, pacer>>
    BY <2>1 DEF InitTake, Call
  <2>5. Types'
    BY <2>2, <2>4 DEF TypeOK
  <2>6. ArgInv' /\ HeapInv' /\ ReadyInv'
    BY <2>3, <2>4 DEF ArgInv, HeapInv, ReadyInv
  <2> QED
    BY <2>5, <2>6
<1>2. CASE InitFree
  BY <1>2, LedFacts DEF InitFree, Freed, driver, TypeOK, ArgInv, HeapInv, ReadyInv
<1>3. CASE InitMalloc
  BY <1>3, LedFacts DEF InitMalloc, driver, TypeOK, ArgInv, HeapInv, ReadyInv
<1>4. CASE InitMallocFails
  BY <1>4, LedFacts DEF InitMallocFails, Back, driver, TypeOK, ArgInv, HeapInv, ReadyInv
<1>5. CASE InitTimer
  BY <1>5, LedFacts DEF InitTimer, driver, TypeOK, ArgInv, HeapInv, ReadyInv
<1>6. CASE InitTimerFails
  <2>1. /\ pc = "timer" /\ pc' = "main" /\ ready' = FALSE /\ config' = NULL /\ block' = NULL
        /\ heap' = heap \ {block} /\ reg' = {}
        /\ UNCHANGED <<period, blink, port, running, pacer, calls>>
    BY <1>6 DEF InitTimerFails, Returned, Back
  <2>2. Types'
    BY <2>1 DEF TypeOK
  <2>3. ArgInv' /\ HeapInv' /\ ReadyInv'
    BY <2>1 DEF ArgInv, HeapInv, ReadyInv
  <2> QED
    BY <2>2, <2>3
<1>7. CASE InitPublish
  <2>1. blink' \in [Leds -> BlinkRecords]
    BY <1>7, NoBlinkType DEF InitPublish
  <2>2. \A led \in Leds : blink'[led].num \in 0 .. FOREVER /\ blink'[led].duty \in 0 .. 100
    BY <2>1, BlinkTypes
  <2> QED
    BY <1>7, <2>1, <2>2, LedFacts DEF InitPublish, Back, TypeOK, ArgInv, HeapInv, ReadyInv
<1> QED
  BY <1>1, <1>2, <1>3, <1>4, <1>5, <1>6, <1>7

\* A change of the blinking LEDs, and of what is done next, with the configuration in use.
LEMMA SameConfig ==
    ASSUME OwnInv, Serving, Serving', blink' \in [Leds -> BlinkRecords],
           UNCHANGED <<ready, period, config, heap, running, block, pacer>>,
           port' \subseteq Leds, reg' \subseteq Leds, calls' \in 0 .. MaxCalls,
           ArgInv', pc' \in {"store", "blink"} => ready
    PROVE  OwnInv'
<1>1. \A led \in Leds : blink'[led].num \in 0 .. FOREVER /\ blink'[led].duty \in 0 .. 100
  BY BlinkTypes
<1>2. pc' \in {"main", "free", "malloc", "timer", "publish", "store", "blink"}
  BY DEF Serving
<1>3. TypeOK'
  BY <1>1, <1>2 DEF OwnInv, Types, TypeOK
<1> QED
  BY <1>3 DEF OwnInv, Types, Serving, HeapInv, ReadyInv

LEMMA CallOwns ==
    ASSUME OwnInv, NEW led \in Leds,
           \/ \E mode \in {"on", "off", "toggle"} : SetStop(led, mode)
           \/ \E b \in Blinks : BlinkNum(led, b)
    PROVE  OwnInv'
<1> USE DEF Serving
<1>1. /\ blink \in [Leds -> BlinkRecords] /\ blink[led] \in BlinkRecords
      /\ port \subseteq Leds /\ reg \subseteq Leds /\ calls \in 0 .. MaxCalls
  BY DEF OwnInv, Types, TypeOK
<1>2. CASE \E mode \in {"on", "off", "toggle"} : SetStop(led, mode)
  <2>1. [blink[led] EXCEPT !.num = 0] \in BlinkRecords
    BY <1>1 DEF BlinkRecords
  <2>2. blink' \in [Leds -> BlinkRecords]
    BY <1>1, <1>2, <2>1 DEF SetStop
  <2> QED
    BY <1>1, <1>2, <2>2, SameConfig, LedFacts DEF SetStop, Call, ArgInv, Usable
<1>3. CASE \E b \in Blinks : BlinkNum(led, b)
  <2>0. PICK b \in Blinks : BlinkNum(led, b)
    BY <1>3
  <2>1. [blink[led] EXCEPT !.num = b.num] \in BlinkRecords
    BY <1>1, LedFacts DEF BlinkRecords
  <2>2. blink' \in [Leds -> BlinkRecords]
    BY <1>1, <2>0, <2>1 DEF BlinkNum
  <2> QED
    BY <1>1, <2>0, <2>2, SameConfig, LedFacts DEF BlinkNum, Call, ArgInv, Usable
<1> QED
  BY <1>2, <1>3

LEMMA ReturnOwns == ASSUME OwnInv, SetStore \/ BlinkRest PROVE OwnInv'
<1> USE DEF Serving
<1>1. /\ blink \in [Leds -> BlinkRecords] /\ port \subseteq Leds /\ reg \subseteq Leds
      /\ calls \in 0 .. MaxCalls
  BY DEF OwnInv, Types, TypeOK
<1>2. CASE SetStore
  <2>1. arg.led \in Leds /\ arg.mode \in {"on", "off", "toggle"}
    BY <1>2 DEF SetStore, OwnInv, ArgInv
  <2>2. port' \subseteq Leds
    BY <1>1, <1>2, <2>1 DEF SetStore, Driven, Level, Other
  <2>3. block = NULL
    BY <1>2 DEF SetStore, OwnInv, HeapInv
  <2> QED
    BY <1>1, <1>2, <2>2, <2>3, SameConfig DEF SetStore, Back, driver, ArgInv
<1>3. CASE BlinkRest
  <2>1. arg.led \in Leds /\ arg.blink \in Blinks /\ block = NULL
    BY <1>3 DEF BlinkRest, OwnInv, ArgInv, HeapInv
  <2> DEFINE new == [blink[arg.led] EXCEPT !.duty = Limited(arg.blink.duty), !.ms = arg.blink.ms,
                                           !.tick = 0]
  <2>2. new \in BlinkRecords
    <3> DEFINE o == blink[arg.led]
               d == Limited(arg.blink.duty)
               m == arg.blink.ms
    <3>1. d \in 0 .. 100 /\ m \in Nat /\ o \in BlinkRecords
      BY <1>1, <2>1, LedFacts, LimitedType
    <3> DEFINE x == [o EXCEPT !.duty = d]
               y == [x EXCEPT !.ms = m]
               z == [y EXCEPT !.tick = 0]
    <3>2. new = z
      OBVIOUS
    <3> HIDE DEF new, o, d, m, z
    <3>3. x \in BlinkRecords
      BY <3>1 DEF BlinkRecords
    <3> HIDE DEF x
    <3>4. y \in BlinkRecords
      BY <3>1, <3>3 DEF BlinkRecords
    <3> HIDE DEF y
    <3>5. z \in BlinkRecords
      BY <3>4 DEF BlinkRecords, z
    <3> QED
      BY <3>2, <3>5
  <2>3. blink' = [blink EXCEPT ![arg.led] = new]
    BY <1>1, <1>3, <2>1 DEF BlinkRest
  <2> HIDE DEF new
  <2>4. blink' \in [Leds -> BlinkRecords]
    BY <1>1, <2>2, <2>3
  <2> QED
    BY <1>1, <1>3, <2>1, <2>4, SameConfig DEF BlinkRest, Back, ArgInv
<1> QED
  BY <1>2, <1>3

LEMMA TickOwns == ASSUME OwnInv, NEW t \in Timers, Tick(t) PROVE OwnInv'
<1>1. /\ blink \in [Leds -> BlinkRecords] /\ port \subseteq Leds /\ reg \subseteq Leds
      /\ calls \in 0 .. MaxCalls /\ ready /\ Serving
  BY DEF Tick, Usable, OwnInv, Types, TypeOK, HeapInv
<1>2. blink' \in [Leds -> BlinkRecords]
  BY <1>1, SteppedType DEF Tick
<1>3. port' \subseteq Leds
  BY DEF Tick, Level
<1>4. ArgInv' /\ Serving'
  BY <1>1 DEF OwnInv, ArgInv, Tick, Serving
<1> QED
  BY <1>1, <1>2, <1>3, <1>4, SameConfig DEF Tick

LEMMA NextOwns == OwnInv /\ [Next]_vars => OwnInv'
<1>1. OwnInv /\ UNCHANGED vars => OwnInv'
  BY DEF vars, driver, OwnInv, Types, TypeOK, ArgInv, HeapInv, ReadyInv, Serving
<1>2. OwnInv /\ Next => OwnInv'
  BY InitStepOwns, CallOwns, ReturnOwns, TickOwns DEF Next
<1> QED
  BY <1>1, <1>2

\* Between two calls the pool holds the published configuration and nothing else of the
\* driver, and LLOS_LED_Tick never works on a block that was freed, whichever timers run it and
\* wherever they interrupt a re-initialisation or its failure (llos_led.c:24-56).
THEOREM ConfigIsOwned == Spec => []Inv
<1>1. OwnInv => Inv
  BY DEF OwnInv, Types, HeapInv, Serving, Inv, OwnsItsConfig, ReadyInv
<1> QED
  BY <1>1, InitOwn, NextOwns, PTL DEF Spec

-----------------------------------------------------------------------------
(* The pattern of one LED.                                                   *)

\* On one timer, and with the tick interrupt kept out of LLOS_LED_Set and LLOS_LED_Blink.
Steady == CriticalHooks /\ \A t, u \in Timers : t = u

WantRecords ==
    [num : 0 .. 255, duty : 0 .. 100, ms : Nat, age : Nat, lit : Nat, on : BOOLEAN]
Wants == {w \in WantRecords : w.num # 0 => w.ms > 0}

CycleOf(w, p) == (w.ms + p - 1) \div p

\* The counters of a blinking LED stand where its age says: in tick of the (q + 1)st cycle.
Goes(b, w, p) ==
    IF w.num = 0 THEN b.num = 0
    ELSE /\ b.ms = w.ms /\ b.duty = w.duty /\ b.tick < CycleOf(w, p)
         /\ \E q \in Nat : /\ w.age = q * CycleOf(w, p) + b.tick
                           /\ b.num = IF w.num = FOREVER THEN FOREVER ELSE w.num - q

\* An age of t ticks in its cycle.
StandsAt(w, t, p) ==
    /\ w.age % CycleOf(w, p) = t
    /\ t > 0 => w.age > 0 /\ (w.age - 1) % CycleOf(w, p) = t - 1

\* What the driver shows at an age.
Asked(w, p) ==
    IF w.num = 0 \/ w.age = 0 THEN w.on
    ELSE (((w.age - 1) % CycleOf(w, p)) + 1) * p < High(w)

LEMMA Times == ASSUME NEW a \in Int, NEW b \in Int, NEW c \in Nat, a <= b PROVE a * c <= b * c
<1>1. b - a \in Nat /\ (b - a) * c = b * c - a * c /\ a * c \in Int /\ b * c \in Int
  OBVIOUS
<1>2. \A x \in Nat : x * c >= 0
  OBVIOUS
<1> QED
  BY <1>1, <1>2

LEMMA Remainder ==
    ASSUME NEW q \in Nat, NEW c \in Nat \ {0}, NEW t \in 0 .. c - 1
    PROVE  (q * c + t) % c = t
<1> DEFINE n == q * c + t
           d == n \div c
           r == n % c
<1>1. n \in Nat
  OBVIOUS
<1>2. d \in Int /\ r \in 0 .. c - 1 /\ n = d * c + r
  BY <1>1
<1>3. n = q * c + t /\ q * c \in Int
  OBVIOUS
<1> HIDE DEF n, d, r
<1>4. ~(q + 1 <= d)
  <2>1. q + 1 <= d => (q + 1) * c <= d * c
    BY <1>2, Times
  <2>2. (q + 1) * c = q * c + c /\ d * c \in Int
    BY <1>2
  <2> QED
    BY <1>2, <1>3, <2>1, <2>2
<1>5. ~(d + 1 <= q)
  <2>1. d + 1 <= q => (d + 1) * c <= q * c
    BY <1>2, Times
  <2>2. (d + 1) * c = d * c + c /\ d * c \in Int
    BY <1>2
  <2> QED
    BY <1>2, <1>3, <2>1, <2>2
<1>6. d = q
  BY <1>2, <1>4, <1>5
<1>7. r = t
  BY <1>2, <1>3, <1>6
<1> QED
  BY <1>7 DEF n, r

\* A cycle lasts until its ticks have made up the time.
LEMMA CycleFacts ==
    ASSUME NEW w, w.ms \in Nat \ {0}, NEW p \in Nat \ {0}
    PROVE  /\ CycleOf(w, p) \in Nat \ {0}
           /\ \A n \in Nat : n * p >= w.ms <=> n >= CycleOf(w, p)
<1> DEFINE ms == w.ms
           m == w.ms + p - 1
           c == m \div p
           r == m % p
<1>1. m \in Nat /\ ms \in Nat \ {0} /\ m = ms + p - 1
  OBVIOUS
<1>2. c \in Int /\ r \in 0 .. p - 1 /\ m = c * p + r
  BY <1>1
<1>3. CycleOf(w, p) = c
  BY DEF CycleOf
<1> HIDE DEF m, c, r
<1>4. c * p >= ms /\ c * p \in Int /\ (c - 1) * p = c * p - p /\ (c - 1) * p < ms
  BY <1>1, <1>2
<1>5. c > 0
  <2>1. c <= 0 => c * p <= 0 * p
    BY <1>2, Times
  <2> QED
    BY <1>1, <1>2, <1>4, <2>1
<1>6. ASSUME NEW n \in Nat PROVE n * p >= ms <=> n >= c
  <2>1. n * p \in Int
    OBVIOUS
  <2>2. c <= n => c * p <= n * p
    BY <1>2, Times
  <2>3. n <= c - 1 => n * p <= (c - 1) * p
    BY <1>2, Times
  <2> QED
    BY <1>1, <1>2, <1>4, <2>1, <2>2, <2>3
<1> QED
  BY <1>2, <1>3, <1>5, <1>6

\* One LED, one tick later: its counters are where the pattern is, and the pin is driven to what
\* the pattern shows, or left alone once the blinking is over.
LEMMA OneTick ==
    ASSUME period \in Nat \ {0}, NEW b \in BlinkRecords, NEW w \in Wants, Goes(b, w, period)
    PROVE  /\ Aged(w) \in Wants /\ Goes(Stepped(b), Aged(w), period)
           /\ b.num = 0 => ~Going(w) /\ Aged(w) = w
           /\ b.num # 0 => /\ Going(w) /\ (Asked(Aged(w), period) <=> Shown(b))
                           /\ StandsAt(w, b.tick, period) /\ Aged(w).age > 0
                           /\ (Aged(w).age - 1) % CycleOf(w, period) = b.tick
                           /\ Shown(b) <=> (b.tick + 1) * period < High(w)
<1> DEFINE p == period
           c == CycleOf(w, p)
<1>1. /\ w.num \in 0 .. 255 /\ w.age \in Nat /\ w.ms \in Nat /\ w \in WantRecords
      /\ w.num # 0 => w.ms > 0
      /\ b.num \in 0 .. 255 /\ b.tick \in Nat
  BY DEF Wants, WantRecords, BlinkRecords
<1>2. CASE w.num = 0
  BY <1>1, <1>2 DEF Goes, Aged, Going, Stepped
<1>3. CASE w.num # 0
  <2>1. /\ b.ms = w.ms /\ b.duty = w.duty /\ b.tick < c
    BY <1>3 DEF Goes
  <2>2. PICK q \in Nat : /\ w.age = q * c + b.tick
                         /\ b.num = IF w.num = 255 THEN 255 ELSE w.num - q
    BY <1>3 DEF Goes, FOREVER
  <2>3. c \in Nat \ {0} /\ \A n \in Nat : n * p >= w.ms <=> n >= c
    BY <1>1, <1>3, CycleFacts
  <2>5. Cycle(w) = c
    BY DEF Cycle, CycleOf
  <2>6. Shown(b) <=> (b.tick + 1) * p < High(w)
    BY <2>1 DEF Shown, High
  <2> HIDE DEF p, c
  <2>4. w.age % c = b.tick
    <3>1. b.tick \in 0 .. c - 1
      BY <1>1, <2>1, <2>3
    <3>2. (q * c + b.tick) % c = b.tick
      BY <2>3, <3>1, Remainder
    <3> QED
      BY <2>2, <3>2
  <2>7. (b.tick + 1) * p >= b.ms <=> b.tick + 1 = c
    BY <1>1, <2>1, <2>3
  <2> DEFINE age == IF w.num = 255 THEN b.tick + 1 ELSE w.age + 1
             a == [w EXCEPT !.age = age]
             left == IF b.num < 255 THEN b.num - 1 ELSE b.num
  <2>8. age \in Nat
    BY <1>1
  <2> HIDE DEF age
  <2>9. /\ a \in Wants /\ a.num = w.num /\ a.ms = w.ms /\ a.duty = w.duty /\ a.age = age
        /\ a.on = w.on
    BY <1>1, <2>8 DEF Wants, WantRecords
  <2>10. CycleOf(a, p) = c /\ High(a) = High(w)
    BY <2>9 DEF CycleOf, High, c
  <2>11. CASE b.num # 0
    <3>1. Aged(w) = a
      <4>1. CASE w.num = 255
        BY <1>3, <2>4, <2>5, <4>1 DEF Aged, Going, FOREVER, age
      <4>2. CASE w.num # 255
        <5>1. q + 1 <= w.num
          <6>1. b.num = w.num - q
            BY <2>2, <4>2
          <6>2. b.num \in Int /\ b.num > 0 /\ w.num \in Int /\ q \in Int
            BY <1>1, <2>11
          <6>3. \A x, y, z \in Int : x = y - z /\ x > 0 => z + 1 <= y
            OBVIOUS
          <6> QED
            BY <6>1, <6>2, <6>3
        <5>2. (q + 1) * c <= w.num * c /\ (q + 1) * c = q * c + c /\ q * c \in Int /\ w.num * c \in Int
          BY <1>1, <2>3, <5>1, Times
        <5>3. w.age < w.num * c
          BY <1>1, <2>1, <2>2, <2>3, <5>2
        <5> QED
          BY <1>3, <2>5, <4>2, <5>3 DEF Aged, Going, FOREVER, age
      <4> QED
        BY <4>1, <4>2
    <3>4. age > 0 /\ (age - 1) % c = b.tick
      <4>1. CASE w.num = 255
        <5>1. age - 1 = 0 * c + b.tick
          BY <1>1, <2>3, <4>1 DEF age
        <5>2. (0 * c + b.tick) % c = b.tick
          BY <1>1, <2>1, <2>3, Remainder
        <5> QED
          BY <1>1, <4>1, <5>1, <5>2 DEF age
      <4>2. CASE w.num # 255
        <5>1. age - 1 = w.age
          BY <1>1, <4>2 DEF age
        <5> QED
          BY <1>1, <2>4, <4>2, <5>1 DEF age
      <4> QED
        BY <4>1, <4>2
    <3>2. Asked(a, p) <=> Shown(b)
      BY <1>3, <2>6, <2>8, <2>9, <2>10, <3>4 DEF Asked
    <3>5. StandsAt(w, b.tick, p)
      <4>1. CASE b.tick > 0
        <5>1. w.age = q * c + b.tick /\ q * c \in Nat
          BY <2>2, <2>3
        <5>2. w.age > 0 /\ w.age - 1 = q * c + (b.tick - 1) /\ b.tick - 1 \in 0 .. c - 1
          BY <1>1, <2>1, <2>3, <4>1, <5>1
        <5>3. (q * c + (b.tick - 1)) % c = b.tick - 1
          BY <2>3, <5>2, Remainder
        <5> QED
          BY <2>4, <5>2, <5>3 DEF StandsAt, c
      <4>2. CASE ~(b.tick > 0)
        BY <2>4, <4>2 DEF StandsAt, c
      <4> QED
        BY <4>1, <4>2
    <3>6. Going(w)
      <4>1. CASE w.num = 255
        BY <1>3, <4>1 DEF Going, FOREVER
      <4>2. CASE w.num # 255
        <5>1. w.num - q > 0
          BY <2>2, <2>11, <4>2, <1>1
        <5>2. q + 1 <= w.num
          BY <1>1, <5>1
        <5>3. (q + 1) * c <= w.num * c /\ (q + 1) * c = q * c + c /\ q * c \in Int /\ w.num * c \in Int
          BY <1>1, <2>3, <5>2, Times
        <5>4. w.age < w.num * c
          BY <1>1, <2>1, <2>2, <2>3, <5>3
        <5> QED
          BY <1>3, <2>5, <5>4 DEF Going
      <4> QED
        BY <4>1, <4>2
    <3>7. Shown(b) <=> (b.tick + 1) * period < High(w)
      BY <2>6 DEF p
    <3>8. Aged(w).age > 0 /\ (Aged(w).age - 1) % CycleOf(w, p) = b.tick
      BY <2>9, <3>1, <3>4 DEF c
    <3>3. Goes(Stepped(b), a, p)
      <4>1. CASE b.tick + 1 = c
        <5>1. Stepped(b) = [b EXCEPT !.tick = 0, !.num = LeftAfter(@)]
          BY <2>7, <2>11, <4>1 DEF Stepped, p
        <5>2. /\ Stepped(b).tick = 0 /\ Stepped(b).num = left
              /\ Stepped(b).ms = b.ms /\ Stepped(b).duty = b.duty
          BY <5>1 DEF BlinkRecords, LeftAfter, FOREVER
        <5>3. PICK r \in Nat : age = r * c /\ left = IF w.num = 255 THEN 255 ELSE w.num - r
          <6>1. CASE w.num = 255
            BY <2>2, <2>3, <4>1, <6>1 DEF age
          <6>2. CASE w.num # 255
            <7>1. q + 1 \in Nat /\ (q + 1) * c = q * c + c /\ q * c \in Int
              BY <2>3
            <7>2. age = (q + 1) * c
              BY <1>1, <2>2, <2>3, <4>1, <6>2, <7>1 DEF age
            <7>3. left = w.num - (q + 1)
              BY <1>1, <2>2, <6>2
            <7> QED
              BY <6>2, <7>1, <7>2, <7>3
          <6> QED
            BY <6>1, <6>2
        <5>4. a.age = r * CycleOf(a, p) + Stepped(b).tick
          BY <2>3, <2>9, <2>10, <5>2, <5>3
        <5>5. Stepped(b).num = IF a.num = 255 THEN 255 ELSE a.num - r
          BY <2>9, <5>2, <5>3
        <5>6. a.num # 0 /\ Stepped(b).ms = a.ms /\ Stepped(b).duty = a.duty
          BY <1>3, <2>1, <2>9, <5>2
        <5>7. Stepped(b).tick < CycleOf(a, p)
          BY <2>3, <2>10, <5>2
        <5> HIDE DEF a, left
        <5> QED
          BY <5>4, <5>5, <5>6, <5>7, Zenon DEF Goes, FOREVER
      <4>2. CASE b.tick + 1 # c
        <5>1. Stepped(b) = [b EXCEPT !.tick = @ + 1]
          BY <2>7, <2>11, <4>2 DEF Stepped, p
        <5>2. /\ Stepped(b).tick = b.tick + 1 /\ Stepped(b).num = b.num
              /\ Stepped(b).ms = b.ms /\ Stepped(b).duty = b.duty
          BY <5>1 DEF BlinkRecords
        <5>3. PICK r \in Nat : /\ age = r * c + (b.tick + 1)
                               /\ b.num = IF w.num = 255 THEN 255 ELSE w.num - r
          <6>1. CASE w.num = 255
            <7>1. 0 * c = 0
              BY <2>3
            <7> QED
              BY <1>1, <2>2, <6>1, <7>1 DEF age
          <6>2. CASE w.num # 255
            <7>1. q * c \in Int
              BY <2>3
            <7>2. age = q * c + (b.tick + 1)
              BY <1>1, <2>2, <6>2, <7>1 DEF age
            <7> QED
              BY <2>2, <6>2, <7>2
          <6> QED
            BY <6>1, <6>2
        <5>4. a.age = r * CycleOf(a, p) + Stepped(b).tick /\ Stepped(b).tick < CycleOf(a, p)
          BY <1>1, <2>1, <2>3, <2>9, <2>10, <4>2, <5>2, <5>3
        <5>5. Stepped(b).num = IF a.num = 255 THEN 255 ELSE a.num - r
          BY <2>9, <5>2, <5>3
        <5>6. a.num # 0 /\ Stepped(b).ms = a.ms /\ Stepped(b).duty = a.duty
          BY <1>3, <2>1, <2>9, <5>2
        <5> HIDE DEF a
        <5> QED
          BY <5>4, <5>5, <5>6, Zenon DEF Goes, FOREVER
      <4> QED
        BY <4>1, <4>2
    <3> HIDE DEF a
    <3> QED
      BY <2>9, <2>11, <3>1, <3>2, <3>3, <3>5, <3>6, <3>7, <3>8 DEF p
  <2>12. CASE b.num = 0
    <3>1. q = w.num /\ w.num # 255
      BY <1>1, <2>2, <2>12
    <3>2. w.num * c \in Int /\ ~(w.age < w.num * c)
      BY <1>1, <2>2, <2>3, <3>1
    <3>3. Aged(w) = w /\ ~Going(w) /\ Stepped(b) = b
      BY <1>3, <2>5, <2>12, <3>1, <3>2 DEF Aged, Going, Stepped, FOREVER
    <3> QED
      BY <2>12, <3>3 DEF p
  <2> QED
    BY <2>11, <2>12
<1> QED
  BY <1>2, <1>3

\* The ticks seen lit: all of the cycle so far until the duty is used up, and none since.
Counted(w, p) ==
    w.num # 0 /\ w.age > 0 =>
        LET k == ((w.age - 1) % CycleOf(w, p)) + 1 IN
        /\ w.lit <= k
        /\ w.lit * p <= High(w)
        /\ w.lit < k => (w.lit + 1) * p >= High(w)

LEMMA HighType == ASSUME NEW w \in Wants PROVE High(w) \in Nat /\ High(w) <= w.ms
<1> DEFINE x == w.ms * w.duty
           h == x \div 100
<1>1. w.ms \in Nat /\ w.duty \in 0 .. 100
  BY DEF Wants, WantRecords
<1>2. x \in Nat /\ x <= w.ms * 100
  <2>1. w.duty * w.ms <= 100 * w.ms
    BY <1>1, Times
  <2> QED
    BY <1>1, <2>1
<1>3. High(w) = h
  BY DEF High
<1> HIDE DEF x
<1>4. h \in Nat /\ h <= w.ms
  BY <1>1, <1>2
<1> QED
  BY <1>3, <1>4

LEMMA SeenIs ==
    ASSUME NEW w \in Wants, NEW on \in BOOLEAN, Aged(w) \in Wants
    PROVE  LET s == Seen(w, on) IN
           /\ s \in Wants
           /\ s.num = Aged(w).num /\ s.duty = Aged(w).duty /\ s.ms = Aged(w).ms
           /\ s.age = Aged(w).age /\ s.on = Aged(w).on
           /\ Going(w) => s.lit = LitFrom(w) + IF on THEN 1 ELSE 0
           /\ ~Going(w) => s = w
<1> DEFINE a == Aged(w)
           n == LitFrom(w) + IF on THEN 1 ELSE 0
<1>1. n \in Nat /\ a \in WantRecords /\ (a.num # 0 => a.ms > 0)
  BY DEF LitFrom, Wants, WantRecords
<1>2. ~Going(w) => Aged(w) = w
  BY DEF Aged
<1>3. CASE ~Going(w)
  BY <1>2, <1>3 DEF Seen
<1>4. CASE Going(w)
  <2>1. Seen(w, on) = [a EXCEPT !.lit = n]
    BY <1>4 DEF Seen
  <2> HIDE DEF a, n
  <2> DEFINE s == [a EXCEPT !.lit = n]
  <2>2. /\ s \in WantRecords /\ s.num = a.num /\ s.duty = a.duty /\ s.ms = a.ms
        /\ s.age = a.age /\ s.on = a.on /\ s.lit = n
    BY <1>1 DEF WantRecords
  <2>3. s \in Wants
    BY <1>1, <2>2 DEF Wants
  <2> HIDE DEF s
  <2> QED
    BY <1>4, <2>1, <2>2, <2>3 DEF a, n, s
<1> QED
  BY <1>3, <1>4

\* One LED, one tick later, with what is then seen of it.
LEMMA OneSeen ==
    ASSUME period \in Nat \ {0}, NEW b \in BlinkRecords, NEW w \in Wants, Goes(b, w, period),
           Counted(w, period), NEW on \in BOOLEAN, b.num # 0 => (on <=> Shown(b))
    PROVE  LET s == Seen(w, on) IN
           /\ s \in Wants /\ Goes(Stepped(b), s, period) /\ Counted(s, period)
           /\ b.num = 0 => s = w
           /\ b.num # 0 => (Asked(s, period) <=> Shown(b))
<1> DEFINE p == period
           s == Seen(w, on)
           a == Aged(w)
           c == CycleOf(w, p)
           H == High(w)
           t == b.tick
           k == ((w.age - 1) % c) + 1
<1>1. /\ a \in Wants /\ Goes(Stepped(b), a, p)
      /\ b.num = 0 => ~Going(w) /\ a = w
      /\ b.num # 0 => /\ Going(w) /\ (Asked(a, p) <=> Shown(b))
                      /\ StandsAt(w, t, p) /\ a.age > 0 /\ (a.age - 1) % c = t
                      /\ Shown(b) <=> (t + 1) * p < H
  BY OneTick
<1>2. /\ s \in Wants
      /\ s.num = a.num /\ s.duty = a.duty /\ s.ms = a.ms /\ s.age = a.age /\ s.on = a.on
      /\ Going(w) => s.lit = LitFrom(w) + IF on THEN 1 ELSE 0
      /\ ~Going(w) => s = w
  BY <1>1, SeenIs
<1> HIDE DEF s, a
<1>3. Goes(Stepped(b), s, p)
  BY <1>1, <1>2 DEF Goes, CycleOf
<1>4. Asked(s, p) <=> Asked(a, p)
  BY <1>2 DEF Asked, CycleOf, High
<1>5. CASE b.num = 0
  BY <1>1, <1>2, <1>3, <1>5 DEF s
<1>6. CASE b.num # 0
  <2>1. Going(w) /\ StandsAt(w, t, p) /\ (a.age - 1) % c = t /\ (on <=> (t + 1) * p < H)
    BY <1>1, <1>6
  <2>2. w.num # 0 /\ w.ms > 0 /\ w.ms \in Nat /\ w.lit \in Nat /\ w.age \in Nat /\ t \in Nat
        /\ H \in Nat
    BY <2>1, HighType DEF Going, Wants, WantRecords, BlinkRecords
  <2>3. c \in Nat \ {0}
    BY <2>2, CycleFacts
  <2>4. a.ms = w.ms /\ a.duty = w.duty
    BY <2>1 DEF a, Aged, Wants, WantRecords
  <2>5. CycleOf(s, p) = c /\ High(s) = H
    BY <1>2, <2>4 DEF CycleOf, High
  <2>6. s.lit = (IF t = 0 THEN 0 ELSE w.lit) + IF on THEN 1 ELSE 0
    BY <1>2, <2>1 DEF StandsAt, LitFrom, Cycle, CycleOf
  <2>7. t > 0 => w.lit <= t /\ w.lit * p <= H /\ (w.lit < t => (w.lit + 1) * p >= H)
    <3>1. ASSUME t > 0 PROVE w.age > 0 /\ k = t
      BY <2>1, <2>2, <3>1 DEF StandsAt
    <3> QED
      BY <2>2, <3>1 DEF Counted
  <2> DEFINE n == IF t = 0 THEN 0 ELSE w.lit
  <2>8. n \in Nat /\ n <= t /\ n * p <= H /\ (n < t => (n + 1) * p >= H)
    BY <2>2, <2>7
  <2>9. s.lit = n + IF on THEN 1 ELSE 0
    BY <2>6
  <2> HIDE DEF n, t, p, H, c
  <2>10. p \in Nat
    BY DEF p
  <2>11. /\ s.lit <= t + 1 /\ s.lit * p <= H
         /\ s.lit < t + 1 => (s.lit + 1) * p >= H
    <3>1. CASE on
      <4>1. (t + 1) * p < H
        BY <2>1, <3>1
      <4>2. (n + 1) * p <= (t + 1) * p /\ (n + 1) * p \in Int /\ (t + 1) * p \in Int
        BY <2>2, <2>8, <2>10, Times
      <4>3. n = t
        BY <2>2, <2>8, <4>1, <4>2
      <4>4. s.lit = t + 1
        BY <2>2, <2>9, <3>1, <4>3
      <4> QED
        BY <2>2, <4>1, <4>2, <4>4
    <3>2. CASE ~on
      <4>1. s.lit = n
        BY <2>8, <2>9, <3>2
      <4>2. (t + 1) * p >= H
        BY <2>1, <2>2, <2>10, <3>2
      <4>3. n = t => (n + 1) * p >= H
        BY <4>2
      <4> QED
        BY <2>2, <2>8, <4>1, <4>3
    <3> QED
      BY <3>1, <3>2
  <2>12. Counted(s, p)
    <3>1. ((s.age - 1) % CycleOf(s, p)) + 1 = t + 1
      BY <1>2, <2>1, <2>5
    <3> QED
      BY <2>5, <2>11, <3>1 DEF Counted
  <2> QED
    BY <1>1, <1>2, <1>3, <1>4, <1>6, <2>12 DEF s, p
<1> QED
  BY <1>5, <1>6

-----------------------------------------------------------------------------
(* What the LEDs show.                                                       *)

FollowInv ==
    ready => \A led \in Leds :
        (pc \in {"store", "blink"} /\ led = arg.led) \/ Goes(blink[led], want[led], period)

ShowInv == \A led \in Leds : Lit(led) <=> Asked(want[led], period)

\* Between the two steps of a call the tick changes neither the port nor the LED.
CallInv ==
    /\ pc = "store" => reg = port /\ blink[arg.led].num = 0
    /\ pc = "blink" => blink[arg.led].num = arg.blink.num

WantInv ==
    /\ want \in [Leds -> Wants]
    /\ ~ready => \A led \in Leds : want[led].num = 0

CountInv == \A led \in Leds : Counted(want[led], period)

LedInv == OwnInv /\ WantInv /\ FollowInv /\ ShowInv /\ CountInv /\ CallInv

\* A level, without blinking, is shown whatever the period.
LEMMA LevelAsked == ASSUME NEW w, NEW p, w.num = 0 PROVE Asked(w, p) <=> w.on
BY DEF Asked

LEMMA FrozenIs ==
    \A led \in Leds : Frozen[led] \in Wants /\ Frozen[led].num = 0 /\ (Frozen[led].on <=> Lit(led))
<1> TAKE led \in Leds
<1>1. Lit(led) \in BOOLEAN
  BY DEF Lit
<1> QED
  BY <1>1 DEF Frozen, Wants, WantRecords

LEMMA InitLed == Init => LedInv
<1> SUFFICES ASSUME Init PROVE LedInv
  OBVIOUS
<1>1. want = Frozen /\ ~ready /\ pc = "main"
  BY DEF Init, Frozen
<1>2. want \in [Leds -> Wants]
  BY <1>1, FrozenIs DEF Frozen
<1>3. ShowInv
  BY <1>1, FrozenIs, LevelAsked DEF ShowInv
<1>4. CountInv
  BY <1>1, FrozenIs DEF CountInv, Counted
<1> QED
  BY <1>1, <1>2, <1>3, <1>4, InitOwn, FrozenIs DEF LedInv, WantInv, FollowInv, CallInv

\* A driver that is not ready, with all LEDs at their levels.
LEMMA NotReady ==
    ASSUME OwnInv', ~ready', pc' \notin {"store", "blink"}, UNCHANGED port, want' \in [Leds -> Wants],
           \A led \in Leds : want'[led].num = 0 /\ (want'[led].on <=> Lit(led))
    PROVE  LedInv'
<1>1. \A led \in Leds : Lit(led)' <=> Lit(led)
  BY DEF Lit
<1>2. ShowInv'
  BY <1>1, LevelAsked DEF ShowInv
<1>3. CountInv'
  BY DEF CountInv, Counted
<1> QED
  BY <1>2, <1>3 DEF LedInv, WantInv, FollowInv, CallInv

LEMMA InitStepLed ==
    ASSUME LedInv,
           \/ \E t \in Timers, ms \in Periods : InitTake(t, ms)
           \/ InitFree \/ InitMalloc \/ InitMallocFails \/ InitTimer \/ InitTimerFails \/ InitPublish
    PROVE  LedInv'
<1>1. OwnInv /\ WantInv /\ ShowInv /\ OwnInv'
  BY InitStepOwns DEF LedInv
<1>2. CASE \E t \in Timers, ms \in Periods : InitTake(t, ms)
  <2>1. want' = Frozen /\ ~ready' /\ pc' = "free" /\ UNCHANGED port
    BY <1>2 DEF InitTake, Call
  <2>2. Frozen \in [Leds -> Wants]
    BY FrozenIs DEF Frozen
  <2> QED
    BY <1>1, <2>1, <2>2, FrozenIs, NotReady
<1>3. CASE InitFree \/ InitMalloc \/ InitMallocFails \/ InitTimer \/ InitTimerFails \/ InitPublish
  <2>1. ~ready /\ UNCHANGED <<port, want>> /\ pc' \notin {"store", "blink"}
    BY <1>1, <1>3 DEF OwnInv, HeapInv, Serving, InitFree, InitMalloc, InitMallocFails, InitTimer,
                      InitTimerFails, InitPublish, Back
  <2>2. want \in [Leds -> Wants] /\ \A led \in Leds : want[led].num = 0
    BY <1>1, <2>1 DEF WantInv
  <2>3. \A led \in Leds : want[led].on <=> Lit(led)
    BY <1>1, <2>2, LevelAsked DEF ShowInv
  <2>4. CASE ~ready'
    BY <1>1, <2>1, <2>2, <2>3, <2>4, NotReady
  <2>5. CASE ready'
    <3>1. InitPublish
      BY <1>3, <2>1, <2>5 DEF InitFree, InitMalloc, InitMallocFails, InitTimer, InitTimerFails, driver
    <3>2. ShowInv'
      <4>1. \A led \in Leds : (Lit(led)' <=> Lit(led)) /\ want'[led] = want[led]
        BY <2>1 DEF Lit
      <4> QED
        BY <2>2, <2>3, <4>1, LevelAsked DEF ShowInv
    <3>3. FollowInv'
      BY <2>1, <2>2, <3>1 DEF InitPublish, NoBlink, FollowInv, Goes
    <3>4. CountInv'
      BY <2>1, <2>2 DEF CountInv, Counted
    <3> QED
      BY <1>1, <2>1, <2>2, <2>5, <3>2, <3>3, <3>4 DEF LedInv, WantInv, CallInv
  <2> QED
    BY <2>4, <2>5
<1> QED
  BY <1>2, <1>3

\* The first step of LLOS_LED_Set and LLOS_LED_Blink.
LEMMA CallLed ==
    ASSUME LedInv, NEW led \in Leds,
           \/ \E mode \in {"on", "off", "toggle"} : SetStop(led, mode)
           \/ \E b \in Blinks : BlinkNum(led, b)
    PROVE  LedInv'
<1>1. /\ ready /\ UNCHANGED <<ready, port, want, period>> /\ pc = "main"
      /\ pc' \in {"store", "blink"} /\ arg'.led = led
      /\ \A other \in Leds \ {led} : blink'[other] = blink[other]
      /\ blink \in [Leds -> BlinkRecords]
  BY DEF LedInv, OwnInv, Types, SetStop, BlinkNum, Usable, Call
<1>2. OwnInv'
  BY CallOwns DEF LedInv
<1>3. WantInv'
  BY <1>1 DEF LedInv, WantInv
<1>4. FollowInv'
  BY <1>1 DEF LedInv, FollowInv
<1>5. ShowInv'
  <2>1. \A other \in Leds : Lit(other)' <=> Lit(other)
    BY <1>1 DEF Lit
  <2> QED
    BY <1>1, <2>1 DEF LedInv, ShowInv
<1>6. CallInv'
  <2>1. CASE \E mode \in {"on", "off", "toggle"} : SetStop(led, mode)
    BY <1>1, <2>1 DEF SetStop, Call, CallInv, BlinkRecords
  <2>2. CASE \E b \in Blinks : BlinkNum(led, b)
    BY <1>1, <2>2 DEF BlinkNum, Call, CallInv, BlinkRecords
  <2> QED
    BY <2>1, <2>2
<1>7. CountInv'
  BY <1>1 DEF LedInv, CountInv
<1> QED
  BY <1>2, <1>3, <1>4, <1>5, <1>6, <1>7 DEF LedInv

\* The last step of the two: one LED is asked for something else, the others go on.
LEMMA OneAsked ==
    ASSUME LedInv, OwnInv', UNCHANGED <<ready, period>>, ready, pc' = "main",
           NEW led \in Leds, NEW w \in Wants, want' = [want EXCEPT ![led] = w], w.age = 0,
           Goes(blink'[led], w, period), Asked(w, period) <=> Lit(led)',
           \A other \in Leds \ {led} : /\ blink'[other] = blink[other] /\ (Lit(other)' <=> Lit(other))
                                       /\ other # arg.led
    PROVE  LedInv'
<1>1. want \in [Leds -> Wants] /\ FollowInv /\ ShowInv
  BY DEF LedInv, WantInv
<1>2. want' \in [Leds -> Wants] /\ want'[led] = w /\ \A other \in Leds \ {led} : want'[other] = want[other]
  BY <1>1
<1>3. FollowInv'
  BY <1>1, <1>2 DEF FollowInv
<1>4. ShowInv'
  BY <1>1, <1>2 DEF ShowInv
<1>5. CountInv'
  BY <1>2 DEF LedInv, CountInv, Counted
<1> QED
  BY <1>2, <1>3, <1>4, <1>5 DEF LedInv, WantInv, CallInv

LEMMA LevelLit ==
    ASSUME NEW led \in Leds, NEW on \in BOOLEAN
    PROVE  (led \in Level(led, on)) <=> (on <=> led \in ActiveHigh)
BY DEF Level

LEMMA SetLed == ASSUME LedInv, SetStore PROVE LedInv'
<1>1. /\ pc = "store" /\ pc' = "main" /\ UNCHANGED driver
      /\ port' = (reg \ {arg.led}) \cup Driven(arg.led, arg.mode)
      /\ want' = [want EXCEPT ![arg.led] =
                    [num |-> 0, duty |-> 0, ms |-> 0, age |-> 0, lit |-> 0,
                     on |-> CASE arg.mode = "on" -> TRUE
                              [] arg.mode = "off" -> FALSE
                              [] arg.mode = "toggle" -> ~Lit(arg.led)]]
  BY DEF SetStore, Back
<1>2. /\ reg = port /\ blink[arg.led].num = 0 /\ arg.led \in Leds
      /\ arg.mode \in {"on", "off", "toggle"} /\ ready
  BY <1>1 DEF LedInv, CallInv, OwnInv, ArgInv, ReadyInv
<1>3. OwnInv'
  BY ReturnOwns DEF LedInv
<1> DEFINE led == arg.led
           on == CASE arg.mode = "on" -> TRUE
                   [] arg.mode = "off" -> FALSE
                   [] arg.mode = "toggle" -> ~Lit(led)
           w == [num |-> 0, duty |-> 0, ms |-> 0, age |-> 0, lit |-> 0, on |-> on]
<1>4. on \in BOOLEAN
  BY <1>2 DEF Lit
<1>5. Driven(led, arg.mode) \subseteq {led}
  BY <1>2 DEF Driven, Level, Other
<1>6. (led \in Driven(led, arg.mode)) <=> (on <=> led \in ActiveHigh)
  <2>1. CASE arg.mode = "on"
    BY <1>2, <2>1, LevelLit DEF Driven
  <2>2. CASE arg.mode = "off"
    BY <1>2, <2>2, LevelLit DEF Driven
  <2>3. CASE arg.mode = "toggle"
    <3>1. on <=> ~Lit(led)
      BY <2>3
    <3>2. (led \in Driven(led, arg.mode)) <=> ~(led \in port)
      BY <1>2, <2>3 DEF Driven, Other
    <3> QED
      BY <3>1, <3>2 DEF Lit
  <2> QED
    BY <1>2, <2>1, <2>2, <2>3
<1> HIDE DEF on
<1>7. w \in Wants /\ w.num = 0 /\ w.age = 0 /\ (w.on <=> on)
  BY <1>4 DEF Wants, WantRecords
<1>8. led \in Leds /\ want' = [want EXCEPT ![led] = w]
  BY <1>1, <1>2 DEF on
<1>9. \A other \in Leds : other # led => (other \in port' <=> other \in port)
  BY <1>1, <1>2, <1>5
<1>10. led \in port' <=> led \in Driven(led, arg.mode)
  BY <1>1
<1> HIDE DEF w
<1>11. Goes(blink'[led], w, period)
  BY <1>1, <1>2, <1>7 DEF driver, Goes
<1>12. Asked(w, period) <=> (led \in port' <=> led \in ActiveHigh)
  BY <1>4, <1>6, <1>7, <1>10, LevelAsked
<1>13. \A x \in Leds : /\ Lit(x)' <=> (x \in port' <=> x \in ActiveHigh)
                       /\ Lit(x) <=> (x \in port <=> x \in ActiveHigh)
  BY DEF Lit
<1>14. ASSUME NEW x, x = led PROVE LedInv'
  <2>1. /\ x \in Leds /\ (Asked(w, period) <=> Lit(x)') /\ Goes(blink'[x], w, period)
        /\ want' = [want EXCEPT ![x] = w]
    BY <1>8, <1>11, <1>12, <1>13, <1>14
  <2>2. \A other \in Leds \ {x} : /\ blink'[other] = blink[other] /\ (Lit(other)' <=> Lit(other))
                                  /\ other # arg.led
    BY <1>1, <1>9, <1>13, <1>14 DEF driver
  <2> QED
    BY <1>1, <1>2, <1>3, <1>7, <2>1, <2>2, OneAsked DEF driver
<1> QED
  BY <1>14

LEMMA BlinkLed == ASSUME LedInv, BlinkRest PROVE LedInv'
<1>1. PICK led, b : led = arg.led /\ b = arg.blink
  OBVIOUS
<1>2. /\ pc = "blink" /\ pc' = "main" /\ UNCHANGED <<ready, period, port>>
      /\ blink' = [blink EXCEPT ![led].duty = Limited(b.duty), ![led].ms = b.ms, ![led].tick = 0]
      /\ want' = [want EXCEPT ![led] = [num |-> b.num, duty |-> Limited(b.duty),
                                        ms |-> b.ms, age |-> 0, lit |-> 0, on |-> Lit(led)]]
  BY <1>1 DEF BlinkRest, Back
<1>3. /\ led \in Leds /\ b \in Blinks /\ ready /\ blink[led].num = b.num /\ period \in Nat \ {0}
      /\ blink \in [Leds -> BlinkRecords]
  BY <1>1, <1>2, LedFacts DEF LedInv, CallInv, OwnInv, ArgInv, ReadyInv, Types
<1>4. b.num \in 0 .. 255 /\ b.ms \in Nat \ {0} /\ Limited(b.duty) \in 0 .. 100
  BY <1>3, LedFacts, LimitedType
<1>5. OwnInv'
  BY ReturnOwns DEF LedInv
<1> DEFINE w == [num |-> b.num, duty |-> Limited(b.duty), ms |-> b.ms, age |-> 0, lit |-> 0, on |-> Lit(led)]
<1>6. w \in Wants /\ w.num = b.num /\ w.ms = b.ms /\ w.duty = Limited(b.duty) /\ w.age = 0
      /\ (w.on <=> Lit(led))
  <2>1. Lit(led) \in BOOLEAN
    BY DEF Lit
  <2> QED
    BY <1>4, <2>1 DEF Wants, WantRecords
<1>7. want' = [want EXCEPT ![led] = w]
  BY <1>2
<1> HIDE DEF w
<1>8. /\ blink'[led].num = b.num /\ blink'[led].duty = Limited(b.duty) /\ blink'[led].ms = b.ms
      /\ blink'[led].tick = 0
  BY <1>2, <1>3 DEF BlinkRecords
<1>9. Goes(blink'[led], w, period)
  <2>1. CycleOf(w, period) \in Nat \ {0}
    BY <1>3, <1>4, <1>6, CycleFacts
  <2>2. 0 = 0 * CycleOf(w, period) + 0 /\ 0 < CycleOf(w, period) /\ b.num = b.num - 0
    BY <1>4, <2>1
  <2>3. 0 \in Nat
    OBVIOUS
  <2> HIDE DEF w
  <2> QED
    BY <1>6, <1>8, <2>2, <2>3 DEF Goes
<1>10. \A x \in Leds : Lit(x)' <=> Lit(x)
  BY <1>2 DEF Lit
<1>11. Asked(w, period) <=> Lit(led)
  BY <1>6 DEF Asked
<1>12. \A other \in Leds \ {led} : blink'[other] = blink[other]
  BY <1>2, <1>3
<1> QED
  BY <1>1, <1>2, <1>3, <1>5, <1>6, <1>7, <1>9, <1>10, <1>11, <1>12, OneAsked

\* The pin of each LED after a tick.
LEMMA TickPort ==
    ASSUME NEW t \in Timers, Tick(t), NEW led \in Leds, port \subseteq Leds
    PROVE  IF blink[led].num = 0 THEN Lit(led)' <=> Lit(led) ELSE Lit(led)' <=> Shown(blink[led])
<1>1. port' = UNION {IF blink[x].num = 0 THEN port \cap {x} ELSE Level(x, Shown(blink[x])) : x \in Leds}
  BY DEF Tick
<1>2. (led \in port') <=> IF blink[led].num = 0 THEN led \in port ELSE led \in Level(led, Shown(blink[led]))
  BY <1>1 DEF Level
<1>3. Shown(blink[led]) \in BOOLEAN
  BY DEF Shown
<1>4. CASE blink[led].num = 0
  BY <1>2, <1>4 DEF Lit
<1>5. CASE blink[led].num # 0
  BY <1>2, <1>3, <1>5, LevelLit DEF Lit
<1> QED
  BY <1>4, <1>5

LEMMA TickLed == ASSUME Steady, LedInv, NEW t \in Timers, Tick(t) PROVE LedInv'
<1>1. /\ ready /\ UNCHANGED <<ready, period, pc, arg, reg>> /\ pc \notin {"store", "blink"}
      /\ blink' = [led \in Leds |-> Stepped(blink[led])]
  BY DEF Tick, Usable, Interruptible, Steady
<1>2. /\ period \in Nat \ {0} /\ blink \in [Leds -> BlinkRecords] /\ port \subseteq Leds
      /\ pacer \in Timers /\ want \in [Leds -> Wants]
  BY <1>1, LedFacts DEF LedInv, OwnInv, Types, TypeOK, ReadyInv, WantInv
<1>3. want' = [led \in Leds |-> Seen(want[led], Lit(led)')]
  BY <1>2 DEF Tick, Steady
<1>4. OwnInv'
  BY TickOwns DEF LedInv
<1>5. ASSUME NEW led \in Leds
      PROVE  /\ want'[led] \in Wants /\ Goes(blink'[led], want'[led], period)
             /\ Lit(led)' <=> Asked(want'[led], period)
             /\ Counted(want'[led], period)
  <2>1. /\ blink[led] \in BlinkRecords /\ want[led] \in Wants
        /\ Goes(blink[led], want[led], period) /\ Counted(want[led], period)
    BY <1>1, <1>2 DEF LedInv, FollowInv, CountInv
  <2>2. PICK on \in BOOLEAN : on = Lit(led)'
    BY DEF Lit
  <2>3. IF blink[led].num = 0 THEN Lit(led)' <=> Lit(led) ELSE Lit(led)' <=> Shown(blink[led])
    BY <1>2, TickPort
  <2>4. want'[led] = Seen(want[led], on) /\ blink'[led] = Stepped(blink[led])
    BY <1>1, <1>3, <2>2
  <2>5. Lit(led) <=> Asked(want[led], period)
    BY DEF LedInv, ShowInv
  <2>6. blink[led].num # 0 => (on <=> Shown(blink[led]))
    BY <2>2, <2>3
  <2>7. /\ Seen(want[led], on) \in Wants /\ Goes(Stepped(blink[led]), Seen(want[led], on), period)
        /\ Counted(Seen(want[led], on), period)
        /\ blink[led].num = 0 => Seen(want[led], on) = want[led]
        /\ blink[led].num # 0 => (Asked(Seen(want[led], on), period) <=> Shown(blink[led]))
    BY <1>2, <2>1, <2>6, OneSeen
  <2> QED
    BY <2>3, <2>4, <2>5, <2>7
<1>6. WantInv'
  BY <1>1, <1>3, <1>5 DEF WantInv
<1>7. FollowInv' /\ ShowInv' /\ CountInv'
  BY <1>1, <1>5 DEF FollowInv, ShowInv, CountInv
<1> QED
  BY <1>1, <1>4, <1>6, <1>7 DEF LedInv, CallInv

LEMMA NextLed == ASSUME Steady, LedInv, [Next]_vars PROVE LedInv'
<1>1. CASE UNCHANGED vars
  <2>1. OwnInv'
    BY <1>1, NextOwns DEF LedInv
  <2> QED
    BY <1>1, <2>1 DEF vars, driver, LedInv, WantInv, FollowInv, ShowInv, CountInv, CallInv, Lit
<1>2. CASE Next
  BY <1>2, InitStepLed, CallLed, SetLed, BlinkLed, TickLed DEF Next
<1> QED
  BY <1>1, <1>2

\* What an LED that blinks shows, from the ticks of the cycle in which it was seen lit.
LEMMA WhatBlinks ==
    ASSUME NEW w \in Wants, w.num # 0, w.age > 0, period \in Nat \ {0}, Counted(w, period)
    PROVE  /\ Asked(w, period) => w.lit = Place(w)
           /\ 100 * (w.lit * period) <= w.ms * w.duty
           /\ Place(w) = Cycle(w) => w.ms * w.duty < 100 * ((w.lit + 1) * period + 1)
           /\ Over(w) => ~Asked(w, period)
<1> DEFINE p == period
           c == CycleOf(w, p)
           H == High(w)
           k == ((w.age - 1) % c) + 1
           D == w.ms * w.duty
           x == w.lit * p
           y == (w.lit + 1) * p
<1>1. /\ w.ms \in Nat \ {0} /\ w.duty \in Nat /\ w.lit \in Nat /\ w.age \in Nat \ {0}
      /\ w.num \in Nat /\ p \in Nat \ {0}
  BY DEF Wants, WantRecords
<1>2. c \in Nat \ {0} /\ \A n \in Nat : n * p >= w.ms <=> n >= c
  BY <1>1, CycleFacts
<1>3. Cycle(w) = c /\ Place(w) = k
  BY DEF Cycle, CycleOf, Place
<1>4. H \in Nat /\ H <= w.ms
  BY HighType
<1>5. D \in Nat /\ 100 * H <= D /\ D < 100 * (H + 1)
  <2>1. D \in Nat /\ H = D \div 100
    BY <1>1 DEF High
  <2> HIDE DEF D, H
  <2> QED
    BY <2>1
<1>6. w.lit <= k /\ x <= H /\ (w.lit < k => y >= H)
  BY DEF Counted
<1>7. Asked(w, p) <=> k * p < H
  BY <1>1 DEF Asked
<1>8. k \in Nat
  BY <1>1, <1>2
<1>9. x \in Int /\ y \in Int /\ y = x + p
  BY <1>1
<1>10. c * p >= H /\ c * p \in Int
  <2>1. c * p >= w.ms /\ c * p \in Int
    BY <1>1, <1>2
  <2> HIDE DEF c, p, H
  <2> QED
    BY <1>1, <1>4, <2>1
<1>11. w.num < FOREVER /\ w.age = w.num * c => k = c
  <2> SUFFICES ASSUME w.num < FOREVER, w.age = w.num * c PROVE k = c
    OBVIOUS
  <2>1. w.num - 1 \in Nat /\ c - 1 \in 0 .. c - 1
    BY <1>1, <1>2
  <2> HIDE DEF c
  <2>2. (w.num - 1) * c = w.num * c - c /\ w.num * c \in Int
    BY <1>1, <1>2
  <2>3. w.age - 1 = (w.num - 1) * c + (c - 1)
    BY <1>1, <1>2, <2>2
  <2>4. ((w.num - 1) * c + (c - 1)) % c = c - 1
    BY <1>2, <2>1, Remainder
  <2> QED
    BY <1>2, <2>3, <2>4
<1> HIDE DEF p, c, H, k, D, x, y
<1>12. Asked(w, p) => w.lit = k
  <2> SUFFICES ASSUME k * p < H, w.lit # k PROVE FALSE
    BY <1>7
  <2>1. w.lit + 1 <= k /\ y >= H
    BY <1>1, <1>6, <1>8
  <2>2. y <= k * p /\ k * p \in Int
    BY <1>1, <1>8, <2>1, Times DEF y
  <2> QED
    BY <1>4, <1>9, <2>1, <2>2
<1>13. 100 * x <= D
  BY <1>4, <1>5, <1>6, <1>9
<1>14. k = c => D < 100 * (y + 1)
  <2>1. CASE w.lit < k
    BY <1>4, <1>5, <1>6, <1>9, <2>1
  <2>2. CASE w.lit = k /\ k = c
    <3>1. x = c * p
      BY <2>2 DEF x
    <3> QED
      BY <1>1, <1>4, <1>5, <1>9, <1>10, <3>1
  <2> QED
    BY <1>1, <1>6, <1>8, <2>1, <2>2
<1>15. Over(w) => ~Asked(w, p)
  <2>1. k = c => ~(k * p < H)
    BY <1>4, <1>10
  <2> QED
    BY <1>3, <1>7, <1>11, <2>1 DEF Over
<1> QED
  BY <1>3, <1>12, <1>13, <1>14, <1>15 DEF D, x, y, p

LEMMA ShowsIt == LedInv => ShowsAsAsked
<1> SUFFICES ASSUME LedInv, NEW led \in Leds
             PROVE  LET w == want[led] IN
                    IF w.num = 0 \/ w.age = 0 THEN Lit(led) <=> w.on
                    ELSE /\ Lit(led) => w.lit = Place(w)
                         /\ 100 * (w.lit * period) <= w.ms * w.duty
                         /\ Place(w) = Cycle(w) => w.ms * w.duty < 100 * ((w.lit + 1) * period + 1)
                         /\ Over(w) => ~Lit(led)
  BY DEF ShowsAsAsked
<1> DEFINE w == want[led]
<1>1. w \in Wants /\ Counted(w, period) /\ (Lit(led) <=> Asked(w, period))
  BY DEF LedInv, WantInv, CountInv, ShowInv
<1>2. w.age \in Nat
  BY <1>1 DEF Wants, WantRecords
<1> HIDE DEF w
<1>3. CASE w.num = 0 \/ w.age = 0
  BY <1>1, <1>3 DEF Asked, w
<1>4. CASE w.num # 0 /\ w.age > 0
  <2>1. period \in Nat \ {0}
    BY <1>4, LedFacts DEF w, LedInv, WantInv, OwnInv, ReadyInv
  <2> QED
    BY <1>1, <1>4, <2>1, WhatBlinks DEF w
<1> QED
  BY <1>2, <1>3, <1>4

\* Between two calls every LED shows what was last asked of it, through every
\* re-initialisation with another period (llos_led.c:59-199), if one timer runs LLOS_LED_Tick
\* and the hooks keep it out of LLOS_LED_Set and LLOS_LED_Blink: its level; or its blinking, lit
\* once in each cycle, from its start, for duty percent of it as polling rounds it (never
\* longer, and shorter by less than a period and a ms); and off after the number of blinks.
THEOREM LedsShowWhatIsAsked == ASSUME Steady PROVE Spec => []ShowsAsAsked
<1>1. LedInv /\ [Next]_vars => LedInv'
  BY NextLed
<1> QED
  BY InitLed, <1>1, ShowsIt, PTL DEF Spec
=============================================================================
