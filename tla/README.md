# A verification project for LLOS

LLOS is a small cooperative operating layer for microcontrollers: an event
scheduler, one-slot task mailboxes, software timers and a calendar, a memory
pool, stackless coroutines, a device table and a command shell in
`src/LLOS/kernel`, and separate components (FIFO, keys, LEDs, CRC, an EEPROM
emulation on NOR flash) in `src/LLOS/component`. `src/LLOS_Demo` holds example
applications for CH58x microcontrollers with the vendor's library.

There is one core. The main program calls `LLOS_Loop` in `while(1)`; the loop
runs event callbacks and coroutines to completion. Interrupts preempt it at any
instruction: the tick interrupt calls `LLOS_Tick_Increase`, which runs timer and
alarm callbacks *in the interrupt*, and others (the UART of the demos) call the
API. Mutual exclusion is `LLOS_Critical`, which calls two hooks that an
integrator may leave unset; no demo sets them. Whatever can go wrong between two
accesses to shared state, in the middle of a flash operation, or after a long
sequence of legal calls is what this project is about.

## Inventory

| Component | State | Operations | Meets | What makes it correct |
|---|---|---|---|---|
| Event scheduler and messages, `kernel/llos.c` 207-322, 408-436 | per task: callback, `newEvents`, `oldEvents`, `startTick[32]`, `msg_list`; the loop's locals | `LLOS_Register_Events`, `LLOS_Loop`, `LLOS_Start_Event`, `LLOS_Stop_Event`, `LLOS_Msg_Send/Receive/Clear` | called by the application, by interrupts, timer callbacks and the shell | no request lost, revived or run early; messages never NULL; every due request runs |
| Coroutines, `llos.c` 64-106, 265-287, `llos_coroutine.h` | contexts, `ll_coroutine_events`, `pendingEvents` of each task | register, every macro, set, clear and wait for events | resumed by `LLOS_Loop`, signalled by interrupts | no wake-up lost, none a pass late, time charged once |
| Software timers and alarms, 328-406, 462-521, 587-628 | `sysTick`, seconds, `timerCB_list`, `alarm_list` | `LLOS_Tick_Increase`, `LLOS_Timer_Set`, `LLOS_RTC_SetDate/SetAlarm` | drives keys and LEDs; callbacks call every API | each callback exactly at its tick, the last setting wins, no alarm missed |
| Calendar, 491-586, 630-659 | seconds since 2000, the date computed last | set and get date, week day | alarms; read in callbacks | conversions right and inverse, no torn date |
| Memory pool, 661-762 | a word array with the allocation table in band | `LLOS_malloc`, `LLOS_free`, `LLOS_Pool_GetUsedSize` | used by `LLOS_Init`, keys, LEDs, shell | blocks disjoint and intact; complete first fit; exact free |
| EEPROM emulation, `component/llos_eeprom` | flash records, backup sector and flag; ready flag | `LLOS_EEPROM_Init`, typed reads and writes | flash callbacks, CRC | atomic durable writes across power failures |
| CRC, `llos_crc.c` | none | parametric CRC | EEPROM, application | remainder of polynomial division |
| FIFO, `llos_fifo.c` | buffer, two free-running counters | init, clear, input, output, sizes | one side is an interrupt | bytes come out once, in order; counters wrap safely |
| Keys, `llos_key.c` | per key: state, tick, click count | init, tick | a software timer | press, release, click and hold reported once each, in order |
| LEDs, `llos_led.c` | per LED: mode, blink counters | init, set, blink, tick | a software timer; the pool | the pattern asked for, then the final level |
| Start-up and CPU accounting, 109-205, 226-287 | tables, idle counters | `LLOS_Init`; usage estimate | everything | tables filled before first use |
| Shell, 974-1349 | sorted command list, buffer size | `LLOS_Cmd_Init`, `LLOS_Cmd_Input`, parameter parsers | a UART event in the demos | each line runs once as what it says; parameters come back |
| Devices, 808-971 | device list | register, open, close, read, write, ctrl | application | calls forwarded to the driver |
| Logging | none | printf macros | | |
| Demos and vendored code | application state; the UART console | | | source of the callers' behaviour |

The hard behaviours, each at its line, are the `hazards` of `PROJECT.json`.

## Modules

| Module | Models | Checked by |
|---|---|---|
| `EventLoop` | scheduler and mailboxes against interrupts | `EventLoopMC`, two configurations |
| `EventLoopProofs` | theorems about `EventLoop` | TLAPS |
| `Coroutine` | coroutines, their events, their pass of `LLOS_Loop`, its accounting | `CoroutineMC` |
| `CoroutineProofs` | theorems about `Coroutine` | TLAPS |
| `SoftTimer` | tick interrupt, timers, alarms | `SoftTimerMC` |
| `Calendar` | date conversions; the cached date against ticks and interrupts | `CalendarMC` |
| `ClockProofs` | theorems about `SoftTimer` and `Calendar` | TLAPS |
| `MemPool` | allocation, release, accounting | `MemPoolMC` |
| `MemPoolProofs` | theorems about `MemPool`, `Startup`, `Console` and `CmdParams` | TLAPS |
| `EepromStore` | abstract specification: a durable map with atomic writes | through `Eeprom` |
| `Eeprom` | the driver on NOR flash; `INSTANCE EepromStore` | `EepromMC`, two configurations |
| `EepromProofs` | theorems about `Eeprom` and `Crc`; the refinement of `EepromStore` | TLAPS |
| `Crc` | `LLOS_CRC_CAL` and its predefined models | `EepromMC` |
| `ByteQueue` | abstract specification: a bounded queue of bytes | through `Fifo` |
| `Fifo` | the byte ring between main program and interrupt; `INSTANCE ByteQueue` | `FifoMC` |
| `FifoProofs` | theorems about `Fifo`; the refinement of `ByteQueue` | TLAPS |
| `Key` | key driver: initialisation and polling | `KeyMC` |
| `KeyProofs` | theorems about `Key` | TLAPS |
| `Led` | LED driver: initialisation, levels, blinking | `LedMC` |
| `LedProofs` | theorems about `Led` | TLAPS |
| `Startup` | `LLOS_Init` and its failures | through `Console` |
| `Console` | the demos' UART console from power-on to commands; `EXTENDS Startup` | `ConsoleMC` |
| `CmdParams` | the four parsers of command parameters | `ConsoleMC` |

The MC modules hold only what a configuration cannot say. `PROJECT.json`, `map`,
gives the source lines of every definition. A definition marked `mutant` is a
plausible bug in the one that follows it; it is used by no specification, and
replacing the definition by it violates the property that `mutants` names.

### EventLoop

`newEvents`, `oldEvents` (bit masks as sets) and `startTick` are the fields of
`eventCB_list`; `msg_list` holds the mailboxes. `pc` is the access to shared
memory the main program makes next. Every load and every store of the main
program is a step of its own (`x |= y` is two), because an interrupt may come
between any two. An interrupt handler is not interrupted, so each API call it
makes is one step. With `CriticalHooks` no interrupt comes within
`LLOS_Start_Event` and `LLOS_Stop_Event`; `LLOS_Loop` guards only its read of
`startTick`, a single access here, and `LLOS_Msg_Receive` and `LLOS_Msg_Clear`
have no critical section. An application callback calls the API and returns
nothing, its event, or the demos' default `0xFFFF`. The history variable `want`
is the deadline of the latest request for each event, `asked` is `want` at the
moment the loop read `startTick`.

`LosingPoints` are five places at which the code does not honour an interrupt's
call even with hooks: between the read of `newEvents` and its clearing, while
the events taken are only in a local variable (two accesses), inside
`oldEvents &= ~clearEvents`, and between the read of an event's bit and of its
`startTick`. `MessagePoints` are those at which a message sent by an interrupt
meets the one before it: the mailbox has one slot. `QuietAt` and `SendQuietAt`
keep interrupts' calls away from them; the tick is never kept away.

### Coroutine

A context is the state of its macro: start, yield, sleep, event, until, timeout
or end. What the application does between two macros is unknown to the kernel;
in the model a resumed coroutine makes API calls and then reaches any macro. The
event words are numbered: 0 is `ll_coroutine_events`, `k` the `pendingEvents` of
the k-th task. Nothing here is guarded by `LLOS_Critical`, so every `|=` and `&=`
is a load and a store, and `QuietAt` is the set `Stores` of the points between
them. `owed` is history: the events set and neither cleared nor reported.

### SoftTimer

The tick interrupt is a sequence of steps (`isr`, `n`): an interrupt is not
preempted here, but its callbacks call `LLOS_Timer_Set` and `LLOS_RTC_SetAlarm`
in the middle of the scans. The main program sets a timer store by store. `due`
and `wake` are history: when each callback has to run. A date is the second it
converts to.

### Calendar

The loops of `LLOS_RTC_SetDate` and `LLOS_RTC_GetDate` are recursive functions. A
time is a day and a second of it. `LLOS_RTC_GetDate` keeps the date it computed
last in static variables: each access of the main program to them is a step, and
seconds pass, `LLOS_Init` resets and an interrupt reads the date in between.
`got` is history: the date a caller got last and the time it read for it.

### MemPool

`mem` says of each word whether it looks like a header and with which length:
all that a scan can tell. Each loop iteration of the three functions is a step,
and between iterations an interrupt may write anything into a payload in use,
header patterns included. `LLOS_free` is given every address.

### Eeprom and Crc

A record is the value in its first word and, in the second, the value its CRC
was computed over, or `Blank`. Each flash callback is a step and the power may
fail between any two; with `"error"` in `Faults` a callback may report failure,
with or without its effect. `Reinits` says that the application answers an error
with `LLOS_EEPROM_Init`. `Erased` is the erased word and may be a value that is
written, as in the code. `Durable(v)`, the refinement mapping, is what a restart
would bring back: the backup while its flag is set, else the last valid record.
A write thereby commits with the second word of its appended record or, in a
rotation, with the erasing of the backup.

`Crc` treats a word as the sequence of its bits, the highest first. Its
reference definition is the schoolbook division of polynomials over GF(2).

### Fifo

`roles` says which of the main program and the interrupt inputs and which
outputs; it never changes. In the FIFO demo the main program inputs and a key
callback, which runs in the tick interrupt, outputs. The main program stores a
byte and then advances `pEnd`, reads a byte and then advances `pHead`, each in a
step of its own; the compiler cannot swap them, because the bytes may alias the
counters. The two reads of `LLOS_FIFO_Get_UsedSize` come in either order.
`Contents`, the refinement mapping, is what lies between the counters, taken
modulo `Wrap`. `LLOS_FIFO_Clear` stores both counters and then the buffer.

### Key

One port with one key. `User` is the person at the key: during each polling
period the level may change once, before, between or after the reads of the
tick. `clicks`, `span` and `age` are what the person did; `Told` is what the
driver says about it. `LLOS_Key_Init` may run at any time, is interrupted by
ticks between its steps and may fail at each allocation and at the timer.

### Led

The LEDs share one output port; a change of it is a load and a store. The
configuration is a block of the pool that each `LLOS_LED_Init` replaces, which
can fail at the allocation or at the timer. `LLOS_LED_Tick` is one step of the
tick interrupt. `want` is history: what was asked of each LED, its age in
periods of the timer initialised last (`pacer`), and in how many ticks of its
present cycle the LED was seen lit.

`ShowsAsAsked` compares that with the duty asked for, not with the driver's own
comparison: in a cycle the LED is lit once, from the start, never longer than
`duty` percent of `ms`, and shorter by less than a polling period and a ms. It
can be shorter by a whole period: `LLOS_LED_Tick` advances `tick` before it
compares it with the duty (`llos_led.c:174-179`). If the duty makes up whole
periods the last of them is dark: a cycle of 30 ms at 100 % polled every 10 ms
is on, on, off, and one of 20 ms at 50 % is never lit. No doc claims otherwise
(`llos_led.h:80` says that the polling period affects the duty), so it is a
limit stated by the property and not a finding.

### Startup, Console, CmdParams

`Startup` is `LLOS_Init`: the numbers of tasks, timers, alarms and devices are
stored first, the five tables are allocated one by one, and a failure wipes the
numbers. `Console` adds the demos' `system.c`: the UART interrupt that appends
bytes to a buffer and restarts an event of 10 ms, the event, `System_Loop`,
`LLOS_Cmd_Input` and the sorted command table. A byte is a token of a command.
`qsort` is not stable: `Sorted` is every order it may leave.
`LLOS_Loop` is reduced to the one event. `CmdParams` has the parameter parsers
on the same tokens.

## Runs

| Run | Shows | Bounds, and why they are enough |
|---|---|---|
| `loop` | with hooks, calls from interrupts are honoured at every access but the losing points; no message event finds an empty mailbox; every due request runs | two tasks with a user event and the message event each; one call per callback reaches restarts of the running event, stops of the other task and starts across tasks; delay 1 and one tick make a request due later |
| `loop_lost_start` | finding: a start between read and clearing of `newEvents` is lost, hooks or not | one task |
| `coroutines` | no wake-up is lost but in the load and store of a word; none comes a pass late; busy time within the passes | two contexts and two table entries: both in order, or one registered twice; two events, one of them waited for; one call per pass |
| `timers` | with hooks every callback runs exactly at its tick, the last setting wins, no alarm is missed | two timers show one callback setting the other before and after its turn; three settings cover set, set again and stop; four ticks are two seconds |
| `calendar` | every day from 2000 to 2099 converts forth and back and has its week day; no torn dates | all 36525 days; three seconds cross midnight once; four calls are a date kept, replaced and kept again |
| `pool` | blocks intact, complete first fit, exact free and accounting | seven words hold up to three blocks and every fragmentation of them; requests longer than a header can say are refused (in the code, where a pool has at most 16383 words, there are none) |
| `eeprom` | implements `EepromStore` with power failures and flash errors at any operation; never refuses service; always gets ready; the CRC is the remainder | two variables, two main sectors of two slots: rotations start at the last slot and erase more than one sector; values include 0 (what an unreadable variable reads as) and the erased word; all 21 CRC models over up to three bytes |
| `eeprom_flash_error` | finding: going on after an error in a rotation lets a restart undo acknowledged writes | one sector, one slot |
| `fifo` | implements `ByteQueue` in every role; sizes reported are real | four bytes, the least size `LLOS_FIFO_Init` accepts; counters wrap at eight, so runs pass the wrap again and again; calls of one to three bytes are cut short by a full or empty ring |
| `key` | each gesture is reported once, in time and rightly; initialisation leaks nothing | thresholds that are no multiples of the period; a triple click can be shorter or longer than the long-press threshold |
| `leds` | each LED shows its level, or blinks as often as asked and is lit for its duty but for the rounding by the polling period; initialisation leaks nothing and frees nothing in use | one LED active high and one low; blinks with and without remainder, without end, stopped and cut to 100 %, which is a whole number of periods and dark in the last; two blocks, so an allocation can fail or succeed beside the old one |
| `console` | a start that fails anywhere leaves nothing to walk; lines arrive whole and run as the command they name; parameters come back as written | room for 0 to 6 blocks: each allocation fails once; commands that begin one another, lines that just fit the buffer and one too long; two lines, for what the first leaves to the second; every triple of parameters of all types and three separators |

The power fails any number of times and any number of writes is made: neither is
bounded in `Eeprom`. In `EventLoop` and `Coroutine`, `MaxTick` and `MaxCalls`
bound the clock and the calls per callback or pass; passes of the loop are not
bounded. `MaxTick` and `MaxSets` (`SoftTimer`), `MaxTicks` and `MaxCalls`
(`Calendar`), `MaxCalls` (`Led`) and `MaxLines` (`Console`) bound the clock and
the calls of a whole behaviour. `Fifo` and `Key` run on without a bound; `MaxLen`,
`MaxClicks` and `MaxSpan` bound one call and one gesture.

Deadlock is checked except in `calendar`, `leds` and `console`, where nothing
is left to do once the bounded calls and lines are used up (and, in `console`,
where the program halts if `LLOS_Init` failed).

### Conditions that matter

The passing runs assume conditions; each is a constant, and each is needed.
With another value TLC finds the named property violated:

| Constant | Value of the run | Other value | Violated |
|---|---|---|---|
| `SendQuietAt` of `EventLoop` | `MessagePoints` | `{}`: `LLOS_Msg_Clear` clears a message sent since `LLOS_Msg_Receive` | `MsgNotNull` |
| `CriticalHooks` of `SoftTimer` | `TRUE` | `FALSE`, as in the demos: the tick sees `LLOS_Timer_Set` half done and runs the callback at once | `FiresOnTime` |
| `QuietAt` of `Coroutine` | `Stores` | `{}`: an event set between load and store of a word is lost | `EventsExact` |
| `IsrReadsAt` of `Calendar` | up to the check of the day | a later point: the date is mixed from two days | `GotRight` |
| `CriticalHooks` of `Led` | `TRUE` | `FALSE`: a change of the port by the tick is written over | `ShowsAsAsked` |
| `Timers` of `Led` | one | two: both call `LLOS_LED_Tick` after initialising on the second | `ShowsAsAsked` |
| `ClearAlone` of `Fifo` | `TRUE` | `FALSE`: between the two stores of `LLOS_FIFO_Clear` the ring seems to hold garbage; nothing in the repository calls it | `ImplementsQueue` |
| `MinAge` of `Key` | 3: two polls see a press | 2: `which.pressTime` of the gesture before delays the report | `ReportedInTime` |
| `MaxClicks` of `Key` | 3 | 4: the count reaches `ll_key_event_LongPress` | `Inv` |
| `Limit` of `Key` (the 16-bit wrap) | beyond a gesture, by assumption | within it: the report is delayed until the next press | `ReportedInTime` |
| `TickFirst` of `Startup` | `FALSE`, the porting steps of `llos.h` 9-12 | `TRUE`, the order of the demos: the tick walks tables that do not exist yet | `TablesExist` |
| `SenderWaits` of `Console` | `TRUE` | `FALSE`: `memset` erases bytes of the next line | `LinesRunRight` |
| `QuietAt` of `Console` | `{"clear"}` | `{}`: the start of the event is lost, the first finding again | `EveryLineRuns` |
| `MaxGap` of `Console` | less than `Delay` | `Delay`: a pause ends the line | `LinesRunRight` |

### Findings

* **A started event can be lost** (`llos.c:241`). `LLOS_Loop` reads and zeroes
  `newEvents` outside any critical section. Registering hooks does not help.
* **An acknowledged write can be undone** (`llos_eeprom.c:243`). A flash error
  during a rotation leaves the backup flag set and the store ready.

### Fairness

* `EventLoop`: weak for `Main`, strong for `Tick`. The processor runs the main
  program whenever no interrupt is served; a tick that finds interrupts disabled
  stays pending until they are enabled. `Main` includes the steps of the
  application, whose callbacks return: one that never returned would stop a
  cooperative system by design. Interrupts that call the API get no fairness.
* `Coroutine`: weak for `Main` and `Tick`; no interrupts are disabled here.
* `Console`: weak for `Main`, strong for `Tick` and for the UART interrupt: a byte
  under way arrives. Whether another line is sent is up to the other side.
* `Eeprom`: weak for the driver's steps (a call under way goes on while there is
  power). `GetsReady` speaks only of behaviours in which power failures and
  flash errors come to an end.

The other specifications need none: what they promise is safety.

## Proofs

Proved by TLAPS for all values of the constants that satisfy the modules'
assumptions (tables and pools are not empty, delays are natural numbers, NULL is
no message). Every invariant, every action property and both refinements of the
passing runs are proved; only the liveness properties are not. Where a
theorem has a hypothesis on a constant besides, it is one of the conditions that
matter, above, or what a finding is about: without it TLC finds the property, or the
one of the finding, violated. Few of the properties
are inductive, because in the middle of a call a register, a parameter or a loop
variable stands for part of the state: what each invariant adds to the properties
is mostly what those hold at each point.

* `EventLoopProofs`: `SchedulerTypes` needs nothing else. `StartsAreKept`,
  `StopsAreFinal` and `DispatchIsRequested` assume `CallsAreHonoured`: interrupts
  make no API call, or there are hooks and the calls miss the five losing points
  (the finding shows that they cannot be had otherwise). `NoLostStart` and
  `NoGhostRequest` say together which bits stand for which requests; `IInv` adds
  `LoopInv` and `ApiInv` (at each store the register still equals the word it was
  loaded from, and the taken events are nowhere else), `TickInv` (a request's
  deadline is what `startTick` holds) and `ScanInv` (the bit read and the tick
  read belong to an outstanding request). An interrupt in hooks cannot invalidate
  a register within the API; outside, the losing points are exactly the places
  where it could.
* `MessagesArrive`, in the same module, proves `MsgNotNull` with or without hooks
  if messages are serial (`MessagesAreSerial`: interrupts send none, or keep away
  from `MessagePoints`). `MailInv` says that a message event requested or taken
  means a full mailbox, unless its callback runs; `MailRegInv` that no register
  brings a withdrawn one back; `MailLoopInv` that no second message is announced
  from the taking of the events to `LLOS_Msg_Clear`.
* `MemPoolProofs`: `PoolTypes`, `BlocksStayIntact`, `NoStrayHeaders`,
  `MallocIsComplete`, `FreeTakesBlocks`, `CountIsExact` (`UsedIsExact`). `IInv` says
  where the scans are: `MallocInv` and `FreeInv` (a scan position is never inside a
  payload, and no room for the request, or the wanted header, lies behind it),
  `ProbeInv` (the words probed so far are free), `ZeroInv` (what is left to clear is
  the rest of one block). The key lemma is that a header met outside a payload is
  the header of a block in use, so skipping by its length leads outside again.
  `CountInv` adds that the count is the cardinality of the words in use below the
  scan. `NoStrayHeaders` is proved only; the runs check what follows from it.
* Also there, of the console that starts from what the pool has room for,
  `LinesRunAsSent` (`LinesRunRight`) assumes `LinesApart`: the other side waits for
  each line to run, and within a line it pauses for less than the delay. `ConsoleInv`
  follows the line from the wire to the buffer: what has arrived and what is to come
  make it up (`LineInv`), no event of the line before is left when it begins
  (`SilenceInv`), its own lies ahead by what is left of the delay (`GapInv`), and
  where the main program is while a line is complete (`PlaceInv`) or before anything
  starts (`BeforeInv`). `ListInv` says that the table is searched in an order `qsort`
  may leave. `TablesStand` proves `TablesExist` for all tables wanted and every
  failure of the pool, unless the tick comes first.
* Of the parsers, `ParameterIsTaken`: each takes its own parameter off the front of a
  buffer, whatever blanks and commas come before it, and leaves whatever text follows,
  provided that this begins with a delimiter and, behind a number without a unit, not
  with one. `Parameters` are all that can be written with the tokens of the model: the
  words, every number with every unit and without, and every quoted text that
  `CopyLen` has room for. `ThreeComeBack` puts three calls together, for
  any separator between the parameters; `ParametersAreRead` (`ParamsComeBack`) is the
  part of it that TLC evaluates.
* `ClockProofs`: `TimerTypes` needs nothing else. With hooks, `NoTimerIsMissed`
  (`Inv`), `LastSettingStands` (`LastSettingWins`), `TimersFireOnTime` and
  `AlarmsRunOnTime` (`AlarmsOnTime`) hold for any number of timers and alarms set by
  anyone, callbacks in the middle of the scan included. `TimerInv` and `AlarmInv` say
  that the fields of a timer or alarm stand for what was asked last, unless it is
  being set or its callback runs; `SetInv` how far a setting under way has come,
  `HookInv` that no tick comes into it; `ScanInv` that a timer the scan has yet to
  reach is due in this tick or later, and one behind it only later.
* Also there, of `Calendar`: `DatesAreNeverTorn` (`GotRight`) holds if an interrupt
  reads the date only while the main program has not passed the check of the day.
  `KeptRight` says what the static variables hold at each point: between calls a date
  marked valid is that of `daycnt`, and behind the check the fields stored so far are
  those of the day read. This part uses the conversions only as functions of the day.
* What the conversions compute: `DatesFollowOn` (each day's date is the Gregorian one
  after that of the day before, and converts back to its day; this is so for every
  day from 2000-01-01 on, those to 2136 that the 32-bit seconds reach among them: the
  bound 2099 is only in the check of `LLOS_RTC_SetDate`),
  `DatesAreAccepted` (that check, for all numbers) and `ConversionsAreRight`
  (`DatesAreRight`). The loops of the code take off one year, then one month at a
  time. The lemmas give the first day of a year and of a month in closed form and show
  that the loops stop in the year and the month the day belongs to. They are
  recursive functions here; an induction along one is an argument about the least
  number for which it goes wrong, which needs no theorem with an operator as parameter.
* `CoroutineProofs`: `CoroutineTypes` and `ChargedTimeIsReal` (`BusyWithinAll`) need
  nothing else; `CpuInv` compares the time charged to the coroutine under way with
  that of the pass it is in. If interrupts' calls keep away from the load and store
  of a word, `NoEventIsLost` proves `EventsExact` (`ExactInv`: the register still
  equals the word) and `EveryReadyOneResumed` proves `NonePassedOver` (`DueInv`:
  who was ready when the pass began still is, and is ahead of the loop).
* `FifoProofs`, if `LLOS_FIFO_Clear` has the ring to itself: `NoCallOverruns` (`Inv`),
  `SizeWasReal` (`SizeIsReal`) and `RingIsQueue`, every step of the ring a step of
  `ByteQueue` or none. Any size and any width of the counters that is a multiple of
  it; `CallInv` says that the byte stored, or read, is still there when the counter
  is advanced, because only one side moves each counter. `SizeInv`: the counter that
  the caller itself moves has not moved between the two reads.
* `EepromProofs`: `EepromTypes` and `StoreNeverFails` (`NeverFails`) need nothing else.
  If an application that is told of an error starts the store again, or no flash
  operation fails (`StartsAgain`): `ReadsStand` (`ReadsAreDurable`),
  `StoreImplemented` (every step of the driver, power failures and flash errors
  among them, is a step of `EepromStore` or none) and `AckStands` (`AckIsDurable`,
  the one the finding refutes without the condition). `Kept` consists of types,
  `OpInv` (which operation is under way where) and, as long as nobody has gone on
  after an error, `StateInv`: slots in use come first and the backup is whole while
  its flag is set (`FlagInv`), and how far an append, a rotation and a recovery have
  come (`AppendInv`, `SaveInv`, `RestoreInv`). A power failure keeps the flash alone,
  so the invariant for the flash must not depend on where the driver was.
* Also there, `CrcIsTheRemainder`: for every width of `Widths`, polynomial, initial
  value and final XOR, reflected or not, and for messages of any length, `LLOS_CRC_CAL`
  is the remainder of the polynomial division; `RecordChecksum` (`CrcIsRemainder`)
  is the part that TLC evaluates. The code adds a byte at a time to the top of the
  register where the division works on the whole message at once. `Holds` relates the
  two bit by bit: after n steps the register is what the division has left at the
  next places, but for the bits of the message still to come.
* `KeyProofs`, for all periods, thresholds and gestures of at most three clicks whose
  levels last three polls each (`UserIsSteady`): `DriverIsSound` (`Inv`),
  `ReportsComeInTime` (`ReportedInTime`), `ReportsAreRight` (`ReportIsRight`).
  `DownInv` ties the driver to the person at the key: `pressTime` is the gesture's
  length but for the one or two periods in which it was noticed, `which.pressTime`
  what it was when the key was last seen down, and each press is counted once.
* `LedProofs`: `ConfigIsOwned` (`Inv`: no block lost, none used after it was freed)
  needs nothing else; `OwnInv` says at each step of an initialisation which block
  is in use and who knows of it. With hooks and one timer, `LedsShowWhatIsAsked`
  proves `ShowsAsAsked` for any number of LEDs, periods and patterns. `FollowInv`
  says that an LED's counters are the age of what was asked within its cycle,
  `ShowInv` that its pin is what the driver computes for that age, and `CountInv`
  that the ticks seen lit are all of the cycle until the next one would exceed the
  duty; `WhatBlinks` derives the time lit per cycle from them.

The invariants were checked by TLC, on the instances of the runs, before they were
proved. `Console` and `Calendar` name their specifications `ConsoleSpec` and
`DateSpec`, so that a module of proofs can extend them beside another.

Only model-checked, and out of the prover's reach: liveness under fairness
(`EveryRequestRuns`, `EveryoneWakes`, `EveryLineRuns`, `GetsReady`).

## Not modelled

* The device functions (808-971) forward each call to the driver's callback; the
  only state is a table that start-up code fills and a flag nothing reads.
* Logging, and the shell's functions that print: formatting without state.
* The vendor's peripheral library, start-up code and linker files, about 14000 of
  the 20000 lines of code in the repository, and the demo tasks that only show
  calls of the API.
* Numbers in parameters of commands that do not fit their type, which the parsers
  refuse (`llos.c:1233`, `1270-1281`).
* Combinations of keys on one port, and keys initialised again on another timer.
* The OTP words, the checks of the configuration and the lifespan estimate of the
  EEPROM emulation; its typed wrappers, which convert and call the modelled
  function.
* An erase or a program operation torn by the power failure in the middle of one
  flash operation: what it leaves depends on the flash. In particular a backup
  erase that clears some records before the flag would lose them in recovery.
* A torn read of the 64-bit `sysTick` on a 32-bit core, possible for an instant
  every 2^32 ticks; the wrap of the seconds after 136 years and the week day of
  dates after 2099, which `LLOS_RTC_SetDate` refuses.
* `LLOS_malloc` and `LLOS_free` in interrupts: no code in the repository does it.
* The time of event callbacks in the CPU accounting, low-power and error hooks:
  they do not influence scheduling.

## Plan

The modules, the runs and the proofs above are complete but for the lists of what
is not modelled and for liveness, which is not proved. Worth adding, in this order:

1. Combinations of keys on one port.
2. The composition of `Key` and `Led` with `SoftTimer`: both assume that their
   timer ticks once a period, which `FiresOnTime` promises.
3. The checks of the configuration by `LLOS_EEPROM_Init`.
