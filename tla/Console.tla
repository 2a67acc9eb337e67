------------------------------- MODULE Console -------------------------------
(***************************************************************************)
(* The command console of the demos (system.c) on LLOS: from power-on to   *)
(* the commands that arrive over the UART.                                 *)
(*                                                                         *)
(* The UART interrupt appends every byte to usart_recBuf and restarts an   *)
(* event of 10 ms; when that event runs, the line is complete.  The main   *)
(* loop then hands it to LLOS_Cmd_Input, which calls the command's         *)
(* callback, and clears the buffer.                                        *)
(*                                                                         *)
(* A byte is a token of a command, as a letter of its name is to the code. *)
(* LLOS_Loop is reduced to the one event; EventLoop.tla has the others.    *)
(***************************************************************************)
EXTENDS Startup, SequencesExt, FiniteSetsExt

CONSTANTS
    Token,        \* what a byte of a line may be
    Commands,     \* cmdList as it is written: the patterns, in any order
    Lines,        \* lines the other side sends
    Separator,    \* tokens that LLOS_Cmd_Input accepts behind a pattern
    BufferLen,    \* UART_BUFFER_LEN, and the size LLOS_Cmd_Init is called with
    Delay,        \* ticks after the last byte
    MaxGap,       \* ticks between two bytes of a line
    SenderWaits,  \* does the other side wait until the console is idle again?
    QuietAt,      \* points of the main program at which no byte arrives
    MaxLines      \* bound: lines that are sent

ASSUME PatternAssumption == Commands \in Seq(Seq(Token) \ {<<>>})
ASSUME LineAssumption == Lines \subseteq Seq(Token) \ {<<>>}
ASSUME TimeAssumption == Delay \in Nat /\ MaxGap \in Nat
ASSUME LengthAssumption == BufferLen \in Nat \ {0, 1} /\ MaxLines \in Nat

VARIABLES
    cmdList,          \* the command table, sorted by LLOS_Cmd_Init
    recBuf, rxOK,     \* usart_recBuf
    newEvent, oldEvent, pending,  \* the event of the UART task, see EventLoop.tla
    left,             \* ticks until its start tick is reached
    wire, gap,        \* tokens of the line still to come, ticks since the last one
    stuck,            \* does the UART hold a byte that its handler does not read?
    sent, ran         \* history: lines sent, and what LLOS_Cmd_Input made of each (empty
                      \* ones left out)

event == <<newEvent, oldEvent, pending, left>>
line == <<wire, gap, stuck, sent>>
consoleVars == <<bootVars, cmdList, recBuf, rxOK, event, line, ran>>

NotFound == [cmd |-> <<>>, params |-> <<>>]

ConsoleInit ==
    /\ BootInit
    /\ cmdList = Commands
    /\ recBuf = <<>> /\ rxOK = FALSE
    /\ newEvent = FALSE /\ oldEvent = FALSE /\ pending = FALSE /\ left = 0
    /\ wire = <<>> /\ gap = 0 /\ stuck = FALSE
    /\ sent = <<>> /\ ran = <<>>

-----------------------------------------------------------------------------
(* LLOS_Cmd_Init and LLOS_Cmd_Input.                                         *)

Longer(p, q) == Len(p) > Len(q)

\* what qsort may make of a table: patterns of one length are in no particular order
Sorted(list) ==
    LET Entries == 1 .. Len(list)
    IN {[n \in Entries |-> list[order[n]]] :
          order \in {p \in Bijection(Entries, Entries) :
                        \A m, n \in Entries : m < n => ~Longer(list[p[n]], list[p[m]])}}

Cmd_Init ==
    /\ CmdBuffer
    /\ cmdList' \in IF bufSize' THEN Sorted(cmdList) ELSE {cmdList}
    /\ UNCHANGED <<recBuf, rxOK, event, line, ran>>

\* case is ignored
Fold(tok) == IF tok = "*rst" THEN "*RST" ELSE tok
Folded(text) == [n \in 1 .. Len(text) |-> Fold(text[n])]

Matches(pattern, data) ==
    /\ Len(data) >= Len(pattern)
    /\ Folded(SubSeq(data, 1, Len(pattern))) = Folded(pattern)
    /\ Len(data) = Len(pattern) \/ data[Len(pattern) + 1] \in Separator

\* the parameters leave room for the final 0 in the buffer
Kept_two(n) == IF n >= BufferLen - 1 THEN BufferLen - 2 ELSE n   \* mutant: room for one more
Kept(n) == IF n >= BufferLen THEN BufferLen - 1 ELSE n

Cmd_Input(data) ==
    LET found == SelectInSeq(cmdList, LAMBDA pattern : Matches(pattern, data))
    IN IF ~bufSize \/ found = 0 THEN NotFound
       ELSE LET length == Len(cmdList[found])
            IN [cmd |-> cmdList[found],
                params |-> SubSeq(data, length + 1, length + Kept(Len(data) - length))]

-----------------------------------------------------------------------------
(* The main program; a UART that keeps interrupting does not let it run.     *)

Boot == BootStep /\ UNCHANGED <<cmdList, recBuf, rxOK, event, line, ran>>

At(from, to) ==
    /\ place = from /\ ~stuck
    /\ place' = to
    /\ UNCHANGED <<cfgs, tables, room, ticking, bufSize, cmdList, line>>

Take ==
    /\ At("loop", "clear")
    /\ pending' = newEvent
    /\ UNCHANGED <<recBuf, rxOK, newEvent, oldEvent, left, ran>>

Merged_overwrites == pending   \* mutant: an event that is not due yet is forgotten
Merged == oldEvent \/ pending

TakeClear ==
    /\ At("clear", "due")
    /\ newEvent' = FALSE
    /\ oldEvent' = Merged /\ pending' = FALSE
    /\ UNCHANGED <<recBuf, rxOK, left, ran>>

Due == oldEvent /\ left = 0

\* TaskUART_Events
RunEvent ==
    /\ Due /\ At("due", "return")
    /\ rxOK' = TRUE
    /\ UNCHANGED <<recBuf, event, ran>>
EventReturns ==
    /\ At("return", "check")
    /\ oldEvent' = FALSE
    /\ UNCHANGED <<recBuf, rxOK, newEvent, pending, left, ran>>
NoEvent == ~Due /\ At("due", "check") /\ UNCHANGED <<recBuf, rxOK, event, ran>>

\* System_Loop.  The event may run once more behind a line whose last byte came while
\* the event was pending; no command is found in the empty buffer then.
NoLine == ~rxOK /\ At("check", "loop") /\ UNCHANGED <<recBuf, rxOK, event, ran>>
RunLine ==
    /\ rxOK /\ At("check", "memset")
    /\ ran' = IF recBuf = <<>> THEN ran ELSE Append(ran, Cmd_Input(recBuf))
    /\ UNCHANGED <<recBuf, rxOK, event>>

ClearBuffer ==
    /\ At("memset", "loop")
    /\ recBuf' = <<>> /\ rxOK' = FALSE
    /\ UNCHANGED <<event, ran>>

Main ==
    \/ Boot \/ Cmd_Init
    \/ Take \/ TakeClear \/ RunEvent \/ EventReturns \/ NoEvent \/ NoLine \/ RunLine \/ ClearBuffer

-----------------------------------------------------------------------------
(* The tick, the other side and the UART interrupt.                          *)

\* LLOS_Start_Event(taskUART, ...): refused until the task is registered
StartEvent ==
    IF Booted THEN newEvent' = TRUE /\ left' = Delay ELSE UNCHANGED <<newEvent, left>>

\* No longer than MaxGap passes within a line.
Tick ==
    /\ ticking /\ (left > 0 \/ wire # <<>>)
    /\ wire # <<>> /\ ~stuck => gap < MaxGap
    /\ left' = IF left > 0 THEN left - 1 ELSE 0
    /\ gap' = IF wire # <<>> /\ ~stuck THEN gap + 1 ELSE 0
    /\ UNCHANGED <<bootVars, cmdList, recBuf, rxOK, newEvent, oldEvent, pending,
                   wire, stuck, sent, ran>>

MaySend ==
    SenderWaits => place = "loop" /\ Len(ran) = Len(sent) /\ recBuf = <<>> /\ ~newEvent /\ ~oldEvent

Line(l) ==
    /\ wire = <<>> /\ Len(sent) < MaxLines /\ MaySend /\ ~stuck
    /\ wire' = l /\ gap' = 0
    /\ sent' = Append(sent, l)
    /\ UNCHANGED <<bootVars, cmdList, recBuf, rxOK, event, stuck, ran>>

\* A byte arrives, and its interrupt with it.
UART0_IRQHandler ==
    /\ wire # <<>> /\ ~stuck /\ place \notin QuietAt
    /\ \/ /\ Len(recBuf) < BufferLen
          /\ recBuf' = Append(recBuf, Head(wire))
          /\ wire' = Tail(wire) /\ stuck' = FALSE
       \/ /\ Len(recBuf) >= BufferLen
          /\ stuck' = TRUE
          /\ UNCHANGED <<recBuf, wire>>
    /\ gap' = 0
    /\ StartEvent
    /\ UNCHANGED <<bootVars, cmdList, rxOK, oldEvent, pending, sent, ran>>

\* The byte that was not read keeps the interrupt asserted.
IrqAgain ==
    /\ stuck
    /\ StartEvent
    /\ UNCHANGED <<bootVars, cmdList, recBuf, rxOK, oldEvent, pending, line, ran>>

ConsoleNext == Main \/ Tick \/ UART0_IRQHandler \/ IrqAgain \/ \E l \in Lines : Line(l)

ConsoleSpec == ConsoleInit /\ [][ConsoleNext]_consoleVars

\* The processor runs; a tick that falls due and a byte under way arrive at some time.
FairConsole ==
    ConsoleSpec /\ WF_consoleVars(Main) /\ SF_consoleVars(Tick) /\ SF_consoleVars(UART0_IRQHandler)

-----------------------------------------------------------------------------
(* Properties.                                                               *)

\* r is what line l asks for: the longest command it starts with, and what follows.
Answers(r, l) ==
    LET fits == {n \in 1 .. Len(Commands) : Matches(Commands[n], l)}
    IN IF fits = {} \/ ~bufSize THEN r = NotFound
       ELSE \E n \in fits :
                /\ \A m \in fits : Len(Commands[m]) <= Len(Commands[n])
                /\ r.cmd = Commands[n]
                /\ r.params = SubSeq(l, Len(Commands[n]) + 1, Len(l))

\* The lines are run whole, once, in order and as what they ask for: none is cut, joined
\* with another or taken for a shorter command (system.c:28-37, 82-90, 131-137,
\* llos.c:1063-1130).
LinesRunRight == \A n \in 1 .. Len(ran) : n <= Len(sent) /\ Answers(ran[n], sent[n])

\* Every line that is sent is run, unless one was longer than the buffer: the handler
\* does not read that byte, and the interrupt never ends (system.c:131-137).
EveryLineRuns ==
    \A n \in 1 .. MaxLines : (Len(sent) >= n) ~> (Len(ran) >= n \/ stuck)
=============================================================================
