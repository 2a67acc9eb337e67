------------------------------- MODULE Startup -------------------------------
(***************************************************************************)
(* The start of an LLOS application: LLOS_Init and LLOS_Cmd_Init           *)
(* (kernel/llos.c) as System_Init of the demos calls them.                 *)
(*                                                                         *)
(* LLOS_Init stores the numbers of tasks, timers, alarms and devices first *)
(* and allocates the tables they are the lengths of afterwards, one by     *)
(* one.  It returns nothing: the application goes on whether it succeeded  *)
(* or not.                                                                 *)
(***************************************************************************)
EXTENDS Integers, Sequences

CONSTANTS
    Wanted,     \* tables whose number is not 0 in ll_init_cfgs_t
    Rooms,      \* how many blocks the pool may have room for
    TickFirst   \* is the tick interrupt enabled before LLOS_Init, as in the demos?

TableOrder == <<"event", "msg", "timer", "alarm", "device">>
Tables == {TableOrder[n] : n \in 1 .. Len(TableOrder)}

ASSUME WantedAssumption == {"event", "msg"} \subseteq Wanted /\ Wanted \subseteq Tables
ASSUME RoomAssumption == Rooms \subseteq Nat /\ TickFirst \in BOOLEAN

VARIABLES
    place,     \* where the main program is; a table while LLOS_Init allocates it
    cfgs,      \* are the numbers in ll_init_cfgs those of the application, or 0?
    tables,    \* tables that are allocated
    room,      \* blocks the pool has room for
    ticking,   \* is the tick interrupt enabled?
    bufSize    \* ll_cmd_bufSize # 0: does the command parser have its buffer?

bootVars == <<place, cfgs, tables, room, ticking, bufSize>>

BootInit ==
    /\ place = "reset"
    /\ cfgs = FALSE /\ tables = {} /\ room \in Rooms
    /\ ticking = FALSE /\ bufSize = FALSE

SysTick_Config ==
    /\ place = "reset"
    /\ ticking' = TickFirst
    /\ place' = "init"
    /\ UNCHANGED <<cfgs, tables, room, bufSize>>

StoreCfgs ==
    /\ place = "init"
    /\ cfgs' = TRUE
    /\ place' = "event"
    /\ UNCHANGED <<tables, room, ticking, bufSize>>

\* the table LLOS_Init allocates after t; LLOS_Cmd_Init follows
After(t) == IF t = "device" THEN "cmd"
            ELSE TableOrder[1 + CHOOSE n \in 1 .. Len(TableOrder) : TableOrder[n] = t]

Allocate ==
    /\ place \in Tables
    /\ \/ /\ place \in Wanted /\ room > 0
          /\ tables' = tables \cup {place} /\ room' = room - 1
          /\ place' = After(place)
       \/ /\ place \in Wanted /\ room = 0
          /\ place' = "failed"
          /\ UNCHANGED <<tables, room>>
       \/ /\ place \notin Wanted
          /\ place' = After(place)
          /\ UNCHANGED <<tables, room>>
    /\ UNCHANGED <<cfgs, ticking, bufSize>>

\* LLOS_ErrorHandler returns; memset(&ll_init_cfgs, 0, ...)
Wiped_not == cfgs   \* mutant: the numbers stay
Wiped == FALSE

GiveUp ==
    /\ place = "failed"
    /\ cfgs' = Wiped
    /\ place' = "cmd"
    /\ UNCHANGED <<tables, room, ticking, bufSize>>

\* LLOS_malloc finds no pool once the configuration is wiped.
CmdBuffer ==
    /\ place = "cmd"
    /\ bufSize' = (cfgs /\ room > 0)
    /\ room' = IF bufSize' THEN room - 1 ELSE room
    /\ place' = "register"
    /\ UNCHANGED <<cfgs, tables, ticking>>

\* LLOS_Register_Events fails if there are no tasks, and the application stops.
RegisterUART ==
    /\ place = "register"
    /\ place' = IF cfgs THEN "start" ELSE "halt"
    /\ UNCHANGED <<cfgs, tables, room, ticking, bufSize>>

\* where the documented order has the tick interrupt enabled
EnterLoop ==
    /\ place = "start"
    /\ ticking' = TRUE
    /\ place' = "loop"
    /\ UNCHANGED <<cfgs, tables, room, bufSize>>

BootStep ==
    SysTick_Config \/ StoreCfgs \/ Allocate \/ GiveUp \/ RegisterUART \/ EnterLoop

Booted == place \notin {"reset", "init", "failed", "cmd", "register", "start", "halt"} \cup Tables

-----------------------------------------------------------------------------
(* Properties.                                                               *)

\* Whoever runs finds the tables it walks: the tick those of the timers and alarms, the
\* loop those of the events and messages.  LLOS_Init may fail at any table, provided the
\* tick is enabled after it, the order of llos.h:9-12 (llos.c:133-197, 347-405).
TablesExist ==
    /\ ticking /\ cfgs => Wanted \cap {"timer", "alarm"} \subseteq tables
    /\ Booted /\ cfgs => {"event", "msg"} \subseteq tables
=============================================================================
