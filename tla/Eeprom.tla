------------------------------- MODULE Eeprom -------------------------------
(***************************************************************************)
(* The EEPROM emulation of component/llos_eeprom/llos_eeprom.c on NOR      *)
(* flash.  A variable owns the same slots in every main sector; a write    *)
(* appends a record to its first empty slot.  When its last slot is taken  *)
(* the store rotates: it saves the latest record of every variable in the  *)
(* backup sector, sets the backup flag, erases the main sectors, restores  *)
(* the records and erases the backup.  LLOS_EEPROM_Init finishes a         *)
(* rotation that a power failure cut short.                                *)
(*                                                                         *)
(* Every call of a flash callback is a step.  The power may fail between   *)
(* any two of them; a callback may report an error, with or without having *)
(* done its work, if Faults says so.                                       *)
(***************************************************************************)
EXTENDS Integers, FiniteSetsExt

CONSTANTS
    VarNum,       \* iConfig.variable_num
    SectorNum,    \* main sectors: iConfig.flash_sector_num - 1
    CycleSector,  \* iVariable.cycleSector: slots of a variable per sector
    Data,         \* values that are written
    Erased,       \* iConfig.erasedWordData; may be a value, too
    Faults,       \* subset of {"powerFail", "error"}
    Reinits       \* does the application call LLOS_EEPROM_Init again after an error?

ASSUME LayoutAssumption == VarNum \in Nat \ {0} /\ SectorNum \in Nat \ {0} /\ CycleSector \in Nat \ {0}
ASSUME ValueAssumption == Data \subseteq Nat /\ Erased \in Nat
ASSUME FaultAssumption == Faults \subseteq {"powerFail", "error"} /\ Reinits \in BOOLEAN

Vars    == 0 .. VarNum - 1
Sectors == 0 .. SectorNum - 1
Slots   == 0 .. SectorNum * CycleSector - 1   \* the slots of a variable, in the order of the scans
Sector(s) == s \div CycleSector

VARIABLES
    main,    \* flash: per variable and slot, a record
    backup,  \* flash: per variable, its record in the backup sector
    flag,    \* flash: does the backup sector hold FLAG_BACKUP?
    pc,      \* the flash access the driver makes next; "idle" when it is ready
    op,      \* the write under way, Recovery, or NoOp
    k,       \* slot, variable or sector the driver is at
    out,     \* history: what the last write returned
    failed   \* history: has a flash callback ever reported an error?

flash == <<main, backup, flag>>
vars  == <<main, backup, flag, pc, op, k, out, failed>>

Blank    == -1
NoOp     == [var |-> -1, data |-> 0]
Recovery == [var |-> -2, data |-> 0]
Writes   == [var : Vars, data : Data]

-----------------------------------------------------------------------------
(* Records.  word2 holds the magic number and a CRC over word1: it is written *)
(* as the word1 it belongs to, and Blank while it is erased.                  *)

EmptyRecord == [word1 |-> Erased, word2 |-> Blank]
IsEmpty(r)  == r = EmptyRecord
IsValid(r)  == r.word2 = r.word1

\* EEPROM_Flash_ReadVariable: the last valid record before the first empty slot
Used(v)   == {s \in Slots : \A r \in 0 .. s : ~IsEmpty(main[v][r])}
Latest(v) ==
    LET valid == {s \in Used(v) : IsValid(main[v][s])}
    IN  IF valid = {} THEN Blank ELSE main[v][Max(valid)].word1

EmptySlots(v) == {s \in Slots : IsEmpty(main[v][s])}

Init ==
    /\ main = [v \in Vars |-> [s \in Slots |-> EmptyRecord]]
    /\ backup = [v \in Vars |-> EmptyRecord]
    /\ flag = FALSE
    /\ pc = "off" /\ op = NoOp /\ k = 0 /\ out = "none" /\ failed = FALSE

\* The driver gives up: Init leaves the store not ready, a write returns the error.
Abort ==
    /\ pc' = IF op = Recovery THEN "notReady" ELSE "idle"
    /\ out' = IF op = Recovery THEN out ELSE "error"
    /\ op' = NoOp /\ k' = 0

\* A flash callback that does `effect`, after which the driver is at point `to` with index n.
Flash(effect, to, n) ==
    \/ effect /\ pc' = to /\ k' = n /\ UNCHANGED <<op, out, failed>>
    \/ "error" \in Faults /\ (effect \/ UNCHANGED flash) /\ Abort /\ failed' = TRUE

Program1(area, where, x) == [area EXCEPT ![where].word1 = x]
Program2(area, where, x) == [area EXCEPT ![where].word2 = x]

-----------------------------------------------------------------------------
(* EEPROM_Flash_WriteVariable.                                                *)

CanWrite == pc = "idle" /\ (Reinits => out # "error")

\* The value is already there: nothing is written.
WriteSame(w) ==
    /\ CanWrite /\ Latest(w.var) = w.data
    /\ out' = "ok"
    /\ UNCHANGED <<flash, pc, op, k, failed>>

WriteBegin(w) ==
    /\ CanWrite /\ Latest(w.var) # w.data
    /\ op' = w /\ out' = "none"
    /\ IF EmptySlots(w.var) = {} THEN pc' = "eraseOld" /\ k' = 0
                                 ELSE pc' = "append1" /\ k' = Min(EmptySlots(w.var))
    /\ UNCHANGED <<flash, failed>>

Append1 ==
    /\ pc = "append1"
    /\ Flash(main' = [main EXCEPT ![op.var] = Program1(@, k, op.data)] /\ UNCHANGED <<backup, flag>>,
             "append2", k)

Append2 ==
    /\ pc = "append2"
    /\ Flash(main' = [main EXCEPT ![op.var] = Program2(@, k, op.data)] /\ UNCHANGED <<backup, flag>>,
             "verify", 0)

\* Read back; ReadVariable returns 0 when there is no valid record.
ReadBack == IF Latest(op.var) = Blank THEN 0 ELSE Latest(op.var)

Verify ==
    /\ pc = "verify"
    /\ out' = IF ReadBack = op.data THEN "ok" ELSE "error"
    /\ pc' = "idle" /\ op' = NoOp /\ k' = 0
    /\ UNCHANGED <<flash, failed>>

-----------------------------------------------------------------------------
(* The rotation.                                                              *)

EraseBackupEffect ==
    backup' = [v \in Vars |-> EmptyRecord] /\ flag' = FALSE /\ UNCHANGED main

LastVar_late == k + 1 > VarNum   \* mutant: off by one
LastVar == k + 1 >= VarNum

\* the driver has dealt with variable k: to the next variable, or on to `after`
Then(again, after) == IF LastVar THEN after ELSE again
ThenK == IF LastVar THEN 0 ELSE k + 1

EraseOld == pc = "eraseOld" /\ Flash(EraseBackupEffect, "backup1", 0)

Saved_first == main[k][0].word1   \* mutant: the first record, not the latest
Saved == Latest(k)

Backup1 ==
    /\ pc = "backup1" /\ Latest(k) # Blank
    /\ Flash(backup' = Program1(backup, k, Saved) /\ UNCHANGED <<main, flag>>, "backup2", k)

Backup2 ==
    /\ pc = "backup2"
    /\ Flash(backup' = Program2(backup, k, Saved) /\ UNCHANGED <<main, flag>>,
             Then("backup1", "setFlag"), ThenK)

NothingToSave ==
    /\ pc = "backup1" /\ Latest(k) = Blank
    /\ pc' = Then("backup1", "setFlag") /\ k' = ThenK
    /\ UNCHANGED <<flash, op, out, failed>>

SetFlag ==
    /\ pc = "setFlag"
    /\ Flash(flag' = TRUE /\ UNCHANGED <<main, backup>>, "eraseMain", 0)

\* The main sectors are erased in order, by the rotation and by the recovery.
EraseMain ==
    /\ pc = "eraseMain"
    /\ Flash(/\ main' = [v \in Vars |-> [s \in Slots |->
                            IF Sector(s) = k THEN EmptyRecord ELSE main[v][s]]]
             /\ UNCHANGED <<backup, flag>>,
             IF k + 1 < SectorNum THEN "eraseMain" ELSE "restore1",
             IF k + 1 < SectorNum THEN k + 1 ELSE 0)

\* What variable k is restored to: its backup or, for the variable being written, the new value.
Restored_old == backup[k].word1   \* mutant: the new value is forgotten
Restored == IF k = op.var THEN op.data ELSE backup[k].word1

Restorable == k = op.var \/ (~IsEmpty(backup[k]) /\ IsValid(backup[k]))

Restore1 ==
    /\ pc = "restore1" /\ Restorable
    /\ Flash(main' = [main EXCEPT ![k] = Program1(@, 0, Restored)] /\ UNCHANGED <<backup, flag>>,
             "restore2", k)

Restore2 ==
    /\ pc = "restore2"
    /\ Flash(main' = [main EXCEPT ![k] = Program2(@, 0, Restored)] /\ UNCHANGED <<backup, flag>>,
             Then("restore1", "eraseBackup"), ThenK)

NothingToRestore ==
    /\ pc = "restore1" /\ ~Restorable
    /\ pc' = Then("restore1", "eraseBackup") /\ k' = ThenK
    /\ UNCHANGED <<flash, op, out, failed>>

EraseBackup ==
    /\ pc = "eraseBackup" /\ op # Recovery
    /\ Flash(EraseBackupEffect, "verify", 0)

-----------------------------------------------------------------------------
(* LLOS_EEPROM_Init, with a configuration it accepts.                         *)

Interrupted_never == FALSE   \* mutant: the flag is not looked at
Interrupted == flag

BadBackup_blank == \E v \in Vars : ~IsValid(backup[v])   \* mutant: a blank record is bad, too
BadBackup == \E v \in Vars : ~IsEmpty(backup[v]) /\ ~IsValid(backup[v])

InitReady ==
    /\ pc = "off" /\ ~Interrupted
    /\ pc' = "idle"
    /\ UNCHANGED <<flash, op, k, out, failed>>

\* The main sectors are not touched for the sake of a bad backup.
InitRecovers ==
    /\ pc = "off" /\ Interrupted
    /\ IF BadBackup THEN pc' = "notReady" /\ op' = NoOp
                    ELSE pc' = "eraseMain" /\ op' = Recovery
    /\ k' = 0
    /\ UNCHANGED <<flash, out, failed>>

InitRecovered ==
    /\ pc = "eraseBackup" /\ op = Recovery
    /\ \/ EraseBackupEffect /\ pc' = "idle" /\ op' = NoOp /\ k' = 0 /\ UNCHANGED <<out, failed>>
       \/ /\ "error" \in Faults
          /\ EraseBackupEffect \/ UNCHANGED flash
          /\ Abort /\ failed' = TRUE

\* An application that does not trust the store after an error starts it again.
Reinit ==
    /\ Reinits /\ (pc = "notReady" \/ (pc = "idle" /\ out = "error"))
    /\ pc' = "off" /\ out' = "none"
    /\ UNCHANGED <<flash, op, k, failed>>

\* The power fails and comes back: all that is left is the flash.
PowerFail ==
    /\ "powerFail" \in Faults
    /\ pc' = "off" /\ op' = NoOp /\ k' = 0 /\ out' = "none"
    /\ UNCHANGED <<flash, failed>>

-----------------------------------------------------------------------------

Driver ==
    \/ Append1 \/ Append2 \/ Verify
    \/ EraseOld \/ Backup1 \/ Backup2 \/ NothingToSave \/ SetFlag
    \/ EraseMain \/ Restore1 \/ Restore2 \/ NothingToRestore \/ EraseBackup
    \/ InitReady \/ InitRecovers \/ InitRecovered

Next ==
    \/ Driver \/ PowerFail \/ Reinit
    \/ \E w \in Writes : WriteSame(w) \/ WriteBegin(w)

Spec == Init /\ [][Next]_vars

\* The driver runs while there is power, and the application starts it again after
\* an error if that is what it does.
FairSpec == Spec /\ WF_vars(Driver) /\ WF_vars(Reinit)

-----------------------------------------------------------------------------
(* Properties.                                                               *)

Record == [word1 : Data \cup {Erased}, word2 : Data \cup {Blank}]
Points == {"off", "idle", "notReady", "append1", "append2", "verify", "eraseOld", "backup1",
           "backup2", "setFlag", "eraseMain", "restore1", "restore2", "eraseBackup"}

\* The flash holds records, and no index leaves its table.
TypeOK ==
    /\ main \in [Vars -> [Slots -> Record]]
    /\ backup \in [Vars -> Record]
    /\ flag \in BOOLEAN
    /\ pc \in Points
    /\ op \in Writes \cup {NoOp, Recovery}
    /\ CASE pc \in {"append1", "append2"} -> k \in Slots
         [] pc = "eraseMain" -> k \in Sectors
         [] OTHER -> k \in Vars
    /\ out \in {"none", "ok", "error"} /\ failed \in BOOLEAN

\* What a restart would bring back: the backup while its flag is set, else the main sectors.
Durable(v) == IF ~flag THEN Latest(v)
              ELSE IF IsEmpty(backup[v]) THEN Blank ELSE backup[v].word1

\* The store is one in which writes are atomic and durable (README.md of the component,
\* "what happens when the power fails"; llos_eeprom.c:222-324, 386-438).
Store == INSTANCE EepromStore WITH
    Vars <- Vars, Data <- Data, Blank <- Blank, NoWrite <- NoOp,
    val <- [v \in Vars |-> Durable(v)],
    op <- IF op = Recovery THEN NoOp ELSE op,
    out <- out
ImplementsStore == Store!Spec

\* A write that returns success is not undone by the next restart (llos_eeprom.c:231, 316-323).
AckIsDurable ==
    [][\A w \in Writes : (op = w \/ WriteSame(w)) /\ out' = "ok" => Durable(w.var)' = w.data]_vars

\* A ready store reads what it stored: unless the last write failed, the value a read
\* returns is the one a restart would bring back (llos_eeprom.c:163-221, 386-438).
ReadsAreDurable == pc = "idle" /\ out # "error" => \A v \in Vars : Latest(v) = Durable(v)

\* As long as the flash works, no write fails and no start refuses the store, however full
\* it is and whenever the power fails (llos_eeprom.c:240-300, 386-400).
NeverFails == ~failed => out # "error" /\ pc # "notReady"

\* A flash callback reports an error.
FlashFails == op # NoOp /\ op' = NoOp /\ pc' \in {"idle", "notReady"} /\ pc # "verify"
              /\ ~(pc = "eraseBackup" /\ pc' = "idle")

\* Once the power stays on and the flash works, the store gets ready and every write
\* returns, whatever failures came before; a restart where the application makes one
\* is no failure (llos_eeprom.c:383-438).
GetsReady == <>[][~(PowerFail /\ ~Reinit) /\ ~FlashFails]_vars => []<>(pc = "idle")

=============================================================================
