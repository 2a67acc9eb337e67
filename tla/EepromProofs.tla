---------------------------- MODULE EepromProofs ----------------------------
(***************************************************************************)
(* What TLC checks of Eeprom on two variables and two sectors of two slots,*)
(* proved for any number of variables, sectors, slots and values, and the  *)
(* refinement of EepromStore with them.                                    *)
(***************************************************************************)
EXTENDS EepromMC, SequenceTheorems, WellFoundedInduction, TLAPS

LEMMA ConstantFacts ==
    /\ VarNum \in Nat \ {0} /\ SectorNum \in Nat \ {0} /\ CycleSector \in Nat \ {0}
    /\ Data \subseteq Nat /\ Erased \in Nat
    /\ 0 \in Vars /\ Vars \subseteq Nat /\ 0 \in Sectors /\ Sectors \subseteq Nat
BY LayoutAssumption, ValueAssumption DEF Vars, Sectors

\* The last slot of a variable.
LastSlot == SectorNum * CycleSector - 1

LEMMA SlotFacts ==
    /\ LastSlot \in Nat /\ Slots = 0 .. LastSlot /\ 0 \in Slots /\ Slots \subseteq Nat
    /\ \A s \in Slots : 0 .. s \subseteq Slots
<1>1. SectorNum * CycleSector \in Nat /\ SectorNum * CycleSector >= 1
  BY ConstantFacts
<1>2. LastSlot \in Nat
  BY <1>1 DEF LastSlot
<1>3. Slots = 0 .. LastSlot
  BY DEF Slots, LastSlot
<1> QED
  BY <1>2, <1>3

\* Every slot is in one of the sectors.
LEMMA SectorIs == ASSUME NEW s \in Slots PROVE Sector(s) \in Sectors /\ Sector(s) \in Nat
<1> DEFINE n == CycleSector
           q == s \div n
           r == s % n
<1>1. n \in Nat \ {0} /\ s \in Nat /\ s < SectorNum * n /\ SectorNum \in Nat
  BY ConstantFacts, SlotFacts DEF Slots
<1>2. q \in Int /\ r \in 0 .. n - 1 /\ s = q * n + r
  BY <1>1
<1> HIDE DEF n, q, r
<1>3. q >= 0
  BY <1>1, <1>2
<1>4. q < SectorNum
  BY <1>1, <1>2
<1> QED
  BY <1>1, <1>2, <1>3, <1>4 DEF Sector, Sectors, q, n

-----------------------------------------------------------------------------
(* Largest and least numbers of a set.                                       *)

LEMMA Least ==
    ASSUME NEW T \in SUBSET Nat, T # {}
    PROVE  \E x \in T : \A y \in T : x <= y
<1>1. PICK x \in T : \A y \in T : ~ (<<y, x>> \in OpToRel(<, Nat))
  BY NatLessThanWellFounded, WFMin
<1>2. ASSUME NEW y \in T, y < x PROVE FALSE
  <2>1. <<y, x>> \in OpToRel(<, Nat)
    BY <1>2 DEF OpToRel
  <2> QED
    BY <1>1, <2>1
<1> QED
  BY <1>2

LEMMA MinIs ==
    ASSUME NEW T \in SUBSET Nat, T # {}
    PROVE  Min(T) \in T /\ \A y \in T : Min(T) <= y
BY Least DEF Min

LEMMA MaxIs ==
    ASSUME NEW N \in Nat, NEW T \in SUBSET (0 .. N), T # {}
    PROVE  Max(T) \in T /\ \A y \in T : y <= Max(T)
<1> DEFINE U == {N - y : y \in T}
<1>1. U \in SUBSET Nat /\ U # {}
  <2>1. \A y \in T : N - y \in Nat
    OBVIOUS
  <2> QED
    BY <2>1
<1>2. PICK u \in U : \A w \in U : u <= w
  BY <1>1, Least
<1>3. PICK x \in T : u = N - x
  BY <1>2
<1>4. \A y \in T : x >= y
  <2> SUFFICES ASSUME NEW y \in T PROVE x >= y
    OBVIOUS
  <2>1. N - x <= N - y
    BY <1>2, <1>3
  <2> QED
    BY <2>1
<1>5. \E z \in T : \A y \in T : z >= y
  BY <1>4
<1>6. Max(T) \in T /\ \A y \in T : Max(T) >= y
  BY <1>5 DEF Max
<1> QED
  BY <1>6

-----------------------------------------------------------------------------
(* Records, and the rows of them a variable owns.                            *)

Rows == [Slots -> Record]
Rec(x, y) == [word1 |-> x, word2 |-> y]

LEMMA RecordFacts ==
    /\ Blank \notin Data /\ Blank # Erased /\ Rec(Erased, Blank) = EmptyRecord
    /\ EmptyRecord \in Record /\ IsEmpty(EmptyRecord) /\ ~IsValid(EmptyRecord)
    /\ \A x \in Data : /\ Rec(x, x) \in Record /\ IsValid(Rec(x, x)) /\ ~IsEmpty(Rec(x, x))
                       /\ Rec(x, Blank) \in Record /\ ~IsValid(Rec(x, Blank)) /\ Rec(x, x).word1 = x
    /\ \A r \in Record : IsValid(r) => r.word1 \in Data /\ ~IsEmpty(r) /\ r = Rec(r.word1, r.word1)
BY ConstantFacts DEF Record, Rec, Blank, EmptyRecord, IsEmpty, IsValid

\* Programming one word changes that word of that record.
LEMMA ProgramIs ==
    ASSUME NEW D, NEW r \in [D -> Record], NEW n \in D, NEW x \in Data
    PROVE  /\ Program1(r, n, x) \in [D -> Record] /\ Program2(r, n, x) \in [D -> Record]
           /\ Program1(r, n, x)[n] = Rec(x, r[n].word2)
           /\ Program2(r, n, x)[n] = Rec(r[n].word1, x)
           /\ \A m \in D \ {n} : Program1(r, n, x)[m] = r[m] /\ Program2(r, n, x)[m] = r[m]
<1>1. r[n] \in Record /\ r[n].word1 \in Data \cup {Erased} /\ r[n].word2 \in Data \cup {Blank}
  BY DEF Record
<1>2. [r[n] EXCEPT !.word1 = x] = Rec(x, r[n].word2)
  BY <1>1 DEF Record, Rec
<1>3. [r[n] EXCEPT !.word2 = x] = Rec(r[n].word1, x)
  BY <1>1 DEF Record, Rec
<1>4. Rec(x, r[n].word2) \in Record /\ Rec(r[n].word1, x) \in Record
  BY <1>1 DEF Record, Rec
<1>5. Program1(r, n, x) = [r EXCEPT ![n] = Rec(x, r[n].word2)]
  BY <1>2 DEF Program1
<1>6. Program2(r, n, x) = [r EXCEPT ![n] = Rec(r[n].word1, x)]
  BY <1>3 DEF Program2
<1> QED
  BY <1>4, <1>5, <1>6

\* The latest record of a row.
UsedIn(r) == {s \in Slots : \A t \in 0 .. s : ~IsEmpty(r[t])}
ValidIn(r) == {s \in UsedIn(r) : IsValid(r[s])}
LatestIn(r) == IF ValidIn(r) = {} THEN Blank ELSE r[Max(ValidIn(r))].word1

LEMMA LatestRow == ASSUME NEW v PROVE Latest(v) = LatestIn(main[v])
BY DEF Latest, LatestIn, ValidIn, UsedIn, Used

LEMMA LatestType ==
    ASSUME NEW r \in Rows
    PROVE  LatestIn(r) \in Data \cup {Blank}
<1>1. CASE ValidIn(r) = {}
  BY <1>1 DEF LatestIn
<1>2. CASE ValidIn(r) # {}
  <2>1. ValidIn(r) \in SUBSET (0 .. LastSlot)
    BY SlotFacts DEF ValidIn, UsedIn
  <2>2. Max(ValidIn(r)) \in ValidIn(r)
    BY <1>2, <2>1, SlotFacts, MaxIs
  <2>3. r[Max(ValidIn(r))].word1 \in Data
    BY <2>2, RecordFacts DEF ValidIn, UsedIn, Rows
  <2> QED
    BY <1>2, <2>3 DEF LatestIn
<1> QED
  BY <1>1, <1>2

\* Which record the latest is.
LEMMA LatestIs ==
    ASSUME NEW r \in Rows, NEW s \in ValidIn(r), \A t \in ValidIn(r) : t <= s
    PROVE  LatestIn(r) = r[s].word1
<1>1. ValidIn(r) \in SUBSET (0 .. LastSlot)
  BY SlotFacts DEF ValidIn, UsedIn
<1>2. Max(ValidIn(r)) \in ValidIn(r) /\ \A t \in ValidIn(r) : t <= Max(ValidIn(r))
  BY <1>1, SlotFacts, MaxIs
<1>3. Max(ValidIn(r)) <= s /\ s <= Max(ValidIn(r)) /\ s \in Nat /\ Max(ValidIn(r)) \in Nat
  BY <1>1, <1>2, SlotFacts
<1>4. Max(ValidIn(r)) = s
  BY <1>3
<1> QED
  BY <1>4 DEF LatestIn

\* Slot n of row r is where the next record goes: those before it are taken, those behind are free.
FreeFrom(r, n) ==
    \A s \in Slots : (s < n => ~IsEmpty(r[s])) /\ (s > n => IsEmpty(r[s]))

\* A record whose second word is missing does not change what is read.
LEMMA HalfWritten ==
    ASSUME NEW r \in Rows, NEW n \in Slots, FreeFrom(r, n), IsEmpty(r[n]), NEW x \in Data
    PROVE  /\ Program1(r, n, x) \in Rows /\ FreeFrom(Program1(r, n, x), n)
           /\ Program1(r, n, x)[n] = Rec(x, Blank)
           /\ LatestIn(Program1(r, n, x)) = LatestIn(r)
<1> DEFINE q == Program1(r, n, x)
<1>1. q \in Rows /\ q[n] = Rec(x, Blank) /\ \A m \in Slots \ {n} : q[m] = r[m]
  BY ProgramIs DEF Rows, IsEmpty, EmptyRecord
<1> HIDE DEF q
<1>2. FreeFrom(q, n)
  BY <1>1, SlotFacts DEF FreeFrom
<1>3. ~IsValid(q[n]) /\ ~IsValid(r[n])
  BY <1>1, RecordFacts DEF IsEmpty
<1>4. ASSUME NEW s \in Slots PROVE s \in ValidIn(q) <=> s \in ValidIn(r)
  <2>1. CASE s = n
    BY <1>3, <2>1 DEF ValidIn
  <2>2. CASE s > n
    <3>1. IsEmpty(q[s]) /\ IsEmpty(r[s])
      BY <1>2, <2>2 DEF FreeFrom
    <3> QED
      BY <3>1, RecordFacts DEF ValidIn, IsEmpty
  <2>3. CASE s < n
    <3>1. \A t \in 0 .. s : t \in Slots \ {n}
      BY <2>3, SlotFacts
    <3>2. \A t \in 0 .. s : q[t] = r[t]
      BY <1>1, <3>1
    <3>3. q[s] = r[s]
      BY <3>2, SlotFacts
    <3> QED
      BY <3>2, <3>3 DEF ValidIn, UsedIn
  <2> QED
    BY <2>1, <2>2, <2>3, SlotFacts
<1>5. ValidIn(q) = ValidIn(r)
  BY <1>4 DEF ValidIn, UsedIn
<1>6. ValidIn(r) # {} => q[Max(ValidIn(r))] = r[Max(ValidIn(r))]
  <2>1. ValidIn(r) \in SUBSET (0 .. LastSlot) /\ n \notin ValidIn(r)
    BY <1>3, SlotFacts DEF ValidIn, UsedIn
  <2> QED
    BY <1>1, <2>1, SlotFacts, MaxIs
<1>7. LatestIn(q) = LatestIn(r)
  BY <1>5, <1>6 DEF LatestIn
<1> QED
  BY <1>1, <1>2, <1>7 DEF q

\* With its second word it is the one that is read.
LEMMA Written ==
    ASSUME NEW r \in Rows, NEW n \in Slots, FreeFrom(r, n), NEW x \in Data, r[n] = Rec(x, Blank)
    PROVE  /\ Program2(r, n, x) \in Rows /\ FreeFrom(Program2(r, n, x), n)
           /\ Program2(r, n, x)[n] = Rec(x, x)
           /\ LatestIn(Program2(r, n, x)) = x
<1> DEFINE q == Program2(r, n, x)
<1>1. q \in Rows /\ q[n] = Rec(x, x) /\ \A m \in Slots \ {n} : q[m] = r[m]
  BY ProgramIs DEF Rows, Rec
<1> HIDE DEF q
<1>2. FreeFrom(q, n)
  BY <1>1, SlotFacts DEF FreeFrom
<1>3. n \in ValidIn(q)
  <2>1. ASSUME NEW t \in 0 .. n PROVE ~IsEmpty(q[t])
    <3>1. t = n \/ (t \in Slots /\ t < n)
      BY SlotFacts
    <3> QED
      BY <1>1, <1>2, <3>1, RecordFacts DEF FreeFrom
  <2> QED
    BY <1>1, <2>1, RecordFacts DEF ValidIn, UsedIn
<1>4. ASSUME NEW t \in ValidIn(q) PROVE t <= n
  <2>1. t \in Slots /\ ~IsEmpty(q[t])
    BY SlotFacts DEF ValidIn, UsedIn
  <2> QED
    BY <1>2, <2>1, SlotFacts DEF FreeFrom
<1>5. LatestIn(q) = q[n].word1
  BY <1>1, <1>3, <1>4, LatestIs
<1> QED
  BY <1>1, <1>2, <1>5, RecordFacts DEF q

\* An erased row, and one with a record in its first slot.
LEMMA ErasedRow ==
    ASSUME NEW r \in Rows, \A s \in Slots : IsEmpty(r[s])
    PROVE  LatestIn(r) = Blank
<1>1. ASSUME NEW s \in UsedIn(r) PROVE FALSE
  BY SlotFacts DEF UsedIn
<1> QED
  BY <1>1 DEF LatestIn, ValidIn

LEMMA OneRecordRow ==
    ASSUME NEW r \in Rows, \A s \in Slots \ {0} : IsEmpty(r[s]), NEW x \in Data, r[0] = Rec(x, x)
    PROVE  LatestIn(r) = x
<1>1. 0 \in ValidIn(r)
  BY SlotFacts, RecordFacts DEF ValidIn, UsedIn
<1>2. ASSUME NEW t \in ValidIn(r) PROVE t <= 0
  <2>1. t \in Slots /\ ~IsEmpty(r[t])
    BY SlotFacts DEF ValidIn, UsedIn
  <2> QED
    BY <2>1
<1>3. LatestIn(r) = r[0].word1
  BY <1>1, <1>2, LatestIs
<1> QED
  BY <1>3, RecordFacts

-----------------------------------------------------------------------------
(* Types.                                                                    *)

Appending == {"append1", "append2", "verify"}
Saving    == {"eraseOld", "backup1", "backup2", "setFlag"}
Restoring == {"eraseMain", "restore1", "restore2", "eraseBackup"}

FlashTypes == main \in [Vars -> Rows] /\ backup \in [Vars -> Record] /\ flag \in BOOLEAN

\* TypeOK, in the form the steps use.
Types ==
    /\ FlashTypes
    /\ pc \in Points
    /\ op \in Writes \cup {NoOp, Recovery}
    /\ pc \in {"append1", "append2"} => k \in Slots
    /\ pc = "eraseMain" => k \in Sectors
    /\ pc \notin {"append1", "append2", "eraseMain"} => k \in Vars
    /\ out \in {"none", "ok", "error"} /\ failed \in BOOLEAN

LEMMA TypesAre == Types <=> TypeOK
BY DEF Types, FlashTypes, TypeOK, Rows, Points

\* What is under way at which point; what is programmed twice is a value both times.
OpInv ==
    /\ pc \in Appending \cup Saving => op \in Writes
    /\ pc \in Restoring => op \in Writes \cup {Recovery}
    /\ pc \in {"off", "idle", "notReady"} => op = NoOp
    /\ op \in Writes => out = "none"
    /\ pc = "backup2" => Latest(k) # Blank
    /\ pc = "restore2" => Restorable

LEMMA OpFacts ==
    /\ \A w \in Writes : w.var \in Vars /\ w.data \in Data /\ w # NoOp /\ w # Recovery
    /\ NoOp # Recovery /\ Recovery.var \notin Vars
<1>1. -1 \notin Vars /\ -2 \notin Vars
  BY ConstantFacts
<1> QED
  BY <1>1 DEF Writes, NoOp, Recovery

LEMMA LatestIsType == ASSUME FlashTypes, NEW v \in Vars PROVE Latest(v) \in Data \cup {Blank}
BY LatestRow, LatestType DEF FlashTypes

LEMMA RestoredType ==
    ASSUME Types, OpInv, pc \in {"restore1", "restore2"}, Restorable
    PROVE  Restored \in Data /\ k \in Vars
<1>1. k \in Vars
  BY DEF Types
<1>2. CASE k = op.var
  BY <1>1, <1>2, OpFacts DEF OpInv, Restoring, Restored
<1>3. CASE k # op.var
  BY <1>1, <1>3, RecordFacts DEF Types, FlashTypes, Restorable, Restored
<1> QED
  BY <1>1, <1>2, <1>3

\* A step that gives up.
LEMMA AbortTypes ==
    ASSUME Types, OpInv, Abort, failed' = TRUE, FlashTypes'
    PROVE  Types' /\ OpInv'
<1>1. /\ pc' \in {"idle", "notReady"} /\ op' = NoOp /\ k' = 0 /\ out' \in {"none", "ok", "error"}
  BY DEF Abort, Types
<1>2. Types'
  BY <1>1, ConstantFacts DEF Types, Points
<1>3. OpInv'
  BY <1>1, OpFacts DEF OpInv, Appending, Saving, Restoring
<1> QED
  BY <1>2, <1>3

LEMMA SameFlashTypes == ASSUME FlashTypes, UNCHANGED flash PROVE FlashTypes'
BY DEF FlashTypes, flash

\* The index behind variable k.
LEMMA NextVar ==
    ASSUME NEW j \in Vars, k = j
    PROVE  ThenK \in Vars /\ (LastVar <=> j = VarNum - 1) /\ (~LastVar => ThenK = k + 1)
           /\ (LastVar => ThenK = 0)
BY ConstantFacts DEF ThenK, LastVar, Vars

\* What each flash callback leaves behind has its type.
LEMMA Append1Types ==
    ASSUME Types, OpInv, pc = "append1", UNCHANGED <<backup, flag>>,
           main' = [main EXCEPT ![op.var] = Program1(@, k, op.data)]
    PROVE  FlashTypes' /\ op.var \in Vars /\ op.data \in Data /\ k \in Slots
           /\ main' = [main EXCEPT ![op.var] = Program1(main[op.var], k, op.data)]
<1>1. op.var \in Vars /\ op.data \in Data /\ k \in Slots /\ main[op.var] \in Rows
  BY OpFacts DEF Types, FlashTypes, OpInv, Appending
<1>2. Program1(main[op.var], k, op.data) \in Rows
  BY <1>1, ProgramIs DEF Rows
<1> QED
  BY <1>1, <1>2 DEF Types, FlashTypes

LEMMA Append2Types ==
    ASSUME Types, OpInv, pc = "append2", UNCHANGED <<backup, flag>>,
           main' = [main EXCEPT ![op.var] = Program2(@, k, op.data)]
    PROVE  FlashTypes' /\ op.var \in Vars /\ op.data \in Data /\ k \in Slots
           /\ main' = [main EXCEPT ![op.var] = Program2(main[op.var], k, op.data)]
<1>1. op.var \in Vars /\ op.data \in Data /\ k \in Slots /\ main[op.var] \in Rows
  BY OpFacts DEF Types, FlashTypes, OpInv, Appending
<1>2. Program2(main[op.var], k, op.data) \in Rows
  BY <1>1, ProgramIs DEF Rows
<1> QED
  BY <1>1, <1>2 DEF Types, FlashTypes

LEMMA EraseBackupTypes == ASSUME Types, EraseBackupEffect PROVE FlashTypes'
BY RecordFacts DEF Types, FlashTypes, EraseBackupEffect

LEMMA BackupTypes ==
    ASSUME Types, OpInv, pc \in {"backup1", "backup2"}, Latest(k) # Blank, UNCHANGED <<main, flag>>,
           backup' = Program1(backup, k, Saved) \/ backup' = Program2(backup, k, Saved)
    PROVE  FlashTypes' /\ k \in Vars /\ Saved \in Data
<1>1. k \in Vars
  BY DEF Types
<1>2. Saved \in Data
  BY <1>1, LatestIsType DEF Types, Saved
<1>3. Program1(backup, k, Saved) \in [Vars -> Record] /\ Program2(backup, k, Saved) \in [Vars -> Record]
  BY <1>1, <1>2, ProgramIs DEF Types, FlashTypes
<1> QED
  BY <1>1, <1>2, <1>3 DEF Types, FlashTypes

LEMMA EraseMainTypes ==
    ASSUME Types, UNCHANGED <<backup, flag>>,
           main' = [v \in Vars |-> [s \in Slots |-> IF Sector(s) = k THEN EmptyRecord ELSE main[v][s]]]
    PROVE  FlashTypes'
<1>1. ASSUME NEW v \in Vars, NEW s \in Slots
      PROVE  (IF Sector(s) = k THEN EmptyRecord ELSE main[v][s]) \in Record
  BY RecordFacts DEF Types, FlashTypes, Rows
<1> QED
  BY <1>1 DEF Types, FlashTypes, Rows

LEMMA RestoreTypes ==
    ASSUME Types, OpInv, pc \in {"restore1", "restore2"}, Restorable, UNCHANGED <<backup, flag>>,
           \/ main' = [main EXCEPT ![k] = Program1(@, 0, Restored)]
           \/ main' = [main EXCEPT ![k] = Program2(@, 0, Restored)]
    PROVE  FlashTypes' /\ k \in Vars /\ Restored \in Data
<1>1. k \in Vars /\ Restored \in Data /\ 0 \in Slots
  BY RestoredType, SlotFacts
<1>2. Program1(main[k], 0, Restored) \in Rows /\ Program2(main[k], 0, Restored) \in Rows
  BY <1>1, ProgramIs DEF Types, FlashTypes, Rows
<1> QED
  BY <1>1, <1>2 DEF Types, FlashTypes

LEMMA InitTypes == Init => Types /\ OpInv
<1> SUFFICES ASSUME Init PROVE Types /\ OpInv
  OBVIOUS
<1>1. FlashTypes
  BY RecordFacts DEF Init, FlashTypes, Rows
<1>2. Types
  BY <1>1, ConstantFacts DEF Init, Types, Points
<1>3. OpInv
  BY OpFacts DEF Init, OpInv, Appending, Saving, Restoring
<1> QED
  BY <1>2, <1>3

LEMMA WriteTypes ==
    ASSUME Types, OpInv,
           \/ \E w \in Writes : WriteSame(w) \/ WriteBegin(w)
           \/ Append1 \/ Append2 \/ Verify
    PROVE  Types' /\ OpInv'
<1>0. FlashTypes
  BY DEF Types
<1> USE ConstantFacts DEF Points, Appending, Saving, Restoring
<1>1. ASSUME NEW w \in Writes, WriteSame(w) PROVE Types' /\ OpInv'
  <2>1. pc' = "idle" /\ op' = NoOp /\ k' = k /\ k \in Vars /\ out' = "ok" /\ failed' = failed
    BY <1>1 DEF WriteSame, CanWrite, OpInv, Types
  <2>2. FlashTypes'
    BY <1>0, <1>1, SameFlashTypes DEF WriteSame
  <2> QED
    BY <2>1, <2>2, OpFacts DEF Types, OpInv
<1>2. ASSUME NEW w \in Writes, WriteBegin(w) PROVE Types' /\ OpInv'
  <2>1. op' = w /\ out' = "none" /\ failed' = failed
    BY <1>2 DEF WriteBegin
  <2>2. FlashTypes'
    BY <1>0, <1>2, SameFlashTypes DEF WriteBegin
  <2>3. \/ pc' = "eraseOld" /\ k' = 0
        \/ pc' = "append1" /\ k' \in Slots
    <3>1. EmptySlots(w.var) \in SUBSET Nat /\ EmptySlots(w.var) \subseteq Slots
      BY SlotFacts DEF EmptySlots
    <3> QED
      BY <1>2, <3>1, MinIs DEF WriteBegin
  <2> QED
    BY <2>1, <2>2, <2>3, OpFacts DEF Types, OpInv
<1>3. CASE Append1
  <2>1. CASE Abort /\ failed' = TRUE
    BY <1>0, <1>3, <2>1, AbortTypes, Append1Types, SameFlashTypes DEF Append1, Flash
  <2>2. CASE ~(Abort /\ failed' = TRUE)
    <3>1. /\ pc = "append1" /\ pc' = "append2" /\ k' = k /\ UNCHANGED <<op, out, failed>>
          /\ FlashTypes'
      BY <1>3, <2>2, Append1Types DEF Append1, Flash
    <3> QED
      BY <3>1 DEF Types, OpInv
  <2> QED
    BY <2>1, <2>2
<1>4. CASE Append2
  <2>1. CASE Abort /\ failed' = TRUE
    BY <1>0, <1>4, <2>1, AbortTypes, Append2Types, SameFlashTypes DEF Append2, Flash
  <2>2. CASE ~(Abort /\ failed' = TRUE)
    <3>1. /\ pc = "append2" /\ pc' = "verify" /\ k' = 0 /\ UNCHANGED <<op, out, failed>>
          /\ FlashTypes'
      BY <1>4, <2>2, Append2Types DEF Append2, Flash
    <3> QED
      BY <3>1 DEF Types, OpInv
  <2> QED
    BY <2>1, <2>2
<1>5. CASE Verify
  <2>1. pc' = "idle" /\ op' = NoOp /\ k' = 0 /\ out' \in {"ok", "error"} /\ failed' = failed
    BY <1>5 DEF Verify
  <2>2. FlashTypes'
    BY <1>0, <1>5, SameFlashTypes DEF Verify
  <2> QED
    BY <2>1, <2>2, OpFacts DEF Types, OpInv
<1> QED
  BY <1>1, <1>2, <1>3, <1>4, <1>5

LEMMA SaveTypes ==
    ASSUME Types, OpInv, EraseOld \/ Backup1 \/ Backup2 \/ NothingToSave \/ SetFlag
    PROVE  Types' /\ OpInv'
<1>0. FlashTypes
  BY DEF Types
<1> USE ConstantFacts DEF Points, Appending, Saving, Restoring
<1>1. CASE EraseOld
  <2>1. CASE Abort /\ failed' = TRUE
    BY <1>0, <1>1, <2>1, AbortTypes, EraseBackupTypes, SameFlashTypes DEF EraseOld, Flash
  <2>2. CASE ~(Abort /\ failed' = TRUE)
    <3>1. /\ pc = "eraseOld" /\ pc' = "backup1" /\ k' = 0 /\ UNCHANGED <<op, out, failed>>
          /\ FlashTypes'
      BY <1>1, <2>2, EraseBackupTypes DEF EraseOld, Flash
    <3> QED
      BY <3>1 DEF Types, OpInv
  <2> QED
    BY <2>1, <2>2
<1>2. CASE Backup1
  <2>1. CASE Abort /\ failed' = TRUE
    BY <1>0, <1>2, <2>1, AbortTypes, BackupTypes, SameFlashTypes DEF Backup1, Flash
  <2>2. CASE ~(Abort /\ failed' = TRUE)
    <3>1. /\ pc = "backup1" /\ pc' = "backup2" /\ k' = k /\ UNCHANGED <<op, out, failed, main>>
          /\ FlashTypes' /\ Latest(k) # Blank
      BY <1>2, <2>2, BackupTypes DEF Backup1, Flash
    <3>2. Latest(k)' = Latest(k)
      BY <3>1 DEF Latest, Used
    <3> QED
      BY <3>1, <3>2 DEF Types, OpInv
  <2> QED
    BY <2>1, <2>2
<1>3. CASE Backup2
  <2>0. Latest(k) # Blank /\ k \in Vars
    BY <1>3 DEF Backup2, OpInv, Types
  <2>1. CASE Abort /\ failed' = TRUE
    BY <1>0, <1>3, <2>0, <2>1, AbortTypes, BackupTypes, SameFlashTypes DEF Backup2, Flash
  <2>2. CASE ~(Abort /\ failed' = TRUE)
    <3>1. /\ pc = "backup2" /\ pc' \in {"backup1", "setFlag"} /\ k' = ThenK
          /\ UNCHANGED <<op, out, failed>> /\ FlashTypes'
      BY <1>3, <2>0, <2>2, BackupTypes DEF Backup2, Flash, Then
    <3> QED
      BY <2>0, <3>1, NextVar DEF Types, OpInv
  <2> QED
    BY <2>1, <2>2
<1>4. CASE NothingToSave
  <2>1. /\ pc = "backup1" /\ pc' \in {"backup1", "setFlag"} /\ k' = ThenK /\ k \in Vars
        /\ UNCHANGED <<op, out, failed>>
    BY <1>4 DEF NothingToSave, Then, Types
  <2>2. FlashTypes'
    BY <1>0, <1>4, SameFlashTypes DEF NothingToSave
  <2> QED
    BY <2>1, <2>2, NextVar DEF Types, OpInv
<1>5. CASE SetFlag
  <2>0. flag' = TRUE /\ UNCHANGED <<main, backup>> => FlashTypes'
    BY <1>0 DEF FlashTypes
  <2>1. CASE Abort /\ failed' = TRUE
    BY <1>0, <1>5, <2>0, <2>1, AbortTypes, SameFlashTypes DEF SetFlag, Flash
  <2>2. CASE ~(Abort /\ failed' = TRUE)
    <3>1. /\ pc = "setFlag" /\ pc' = "eraseMain" /\ k' = 0 /\ UNCHANGED <<op, out, failed>>
          /\ FlashTypes'
      BY <1>5, <2>0, <2>2 DEF SetFlag, Flash
    <3> QED
      BY <3>1 DEF Types, OpInv
  <2> QED
    BY <2>1, <2>2
<1> QED
  BY <1>1, <1>2, <1>3, <1>4, <1>5

LEMMA RestoreStepTypes ==
    ASSUME Types, OpInv,
           EraseMain \/ Restore1 \/ Restore2 \/ NothingToRestore \/ EraseBackup \/ InitRecovered
    PROVE  Types' /\ OpInv'
<1>0. FlashTypes
  BY DEF Types
<1> USE ConstantFacts DEF Points, Appending, Saving, Restoring
<1>1. CASE EraseMain
  <2>1. CASE Abort /\ failed' = TRUE
    BY <1>0, <1>1, <2>1, AbortTypes, EraseMainTypes, SameFlashTypes DEF EraseMain, Flash
  <2>2. CASE ~(Abort /\ failed' = TRUE)
    <3>1. /\ pc = "eraseMain" /\ UNCHANGED <<op, out, failed>> /\ FlashTypes'
          /\ pc' = IF k + 1 < SectorNum THEN "eraseMain" ELSE "restore1"
          /\ k' = IF k + 1 < SectorNum THEN k + 1 ELSE 0
      BY <1>1, <2>2, EraseMainTypes DEF EraseMain, Flash
    <3>2. k \in Sectors
      BY <3>1 DEF Types
    <3>3. CASE k + 1 < SectorNum
      <4>1. pc' = "eraseMain" /\ k' \in Sectors
        BY <3>1, <3>2, <3>3 DEF Sectors
      <4> QED
        BY <3>1, <4>1 DEF Types, OpInv
    <3>4. CASE ~(k + 1 < SectorNum)
      BY <3>1, <3>4 DEF Types, OpInv
    <3> QED
      BY <3>3, <3>4
  <2> QED
    BY <2>1, <2>2
<1>2. CASE Restore1
  <2>1. CASE Abort /\ failed' = TRUE
    BY <1>0, <1>2, <2>1, AbortTypes, RestoreTypes, SameFlashTypes DEF Restore1, Flash
  <2>2. CASE ~(Abort /\ failed' = TRUE)
    <3>1. /\ pc = "restore1" /\ pc' = "restore2" /\ k' = k /\ UNCHANGED <<op, out, failed, backup>>
          /\ FlashTypes' /\ Restorable
      BY <1>2, <2>2, RestoreTypes DEF Restore1, Flash
    <3>2. Restorable'
      BY <3>1 DEF Restorable
    <3> QED
      BY <3>1, <3>2 DEF Types, OpInv
  <2> QED
    BY <2>1, <2>2
<1>3. CASE Restore2
  <2>0. Restorable /\ k \in Vars
    BY <1>3 DEF Restore2, OpInv, Types
  <2>1. CASE Abort /\ failed' = TRUE
    BY <1>0, <1>3, <2>0, <2>1, AbortTypes, RestoreTypes, SameFlashTypes DEF Restore2, Flash
  <2>2. CASE ~(Abort /\ failed' = TRUE)
    <3>1. /\ pc = "restore2" /\ pc' \in {"restore1", "eraseBackup"} /\ k' = ThenK
          /\ UNCHANGED <<op, out, failed>> /\ FlashTypes'
      BY <1>3, <2>0, <2>2, RestoreTypes DEF Restore2, Flash, Then
    <3> QED
      BY <2>0, <3>1, NextVar DEF Types, OpInv
  <2> QED
    BY <2>1, <2>2
<1>4. CASE NothingToRestore
  <2>1. /\ pc = "restore1" /\ pc' \in {"restore1", "eraseBackup"} /\ k' = ThenK /\ k \in Vars
        /\ UNCHANGED <<op, out, failed>>
    BY <1>4 DEF NothingToRestore, Then, Types
  <2>2. FlashTypes'
    BY <1>0, <1>4, SameFlashTypes DEF NothingToRestore
  <2> QED
    BY <2>1, <2>2, NextVar DEF Types, OpInv
<1>5. CASE EraseBackup
  <2>1. CASE Abort /\ failed' = TRUE
    BY <1>0, <1>5, <2>1, AbortTypes, EraseBackupTypes, SameFlashTypes DEF EraseBackup, Flash
  <2>2. CASE ~(Abort /\ failed' = TRUE)
    <3>1. /\ pc = "eraseBackup" /\ pc' = "verify" /\ k' = 0 /\ UNCHANGED <<op, out, failed>>
          /\ FlashTypes' /\ op # Recovery
      BY <1>5, <2>2, EraseBackupTypes DEF EraseBackup, Flash
    <3> QED
      BY <3>1 DEF Types, OpInv
  <2> QED
    BY <2>1, <2>2
<1>6. CASE InitRecovered
  <2>1. CASE Abort /\ failed' = TRUE
    BY <1>0, <1>6, <2>1, AbortTypes, EraseBackupTypes, SameFlashTypes DEF InitRecovered
  <2>2. CASE ~(Abort /\ failed' = TRUE)
    <3>1. pc' = "idle" /\ op' = NoOp /\ k' = 0 /\ UNCHANGED <<out, failed>> /\ FlashTypes'
      BY <1>6, <2>2, EraseBackupTypes DEF InitRecovered
    <3> QED
      BY <3>1, OpFacts DEF Types, OpInv
  <2> QED
    BY <2>1, <2>2
<1> QED
  BY <1>1, <1>2, <1>3, <1>4, <1>5, <1>6

LEMMA StartTypes ==
    ASSUME Types, OpInv, InitReady \/ InitRecovers \/ Reinit \/ PowerFail \/ UNCHANGED vars
    PROVE  Types' /\ OpInv'
<1>0. FlashTypes'
  BY SameFlashTypes DEF Types, InitReady, InitRecovers, Reinit, PowerFail, vars, flash
<1> USE ConstantFacts, OpFacts DEF Points, Appending, Saving, Restoring
<1>1. CASE InitReady
  BY <1>0, <1>1 DEF InitReady, Types, OpInv
<1>2. CASE InitRecovers
  <2>1. /\ pc = "off" /\ k' = 0 /\ UNCHANGED <<out, failed>>
        /\ \/ pc' = "notReady" /\ op' = NoOp
           \/ pc' = "eraseMain" /\ op' = Recovery
    BY <1>2 DEF InitRecovers
  <2> QED
    BY <1>0, <2>1 DEF Types, OpInv
<1>3. CASE Reinit
  BY <1>0, <1>3 DEF Reinit, Types, OpInv
<1>4. CASE PowerFail
  BY <1>0, <1>4 DEF PowerFail, Types, OpInv
<1>5. CASE UNCHANGED vars
  BY <1>0, <1>5 DEF vars, Types, OpInv, Latest, Used, Restorable
<1> QED
  BY <1>1, <1>2, <1>3, <1>4, <1>5

LEMMA NextTypes == Types /\ OpInv /\ [Next]_vars => Types' /\ OpInv'
<1> SUFFICES ASSUME Types, OpInv, [Next]_vars PROVE Types' /\ OpInv'
  OBVIOUS
<1> QED
  BY WriteTypes, SaveTypes, RestoreStepTypes, StartTypes DEF Next, Driver

LEMMA TypesHold == Spec => [](Types /\ OpInv)
BY InitTypes, NextTypes, PTL DEF Spec

\* Whatever fails, the flash holds records and no index leaves its table: a slot is programmed
\* only where the layout has one (llos_eeprom.c:30-324).
THEOREM EepromTypes == Spec => []TypeOK
<1>1. Types => TypeOK
  BY TypesAre
<1> QED
  BY <1>1, TypesHold, PTL

-----------------------------------------------------------------------------
(* The flash, as long as an application that was told of an error starts the *)
(* store again before it writes.                                             *)

Reliable == Reinits \/ ~failed

\* The slots in use come first.
PrefixIn(r) == \A t \in Slots : ~IsEmpty(r[t]) => \A s \in 0 .. t : ~IsEmpty(r[s])

BackupGood == \A v \in Vars : IsEmpty(backup[v]) \/ IsValid(backup[v])

\* What a power failure may find.
FlashGood ==
    /\ flag => BackupGood
    /\ ~flag => \A v \in Vars : PrefixIn(main[v])

FlagInv ==
    /\ FlashGood
    /\ pc \in Appending \cup Saving => ~flag
    /\ pc \in Restoring => flag
    /\ pc = "idle" /\ out # "error" => ~flag
    /\ NeverFails

\* A record is written to the first free slot, and then it is the one that is read.
AppendInv ==
    /\ pc \in {"append1", "append2"} => FreeFrom(main[op.var], k)
    /\ pc = "append1" => IsEmpty(main[op.var][k])
    /\ pc = "append2" => main[op.var][k] = Rec(op.data, Blank)
    /\ pc = "verify" => Latest(op.var) = op.data

\* The variables before k are saved, the backup of the others is blank.
BackedUp(v) == backup[v] = IF Latest(v) = Blank THEN EmptyRecord ELSE Rec(Latest(v), Latest(v))

SaveInv ==
    /\ pc \in {"backup1", "backup2"} =>
           \A v \in Vars : (v < k => BackedUp(v)) /\ (v > k => IsEmpty(backup[v]))
    /\ pc = "backup1" => IsEmpty(backup[k])
    /\ pc = "backup2" => backup[k] = Rec(Latest(k), Blank)
    /\ pc = "setFlag" => \A v \in Vars : BackedUp(v)

\* The variables before k are restored, the rows of the others are blank.
RestorableTo(v) == v = op.var \/ (~IsEmpty(backup[v]) /\ IsValid(backup[v]))
RestoredTo(v) == IF v = op.var THEN op.data ELSE backup[v].word1

RowEmpty(r) == \A s \in Slots : IsEmpty(r[s])
RestEmpty(r) == \A s \in Slots \ {0} : IsEmpty(r[s])

\* Row r of a variable that can be restored to x, or cannot.
RestoredRow(r, can, x) == RestEmpty(r) /\ r[0] = IF can THEN Rec(x, x) ELSE EmptyRecord
Back(v) == RestoredRow(main[v], RestorableTo(v), RestoredTo(v))

RestoreInv ==
    /\ pc = "eraseMain" => \A v \in Vars, s \in Slots : Sector(s) < k => IsEmpty(main[v][s])
    /\ pc \in {"restore1", "restore2"} =>
           \A v \in Vars : (v < k => Back(v)) /\ (v > k => RowEmpty(main[v]))
    /\ pc = "restore1" => RowEmpty(main[k])
    /\ pc = "restore2" => RestEmpty(main[k]) /\ main[k][0] = Rec(RestoredTo(k), Blank)
    /\ pc = "eraseBackup" => \A v \in Vars : Back(v)

StateInv == FlagInv /\ AppendInv /\ SaveInv /\ RestoreInv

\* The driver is at none of the points of a write, of a rotation or of a recovery.
Resting == pc \in {"off", "idle", "notReady"}

LEMMA RestingInv ==
    ASSUME Resting, FlashGood, pc = "idle" /\ out # "error" => ~flag, NeverFails
    PROVE  StateInv
BY DEF Resting, StateInv, FlagInv, AppendInv, SaveInv, RestoreInv, Appending, Saving, Restoring

LEMMA SameFlash ==
    ASSUME UNCHANGED flash
    PROVE  /\ FlashGood' <=> FlashGood
           /\ \A v : Latest(v)' = Latest(v) /\ Durable(v)' = Durable(v)
BY DEF flash, FlashGood, BackupGood, PrefixIn, Latest, Used, Durable

\* A step to one of these points.
LEMMA RestingStep ==
    ASSUME Resting', FlashGood', pc' = "idle" /\ out' # "error" => ~flag', NeverFails'
    PROVE  StateInv'
BY DEF Resting, StateInv, FlagInv, AppendInv, SaveInv, RestoreInv, Appending, Saving, Restoring

\* What is left of a step that gives up.
LEMMA AbortState ==
    ASSUME Abort, failed' = TRUE, FlashGood'
    PROVE  StateInv'
<1>1. /\ pc' \in {"idle", "notReady"} /\ (op # Recovery => pc' = "idle" /\ out' = "error")
      /\ (op = Recovery => pc' = "notReady")
  BY DEF Abort
<1>2. Resting' /\ NeverFails' /\ ~(pc' = "idle" /\ out' # "error")
  BY <1>1 DEF Resting, NeverFails
<1> QED
  BY <1>2, RestingStep

LEMMA FreePrefix ==
    ASSUME NEW r, NEW n \in Slots, FreeFrom(r, n)
    PROVE  PrefixIn(r)
<1> SUFFICES ASSUME NEW t \in Slots, ~IsEmpty(r[t]), NEW s \in 0 .. t PROVE ~IsEmpty(r[s])
  BY DEF PrefixIn
<1>1. s \in Slots /\ t \in Nat /\ s \in Nat /\ n \in Nat
  BY SlotFacts
<1>2. ~(t > n)
  BY DEF FreeFrom
<1>3. s = t \/ s < n
  BY <1>1, <1>2
<1> QED
  BY <1>1, <1>3 DEF FreeFrom

\* The first free slot.
LEMMA FirstFree ==
    ASSUME NEW v, PrefixIn(main[v]), EmptySlots(v) # {}
    PROVE  /\ Min(EmptySlots(v)) \in Slots /\ IsEmpty(main[v][Min(EmptySlots(v))])
           /\ FreeFrom(main[v], Min(EmptySlots(v)))
<1> DEFINE n == Min(EmptySlots(v))
<1>1. EmptySlots(v) \in SUBSET Nat
  BY SlotFacts DEF EmptySlots
<1>2. n \in EmptySlots(v) /\ \A y \in EmptySlots(v) : n <= y
  BY <1>1, MinIs
<1> HIDE DEF n
<1>3. n \in Slots /\ IsEmpty(main[v][n])
  BY <1>2 DEF EmptySlots
<1>4. ASSUME NEW s \in Slots, s < n PROVE ~IsEmpty(main[v][s])
  BY <1>2, <1>3, <1>4, SlotFacts DEF EmptySlots
<1>5. ASSUME NEW s \in Slots, s > n PROVE IsEmpty(main[v][s])
  <2>1. n \in 0 .. s
    BY <1>3, <1>5, SlotFacts
  <2> QED
    BY <1>3, <2>1 DEF PrefixIn
<1> QED
  BY <1>3, <1>4, <1>5 DEF FreeFrom, n

-----------------------------------------------------------------------------
(* What each flash callback does to the flash.                               *)

LEMMA Append1Does ==
    ASSUME Types, OpInv, StateInv, pc = "append1", UNCHANGED <<backup, flag>>,
           main' = [main EXCEPT ![op.var] = Program1(@, k, op.data)]
    PROVE  /\ FlashGood' /\ \A v \in Vars : Latest(v)' = Latest(v) /\ Durable(v)' = Durable(v)
           /\ FreeFrom(main'[op.var], k) /\ main'[op.var][k] = Rec(op.data, Blank)
<1> DEFINE u == op.var
           q == Program1(main[u], k, op.data)
<1>1. /\ u \in Vars /\ op.data \in Data /\ k \in Slots /\ main \in [Vars -> Rows]
      /\ main' = [main EXCEPT ![u] = q]
  BY Append1Types DEF Types, FlashTypes
<1>2. FreeFrom(main[u], k) /\ IsEmpty(main[u][k]) /\ ~flag /\ FlashGood
  BY DEF StateInv, AppendInv, FlagInv, Appending
<1>3. q \in Rows /\ FreeFrom(q, k) /\ q[k] = Rec(op.data, Blank) /\ LatestIn(q) = LatestIn(main[u])
  BY <1>1, <1>2, HalfWritten
<1> HIDE DEF q, u
<1>4. main'[u] = q /\ \A v \in Vars \ {u} : main'[v] = main[v]
  BY <1>1
<1>5. ASSUME NEW v \in Vars PROVE Latest(v)' = Latest(v)
  <2>1. Latest(v) = LatestIn(main[v]) /\ Latest(v)' = LatestIn(main'[v])
    BY DEF Latest, LatestIn, ValidIn, UsedIn, Used
  <2> QED
    BY <1>3, <1>4, <2>1
<1>6. ASSUME NEW v \in Vars PROVE Durable(v)' = Durable(v)
  BY <1>2, <1>5 DEF Durable
<1>7. PrefixIn(q)
  BY <1>1, <1>3, FreePrefix
<1>8. FlashGood'
  BY <1>2, <1>4, <1>7 DEF FlashGood
<1> QED
  BY <1>3, <1>4, <1>5, <1>6, <1>8 DEF u

LEMMA Append2Does ==
    ASSUME Types, OpInv, StateInv, pc = "append2", UNCHANGED <<backup, flag>>,
           main' = [main EXCEPT ![op.var] = Program2(@, k, op.data)]
    PROVE  /\ FlashGood' /\ op.var \in Vars
           /\ \A v \in Vars : /\ Durable(v)' = IF v = op.var THEN op.data ELSE Durable(v)
                              /\ v = op.var => Latest(v)' = op.data
<1> DEFINE u == op.var
           q == Program2(main[u], k, op.data)
<1>1. /\ u \in Vars /\ op.data \in Data /\ k \in Slots /\ main \in [Vars -> Rows]
      /\ main' = [main EXCEPT ![u] = q]
  BY Append2Types DEF Types, FlashTypes
<1>2. FreeFrom(main[u], k) /\ main[u][k] = Rec(op.data, Blank) /\ ~flag /\ FlashGood
  BY DEF StateInv, AppendInv, FlagInv, Appending
<1>3. q \in Rows /\ FreeFrom(q, k) /\ LatestIn(q) = op.data
  BY <1>1, <1>2, Written
<1> HIDE DEF q, u
<1>4. main'[u] = q /\ \A v \in Vars \ {u} : main'[v] = main[v]
  BY <1>1
<1>5. ASSUME NEW v \in Vars PROVE Latest(v)' = IF v = u THEN op.data ELSE Latest(v)
  <2>1. Latest(v) = LatestIn(main[v]) /\ Latest(v)' = LatestIn(main'[v])
    BY DEF Latest, LatestIn, ValidIn, UsedIn, Used
  <2> QED
    BY <1>3, <1>4, <2>1
<1>6. ASSUME NEW v \in Vars PROVE Durable(v)' = IF v = u THEN op.data ELSE Durable(v)
  BY <1>2, <1>5 DEF Durable
<1>7. PrefixIn(q)
  BY <1>1, <1>3, FreePrefix
<1>8. FlashGood'
  BY <1>2, <1>4, <1>7 DEF FlashGood
<1> QED
  BY <1>1, <1>5, <1>6, <1>8 DEF u

LEMMA EraseOldDoes ==
    ASSUME StateInv, pc = "eraseOld", EraseBackupEffect
    PROVE  /\ FlashGood' /\ ~flag' /\ \A v \in Vars : backup'[v] = EmptyRecord
           /\ \A v \in Vars : Durable(v)' = Durable(v)
<1>1. ~flag /\ FlashGood
  BY DEF StateInv, FlagInv, Saving
<1> QED
  BY <1>1 DEF EraseBackupEffect, FlashGood, Durable, Latest, Used

LEMMA BackupDoes ==
    ASSUME StateInv, pc \in Saving, UNCHANGED <<main, flag>>
    PROVE  /\ FlashGood' /\ ~flag' /\ \A v \in Vars : Durable(v)' = Durable(v) /\ Latest(v)' = Latest(v)
<1>1. ~flag /\ FlashGood
  BY DEF StateInv, FlagInv
<1> QED
  BY <1>1 DEF FlashGood, Durable, Latest, Used

\* With its flag set the backup says what the main sectors said.
LEMMA SetFlagDoes ==
    ASSUME Types, StateInv, pc = "setFlag", flag' = TRUE, UNCHANGED <<main, backup>>
    PROVE  FlashGood' /\ \A v \in Vars : Durable(v)' = Durable(v)
<1>1. ~flag /\ \A v \in Vars : BackedUp(v)
  BY DEF StateInv, FlagInv, SaveInv, Saving
<1>2. ASSUME NEW v \in Vars
      PROVE  (IsEmpty(backup[v]) \/ IsValid(backup[v])) /\ Durable(v)' = Durable(v)
  <2>1. Latest(v) \in Data \cup {Blank}
    BY LatestIsType DEF Types
  <2>2. CASE Latest(v) = Blank
    <3>1. backup[v] = EmptyRecord /\ Durable(v) = Blank
      BY <1>1, <2>2 DEF BackedUp, Durable
    <3> QED
      BY <3>1, RecordFacts DEF Durable
  <2>3. CASE Latest(v) # Blank
    <3>1. /\ Latest(v) \in Data /\ backup[v] = Rec(Latest(v), Latest(v))
          /\ Durable(v) = Latest(v)
      BY <1>1, <2>1, <2>3 DEF BackedUp, Durable
    <3>2. ~IsEmpty(backup[v]) /\ IsValid(backup[v]) /\ backup[v].word1 = Latest(v)
      BY <3>1, RecordFacts
    <3> QED
      BY <3>1, <3>2 DEF Durable
  <2> QED
    BY <2>2, <2>3
<1> QED
  BY <1>2 DEF FlashGood, BackupGood

\* While its flag is set, the backup is what counts.
LEMMA RestoreDoes ==
    ASSUME StateInv, pc \in Restoring, UNCHANGED <<backup, flag>>
    PROVE  FlashGood' /\ flag' /\ \A v \in Vars : Durable(v)' = Durable(v)
<1>1. flag /\ FlashGood
  BY DEF StateInv, FlagInv
<1> QED
  BY <1>1 DEF FlashGood, BackupGood, Durable

\* A restored row is read as what it was restored to.
LEMMA RestoredIs ==
    ASSUME NEW r \in Rows, NEW can \in BOOLEAN, NEW x, can => x \in Data, RestoredRow(r, can, x)
    PROVE  PrefixIn(r) /\ LatestIn(r) = IF can THEN x ELSE Blank
<1>1. FreeFrom(r, 0)
  BY SlotFacts DEF FreeFrom, RestoredRow, RestEmpty
<1>2. PrefixIn(r)
  BY <1>1, SlotFacts, FreePrefix
<1>3. CASE can
  BY <1>2, <1>3, OneRecordRow DEF RestoredRow, RestEmpty
<1>4. CASE ~can
  <2>1. \A s \in Slots : IsEmpty(r[s])
    BY <1>4, RecordFacts DEF RestoredRow, RestEmpty
  <2> QED
    BY <1>2, <1>4, <2>1, ErasedRow
<1> QED
  BY <1>3, <1>4

\* The erasure of the backup makes the restored rows count, and with them the new value.
LEMMA EraseBackupDoes ==
    ASSUME Types, OpInv, StateInv, pc = "eraseBackup", EraseBackupEffect
    PROVE  /\ FlashGood' /\ ~flag'
           /\ \A v \in Vars : /\ Durable(v)' = IF v = op.var THEN op.data ELSE Durable(v)
                              /\ Latest(v)' = Durable(v)'
<1>1. flag /\ BackupGood /\ main \in [Vars -> Rows] /\ backup \in [Vars -> Record]
  BY DEF StateInv, FlagInv, FlashGood, Types, FlashTypes, Restoring
<1>2. ~flag' /\ UNCHANGED main
  BY DEF EraseBackupEffect
<1>3. ASSUME NEW v \in Vars
      PROVE  PrefixIn(main[v]) /\ Latest(v) = IF v = op.var THEN op.data ELSE Durable(v)
  <2>1. RestoredRow(main[v], RestorableTo(v), RestoredTo(v)) /\ Latest(v) = LatestIn(main[v])
    BY LatestRow DEF StateInv, RestoreInv, Back
  <2>2. v = op.var => op.data \in Data
    BY OpFacts DEF OpInv, Restoring
  <2>3. IsEmpty(backup[v]) \/ IsValid(backup[v])
    BY <1>1 DEF BackupGood
  <2>4. RestorableTo(v) \in BOOLEAN /\ (RestorableTo(v) => RestoredTo(v) \in Data)
    BY <1>1, <2>2, RecordFacts DEF RestorableTo, RestoredTo
  <2>5. PrefixIn(main[v]) /\ Latest(v) = IF RestorableTo(v) THEN RestoredTo(v) ELSE Blank
    BY <1>1, <2>1, <2>4, RestoredIs
  <2>6. CASE v = op.var
    BY <2>5, <2>6 DEF RestorableTo, RestoredTo
  <2>7. CASE v # op.var
    <3>1. IsValid(backup[v]) => ~IsEmpty(backup[v])
      BY <1>1, RecordFacts
    <3> QED
      BY <1>1, <2>3, <2>5, <2>7, <3>1 DEF RestorableTo, RestoredTo, Durable
  <2> QED
    BY <2>6, <2>7
<1>4. ASSUME NEW v \in Vars PROVE Latest(v)' = Latest(v) /\ Durable(v)' = Latest(v)
  BY <1>2 DEF Latest, Used, Durable
<1>5. FlashGood'
  BY <1>2, <1>3 DEF FlashGood
<1> QED
  BY <1>2, <1>3, <1>4, <1>5

-----------------------------------------------------------------------------
(* Each step keeps StateInv.                                                 *)

\* Where the driver is in no write, no rotation and no recovery of a kind, nothing is said.
LEMMA AppendStep ==
    ASSUME pc' \in Appending, FlashGood', ~flag', out' # "error", AppendInv'
    PROVE  StateInv'
BY DEF StateInv, FlagInv, SaveInv, RestoreInv, NeverFails, Appending, Saving, Restoring

LEMMA SaveStep ==
    ASSUME pc' \in Saving, FlashGood', ~flag', out' # "error", SaveInv'
    PROVE  StateInv'
BY DEF StateInv, FlagInv, AppendInv, RestoreInv, NeverFails, Appending, Saving, Restoring

LEMMA RestoreStep ==
    ASSUME pc' \in Restoring, FlashGood', flag', out' # "error" \/ failed', RestoreInv'
    PROVE  StateInv'
BY DEF StateInv, FlagInv, AppendInv, SaveInv, NeverFails, Appending, Saving, Restoring

LEMMA WriteState ==
    ASSUME Types, OpInv, StateInv, Reliable, NEW w \in Writes, WriteSame(w) \/ WriteBegin(w)
    PROVE  StateInv'
<1>1. pc = "idle" /\ out # "error" /\ ~flag /\ FlashGood
  BY DEF WriteSame, WriteBegin, CanWrite, Reliable, StateInv, FlagInv, NeverFails
<1>2. UNCHANGED flash
  BY DEF WriteSame, WriteBegin
<1>3. FlashGood' /\ ~flag'
  BY <1>1, <1>2, SameFlash DEF flash
<1>4. CASE WriteSame(w)
  <2>1. pc' = "idle" /\ out' = "ok"
    BY <1>1, <1>4 DEF WriteSame
  <2> QED
    BY <1>3, <2>1, RestingStep DEF Resting, NeverFails
<1>5. CASE WriteBegin(w) /\ EmptySlots(w.var) = {}
  <2>1. pc' = "eraseOld" /\ out' = "none"
    BY <1>5 DEF WriteBegin
  <2> QED
    BY <1>3, <2>1, SaveStep DEF Saving, SaveInv
<1>6. CASE WriteBegin(w) /\ EmptySlots(w.var) # {}
  <2>1. /\ pc' = "append1" /\ out' = "none" /\ op' = w /\ k' = Min(EmptySlots(w.var))
        /\ main' = main
    BY <1>2, <1>6 DEF WriteBegin, flash
  <2>2. PrefixIn(main[w.var])
    BY <1>1, OpFacts DEF FlashGood
  <2>3. FreeFrom(main[w.var], k') /\ IsEmpty(main[w.var][k'])
    BY <1>6, <2>1, <2>2, FirstFree
  <2>4. AppendInv'
    BY <2>1, <2>3 DEF AppendInv
  <2> QED
    BY <1>3, <2>1, <2>4, AppendStep DEF Appending
<1> QED
  BY <1>4, <1>5, <1>6

\* The flash is as it was, or as the callback leaves it; then the driver goes on or gives up.
LEMMA AppendState ==
    ASSUME Types, OpInv, StateInv, Append1 \/ Append2 \/ Verify
    PROVE  StateInv'
<1>0. FlashGood /\ ~flag /\ op \in Writes /\ op.var \in Vars /\ op.data \in Data /\ out = "none"
  BY OpFacts DEF StateInv, FlagInv, OpInv, Appending, Append1, Append2, Verify
<1>1. CASE Append1
  <2>1. CASE Abort /\ failed' = TRUE
    <3>1. FlashGood'
      BY <1>0, <1>1, <2>1, Append1Does, SameFlash DEF Append1, Flash
    <3> QED
      BY <2>1, <3>1, AbortState
  <2>2. CASE ~(Abort /\ failed' = TRUE)
    <3>1. /\ pc = "append1" /\ pc' = "append2" /\ k' = k /\ UNCHANGED <<op, out, failed, backup, flag>>
          /\ main' = [main EXCEPT ![op.var] = Program1(@, k, op.data)]
      BY <1>1, <2>2 DEF Append1, Flash
    <3>2. FlashGood' /\ FreeFrom(main'[op.var], k) /\ main'[op.var][k] = Rec(op.data, Blank)
      BY <3>1, Append1Does
    <3>3. AppendInv'
      BY <3>1, <3>2 DEF AppendInv
    <3> QED
      BY <1>0, <3>1, <3>2, <3>3, AppendStep DEF Appending
  <2> QED
    BY <2>1, <2>2
<1>2. CASE Append2
  <2>1. CASE Abort /\ failed' = TRUE
    <3>1. FlashGood'
      BY <1>0, <1>2, <2>1, Append2Does, SameFlash DEF Append2, Flash
    <3> QED
      BY <2>1, <3>1, AbortState
  <2>2. CASE ~(Abort /\ failed' = TRUE)
    <3>1. /\ pc = "append2" /\ pc' = "verify" /\ UNCHANGED <<op, out, failed, backup, flag>>
          /\ main' = [main EXCEPT ![op.var] = Program2(@, k, op.data)]
      BY <1>2, <2>2 DEF Append2, Flash
    <3>2. FlashGood' /\ \A v \in Vars : v = op.var => Latest(v)' = op.data
      BY <3>1, Append2Does
    <3>3. Latest(op.var)' = op.data
      BY <1>0, <3>1, <3>2
    <3>4. AppendInv'
      BY <3>1, <3>3 DEF AppendInv
    <3> QED
      BY <1>0, <3>1, <3>2, <3>4, AppendStep DEF Appending
  <2> QED
    BY <2>1, <2>2
<1>3. CASE Verify
  <2>1. Latest(op.var) = op.data
    BY <1>3 DEF Verify, StateInv, AppendInv
  <2>2. ReadBack = op.data
    BY <1>0, <2>1, RecordFacts DEF ReadBack
  <2>3. pc' = "idle" /\ out' = "ok" /\ UNCHANGED flash
    BY <1>3, <2>2 DEF Verify
  <2>4. FlashGood' /\ ~flag'
    BY <1>0, <2>3, SameFlash DEF flash
  <2> QED
    BY <2>3, <2>4, RestingStep DEF Resting, NeverFails
<1> QED
  BY <1>1, <1>2, <1>3

\* Variable k is saved, and the driver goes on.
LEMMA SavedNext ==
    ASSUME k \in Vars, pc' = Then("backup1", "setFlag"), k' = ThenK,
           \A v \in Vars : (v <= k => BackedUp(v)') /\ (v > k => IsEmpty(backup'[v]))
    PROVE  SaveInv' /\ pc' \in Saving
<1>1. k \in Nat /\ k < VarNum /\ \A v \in Vars : v \in Nat /\ v <= VarNum - 1
  BY ConstantFacts DEF Vars
<1>2. CASE LastVar
  <2>1. pc' = "setFlag" /\ k = VarNum - 1
    BY <1>2, NextVar DEF Then
  <2>2. \A v \in Vars : BackedUp(v)'
    BY <1>1, <2>1
  <2> QED
    BY <2>1, <2>2 DEF SaveInv, Saving
<1>3. CASE ~LastVar
  <2>1. pc' = "backup1" /\ k' = k + 1 /\ k + 1 \in Vars
    BY <1>3, NextVar DEF Then
  <2>2. ASSUME NEW v \in Vars PROVE (v < k + 1 => BackedUp(v)') /\ (v >= k + 1 => IsEmpty(backup'[v]))
    <3>1. (v < k + 1 => v <= k) /\ (v >= k + 1 => v > k)
      BY <1>1
    <3> QED
      BY <3>1
  <2>3. \A v \in Vars : (v < k' => BackedUp(v)') /\ (v > k' => IsEmpty(backup'[v]))
    BY <1>1, <2>1, <2>2
  <2>4. IsEmpty(backup'[k'])
    BY <1>1, <2>1, <2>2
  <2> QED
    BY <2>1, <2>3, <2>4 DEF SaveInv, Saving
<1> QED
  BY <1>2, <1>3

LEMMA SaveState ==
    ASSUME Types, OpInv, StateInv, EraseOld \/ Backup1 \/ Backup2 \/ NothingToSave \/ SetFlag
    PROVE  StateInv'
<1>0. /\ FlashGood /\ ~flag /\ op \in Writes /\ out = "none" /\ k \in Vars
      /\ pc \in Saving /\ backup \in [Vars -> Record] /\ SaveInv
  BY DEF StateInv, FlagInv, OpInv, Types, FlashTypes, Saving,
         EraseOld, Backup1, Backup2, NothingToSave, SetFlag
<1>00. k \in Nat /\ \A v \in Vars : v \in Nat
  BY <1>0, ConstantFacts
<1>1. CASE EraseOld
  <2>0. pc = "eraseOld"
    BY <1>1 DEF EraseOld
  <2>1. CASE Abort /\ failed' = TRUE
    <3>1. FlashGood'
      BY <1>0, <1>1, <2>0, <2>1, EraseOldDoes, SameFlash DEF EraseOld, Flash
    <3> QED
      BY <2>1, <3>1, AbortState
  <2>2. CASE ~(Abort /\ failed' = TRUE)
    <3>1. pc' = "backup1" /\ k' = 0 /\ UNCHANGED <<op, out, failed>> /\ EraseBackupEffect
      BY <1>1, <2>2 DEF EraseOld, Flash
    <3>2. FlashGood' /\ ~flag' /\ \A v \in Vars : backup'[v] = EmptyRecord
      BY <2>0, <3>1, EraseOldDoes
    <3>3. \A v \in Vars : IsEmpty(backup'[v]) /\ ~(v < 0)
      BY <1>00, <3>2, RecordFacts
    <3>4. SaveInv'
      BY <3>1, <3>3, ConstantFacts DEF SaveInv
    <3> QED
      BY <1>0, <3>1, <3>2, <3>4, SaveStep DEF Saving
  <2> QED
    BY <2>1, <2>2
<1>2. CASE Backup1
  <2>0. pc = "backup1" /\ UNCHANGED <<main, flag>> /\ Latest(k) # Blank
    BY <1>2 DEF Backup1, Flash, flash
  <2>1. CASE Abort /\ failed' = TRUE
    <3>1. FlashGood'
      BY <1>0, <2>0, BackupDoes
    <3> QED
      BY <2>1, <3>1, AbortState
  <2>2. CASE ~(Abort /\ failed' = TRUE)
    <3>1. /\ pc' = "backup2" /\ k' = k /\ UNCHANGED <<op, out, failed>>
          /\ backup' = Program1(backup, k, Saved)
      BY <1>2, <2>2 DEF Backup1, Flash
    <3>2. FlashGood' /\ ~flag' /\ \A v \in Vars : Latest(v)' = Latest(v)
      BY <1>0, <2>0, BackupDoes
    <3>3. Saved \in Data /\ Saved = Latest(k)
      BY <1>0, <2>0, LatestIsType DEF Types, Saved
    <3>4. backup'[k] = Rec(Latest(k), Blank) /\ \A v \in Vars \ {k} : backup'[v] = backup[v]
      <4>1. backup[k] = EmptyRecord
        BY <1>0, <2>0 DEF SaveInv, IsEmpty
      <4>2. backup[k].word2 = Blank
        BY <4>1 DEF EmptyRecord
      <4> QED
        BY <1>0, <3>1, <3>3, <4>2, ProgramIs
    <3>5. \A v \in Vars : (v < k => BackedUp(v)) /\ (v > k => IsEmpty(backup[v]))
      BY <1>0, <2>0 DEF SaveInv
    <3>6. ASSUME NEW v \in Vars PROVE (v < k => BackedUp(v)') /\ (v > k => IsEmpty(backup'[v]))
      <4>1. CASE v = k
        BY <1>00, <4>1
      <4>2. CASE v # k
        BY <3>2, <3>4, <3>5, <4>2 DEF BackedUp
      <4> QED
        BY <4>1, <4>2
    <3>7. backup'[k'] = Rec(Latest(k)', Blank)
      BY <1>0, <3>1, <3>2, <3>4
    <3>8. SaveInv'
      BY <3>1, <3>6, <3>7 DEF SaveInv
    <3> QED
      BY <1>0, <3>1, <3>2, <3>8, SaveStep DEF Saving
  <2> QED
    BY <2>1, <2>2
<1>3. CASE Backup2
  <2>0. pc = "backup2" /\ UNCHANGED <<main, flag>> /\ Latest(k) # Blank
    BY <1>3 DEF Backup2, Flash, flash, OpInv
  <2>1. CASE Abort /\ failed' = TRUE
    <3>1. FlashGood'
      BY <1>0, <2>0, BackupDoes
    <3> QED
      BY <2>1, <3>1, AbortState
  <2>2. CASE ~(Abort /\ failed' = TRUE)
    <3>1. /\ pc' = Then("backup1", "setFlag") /\ k' = ThenK /\ UNCHANGED <<op, out, failed>>
          /\ backup' = Program2(backup, k, Saved)
      BY <1>3, <2>2 DEF Backup2, Flash
    <3>2. FlashGood' /\ ~flag' /\ \A v \in Vars : Latest(v)' = Latest(v)
      BY <1>0, <2>0, BackupDoes
    <3>3. Saved \in Data /\ Saved = Latest(k)
      BY <1>0, <2>0, LatestIsType DEF Types, Saved
    <3>4. backup'[k] = Rec(Latest(k), Latest(k)) /\ \A v \in Vars \ {k} : backup'[v] = backup[v]
      <4>1. backup[k] = Rec(Latest(k), Blank)
        BY <1>0, <2>0 DEF SaveInv
      <4>2. backup[k].word1 = Latest(k)
        BY <4>1 DEF Rec
      <4> QED
        BY <1>0, <3>1, <3>3, <4>2, ProgramIs
    <3>5. \A v \in Vars : (v < k => BackedUp(v)) /\ (v > k => IsEmpty(backup[v]))
      BY <1>0, <2>0 DEF SaveInv
    <3>6. ASSUME NEW v \in Vars PROVE (v <= k => BackedUp(v)') /\ (v > k => IsEmpty(backup'[v]))
      <4>1. CASE v = k
        <5>1. BackedUp(v)'
          BY <2>0, <3>2, <3>4, <4>1 DEF BackedUp
        <5> QED
          BY <1>00, <4>1, <5>1
      <4>2. CASE v # k
        <5>1. v <= k => v < k
          BY <1>00, <4>2
        <5> QED
          BY <3>2, <3>4, <3>5, <4>2, <5>1 DEF BackedUp
      <4> QED
        BY <4>1, <4>2
    <3>7. SaveInv' /\ pc' \in Saving
      BY <1>0, <3>1, <3>6, SavedNext
    <3> QED
      BY <1>0, <3>1, <3>2, <3>7, SaveStep
  <2> QED
    BY <2>1, <2>2
<1>4. CASE NothingToSave
  <2>1. /\ pc = "backup1" /\ Latest(k) = Blank /\ UNCHANGED flash /\ UNCHANGED <<op, out, failed>>
        /\ pc' = Then("backup1", "setFlag") /\ k' = ThenK /\ backup' = backup
    BY <1>4 DEF NothingToSave, flash
  <2>2. FlashGood' /\ ~flag' /\ \A v \in Vars : Latest(v)' = Latest(v)
    BY <1>0, <2>1, SameFlash DEF flash
  <2>3. ASSUME NEW v \in Vars PROVE (v <= k => BackedUp(v)') /\ (v > k => IsEmpty(backup'[v]))
    <3>1. (v < k => BackedUp(v)) /\ (v > k => IsEmpty(backup[v])) /\ IsEmpty(backup[k])
      BY <1>0, <2>1 DEF SaveInv
    <3>2. v = k => BackedUp(v)
      BY <2>1, <3>1 DEF BackedUp, IsEmpty
    <3>3. BackedUp(v) => BackedUp(v)'
      BY <2>1, <2>2 DEF BackedUp
    <3>4. v <= k => v < k \/ v = k
      BY <1>00
    <3> QED
      BY <2>1, <3>1, <3>2, <3>3, <3>4
  <2>4. SaveInv' /\ pc' \in Saving
    BY <1>0, <2>1, <2>3, SavedNext
  <2> QED
    BY <1>0, <2>1, <2>2, <2>4, SaveStep
<1>5. CASE SetFlag
  <2>0. pc = "setFlag"
    BY <1>5 DEF SetFlag
  <2>1. CASE Abort /\ failed' = TRUE
    <3>1. FlashGood'
      BY <1>0, <1>5, <2>0, SetFlagDoes, SameFlash DEF SetFlag, Flash
    <3> QED
      BY <2>1, <3>1, AbortState
  <2>2. CASE ~(Abort /\ failed' = TRUE)
    <3>1. /\ pc' = "eraseMain" /\ k' = 0 /\ UNCHANGED <<op, out, failed>>
          /\ flag' = TRUE /\ UNCHANGED <<main, backup>>
      BY <1>5, <2>2 DEF SetFlag, Flash
    <3>2. FlashGood'
      BY <2>0, <3>1, SetFlagDoes
    <3>3. RestoreInv'
      <4>1. ASSUME NEW s \in Slots PROVE ~(Sector(s) < 0)
        BY SectorIs
      <4> QED
        BY <3>1, <4>1 DEF RestoreInv
    <3> QED
      BY <1>0, <3>1, <3>2, <3>3, RestoreStep DEF Restoring
  <2> QED
    BY <2>1, <2>2
<1> QED
  BY <1>1, <1>2, <1>3, <1>4, <1>5

\* Variable k is restored, and the driver goes on.
LEMMA RestoredNext ==
    ASSUME k \in Vars, pc' = Then("restore1", "eraseBackup"), k' = ThenK,
           \A v \in Vars : (v <= k => Back(v)') /\ (v > k => RowEmpty(main'[v]))
    PROVE  RestoreInv' /\ pc' \in Restoring
<1>1. k \in Nat /\ k < VarNum /\ \A v \in Vars : v \in Nat /\ v <= VarNum - 1
  BY ConstantFacts DEF Vars
<1>2. CASE LastVar
  <2>1. pc' = "eraseBackup" /\ k = VarNum - 1
    BY <1>2, NextVar DEF Then
  <2>2. \A v \in Vars : Back(v)'
    BY <1>1, <2>1
  <2> QED
    BY <2>1, <2>2 DEF RestoreInv, Restoring
<1>3. CASE ~LastVar
  <2>1. pc' = "restore1" /\ k' = k + 1 /\ k + 1 \in Vars
    BY <1>3, NextVar DEF Then
  <2>2. ASSUME NEW v \in Vars PROVE (v < k + 1 => Back(v)') /\ (v >= k + 1 => RowEmpty(main'[v]))
    <3>1. (v < k + 1 => v <= k) /\ (v >= k + 1 => v > k)
      BY <1>1
    <3> QED
      BY <3>1
  <2>3. \A v \in Vars : (v < k' => Back(v)') /\ (v > k' => RowEmpty(main'[v]))
    BY <1>1, <2>1, <2>2
  <2>4. RowEmpty(main'[k'])
    BY <1>1, <2>1, <2>2
  <2> QED
    BY <2>1, <2>3, <2>4 DEF RestoreInv, Restoring
<1> QED
  BY <1>2, <1>3

\* After the last sector every row is blank.
LEMMA ErasedNext ==
    ASSUME Types, StateInv, EraseMain, ~(Abort /\ failed' = TRUE)
    PROVE  RestoreInv' /\ pc' \in Restoring /\ UNCHANGED <<op, out, failed, backup, flag>>
<1>1. /\ pc = "eraseMain" /\ UNCHANGED <<op, out, failed, backup, flag>>
      /\ pc' = IF k + 1 < SectorNum THEN "eraseMain" ELSE "restore1"
      /\ k' = IF k + 1 < SectorNum THEN k + 1 ELSE 0
      /\ main' = [v \in Vars |-> [s \in Slots |-> IF Sector(s) = k THEN EmptyRecord ELSE main[v][s]]]
  BY DEF EraseMain, Flash
<1>2. k \in Sectors /\ \A v \in Vars, s \in Slots : Sector(s) < k => IsEmpty(main[v][s])
  BY <1>1 DEF Types, StateInv, RestoreInv
<1>3. ASSUME NEW v \in Vars, NEW s \in Slots, Sector(s) < k + 1 PROVE IsEmpty(main'[v][s])
  <2>1. Sector(s) < k \/ Sector(s) = k
    BY <1>2, <1>3, SectorIs, ConstantFacts
  <2> QED
    BY <1>1, <1>2, <2>1, RecordFacts
<1>4. CASE k + 1 < SectorNum
  BY <1>1, <1>3, <1>4 DEF RestoreInv, Restoring
<1>5. CASE ~(k + 1 < SectorNum)
  <2>1. pc' = "restore1" /\ k' = 0
    BY <1>1, <1>5
  <2>2. ASSUME NEW v \in Vars PROVE RowEmpty(main'[v])
    <3>1. \A s \in Slots : Sector(s) < k + 1
      BY <1>2, <1>5, SectorIs, ConstantFacts DEF Sectors
    <3> QED
      BY <1>3, <3>1 DEF RowEmpty
  <2>3. \A v \in Vars : ~(v < 0)
    BY ConstantFacts
  <2> QED
    BY <1>1, <2>1, <2>2, <2>3, ConstantFacts DEF RestoreInv, Restoring
<1> QED
  BY <1>1, <1>4, <1>5

LEMMA RestoreState ==
    ASSUME Types, OpInv, StateInv,
           EraseMain \/ Restore1 \/ Restore2 \/ NothingToRestore \/ EraseBackup \/ InitRecovered
    PROVE  StateInv'
<1>0. /\ FlashGood /\ flag /\ pc \in Restoring /\ RestoreInv /\ main \in [Vars -> Rows]
      /\ op \in Writes \cup {Recovery} /\ (out # "error" \/ failed)
  BY DEF StateInv, FlagInv, OpInv, Types, FlashTypes, Restoring, NeverFails,
         EraseMain, Restore1, Restore2, NothingToRestore, EraseBackup, InitRecovered
<1>1. CASE EraseMain
  <2>0. UNCHANGED <<backup, flag>>
    BY <1>1 DEF EraseMain, Flash, flash
  <2>1. FlashGood' /\ flag'
    BY <1>0, <2>0, RestoreDoes
  <2>2. CASE Abort /\ failed' = TRUE
    BY <2>1, <2>2, AbortState
  <2>3. CASE ~(Abort /\ failed' = TRUE)
    BY <1>0, <1>1, <2>1, <2>3, ErasedNext, RestoreStep
  <2> QED
    BY <2>2, <2>3
<1>2. CASE Restore1
  <2>0. pc = "restore1" /\ k \in Vars /\ Restorable /\ UNCHANGED <<backup, flag>>
    BY <1>2 DEF Restore1, Flash, flash, Types
  <2>1. FlashGood' /\ flag'
    BY <1>0, <2>0, RestoreDoes
  <2>2. CASE Abort /\ failed' = TRUE
    BY <2>1, <2>2, AbortState
  <2>3. CASE ~(Abort /\ failed' = TRUE)
    <3>1. /\ pc' = "restore2" /\ k' = k /\ UNCHANGED <<op, out, failed>>
          /\ main' = [main EXCEPT ![k] = Program1(@, 0, Restored)]
      BY <1>2, <2>3 DEF Restore1, Flash
    <3>2. Restored \in Data /\ Restored = RestoredTo(k) /\ 0 \in Slots
      BY <2>0, RestoredType, SlotFacts DEF Restored, RestoredTo
    <3> DEFINE q == Program1(main[k], 0, Restored)
    <3>3. main'[k] = q /\ \A v \in Vars \ {k} : main'[v] = main[v]
      BY <1>0, <2>0, <3>1
    <3>4. RowEmpty(main[k]) /\ \A v \in Vars : (v < k => Back(v)) /\ (v > k => RowEmpty(main[v]))
      BY <1>0, <2>0 DEF RestoreInv
    <3>5. q[0] = Rec(RestoredTo(k), Blank) /\ RestEmpty(q)
      <4>1. main[k][0].word2 = Blank /\ RestEmpty(main[k])
        BY <3>2, <3>4 DEF RowEmpty, RestEmpty, IsEmpty, EmptyRecord
      <4>2. main[k] \in [Slots -> Record]
        BY <1>0, <2>0 DEF Rows
      <4> QED
        BY <3>2, <4>1, <4>2, ProgramIs DEF RestEmpty
    <3> HIDE DEF q
    <3>6. ASSUME NEW v \in Vars PROVE (v < k => Back(v)') /\ (v > k => RowEmpty(main'[v]))
      <4>1. v < k => Back(v) /\ main'[v] = main[v]
        BY <2>0, <3>3, <3>4, ConstantFacts
      <4>2. v < k => Back(v)'
        BY <2>0, <3>1, <4>1 DEF Back, RestorableTo, RestoredTo
      <4>3. v > k => main'[v] = main[v]
        BY <2>0, <3>3, ConstantFacts
      <4> QED
        BY <3>4, <4>2, <4>3
    <3>7. main'[k'][0] = Rec(RestoredTo(k)', Blank) /\ RestEmpty(main'[k'])
      BY <2>0, <3>1, <3>3, <3>5 DEF RestoredTo
    <3>8. RestoreInv'
      BY <3>1, <3>6, <3>7 DEF RestoreInv
    <3> QED
      BY <1>0, <2>1, <3>1, <3>8, RestoreStep DEF Restoring
  <2> QED
    BY <2>2, <2>3
<1>3. CASE Restore2
  <2>0. pc = "restore2" /\ k \in Vars /\ Restorable /\ UNCHANGED <<backup, flag>>
    BY <1>3 DEF Restore2, Flash, flash, Types, OpInv
  <2>1. FlashGood' /\ flag'
    BY <1>0, <2>0, RestoreDoes
  <2>2. CASE Abort /\ failed' = TRUE
    BY <2>1, <2>2, AbortState
  <2>3. CASE ~(Abort /\ failed' = TRUE)
    <3>1. /\ pc' = Then("restore1", "eraseBackup") /\ k' = ThenK /\ UNCHANGED <<op, out, failed>>
          /\ main' = [main EXCEPT ![k] = Program2(@, 0, Restored)]
      BY <1>3, <2>3 DEF Restore2, Flash
    <3>2. Restored \in Data /\ Restored = RestoredTo(k) /\ 0 \in Slots /\ RestorableTo(k)
      BY <2>0, RestoredType, SlotFacts DEF Restored, RestoredTo, Restorable, RestorableTo
    <3> DEFINE q == Program2(main[k], 0, Restored)
    <3>3. main'[k] = q /\ \A v \in Vars \ {k} : main'[v] = main[v]
      BY <1>0, <2>0, <3>1
    <3>4. /\ RestEmpty(main[k]) /\ main[k][0] = Rec(RestoredTo(k), Blank)
          /\ \A v \in Vars : (v < k => Back(v)) /\ (v > k => RowEmpty(main[v]))
      BY <1>0, <2>0 DEF RestoreInv
    <3>5. q[0] = Rec(RestoredTo(k), RestoredTo(k)) /\ RestEmpty(q)
      <4>1. main[k][0].word1 = RestoredTo(k)
        BY <3>4 DEF Rec
      <4>2. main[k] \in [Slots -> Record]
        BY <1>0, <2>0 DEF Rows
      <4> QED
        BY <3>2, <3>4, <4>1, <4>2, ProgramIs DEF RestEmpty
    <3> HIDE DEF q
    <3>6. ASSUME NEW v \in Vars PROVE (v <= k => Back(v)') /\ (v > k => RowEmpty(main'[v]))
      <4>0. v \in Nat /\ k \in Nat
        BY <2>0, ConstantFacts
      <4>1. v < k => Back(v) /\ main'[v] = main[v]
        BY <4>0, <3>3, <3>4
      <4>2. v < k => Back(v)'
        BY <2>0, <3>1, <4>1 DEF Back, RestorableTo, RestoredTo
      <4>3. v > k => main'[v] = main[v]
        BY <4>0, <3>3
      <4>4. v = k => Back(v)'
        BY <2>0, <3>1, <3>2, <3>3, <3>5 DEF Back, RestorableTo, RestoredTo, RestoredRow
      <4>5. v <= k => v < k \/ v = k
        BY <4>0
      <4> QED
        BY <3>4, <4>2, <4>3, <4>4, <4>5
    <3>7. RestoreInv' /\ pc' \in Restoring
      BY <2>0, <3>1, <3>6, RestoredNext
    <3> QED
      BY <1>0, <2>1, <3>1, <3>7, RestoreStep
  <2> QED
    BY <2>2, <2>3
<1>4. CASE NothingToRestore
  <2>1. /\ pc = "restore1" /\ ~Restorable /\ k \in Vars /\ UNCHANGED <<main, backup, flag>>
        /\ pc' = Then("restore1", "eraseBackup") /\ k' = ThenK /\ UNCHANGED <<op, out, failed>>
    BY <1>4 DEF NothingToRestore, flash, Types
  <2>2. FlashGood' /\ flag'
    BY <1>0, <2>1, RestoreDoes
  <2>3. ASSUME NEW v \in Vars PROVE (v <= k => Back(v)') /\ (v > k => RowEmpty(main'[v]))
    <3>1. (v < k => Back(v)) /\ (v > k => RowEmpty(main[v])) /\ RowEmpty(main[k])
      BY <1>0, <2>1 DEF RestoreInv
    <3>2. v = k => Back(v)
      BY <2>1, <3>1, SlotFacts DEF Back, RestoredRow, RestorableTo, Restorable, RowEmpty, RestEmpty, IsEmpty
    <3>3. Back(v) => Back(v)'
      BY <2>1 DEF Back, RestorableTo, RestoredTo
    <3>4. v <= k => v < k \/ v = k
      BY <2>1, ConstantFacts
    <3> QED
      BY <2>1, <3>1, <3>2, <3>3, <3>4
  <2>4. RestoreInv' /\ pc' \in Restoring
    BY <2>1, <2>3, RestoredNext
  <2> QED
    BY <1>0, <2>1, <2>2, <2>4, RestoreStep
<1>5. CASE EraseBackup
  <2>0. pc = "eraseBackup" /\ op # Recovery /\ op \in Writes /\ op.var \in Vars
    BY <1>0, <1>5, OpFacts DEF EraseBackup
  <2>1. CASE Abort /\ failed' = TRUE
    <3>1. FlashGood'
      BY <1>0, <1>5, <2>0, EraseBackupDoes, SameFlash DEF EraseBackup, Flash
    <3> QED
      BY <2>1, <3>1, AbortState
  <2>2. CASE ~(Abort /\ failed' = TRUE)
    <3>1. pc' = "verify" /\ UNCHANGED <<op, out, failed>> /\ EraseBackupEffect
      BY <1>5, <2>2 DEF EraseBackup, Flash
    <3>2. /\ FlashGood' /\ ~flag'
          /\ \A v \in Vars : v = op.var => Latest(v)' = op.data
      BY <2>0, <3>1, EraseBackupDoes
    <3>3. Latest(op.var)' = op.data
      BY <2>0, <3>1, <3>2
    <3>4. AppendInv'
      BY <3>1, <3>3 DEF AppendInv
    <3>5. out = "none"
      BY <2>0 DEF OpInv
    <3> QED
      BY <3>1, <3>2, <3>4, <3>5, AppendStep DEF Appending
  <2> QED
    BY <2>1, <2>2
<1>6. CASE InitRecovered
  <2>0. pc = "eraseBackup" /\ op = Recovery
    BY <1>6 DEF InitRecovered
  <2>1. CASE Abort /\ failed' = TRUE
    <3>1. FlashGood'
      BY <1>0, <1>6, <2>0, EraseBackupDoes, SameFlash DEF InitRecovered
    <3> QED
      BY <2>1, <3>1, AbortState
  <2>2. CASE ~(Abort /\ failed' = TRUE)
    <3>1. pc' = "idle" /\ UNCHANGED <<out, failed>> /\ EraseBackupEffect
      BY <1>6, <2>2 DEF InitRecovered
    <3>2. FlashGood' /\ ~flag'
      BY <2>0, <3>1, EraseBackupDoes
    <3> QED
      BY <1>0, <3>1, <3>2, RestingStep DEF Resting, NeverFails
  <2> QED
    BY <2>1, <2>2
<1> QED
  BY <1>1, <1>2, <1>3, <1>4, <1>5, <1>6

LEMMA StartState ==
    ASSUME Types, OpInv, StateInv, InitReady \/ InitRecovers \/ Reinit \/ PowerFail
    PROVE  StateInv'
<1>0. FlashGood' /\ flag' = flag /\ NeverFails
  BY SameFlash DEF StateInv, FlagInv, InitReady, InitRecovers, Reinit, PowerFail, flash
<1>1. CASE InitReady
  BY <1>0, <1>1, RestingStep DEF InitReady, Interrupted, Resting, NeverFails
<1>2. CASE InitRecovers
  <2>1. flag /\ pc = "off" /\ BackupGood
    BY <1>2 DEF InitRecovers, Interrupted, StateInv, FlagInv, FlashGood
  <2>2. ~BadBackup
    BY <2>1 DEF BadBackup, BackupGood
  <2>3. pc' = "eraseMain" /\ k' = 0 /\ UNCHANGED <<out, failed>>
    BY <1>2, <2>2 DEF InitRecovers
  <2>4. RestoreInv'
    <3>1. ASSUME NEW s \in Slots PROVE ~(Sector(s) < 0)
      BY SectorIs
    <3> QED
      BY <2>3, <3>1 DEF RestoreInv
  <2> QED
    BY <1>0, <2>1, <2>3, <2>4, RestoreStep DEF Restoring, NeverFails
<1>3. CASE Reinit
  BY <1>0, <1>3, RestingStep DEF Reinit, Resting, NeverFails
<1>4. CASE PowerFail
  BY <1>0, <1>4, RestingStep DEF PowerFail, Resting, NeverFails
<1> QED
  BY <1>1, <1>2, <1>3, <1>4

LEMMA InitState == Init => StateInv
<1> SUFFICES ASSUME Init PROVE StateInv
  OBVIOUS
<1>1. FlashGood /\ NeverFails
  BY RecordFacts, SlotFacts DEF Init, FlashGood, PrefixIn, NeverFails
<1> QED
  BY <1>1, RestingInv DEF Init, Resting

\* A callback that has failed has failed for good.
LEMMA FailedStays == ASSUME [Next]_vars PROVE failed => failed'
BY DEF Next, Driver, vars, Append1, Append2, Verify, EraseOld, Backup1, Backup2, NothingToSave,
       SetFlag, EraseMain, Restore1, Restore2, NothingToRestore, EraseBackup, InitReady, InitRecovers,
       InitRecovered, PowerFail, Reinit, WriteSame, WriteBegin, Flash

Kept == Types /\ OpInv /\ (Reliable => StateInv)

LEMMA NextState == Kept /\ [Next]_vars => Kept'
<1> SUFFICES ASSUME Kept, [Next]_vars PROVE Kept'
  OBVIOUS
<1>1. Types' /\ OpInv'
  BY NextTypes DEF Kept
<1>2. ASSUME Reliable' PROVE StateInv'
  <2>1. Reliable /\ StateInv /\ Types /\ OpInv
    BY <1>1, <1>2, FailedStays DEF Kept, Reliable, Types
  <2>2. CASE UNCHANGED vars
    <3>1. /\ main' = main /\ backup' = backup /\ flag' = flag /\ pc' = pc /\ op' = op /\ k' = k
          /\ out' = out /\ failed' = failed
      BY <2>2 DEF vars
    <3>2. \A v : Latest(v)' = Latest(v) /\ Latest(op.var)' = Latest(op.var) /\ Latest(k)' = Latest(k)
      BY <3>1 DEF Latest, Used
    <3>3. FlagInv'
      BY <2>1, <3>1 DEF StateInv, FlagInv, FlashGood, BackupGood, NeverFails
    <3>4. AppendInv'
      BY <2>1, <3>1, <3>2 DEF StateInv, AppendInv
    <3>5. SaveInv'
      BY <2>1, <3>1, <3>2 DEF StateInv, SaveInv, BackedUp
    <3>6. RestoreInv'
      BY <2>1, <3>1 DEF StateInv, RestoreInv, Back, RestorableTo, RestoredTo
    <3> QED
      BY <3>3, <3>4, <3>5, <3>6 DEF StateInv
  <2> QED
    BY <2>1, <2>2, WriteState, AppendState, SaveState, RestoreState, StartState DEF Next, Driver
<1> QED
  BY <1>1, <1>2 DEF Kept

LEMMA KeptHolds == Spec => []Kept
<1>1. Init => Kept
  BY InitTypes, InitState DEF Kept
<1> QED
  BY <1>1, NextState, PTL DEF Spec

\* As long as the flash works, no write fails and no start refuses the store: the record is appended
\* to a slot that is free, the rotation saves and restores what it must, and a rotation that a power
\* failure cut short leaves a backup the recovery accepts (llos_eeprom.c:222-324, 386-438).
THEOREM StoreNeverFails == Spec => []NeverFails
<1>1. Kept => NeverFails
  BY DEF Kept, Reliable, StateInv, FlagInv, NeverFails
<1> QED
  BY <1>1, KeptHolds, PTL

-----------------------------------------------------------------------------
(* What the user of the store sees, if the application starts the store again *)
(* after an error, or the flash never reports one.  Without it a write that   *)
(* follows a failed rotation is lost (see the run Eeprom_flash_error).        *)

StartsAgain == Reinits \/ "error" \notin Faults

LEMMA ReliableHolds == ASSUME StartsAgain PROVE Spec => []Reliable
<1>1. Init => Reliable
  BY DEF Init, Reliable
<1>2. ASSUME Reliable, [Next]_vars PROVE Reliable'
  BY <1>2 DEF StartsAgain, Reliable, Next, Driver, vars, Append1, Append2, Verify, EraseOld, Backup1,
       Backup2, NothingToSave, SetFlag, EraseMain, Restore1, Restore2, NothingToRestore, EraseBackup,
       InitReady, InitRecovers, InitRecovered, PowerFail, Reinit, WriteSame, WriteBegin, Flash
<1> QED
  BY <1>1, <1>2, PTL DEF Spec

\* A ready store reads what it stored: whenever the flag of the backup is set, the store is not
\* ready for a read (llos_eeprom.c:163-221, 386-438).
THEOREM ReadsStand == ASSUME StartsAgain PROVE Spec => []ReadsAreDurable
<1>1. Kept /\ Reliable => ReadsAreDurable
  BY DEF Kept, StateInv, FlagInv, ReadsAreDurable, Durable
<1> QED
  BY <1>1, KeptHolds, ReliableHolds, PTL

\* The state of EepromStore.
Val == [v \in Vars |-> Durable(v)]
Under == IF op = Recovery THEN NoOp ELSE op

LEMMA SameVal == ASSUME \A v \in Vars : Durable(v)' = Durable(v) PROVE Val' = Val
BY DEF Val

LEMMA WrittenVal ==
    ASSUME op \in Writes, \A v \in Vars : Durable(v)' = IF v = op.var THEN op.data ELSE Durable(v)
    PROVE  Val' = Store!Written /\ Under = op
<1>1. op # Recovery /\ op.var \in Vars
  BY OpFacts
<1>2. Store!Written = [Val EXCEPT ![op.var] = op.data]
  BY <1>1 DEF Store!Written, Val
<1>3. Val' = [v \in Vars |-> IF v = op.var THEN op.data ELSE Durable(v)]
  BY DEF Val
<1> QED
  BY <1>1, <1>2, <1>3 DEF Val, Under

\* A step the user of the store does not see.
LEMMA Unseen == ASSUME Val' = Val, Under' = Under, out' = out PROVE UNCHANGED Store!store
BY DEF Store!store, Val, Under

\* A write that fails, or a recovery that does.
LEMMA GivesUp ==
    ASSUME Abort, op \in Writes \cup {Recovery},
           Val' = Val \/ (op \in Writes /\ Val' = Store!Written)
    PROVE  [Store!Next]_(Store!store)
<1>1. CASE op = Recovery
  <2>1. op \notin Writes /\ Under = NoOp /\ Under' = NoOp /\ out' = out
    BY <1>1, OpFacts DEF Abort, Under
  <2> QED
    BY <2>1, Unseen
<1>2. CASE op \in Writes
  <2>1. Under = op /\ Under' = NoOp /\ out' = "error"
    BY <1>2, OpFacts DEF Abort, Under
  <2>2. Store!Fail
    BY <1>2, <2>1 DEF Store!Fail, Store!Writes, Writes, Val, Under
  <2> QED
    BY <2>2 DEF Store!Next
<1> QED
  BY <1>1, <1>2

LEMMA SaveStores ==
    ASSUME Types, OpInv, StateInv,
           Append1 \/ EraseOld \/ Backup1 \/ Backup2 \/ NothingToSave \/ SetFlag
    PROVE  [Store!Next]_(Store!store)
<1>1. op \in Writes
  BY DEF OpInv, Appending, Saving, Append1, EraseOld, Backup1, Backup2, NothingToSave, SetFlag
<1>2. \A v \in Vars : Durable(v)' = Durable(v)
  <2>1. UNCHANGED flash => \A v \in Vars : Durable(v)' = Durable(v)
    BY SameFlash
  <2>2. CASE Append1
    BY <2>1, <2>2, Append1Does DEF Append1, Flash
  <2>3. CASE EraseOld
    BY <2>1, <2>3, EraseOldDoes DEF EraseOld, Flash
  <2>4. CASE Backup1 \/ Backup2
    <3>1. pc \in Saving /\ UNCHANGED <<main, flag>>
      BY <2>4 DEF Backup1, Backup2, Flash, flash, Saving
    <3> QED
      BY <3>1, BackupDoes
  <2>5. CASE NothingToSave
    BY <2>1, <2>5 DEF NothingToSave
  <2>6. CASE SetFlag
    BY <2>1, <2>6, SetFlagDoes DEF SetFlag, Flash
  <2> QED
    BY <2>2, <2>3, <2>4, <2>5, <2>6
<1>3. Val' = Val
  BY <1>2, SameVal
<1>4. CASE Abort
  BY <1>1, <1>3, <1>4, GivesUp
<1>5. CASE ~Abort
  <2>1. UNCHANGED <<op, out>>
    BY <1>5 DEF Append1, EraseOld, Backup1, Backup2, NothingToSave, SetFlag, Flash
  <2> QED
    BY <1>3, <2>1, Unseen DEF Under
<1> QED
  BY <1>4, <1>5

LEMMA RestoreStores ==
    ASSUME Types, OpInv, StateInv, EraseMain \/ Restore1 \/ Restore2 \/ NothingToRestore
    PROVE  [Store!Next]_(Store!store)
<1>1. op \in Writes \cup {Recovery} /\ pc \in Restoring
  BY DEF OpInv, Restoring, EraseMain, Restore1, Restore2, NothingToRestore
<1>2. UNCHANGED <<backup, flag>>
  BY DEF EraseMain, Restore1, Restore2, NothingToRestore, Flash, flash
<1>3. Val' = Val
  BY <1>1, <1>2, RestoreDoes, SameVal
<1>4. CASE Abort
  BY <1>1, <1>3, <1>4, GivesUp
<1>5. CASE ~Abort
  <2>1. UNCHANGED <<op, out>>
    BY <1>5 DEF EraseMain, Restore1, Restore2, NothingToRestore, Flash
  <2> QED
    BY <1>3, <2>1, Unseen DEF Under
<1> QED
  BY <1>4, <1>5

\* The two steps at which a write takes effect: the second word of its record, and the erasure of
\* the backup, which makes the restored records count.
LEMMA CommitStores ==
    ASSUME Types, OpInv, StateInv, Append2 \/ EraseBackup
    PROVE  [Store!Next]_(Store!store)
<1>1. op \in Writes
  BY DEF OpInv, Appending, Restoring, Append2, EraseBackup
<1>2. \/ \A v \in Vars : Durable(v)' = IF v = op.var THEN op.data ELSE Durable(v)
      \/ UNCHANGED flash /\ Abort
  <2>1. CASE Append2
    BY <2>1, Append2Does DEF Append2, Flash
  <2>2. CASE EraseBackup
    BY <2>2, EraseBackupDoes DEF EraseBackup, Flash
  <2> QED
    BY <2>1, <2>2
<1>3. CASE UNCHANGED flash /\ Abort
  BY <1>1, <1>3, SameFlash, SameVal, GivesUp
<1>4. CASE \A v \in Vars : Durable(v)' = IF v = op.var THEN op.data ELSE Durable(v)
  <2>1. Val' = Store!Written /\ Under = op
    BY <1>1, <1>4, WrittenVal
  <2>2. CASE Abort
    BY <1>1, <2>1, <2>2, GivesUp
  <2>3. CASE ~Abort
    <3>1. UNCHANGED <<op, out>>
      BY <2>3 DEF Append2, EraseBackup, Flash
    <3>2. Store!Commit
      BY <1>1, <2>1, <3>1 DEF Store!Commit, Store!Writes, Writes, Val, Under
    <3> QED
      BY <3>2 DEF Store!Next
  <2> QED
    BY <2>2, <2>3
<1> QED
  BY <1>2, <1>3, <1>4

LEMMA RecoverStores ==
    ASSUME Types, OpInv, StateInv, InitRecovered \/ InitReady \/ InitRecovers \/ Reinit \/ PowerFail
    PROVE  [Store!Next]_(Store!store)
<1>1. Val' = Val
  <2>1. CASE InitRecovered
    <3>1. pc = "eraseBackup" /\ op = Recovery /\ op.var \notin Vars
      BY <2>1, OpFacts DEF InitRecovered
    <3>2. \A v \in Vars : Durable(v)' = Durable(v)
      BY <2>1, <3>1, EraseBackupDoes, SameFlash DEF InitRecovered
    <3> QED
      BY <3>2, SameVal
  <2>2. CASE ~InitRecovered
    BY <2>2, SameFlash, SameVal DEF InitReady, InitRecovers, Reinit, PowerFail
  <2> QED
    BY <2>1, <2>2
<1>2. CASE InitRecovered
  <2>1. CASE Abort
    BY <1>1, <1>2, <2>1, GivesUp DEF InitRecovered
  <2>2. CASE ~Abort
    <3>1. out' = out /\ op = Recovery /\ op' = NoOp
      BY <1>2, <2>2 DEF InitRecovered
    <3> QED
      BY <1>1, <3>1, OpFacts, Unseen DEF Under
  <2> QED
    BY <2>1, <2>2
<1>3. CASE InitReady \/ InitRecovers
  <2>1. pc = "off" /\ out' = out /\ op = NoOp /\ op' \in {NoOp, Recovery}
    BY <1>3 DEF InitReady, InitRecovers, OpInv
  <2> QED
    BY <1>1, <2>1, Unseen DEF Under
<1>4. CASE Reinit \/ PowerFail
  <2>1. op' = NoOp /\ out' = "none"
    BY <1>4 DEF Reinit, PowerFail, OpInv
  <2>2. Store!PowerFail
    BY <1>1, <2>1 DEF Store!PowerFail, Val, Under
  <2> QED
    BY <2>2 DEF Store!Next
<1> QED
  BY <1>2, <1>3, <1>4

LEMMA WriteStores ==
    ASSUME Types, OpInv, StateInv, Reliable,
           Verify \/ \E w \in Writes : WriteSame(w) \/ WriteBegin(w)
    PROVE  [Store!Next]_(Store!store)
<1>0. Val' = Val
  BY SameFlash, SameVal DEF Verify, WriteSame, WriteBegin
<1>1. CASE Verify
  <2>1. op \in Writes /\ ~flag /\ Latest(op.var) = op.data /\ op.var \in Vars /\ op.data \in Data
    BY <1>1, OpFacts DEF Verify, OpInv, Appending, StateInv, FlagInv, AppendInv
  <2>2. ReadBack = op.data
    BY <2>1, RecordFacts DEF ReadBack
  <2>3. out' = "ok" /\ op' = NoOp /\ Under = op /\ Under' = NoOp
    BY <1>1, <2>1, <2>2, OpFacts DEF Verify, Under
  <2>4. Val[op.var] = op.data
    BY <2>1 DEF Val, Durable
  <2>5. Store!Succeed
    BY <1>0, <2>1, <2>3, <2>4 DEF Store!Succeed, Store!Writes, Writes, Val, Under
  <2> QED
    BY <2>5 DEF Store!Next
<1>2. ASSUME NEW w \in Writes, WriteSame(w) \/ WriteBegin(w) PROVE [Store!Next]_(Store!store)
  <2>1. pc = "idle" /\ op = NoOp /\ ~flag /\ w.var \in Vars
    BY <1>2, OpFacts DEF WriteSame, WriteBegin, CanWrite, Reliable, StateInv, FlagInv, NeverFails, OpInv
  <2>2. CASE WriteSame(w)
    <3>1. Val[w.var] = w.data /\ out' = "ok" /\ op' = NoOp
      BY <2>1, <2>2 DEF WriteSame, Val, Durable
    <3>2. Store!Rewrite(w)
      BY <1>0, <2>1, <3>1 DEF Store!Rewrite, Val, Under
    <3> QED
      BY <3>2 DEF Store!Next, Store!Writes, Writes
  <2>3. CASE WriteBegin(w)
    <3>1. op' = w /\ out' = "none" /\ w # Recovery
      BY <2>3, OpFacts DEF WriteBegin
    <3>2. Store!Begin(w)
      BY <1>0, <2>1, <3>1 DEF Store!Begin, Val, Under
    <3> QED
      BY <3>2 DEF Store!Next, Store!Writes, Writes
  <2> QED
    BY <1>2, <2>2, <2>3
<1> QED
  BY <1>1, <1>2

LEMMA StoreStep == Kept /\ Reliable /\ [Next]_vars => [Store!Next]_(Store!store)
<1> SUFFICES ASSUME Kept, Reliable, [Next]_vars PROVE [Store!Next]_(Store!store)
  OBVIOUS
<1>1. Types /\ OpInv /\ StateInv
  BY DEF Kept
<1>2. CASE UNCHANGED vars
  <2>1. Val' = Val /\ UNCHANGED <<op, out>>
    BY <1>2, SameFlash, SameVal DEF vars, flash
  <2> QED
    BY <2>1, Unseen DEF Under
<1> QED
  BY <1>1, <1>2, SaveStores, RestoreStores, CommitStores, RecoverStores, WriteStores DEF Next, Driver

\* The emulation implements EepromStore: through appends, rotations, recoveries, failures of the
\* power between any two accesses of the flash and errors of the flash, a write takes effect at one
\* instant or not at all, no other address changes with it, and a write that has returned success
\* stays (llos_eeprom.c:222-324, 386-438).
THEOREM StoreImplemented == ASSUME StartsAgain PROVE Spec => ImplementsStore
<1>1. Init => Store!Init
  <2> SUFFICES ASSUME Init PROVE Store!Init
    OBVIOUS
  <2>1. ASSUME NEW v \in Vars PROVE Durable(v) = Blank
    <3>1. main[v] \in Rows /\ (\A s \in Slots : IsEmpty(main[v][s])) /\ ~flag
      BY RecordFacts DEF Init, Rows
    <3> QED
      BY <3>1, ErasedRow, LatestRow DEF Durable
  <2> QED
    BY <2>1, OpFacts DEF Init, Store!Init
<1> QED
  BY <1>1, StoreStep, KeptHolds, ReliableHolds, PTL DEF Spec, ImplementsStore, Store!Spec

\* A write that returns success is what the next restart brings back (llos_eeprom.c:231, 316-323).
THEOREM AckStands == ASSUME StartsAgain PROVE Spec => AckIsDurable
<1>1. ASSUME Kept, Reliable, [Next]_vars, NEW w \in Writes, op = w \/ WriteSame(w), out' = "ok"
      PROVE  Durable(w.var)' = w.data
  <2>1. Types /\ OpInv /\ StateInv /\ w.var \in Vars /\ w.data \in Data /\ w # NoOp
    BY <1>1, OpFacts DEF Kept
  <2>2. CASE WriteSame(w)
    <3>1. ~flag /\ Latest(w.var) = w.data /\ UNCHANGED flash
      BY <1>1, <2>1, <2>2 DEF WriteSame, CanWrite, Reliable, StateInv, FlagInv, NeverFails
    <3> QED
      BY <2>1, <3>1, SameFlash DEF Durable
  <2>3. CASE op = w /\ ~WriteSame(w)
    <3>1. out = "none" /\ pc \in Appending \cup Saving \cup Restoring
      BY <2>1, <2>3 DEF OpInv, Types, Points, Appending, Saving, Restoring
    <3>2. Verify
      BY <1>1, <2>1, <2>3, <3>1 DEF Next, Driver, vars, Append1, Append2, EraseOld, Backup1, Backup2,
        NothingToSave, SetFlag, EraseMain, Restore1, Restore2, NothingToRestore, EraseBackup,
        InitReady, InitRecovers, InitRecovered, PowerFail, Reinit, WriteSame, WriteBegin, CanWrite,
        Flash, Abort, Appending, Saving, Restoring
    <3>3. ~flag /\ Latest(w.var) = w.data /\ UNCHANGED flash
      BY <2>1, <2>3, <3>2 DEF Verify, StateInv, FlagInv, AppendInv, Appending
    <3> QED
      BY <2>1, <3>3, SameFlash DEF Durable
  <2> QED
    BY <1>1, <2>2, <2>3
<1>2. Kept /\ Reliable /\ [Next]_vars
      => [\A w \in Writes : (op = w \/ WriteSame(w)) /\ out' = "ok" => Durable(w.var)' = w.data]_vars
  BY <1>1
<1> QED
  BY <1>2, KeptHolds, ReliableHolds, PTL DEF Spec, AckIsDurable

-----------------------------------------------------------------------------
(* The checksum: recursion over the data, by induction on the steps it took. *)

\* Induction up to N, on the set of the numbers for which something holds.
LEMMA Induction ==
    ASSUME NEW N \in Nat, NEW T, 0 \in T, \A n \in 0 .. N - 1 : n \in T => n + 1 \in T
    PROVE  0 .. N \subseteq T
<1> DEFINE U == {n \in 0 .. N : n \notin T}
<1> SUFFICES ASSUME U # {} PROVE FALSE
  OBVIOUS
<1>1. PICK x \in U : \A y \in U : x <= y
  <2>1. U \in SUBSET Nat
    OBVIOUS
  <2> HIDE DEF U
  <2> QED
    BY <2>1, Least
<1>2. x # 0 /\ x - 1 \in 0 .. N - 1 /\ x - 1 \notin U
  BY <1>1
<1>3. x - 1 \in T
  BY <1>2
<1> QED
  BY <1>1, <1>2, <1>3

Steps(N, X) == [1 .. N -> [X -> X]]
IsIteration(f, N, X, a, g) ==
    /\ f \in [0 .. N -> X]
    /\ f[0] = a
    /\ \A n \in 1 .. N : f[n] = g[n][f[n - 1]]

\* What is defined by recursion on 0 .. N exists, and has its values in X.
LEMMA Iteration ==
    ASSUME NEW X, NEW a \in X, NEW N \in Nat, NEW g \in Steps(N, X)
    PROVE  \E f : IsIteration(f, N, X, a, g)
<1> USE DEF Steps, IsIteration
<1> DEFINE T == {m \in 0 .. N : \E f \in [0 .. m -> X] :
                    f[0] = a /\ \A n \in 1 .. m : f[n] = g[n][f[n - 1]]}
<1>1. 0 \in T
  <2> DEFINE f == [n \in 0 .. 0 |-> a]
  <2>1. f \in [0 .. 0 -> X] /\ f[0] = a /\ \A n \in 1 .. 0 : f[n] = g[n][f[n - 1]]
    OBVIOUS
  <2> HIDE DEF f
  <2> QED
    BY <2>1
<1>2. ASSUME NEW m \in 0 .. N - 1, m \in T PROVE m + 1 \in T
  <2>1. PICK f \in [0 .. m -> X] : f[0] = a /\ \A n \in 1 .. m : f[n] = g[n][f[n - 1]]
    BY <1>2
  <2> DEFINE h == [n \in 0 .. m + 1 |-> IF n = m + 1 THEN g[m + 1][f[m]] ELSE f[n]]
  <2>2. h \in [0 .. m + 1 -> X]
    OBVIOUS
  <2>3. h[0] = a /\ \A n \in 1 .. m + 1 : h[n] = g[n][h[n - 1]]
    BY <2>1
  <2> HIDE DEF h
  <2>4. m + 1 \in 0 .. N
    OBVIOUS
  <2> QED
    BY <2>2, <2>3, <2>4
<1>3. N \in T
  <2> HIDE DEF T
  <2>1. \A m \in 0 .. N - 1 : m \in T => m + 1 \in T
    BY <1>2
  <2>2. 0 .. N \subseteq T
    BY <1>1, <2>1, Induction
  <2> QED
    BY <2>2
<1> QED
  BY <1>3

LEMMA IterationType ==
    ASSUME NEW X, NEW N \in Nat, NEW f, f[0] \in X, \A n \in 1 .. N : f[n - 1] \in X => f[n] \in X
    PROVE  \A n \in 0 .. N : f[n] \in X
<1> DEFINE T == {n \in 0 .. N : f[n] \in X}
<1>1. 0 \in T
  OBVIOUS
<1>2. \A n \in 0 .. N - 1 : n \in T => n + 1 \in T
  OBVIOUS
<1>3. 0 .. N \subseteq T
  <2> HIDE DEF T
  <2> QED
    BY <1>1, <1>2, Induction
<1> QED
  BY <1>3

-----------------------------------------------------------------------------
(* Words of bits.                                                            *)

Bit == {0, 1}
Word(n) == [1 .. n -> Bit]

LEMMA WordIsSeq == ASSUME NEW n \in Nat, NEW x \in Word(n) PROVE x \in Seq(Bit) /\ Len(x) = n
BY DEF Word

LEMMA XorType == ASSUME NEW n \in Nat, NEW x \in Word(n), NEW y \in Word(n)
                 PROVE  BitXor(x, y) \in Word(n) /\ \A b \in 1 .. n : BitXor(x, y)[b] = (x[b] + y[b]) % 2
BY DEF Word, Bit, BitXor

LEMMA ShiftType == ASSUME NEW n \in Nat \ {0}, NEW x \in Word(n)
                   PROVE  /\ ShiftLeft(x, 1) \in Word(n)
                          /\ \A b \in 1 .. n : ShiftLeft(x, 1)[b] = IF b = n THEN 0 ELSE x[b + 1]
<1>1. x \in Seq(Bit) /\ Len(x) = n
  BY DEF Word
<1>2. Zeros(1) \in Seq(Bit) /\ Len(Zeros(1)) = 1 /\ Zeros(1)[1] = 0
  BY DEF Zeros, Bit
<1>3. SubSeq(x, 2, n) \in Seq(Bit) /\ Len(SubSeq(x, 2, n)) = n - 1
      /\ \A b \in 1 .. n - 1 : SubSeq(x, 2, n)[b] = x[b + 1]
  BY <1>1
<1> HIDE DEF Bit
<1>4. ShiftLeft(x, 1) = SubSeq(x, 2, n) \o Zeros(1)
  BY <1>1 DEF ShiftLeft
<1> DEFINE s == ShiftLeft(x, 1)
<1>5. s \in Seq(Bit) /\ Len(s) = n
  BY <1>2, <1>3, <1>4, ConcatProperties
<1>6. \A b \in 1 .. n : s[b] = IF b <= n - 1 THEN SubSeq(x, 2, n)[b] ELSE Zeros(1)[b - (n - 1)]
  BY <1>2, <1>3, <1>4
<1> HIDE DEF s
<1>7. \A b \in 1 .. n : s[b] = IF b = n THEN 0 ELSE x[b + 1]
  BY <1>2, <1>3, <1>6
<1>8. s \in Word(n)
  BY <1>5 DEF Word
<1> QED
  BY <1>7, <1>8 DEF s

LEMMA BitType ==
    ASSUME NEW n \in Nat \ {0}, NEW x \in Word(n), NEW poly \in Word(n)
    PROVE  /\ CrcBit(x, poly) \in Word(n)
           /\ \A b \in 1 .. n : CrcBit(x, poly)[b] =
                  ((IF b = n THEN 0 ELSE x[b + 1]) + (IF x[1] = 1 THEN poly[b] ELSE 0)) % 2
<1>1. x[1] \in {0, 1}
  BY DEF Word, Bit
<1>2. CASE x[1] = 1
  <2>1. CrcBit(x, poly) = BitXor(ShiftLeft(x, 1), poly)
    BY <1>2 DEF CrcBit
  <2> QED
    BY <1>2, <2>1, ShiftType, XorType
<1>3. CASE x[1] = 0
  <2>1. CrcBit(x, poly) = ShiftLeft(x, 1)
    BY <1>3 DEF CrcBit
  <2>2. \A b \in 1 .. n : (IF b = n THEN 0 ELSE x[b + 1]) \in {0, 1}
    BY DEF Word, Bit
  <2>3. \A y \in {0, 1} : (y + 0) % 2 = y
    OBVIOUS
  <2> QED
    BY <1>3, <2>1, <2>2, <2>3, ShiftType
<1> QED
  BY <1>1, <1>2, <1>3

LEMMA PaddedType ==
    ASSUME NEW m \in Nat, NEW n \in Nat, NEW x \in Word(m)
    PROVE  /\ x \o Zeros(n) \in Word(m + n)
           /\ \A b \in 1 .. m + n : (x \o Zeros(n))[b] = IF b <= m THEN x[b] ELSE 0
<1>1. x \in Seq(Bit) /\ Len(x) = m
  BY DEF Word
<1>2. Zeros(n) \in Seq(Bit) /\ Len(Zeros(n)) = n /\ \A b \in 1 .. n : Zeros(n)[b] = 0
  BY DEF Zeros, Bit
<1> HIDE DEF Bit
<1> DEFINE s == x \o Zeros(n)
<1>3. s \in Seq(Bit) /\ Len(s) = m + n
  BY <1>1, <1>2
<1>4. \A b \in 1 .. m + n : s[b] = IF b <= m THEN x[b] ELSE Zeros(n)[b - m]
  BY <1>1, <1>2
<1> HIDE DEF s
<1>5. s \in Word(m + n)
  BY <1>3 DEF Word
<1>6. \A b \in 1 .. m + n : s[b] = IF b <= m THEN x[b] ELSE 0
  BY <1>2, <1>4
<1> QED
  BY <1>5, <1>6 DEF s

LEMMA PaddedByte ==
    ASSUME NEW n \in Nat, NEW x \in Word(8)
    PROVE  /\ x \o Zeros(n) \in Word(8 + n)
           /\ \A b \in 1 .. 8 + n : (x \o Zeros(n))[b] = IF b <= 8 THEN x[b] ELSE 0
<1>1. 8 \in Nat
  OBVIOUS
<1> QED
  BY <1>1, PaddedType

LEMMA CrcByteIs ==
    ASSUME NEW n \in Nat, n >= 8, NEW crc \in Word(n), NEW poly \in Word(n), NEW byte \in Word(8)
    PROVE  \E after \in [0 .. 8 -> Word(n)] :
             /\ after[0] = BitXor(crc, byte \o Zeros(n - 8))
             /\ \A j \in 1 .. 8 : after[j] = CrcBit(after[j - 1], poly)
             /\ CrcByte(crc, byte, poly) = after[8]
<1> DEFINE start == BitXor(crc, byte \o Zeros(n - 8))
<1> DEFINE after[j \in 0 .. 8] == IF j = 0 THEN BitXor(crc, byte \o Zeros(Len(crc) - 8)) ELSE CrcBit(after[j - 1], poly)
<1>1. CrcByte(crc, byte, poly) = after[8]
  BY DEF CrcByte
<1>2. start \in Word(n)
  <2>1. byte \o Zeros(n - 8) \in Word(n)
    BY PaddedType
  <2> QED
    BY <2>1, XorType
<1>3. start = BitXor(crc, byte \o Zeros(Len(crc) - 8))
  BY DEF Word
<1> DEFINE g == [j \in 1 .. 8 |-> [x \in Word(n) |-> CrcBit(x, poly)]]
<1>4. g \in Steps(8, Word(n))
  BY BitType DEF Steps
<1> HIDE DEF start
<1>5. PICK f : IsIteration(f, 8, Word(n), start, g)
  <2> HIDE DEF g
  <2> QED
    BY <1>2, <1>4, Iteration, 8 \in Nat
<1>6. \A j \in 1 .. 8 : f[j - 1] \in Word(n) /\ g[j][f[j - 1]] = CrcBit(f[j - 1], poly)
  BY <1>5 DEF IsIteration
<1>7. f = [j \in 0 .. 8 |-> IF j = 0 THEN start ELSE CrcBit(f[j - 1], poly)]
  BY <1>5, <1>6 DEF IsIteration
<1>8. after = [j \in 0 .. 8 |-> IF j = 0 THEN start ELSE CrcBit(after[j - 1], poly)]
  BY <1>3, <1>7
<1> HIDE DEF after
<1>9. after[0] = start /\ \A j \in 1 .. 8 : after[j] = CrcBit(after[j - 1], poly)
  BY <1>8
<1>10. \A j \in 1 .. 8 : after[j - 1] \in Word(n) => after[j] \in Word(n)
  BY <1>9, BitType
<1>11. \A j \in 0 .. 8 : after[j] \in Word(n)
  BY <1>2, <1>9, <1>10, IterationType, 8 \in Nat
<1>12. after \in [0 .. 8 -> Word(n)]
  BY <1>8, <1>11
<1> QED
  BY <1>1, <1>9, <1>12 DEF start

LEMMA CrcBytesIs ==
    ASSUME NEW n \in Nat, n >= 8, NEW init \in Word(n), NEW poly \in Word(n), NEW data \in Seq(Word(8))
    PROVE  \E after \in [0 .. Len(data) -> Word(n)] :
             /\ after[0] = init
             /\ \A i \in 1 .. Len(data) : after[i] = CrcByte(after[i - 1], data[i], poly)
             /\ CrcBytes(init, data, poly) = after[Len(data)]
<1> DEFINE N == Len(data)
<1> DEFINE after[i \in 0 .. Len(data)] == IF i = 0 THEN init ELSE CrcByte(after[i - 1], data[i], poly)
<1>1. CrcBytes(init, data, poly) = after[Len(data)]
  BY DEF CrcBytes
<1>2. N \in Nat /\ \A i \in 1 .. N : data[i] \in Word(8)
  OBVIOUS
<1> DEFINE g == [i \in 1 .. N |-> [x \in Word(n) |-> CrcByte(x, data[i], poly)]]
<1>3. \A x \in Word(n), i \in 1 .. N : CrcByte(x, data[i], poly) \in Word(n)
  <2> SUFFICES ASSUME NEW x \in Word(n), NEW i \in 1 .. N PROVE CrcByte(x, data[i], poly) \in Word(n)
    OBVIOUS
  <2>1. data[i] \in Word(8)
    BY <1>2
  <2> HIDE DEF N
  <2>2. PICK f \in [0 .. 8 -> Word(n)] : CrcByte(x, data[i], poly) = f[8]
    BY <2>1, CrcByteIs
  <2> QED
    BY <2>2
<1>4. g \in Steps(N, Word(n))
  BY <1>3 DEF Steps
<1> HIDE DEF N
<1>5. PICK f : IsIteration(f, N, Word(n), init, g)
  <2> HIDE DEF g
  <2> QED
    BY <1>2, <1>4, Iteration
<1>6. \A i \in 1 .. N : f[i - 1] \in Word(n) /\ g[i][f[i - 1]] = CrcByte(f[i - 1], data[i], poly)
  BY <1>2, <1>5 DEF IsIteration
<1>7. f = [i \in 0 .. N |-> IF i = 0 THEN init ELSE CrcByte(f[i - 1], data[i], poly)]
  <2> HIDE DEF g
  <2>1. \A i \in 0 .. N : i # 0 => i \in 1 .. N
    BY <1>2
  <2>2. \A i \in 0 .. N : f[i] = IF i = 0 THEN init ELSE CrcByte(f[i - 1], data[i], poly)
    BY <1>5, <1>6, <2>1 DEF IsIteration
  <2> QED
    BY <1>5, <2>2 DEF IsIteration
<1>8. after = [i \in 0 .. N |-> IF i = 0 THEN init ELSE CrcByte(after[i - 1], data[i], poly)]
  BY <1>7 DEF N
<1> HIDE DEF after
<1>9. after[0] = init /\ \A i \in 1 .. N : after[i] = CrcByte(after[i - 1], data[i], poly)
  BY <1>2, <1>8
<1>10. \A i \in 1 .. N : after[i - 1] \in Word(n) => after[i] \in Word(n)
  BY <1>3, <1>9
<1>11. \A i \in 0 .. N : after[i] \in Word(n)
  BY <1>2, <1>9, <1>10, IterationType
<1>12. after \in [0 .. N -> Word(n)]
  BY <1>8, <1>11
<1> QED
  BY <1>1, <1>9, <1>12 DEF N

\* One step of the schoolbook division, from x to y: the divisor, whose head is 1, is
\* subtracted under bit n when that bit is set.
Subtracted(x, y, n, w, L, poly) ==
    \A b \in 1 .. L : y[b] = IF b > n /\ b <= n + w /\ x[n] = 1
                                THEN (x[b] + poly[b - n]) % 2
                                ELSE IF b = n THEN 0 ELSE x[b]
Divides(left, M, w, poly) == \A n \in 1 .. M : Subtracted(left[n - 1], left[n], n, w, M + w, poly)
Division(left, M, w, dividend, poly, remainder) ==
    /\ left \in [0 .. M -> Word(M + w)]
    /\ left[0] = dividend
    /\ Divides(left, M, w, poly)
    /\ \A b \in 1 .. w : remainder[b] = left[M][M + b]

LEMMA RemainderIs ==
    ASSUME NEW w \in Nat, NEW M \in Nat, NEW dividend \in Word(M + w), NEW poly \in Word(w)
    PROVE  /\ Remainder(dividend, poly) \in Word(w)
           /\ \E left : Division(left, M, w, dividend, poly, Remainder(dividend, poly))
<1> DEFINE L == M + w
           divisor == <<1>> \o poly
           Subtract(rest, n) ==
             IF rest[n] = 0 THEN rest
             ELSE [b \in 1 .. Len(rest) |->
                     IF b \in n .. n + w THEN (rest[b] + divisor[b - n + 1]) % 2 ELSE rest[b]]
<1> DEFINE left[n \in 0 .. M] == IF n = 0 THEN dividend ELSE Subtract(left[n - 1], n)
<1>1. Len(poly) = w /\ poly \in Seq(Bit) /\ Len(dividend) = L /\ dividend \in Seq(Bit) /\ L \in Nat /\ L - w = M
  BY DEF Word
<1>2. Remainder(dividend, poly) = SubSeq(left[M], M + 1, L)
  BY <1>1 DEF Remainder
<1>3. \A d \in 1 .. w + 1 : divisor[d] \in {0, 1} /\ divisor[d] = IF d = 1 THEN 1 ELSE poly[d - 1]
  BY <1>1 DEF Bit
<1>4. ASSUME NEW rest \in Word(L), NEW n \in 1 .. M
      PROVE  /\ Subtract(rest, n) \in Word(L)
             /\ \A b \in 1 .. L : Subtract(rest, n)[b] =
                   IF b > n /\ b <= n + w /\ rest[n] = 1
                     THEN (rest[b] + poly[b - n]) % 2
                     ELSE IF b = n THEN 0 ELSE rest[b]
  <2>1. Len(rest) = L /\ n \in 1 .. L /\ rest[n] \in {0, 1} /\ \A b \in 1 .. L : rest[b] \in {0, 1}
    BY <1>1 DEF Word, Bit
  <2>2. CASE rest[n] = 0
    <3> HIDE DEF L, divisor
    <3> QED
      BY <2>1, <2>2
  <2>3. CASE rest[n] = 1
    <3>1. Subtract(rest, n) = [b \in 1 .. L |->
             IF b \in n .. n + w THEN (rest[b] + divisor[b - n + 1]) % 2 ELSE rest[b]]
      BY <2>1, <2>3
    <3> HIDE DEF Subtract, divisor
    <3>2. ASSUME NEW b \in 1 .. L
          PROVE  /\ Subtract(rest, n)[b] \in Bit
                 /\ Subtract(rest, n)[b] =
                      IF b > n /\ b <= n + w THEN (rest[b] + poly[b - n]) % 2
                                             ELSE IF b = n THEN 0 ELSE rest[b]
      <4>1. Subtract(rest, n)[b] = IF b \in n .. n + w THEN (rest[b] + divisor[b - n + 1]) % 2 ELSE rest[b]
        BY <3>1
      <4>2. CASE b = n
        <5>1. divisor[b - n + 1] = 1 /\ b \in n .. n + w
          BY <1>3, <4>2
        <5> QED
          BY <2>1, <2>3, <4>1, <4>2, <5>1 DEF Bit
      <4>3. CASE b > n /\ b <= n + w
        <5>1. b - n + 1 \in 1 .. w + 1 /\ b - n + 1 # 1 /\ b - n + 1 - 1 = b - n
          BY <4>3
        <5>2. divisor[b - n + 1] = poly[b - n] /\ divisor[b - n + 1] \in {0, 1} /\ b \in n .. n + w
          BY <1>3, <4>3, <5>1
        <5>3. rest[b] \in {0, 1}
          BY <2>1
        <5> QED
          BY <4>1, <4>3, <5>2, <5>3 DEF Bit
      <4>4. CASE ~ (b \in n .. n + w)
        BY <2>1, <4>1, <4>4 DEF Bit
      <4> QED
        BY <4>2, <4>3, <4>4
    <3>3. Subtract(rest, n) \in Word(L)
      BY <3>1, <3>2 DEF Word
    <3> QED
      BY <2>3, <3>2, <3>3
  <2> QED
    BY <2>1, <2>2, <2>3
<1> HIDE DEF Subtract, L
<1> DEFINE g == [n \in 1 .. M |-> [x \in Word(L) |-> Subtract(x, n)]]
<1>5. g \in Steps(M, Word(L))
  BY <1>4 DEF Steps
<1>6. PICK f : IsIteration(f, M, Word(L), dividend, g)
  <2>1. dividend \in Word(L)
    BY DEF L
  <2> HIDE DEF g
  <2> QED
    BY <1>5, <2>1, Iteration
<1>7. \A n \in 1 .. M : f[n - 1] \in Word(L) /\ g[n][f[n - 1]] = Subtract(f[n - 1], n)
  BY <1>6 DEF IsIteration
<1>8. f = [n \in 0 .. M |-> IF n = 0 THEN dividend ELSE Subtract(f[n - 1], n)]
  <2> HIDE DEF g
  <2>1. \A n \in 0 .. M : n # 0 => n \in 1 .. M
    OBVIOUS
  <2>2. \A n \in 0 .. M : f[n] = IF n = 0 THEN dividend ELSE Subtract(f[n - 1], n)
    BY <1>6, <1>7, <2>1 DEF IsIteration
  <2> QED
    BY <1>6, <2>2 DEF IsIteration
<1>9. left = [n \in 0 .. M |-> IF n = 0 THEN dividend ELSE Subtract(left[n - 1], n)]
  BY <1>8 DEF Subtract
<1> HIDE DEF left
<1>10. left[0] = dividend /\ \A n \in 1 .. M : left[n] = Subtract(left[n - 1], n)
  BY <1>9
<1>11. \A n \in 1 .. M : left[n - 1] \in Word(L) => left[n] \in Word(L)
  BY <1>4, <1>10
<1>12. dividend \in Word(L)
  BY DEF L
<1>13. \A n \in 0 .. M : left[n] \in Word(L)
  BY <1>10, <1>11, <1>12, IterationType
<1>14. left \in [0 .. M -> Word(L)]
  BY <1>9, <1>13
<1>15. Divides(left, M, w, poly)
  <2> SUFFICES ASSUME NEW n \in 1 .. M PROVE Subtracted(left[n - 1], left[n], n, w, L, poly)
    BY DEF Divides, L
  <2>1. left[n - 1] \in Word(L) /\ left[n] = Subtract(left[n - 1], n)
    BY <1>10, <1>13
  <2> QED
    BY <1>4, <2>1 DEF Subtracted
<1>16. /\ SubSeq(left[M], M + 1, L) \in Word(w)
       /\ \A b \in 1 .. w : SubSeq(left[M], M + 1, L)[b] = left[M][M + b]
  <2> DEFINE s == left[M]
  <2>1. s \in Seq(Bit) /\ Len(s) = L
    BY <1>1, <1>13 DEF Word
  <2> HIDE DEF s
  <2>2. SubSeq(s, M + 1, L) \in Seq(Bit) /\ Len(SubSeq(s, M + 1, L)) = w
        /\ \A b \in 1 .. w : SubSeq(s, M + 1, L)[b] = s[M + b]
    BY <1>1, <2>1
  <2> DEFINE t == SubSeq(s, M + 1, L)
  <2>3. t \in Word(w)
    <3>1. t \in Seq(Bit) /\ Len(t) = w
      BY <2>2
    <3> HIDE DEF t
    <3> QED
      BY <3>1 DEF Word
  <2> QED
    BY <2>2, <2>3 DEF s
<1> QED
  BY <1>2, <1>10, <1>14, <1>15, <1>16 DEF L, Division

-----------------------------------------------------------------------------
(* The register against the division.                                        *)

\* Bit c of the data, 0 behind it.
DataBit(data, c) == IF c <= 8 * Len(data) THEN Flat(data)[c] ELSE 0

LEMMA DataBitIs ==
    ASSUME NEW data \in Seq(Word(8)), NEW c \in Nat \ {0}
    PROVE  DataBit(data, c) \in {0, 1}
<1>1. ASSUME c <= 8 * Len(data) PROVE Flat(data)[c] \in {0, 1}
  <2>1. c \in 1 .. 8 * Len(data)
    BY <1>1
  <2>2. ((c - 1) \div 8) + 1 \in 1 .. Len(data) /\ ((c - 1) % 8) + 1 \in 1 .. 8
    BY <2>1
  <2>3. data[((c - 1) \div 8) + 1] \in Word(8)
    BY <2>2
  <2>4. data[((c - 1) \div 8) + 1][((c - 1) % 8) + 1] \in {0, 1}
    BY <2>2, <2>3 DEF Word, Bit
  <2> QED
    BY <2>1, <2>4 DEF Flat
<1> QED
  BY <1>1 DEF DataBit

LEMMA ByteBitIs ==
    ASSUME NEW data \in Seq(Word(8)), NEW i \in 1 .. Len(data), NEW b \in 1 .. 8,
           NEW c, c = 8 * (i - 1) + b
    PROVE  DataBit(data, c) = data[i][b]
<1>1. c \in 1 .. 8 * Len(data)
  OBVIOUS
<1>2. ((c - 1) \div 8) + 1 = i /\ ((c - 1) % 8) + 1 = b
  OBVIOUS
<1> QED
  BY <1>1, <1>2 DEF DataBit, Flat

\* The dividend: the data with the initial value added to its head.
LEMMA DividendIs ==
    ASSUME NEW cfg, NEW w \in Nat, cfg.width = w, cfg.initVal \in Word(w), NEW data \in Seq(Word(8))
    PROVE  /\ Dividend(cfg, data) \in Word(8 * Len(data) + w)
           /\ \A c \in 1 .. 8 * Len(data) + w :
                Dividend(cfg, data)[c] = IF c <= w THEN (DataBit(data, c) + cfg.initVal[c]) % 2
                                                   ELSE DataBit(data, c)
<1> DEFINE N == 8 * Len(data)
           bits == Flat(data) \o Zeros(w)
<1>1. N \in Nat
  OBVIOUS
<1>2. Flat(data) = [c \in 1 .. N |-> DataBit(data, c)]
  BY DEF Flat, DataBit
<1>3. \A c \in 1 .. N : DataBit(data, c) \in {0, 1}
  BY <1>1, DataBitIs
<1> HIDE DEF N
<1>4. Flat(data) \in Word(N) /\ \A c \in 1 .. N : Flat(data)[c] = DataBit(data, c)
  BY <1>2, <1>3 DEF Word, Bit
<1>5. bits \in Word(N + w) /\ \A c \in 1 .. N + w : bits[c] = IF c <= N THEN Flat(data)[c] ELSE 0
  BY <1>1, <1>4, PaddedType
<1>6. Len(bits) = N + w
  BY <1>1, <1>5 DEF Word
<1> HIDE DEF bits
<1>7. Dividend(cfg, data) = [c \in 1 .. N + w |-> IF c <= w THEN (bits[c] + cfg.initVal[c]) % 2 ELSE bits[c]]
  BY <1>6 DEF Dividend, bits
<1>8. \A c \in 1 .. N + w : bits[c] = DataBit(data, c)
  BY <1>4, <1>5 DEF DataBit, N
<1>9. \A c \in 1 .. N + w : bits[c] \in {0, 1}
  BY <1>5 DEF Word, Bit
<1>10. \A c \in 1 .. N + w : c <= w => cfg.initVal[c] \in {0, 1}
  BY DEF Word, Bit
<1>11. Dividend(cfg, data) \in Word(N + w)
  BY <1>7, <1>9, <1>10 DEF Word, Bit
<1> QED
  BY <1>7, <1>8, <1>11 DEF N

LEMMA BitFacts ==
    /\ \A x, y, z \in {0, 1} : (((x + y) % 2) + z) % 2 = (((x + z) % 2) + y) % 2
    /\ \A x \in {0, 1} : (x + 0) % 2 = x /\ (0 + x) % 2 = x
    /\ \A x, y \in {0, 1} : (x + y) % 2 \in {0, 1}
OBVIOUS

\* The register of W bits holds the bits n + 1 to n + W of what is left after n steps, but
\* for those of the data that are still to come (from bit e + 1 on).
Holds(x, reg, n, e, W, L, data) ==
    \A b \in 1 .. W : n + b <= L =>
        x[n + b] = (reg[b] + (IF n + b > e THEN DataBit(data, n + b) ELSE 0)) % 2

Untouched(x, n, w, L, data) == \A c \in 1 .. L : c > n + w => x[c] = DataBit(data, c)

\* One bit: the register's step is the division's.
LEMMA BitStep ==
    ASSUME NEW w \in Nat \ {0}, NEW W \in Nat, w <= W, NEW L \in Nat, NEW n \in Nat \ {0}, n + w <= L,
           NEW e \in Nat, n <= e, e < n + W, NEW data \in Seq(Word(8)),
           NEW x \in Word(L), NEW y \in Word(L), NEW reg \in Word(W),
           NEW poly \in Word(w),
           Untouched(x, n - 1, w, L, data), Subtracted(x, y, n, w, L, poly),
           Holds(x, reg, n - 1, e, W, L, data)
    PROVE  /\ Holds(y, CrcBit(reg, poly \o Zeros(W - w)), n, e, W, L, data)
           /\ Untouched(y, n, w, L, data)
<1> USE DEF Untouched, Subtracted
<1> DEFINE p == poly \o Zeros(W - w)
           shift(b) == IF b = W THEN 0 ELSE reg[b + 1]
           E(c) == IF c > e THEN DataBit(data, c) ELSE 0
<1>1. p \in Word(W) /\ \A b \in 1 .. W : p[b] = IF b <= w THEN poly[b] ELSE 0
  <2> DEFINE d == W - w
  <2>1. d \in Nat
    OBVIOUS
  <2>3. w + d = W
    OBVIOUS
  <2> HIDE DEF d
  <2>2. /\ poly \o Zeros(d) \in Word(w + d)
        /\ \A b \in 1 .. w + d : (poly \o Zeros(d))[b] = IF b <= w THEN poly[b] ELSE 0
    BY <2>1, PaddedType
  <2> QED
    BY <2>2, <2>3 DEF d
<1> HIDE DEF p
<1>2. \A b \in 1 .. W : CrcBit(reg, p)[b] = (shift(b) + (IF reg[1] = 1 THEN p[b] ELSE 0)) % 2
  BY <1>1, BitType
<1>3. x[n] = reg[1]
  <2>1. x[n - 1 + 1] = (reg[1] + (IF n - 1 + 1 > e THEN DataBit(data, n - 1 + 1) ELSE 0)) % 2
    BY DEF Holds
  <2>2. reg[1] \in {0, 1}
    BY DEF Word, Bit
  <2> QED
    BY <2>1, <2>2, BitFacts
<1>4. ASSUME NEW b \in 1 .. W, n + b <= L PROVE x[n + b] = (shift(b) + E(n + b)) % 2
  <2>1. CASE b = W
    <3>1. n + b \in 1 .. L /\ n + b > n - 1 + w /\ n + b > e
      BY <1>4, <2>1
    <3>2. DataBit(data, n + b) \in {0, 1}
      BY DataBitIs
    <3> QED
      BY <2>1, <3>1, <3>2, BitFacts
  <2>2. CASE b # W
    <3>1. b + 1 \in 1 .. W /\ n - 1 + (b + 1) = n + b
      BY <2>2
    <3> QED
      BY <1>4, <2>2, <3>1 DEF Holds
  <2> QED
    BY <2>1, <2>2
<1>5. ASSUME NEW b \in 1 .. W, n + b <= L
      PROVE  y[n + b] = (CrcBit(reg, p)[b] + E(n + b)) % 2
  <2>1. y[n + b] = IF b <= w /\ reg[1] = 1 THEN (x[n + b] + poly[b]) % 2 ELSE x[n + b]
    <3>1. n + b \in 1 .. L /\ n + b > n /\ n + b # n /\ n + b - n = b /\ (n + b <= n + w <=> b <= w)
      BY <1>5
    <3> QED
      BY <1>3, <3>1
  <2>2. shift(b) \in {0, 1} /\ x[n + b] \in {0, 1} /\ p[b] \in {0, 1} /\ E(n + b) \in {0, 1}
    <3>1. n + b \in 1 .. L
      BY <1>5
    <3> QED
      BY <1>1, <3>1, DataBitIs DEF Word, Bit
  <2>3. y[n + b] = (x[n + b] + (IF reg[1] = 1 THEN p[b] ELSE 0)) % 2
    <3> HIDE DEF shift, E
    <3> QED
      BY <1>1, <2>1, <2>2, BitFacts
  <2>4. (IF reg[1] = 1 THEN p[b] ELSE 0) \in {0, 1}
    BY <2>2
  <2> HIDE DEF shift, E
  <2> QED
    BY <1>2, <1>4, <1>5, <2>2, <2>3, <2>4, BitFacts
<1>6. Holds(y, CrcBit(reg, p), n, e, W, L, data)
  BY <1>5 DEF Holds
<1>7. Untouched(y, n, w, L, data)
  OBVIOUS
<1> QED
  BY <1>6, <1>7 DEF p

LEMMA ByteStep ==
    ASSUME NEW w \in Nat \ {0}, NEW W \in Nat, w <= W, 8 <= W, NEW data \in Seq(Word(8)),
           NEW i \in 1 .. Len(data), NEW M \in Nat, M = 8 * Len(data),
           NEW poly \in Word(w), NEW crc \in Word(W),
           NEW left \in [0 .. M -> Word(M + w)], Divides(left, M, w, poly),
           Holds(left[8 * (i - 1)], crc, 8 * (i - 1), 8 * (i - 1), W, M + w, data),
           Untouched(left[8 * (i - 1)], 8 * (i - 1), w, M + w, data)
    PROVE  /\ Holds(left[8 * i], CrcByte(crc, data[i], poly \o Zeros(W - w)), 8 * i, 8 * i, W, M + w, data)
           /\ Untouched(left[8 * i], 8 * i, w, M + w, data)
<1> DEFINE m == 8 * (i - 1)
           L == M + w
           p == poly \o Zeros(W - w)
<1>1. m \in Nat /\ 8 * i = m + 8 /\ m + 8 <= M /\ L \in Nat
  OBVIOUS
<1>2. p \in Word(W)
  <2> DEFINE d == W - w
  <2>1. d \in Nat
    OBVIOUS
  <2>2. w + d = W
    OBVIOUS
  <2> HIDE DEF d
  <2>3. poly \o Zeros(d) \in Word(w + d)
    BY <2>1, PaddedType
  <2> QED
    BY <2>2, <2>3 DEF d
<1>3. data[i] \in Word(8)
  OBVIOUS
<1> HIDE DEF p
<1>4. PICK after \in [0 .. 8 -> Word(W)] :
             /\ after[0] = BitXor(crc, data[i] \o Zeros(W - 8))
             /\ \A j \in 1 .. 8 : after[j] = CrcBit(after[j - 1], p)
             /\ CrcByte(crc, data[i], p) = after[8]
  <2> DEFINE byte == data[i]
  <2> HIDE DEF byte, m, L
  <2> SUFFICES \E after \in [0 .. 8 -> Word(W)] :
             /\ after[0] = BitXor(crc, byte \o Zeros(W - 8))
             /\ \A j \in 1 .. 8 : after[j] = CrcBit(after[j - 1], p)
             /\ CrcByte(crc, byte, p) = after[8]
    BY DEF byte
  <2>1. byte \in Word(8) /\ W >= 8
    BY <1>3 DEF byte
  <2> QED
    BY <1>2, <2>1, CrcByteIs
<1>5. Holds(left[m], after[0], m, m + 8, W, L, data)
  <2> SUFFICES ASSUME NEW b \in 1 .. W, m + b <= L
               PROVE  left[m][m + b] = (after[0][b] + (IF m + b > m + 8 THEN DataBit(data, m + b) ELSE 0)) % 2
    BY DEF Holds
  <2>1. after[0][b] = (crc[b] + (IF b <= 8 THEN data[i][b] ELSE 0)) % 2
    <3> DEFINE d == W - 8
               z == data[i] \o Zeros(d)
    <3>1. d \in Nat
      OBVIOUS
    <3>2. 8 + d = W
      OBVIOUS
    <3> HIDE DEF d
    <3>3. z \in Word(8 + d) /\ \A c \in 1 .. 8 + d : z[c] = IF c <= 8 THEN data[i][c] ELSE 0
      <4> DEFINE byte == data[i]
      <4>1. byte \in Word(8)
        BY <1>3
      <4> HIDE DEF byte
      <4>2. /\ byte \o Zeros(d) \in Word(8 + d)
            /\ \A c \in 1 .. 8 + d : (byte \o Zeros(d))[c] = IF c <= 8 THEN byte[c] ELSE 0
        BY <3>1, <4>1, PaddedByte
      <4> QED
        BY <4>2 DEF byte
    <3> HIDE DEF z
    <3>4. z \in Word(W) /\ z[b] = IF b <= 8 THEN data[i][b] ELSE 0
      BY <3>2, <3>3
    <3>5. BitXor(crc, z)[b] = (crc[b] + z[b]) % 2
      BY <3>4, XorType
    <3> QED
      BY <1>4, <3>4, <3>5 DEF z, d
  <2>2. left[m][m + b] = (crc[b] + DataBit(data, m + b)) % 2
    <3>1. m + b > m
      BY <1>1
    <3> HIDE DEF m
    <3> QED
      BY <3>1 DEF Holds, m
  <2>3. crc[b] \in {0, 1} /\ DataBit(data, m + b) \in {0, 1}
    BY <1>1, DataBitIs DEF Word, Bit
  <2>4. CASE b <= 8
    <3>1. DataBit(data, m + b) = data[i][b]
      <4>1. b \in 1 .. 8
        BY <2>4
      <4> QED
        BY <4>1, ByteBitIs
    <3>2. ~ (m + b > m + 8)
      BY <1>1, <2>4
    <3> QED
      BY <2>1, <2>2, <2>3, <2>4, <3>1, <3>2, BitFacts
  <2>5. CASE b > 8
    <3>1. m + b > m + 8
      BY <1>1, <2>5
    <3> QED
      BY <2>1, <2>2, <2>3, <2>5, <3>1, BitFacts
  <2> QED
    BY <2>4, <2>5
<1> DEFINE T == {j \in 0 .. 8 : /\ Holds(left[m + j], after[j], m + j, m + 8, W, L, data)
                                /\ Untouched(left[m + j], m + j, w, L, data)}
<1> HIDE DEF m, L
<1>6. 0 \in T
  BY <1>1, <1>5 DEF m, L
<1>7. ASSUME NEW j \in 0 .. 7, j \in T PROVE j + 1 \in T
  <2> DEFINE n == m + (j + 1)
  <2>1. n \in Nat \ {0} /\ n \in 1 .. M /\ n + w <= L /\ n <= m + 8 /\ m + 8 < n + W /\ m + 8 \in Nat
        /\ n - 1 = m + j
    BY <1>1, <1>7 DEF L
  <2> DEFINE x == left[n - 1]
             y == left[n]
             e == m + 8
  <2>2. x \in Word(L) /\ y \in Word(L) /\ after[j] \in Word(W)
    <3>2. j \in 0 .. 8
      BY <1>7
    <3> HIDE DEF n
    <3>1. n - 1 \in 0 .. M /\ n \in 0 .. M
      BY <2>1
    <3> QED
      BY <3>1, <3>2 DEF L
  <2>3. Subtracted(x, y, n, w, L, poly)
    <3> HIDE DEF n
    <3> QED
      BY <2>1 DEF Divides, L
  <2>4. Untouched(x, n - 1, w, L, data)
    <3> HIDE DEF n
    <3> QED
      BY <1>7, <2>1
  <2>5. Holds(x, after[j], n - 1, e, W, L, data)
    <3> HIDE DEF n
    <3> QED
      BY <1>7, <2>1
  <2>6. after[j + 1] = CrcBit(after[j], p) /\ j + 1 \in 0 .. 8
    <3>1. j + 1 \in 1 .. 8 /\ j + 1 - 1 = j
      BY <1>7
    <3> QED
      BY <1>4, <3>1
  <2>8. n <= e /\ e < n + W /\ e \in Nat
    BY <2>1
  <2> HIDE DEF n, x, y, e
  <2>7. /\ Holds(y, CrcBit(after[j], poly \o Zeros(W - w)), n, e, W, L, data)
        /\ Untouched(y, n, w, L, data)
    BY <1>1, <2>1, <2>2, <2>3, <2>4, <2>5, <2>8, BitStep
  <2> QED
    BY <2>6, <2>7 DEF n, p, y, e
<1>8. 0 .. 8 \subseteq T
  <2> HIDE DEF T
  <2>1. \A j \in 0 .. 8 - 1 : j \in T => j + 1 \in T
    BY <1>7
  <2> QED
    BY <1>6, <2>1, Induction, 8 \in Nat
<1>9. Holds(left[m + 8], after[8], m + 8, m + 8, W, L, data) /\ Untouched(left[m + 8], m + 8, w, L, data)
  BY <1>8
<1> QED
  BY <1>1, <1>4, <1>9 DEF p, L

\* What is in the register at the end, and what is left of the division.
RegisterHolds(cfg, data, w, W) ==
    LET crc == CrcBytes(cfg.initVal \o Zeros(W - w), data, cfg.poly \o Zeros(W - w))
        rest == Remainder(Dividend(cfg, data), cfg.poly)
    IN /\ crc \in Word(W)
       /\ rest \in Word(w)
       /\ \A b \in 1 .. w : rest[b] = crc[b]

LEMMA RegisterIsRemainder ==
    ASSUME NEW w \in Nat \ {0}, NEW W \in Nat, w <= W, 8 <= W, NEW data \in Seq(Word(8)),
           NEW cfg, cfg.width = w, cfg.initVal \in Word(w), cfg.poly \in Word(w)
    PROVE  RegisterHolds(cfg, data, w, W)
<1> DEFINE crc == CrcBytes(cfg.initVal \o Zeros(W - w), data, cfg.poly \o Zeros(W - w))
<1> DEFINE poly == cfg.poly
           init == cfg.initVal \o Zeros(W - w)
           p == poly \o Zeros(W - w)
           N == Len(data)
           M == 8 * N
           L == M + w
           R == Remainder(Dividend(cfg, data), poly)
<1>1. /\ p \in Word(W) /\ init \in Word(W)
      /\ \A b \in 1 .. W : init[b] = IF b <= w THEN cfg.initVal[b] ELSE 0
  <2> DEFINE d == W - w
  <2>1. d \in Nat
    OBVIOUS
  <2>2. w + d = W
    OBVIOUS
  <2> HIDE DEF d
  <2>3. poly \o Zeros(d) \in Word(w + d)
    BY <2>1, PaddedType
  <2>4. /\ cfg.initVal \o Zeros(d) \in Word(w + d)
        /\ \A b \in 1 .. w + d : (cfg.initVal \o Zeros(d))[b] = IF b <= w THEN cfg.initVal[b] ELSE 0
    BY <2>1, PaddedType
  <2> QED
    BY <2>2, <2>3, <2>4 DEF d
<1> HIDE DEF init
<1>2. N \in Nat /\ M \in Nat /\ L \in Nat
  OBVIOUS
<1>3. PICK regs \in [0 .. N -> Word(W)] :
             /\ regs[0] = init
             /\ \A i \in 1 .. N : regs[i] = CrcByte(regs[i - 1], data[i], p)
             /\ CrcBytes(init, data, p) = regs[N]
  <2> HIDE DEF p
  <2> QED
    BY <1>1, CrcBytesIs
<1>4. /\ Dividend(cfg, data) \in Word(L)
      /\ \A c \in 1 .. L : Dividend(cfg, data)[c] = IF c <= w THEN (DataBit(data, c) + cfg.initVal[c]) % 2
                                                              ELSE DataBit(data, c)
  BY DividendIs
<1>5. R \in Word(w) /\ \E left : Division(left, M, w, Dividend(cfg, data), poly, R)
  <2>1. M \in Nat /\ Dividend(cfg, data) \in Word(M + w)
    BY <1>2, <1>4
  <2> HIDE DEF M
  <2> QED
    BY <2>1, RemainderIs
<1>11. PICK left : Division(left, M, w, Dividend(cfg, data), poly, R)
  BY <1>5
<1>12. /\ left \in [0 .. M -> Word(L)]
       /\ left[0] = Dividend(cfg, data)
       /\ Divides(left, M, w, poly)
       /\ \A b \in 1 .. w : R[b] = left[M][M + b]
  BY <1>11 DEF Division
<1> DEFINE T == {i \in 0 .. N : /\ Holds(left[8 * i], regs[i], 8 * i, 8 * i, W, L, data)
                                /\ Untouched(left[8 * i], 8 * i, w, L, data)}
<1>6. 0 \in T
  <2>1. Untouched(left[0], 0, w, L, data)
    BY <1>4, <1>12 DEF Untouched
  <2>2. ASSUME NEW b \in 1 .. W, b <= L PROVE left[0][b] = (init[b] + DataBit(data, b)) % 2
    <3>1. b \in 1 .. L /\ init[b] \in {0, 1} /\ DataBit(data, b) \in {0, 1}
      BY <1>1, <2>2, DataBitIs DEF Word, Bit
    <3>2. left[0][b] = IF b <= w THEN (DataBit(data, b) + cfg.initVal[b]) % 2 ELSE DataBit(data, b)
      BY <1>4, <1>12, <3>1
    <3> HIDE DEF L
    <3> QED
      BY <1>1, <3>1, <3>2, BitFacts
  <2>3. Holds(left[0], regs[0], 0, 0, W, L, data)
    <3> HIDE DEF L
    <3>1. \A b \in 1 .. W : 0 + b = b /\ b > 0
      OBVIOUS
    <3> QED
      BY <1>3, <2>2, <3>1 DEF Holds
  <2> HIDE DEF L
  <2> QED
    BY <1>2, <2>1, <2>3
<1>7. ASSUME NEW i \in 0 .. N - 1, i \in T PROVE i + 1 \in T
  <2>1. i + 1 \in 1 .. N /\ i + 1 - 1 = i /\ regs[i] \in Word(W) /\ i + 1 \in 0 .. N
    OBVIOUS
  <2>2. regs[i + 1] = CrcByte(regs[i], data[i + 1], p)
    BY <1>3, <2>1
  <2>3. Holds(left[8 * i], regs[i], 8 * i, 8 * i, W, M + w, data) /\ Untouched(left[8 * i], 8 * i, w, M + w, data)
    BY <1>7
  <2> DEFINE next == i + 1
  <2>4. /\ next \in 1 .. Len(data)
        /\ Holds(left[8 * (next - 1)], regs[i], 8 * (next - 1), 8 * (next - 1), W, M + w, data)
        /\ Untouched(left[8 * (next - 1)], 8 * (next - 1), w, M + w, data)
    BY <2>1, <2>3
  <2> HIDE DEF next
  <2>5. M = 8 * Len(data) /\ left \in [0 .. M -> Word(M + w)]
    BY <1>12
  <2> HIDE DEF M
  <2>6. /\ Holds(left[8 * next], CrcByte(regs[i], data[next], p), 8 * next, 8 * next, W, M + w, data)
        /\ Untouched(left[8 * next], 8 * next, w, M + w, data)
    BY <1>2, <1>12, <2>1, <2>4, <2>5, ByteStep
  <2> QED
    BY <2>1, <2>2, <2>6 DEF next
<1>8. N \in T
  <2> HIDE DEF T, N
  <2>1. \A i \in 0 .. N - 1 : i \in T => i + 1 \in T
    BY <1>7
  <2>2. 0 .. N \subseteq T
    BY <1>2, <1>6, <2>1, Induction
  <2> QED
    BY <1>2, <2>2
<1>9. ASSUME NEW b \in 1 .. w PROVE R[b] = regs[N][b]
  <2>1. b \in 1 .. W /\ M + b <= L /\ M + b > M
    BY <1>2
  <2>2. left[M][M + b] = (regs[N][b] + DataBit(data, M + b)) % 2
    BY <1>8, <2>1 DEF Holds
  <2>3. DataBit(data, M + b) = 0
    BY <2>1 DEF DataBit
  <2>4. regs[N][b] \in {0, 1}
    <3>1. regs[N] \in Word(W)
      <4> HIDE DEF N
      <4> QED
        BY <1>2
    <3> QED
      BY <2>1, <3>1 DEF Word, Bit
  <2>5. R[b] = left[M][M + b]
    BY <1>12
  <2> HIDE DEF R, M, N
  <2> QED
    BY <2>2, <2>3, <2>4, <2>5, BitFacts
<1>10. crc = regs[N] /\ regs[N] \in Word(W)
  BY <1>2, <1>3 DEF init
<1> HIDE DEF crc, R
<1> QED
  BY <1>5, <1>9, <1>10 DEF RegisterHolds, crc, R

LEMMA ReversedType ==
    ASSUME NEW data \in Seq(Word(8))
    PROVE  /\ ReverseInputData(data) \in Seq(Word(8))
           /\ ReverseInputData(data) = [n \in 1 .. Len(data) |-> [b \in 1 .. 8 |-> data[n][9 - b]]]
<1>1. \A n \in 1 .. Len(data) : data[n] \in Word(8)
  OBVIOUS
<1>2. \A x \in Word(8) : Len(x) = 8 /\ ReverseOutput(x) = [b \in 1 .. 8 |-> x[9 - b]]
  <2> TAKE x \in Word(8)
  <2>1. Len(x) = 8
    BY DEF Word
  <2>2. \A b \in 1 .. 8 : 8 + 1 - b = 9 - b
    OBVIOUS
  <2> QED
    BY <2>1, <2>2 DEF ReverseOutput
<1>3. \A x \in Word(8) : ReverseOutput(x) \in Word(8)
  BY <1>2 DEF Word
<1>4. \A n \in 1 .. Len(data) :
        ReverseOutput(data[n]) \in Word(8) /\ ReverseOutput(data[n]) = [b \in 1 .. 8 |-> data[n][9 - b]]
  BY <1>1, <1>2, <1>3
<1>5. ReverseInputData(data) \in Seq(Word(8))
  <2> DEFINE m == Len(data)
  <2>1. m \in Nat
    OBVIOUS
  <2>2. ReverseInputData(data) = [n \in 1 .. m |-> ReverseOutput(data[n])]
    BY DEF ReverseInputData
  <2>3. \A n \in 1 .. m : ReverseOutput(data[n]) \in Word(8)
    BY <1>4
  <2> HIDE DEF m
  <2>4. ReverseInputData(data) \in [1 .. m -> Word(8)]
    BY <2>2, <2>3
  <2> QED
    BY <2>1, <2>4
<1> QED
  BY <1>4, <1>5 DEF ReverseInputData

LEMMA NothingPadded == ASSUME NEW w \in Nat, NEW x \in Word(w) PROVE x \o Zeros(0) = x
<1>1. x \in Seq(Bit) /\ Zeros(0) = << >>
  BY DEF Word, Zeros
<1> QED
  BY <1>1

\* The configurations of LLOS_CRC_CAL: words of the width.
Configs == UNION {[width : {w}, poly : Word(w), initVal : Word(w), finalXOR : Word(w),
                   isReverseInput : BOOLEAN, isReverseOutput : BOOLEAN] : w \in Widths}

\* With every width of the component, whatever the polynomial, the initial value, the
\* final XOR and the reflections, and for every message, LLOS_CRC_CAL yields the
\* remainder of the division by the polynomial (llos_crc.c:73-146).
THEOREM CrcIsTheRemainder == \A cfg \in Configs, data \in Seq(Word(8)) : IsRemainder(cfg, data)
<1> SUFFICES ASSUME NEW cfg \in Configs, NEW data \in Seq(Word(8)) PROVE IsRemainder(cfg, data)
  OBVIOUS
<1>1. PICK w \in Widths : cfg \in [width : {w}, poly : Word(w), initVal : Word(w), finalXOR : Word(w),
                                   isReverseInput : BOOLEAN, isReverseOutput : BOOLEAN]
  BY DEF Configs
<1>2. /\ w \in Nat \ {0} /\ cfg.width = w /\ cfg.initVal \in Word(w) /\ cfg.poly \in Word(w)
      /\ cfg.isReverseInput \in BOOLEAN
  BY <1>1 DEF Widths
<1> DEFINE input == IF cfg.isReverseInput THEN ReverseInputData(data) ELSE data
           crc == IF cfg.width < 8 THEN Crc4567(cfg, input) ELSE Crc16_32(cfg, input)
           R == Remainder(Dividend(cfg, input), cfg.poly)
<1>3. /\ input \in Seq(Word(8))
      /\ input = IF cfg.isReverseInput
                   THEN [n \in 1 .. Len(data) |-> [b \in 1 .. 8 |-> data[n][9 - b]]]
                   ELSE data
  BY <1>2, ReversedType
<1> HIDE DEF input
<1>4. crc = R
  <2>1. CASE w < 8
    <3> DEFINE reg == CrcBytes(cfg.initVal \o Zeros(8 - w), input, cfg.poly \o Zeros(8 - w))
    <3>1. reg \in Word(8) /\ R \in Word(w) /\ \A b \in 1 .. w : R[b] = reg[b]
      <4>1. w \in Nat \ {0} /\ 8 \in Nat /\ w <= 8 /\ 8 <= 8
        BY <1>2, <2>1
      <4>2. RegisterHolds(cfg, input, w, 8)
        BY <1>2, <1>3, <4>1, RegisterIsRemainder
      <4> QED
        BY <4>2 DEF RegisterHolds
    <3>2. crc = SubSeq(reg, 1, w)
      BY <1>2, <2>1 DEF Crc4567
    <3> HIDE DEF reg, R, crc
    <3>3. reg \in Seq(Bit) /\ Len(reg) = 8
      BY <3>1, WordIsSeq, 8 \in Nat
    <3>4. crc = [b \in 1 .. w |-> reg[b]]
      BY <1>2, <2>1, <3>2, <3>3
    <3>5. R = [b \in 1 .. w |-> R[b]]
      BY <3>1 DEF Word
    <3>6. \A b \in 1 .. w : crc[b] = R[b]
      BY <3>1, <3>4
    <3> QED
      BY <3>4, <3>5, <3>6
  <2>2. CASE w >= 8
    <3>1. w \in Nat /\ w <= w /\ 8 <= w /\ w - w = 0
      BY <1>2, <2>2
    <3>2. crc = CrcBytes(cfg.initVal \o Zeros(w - w), input, cfg.poly \o Zeros(w - w))
      <4>1. cfg.initVal \o Zeros(w - w) = cfg.initVal /\ cfg.poly \o Zeros(w - w) = cfg.poly
        BY <1>2, <3>1, NothingPadded
      <4>2. crc = CrcBytes(cfg.initVal, input, cfg.poly)
        BY <1>2, <2>2 DEF Crc16_32
      <4> QED
        BY <4>1, <4>2
    <3>3. crc \in Word(w) /\ R \in Word(w) /\ \A b \in 1 .. w : R[b] = crc[b]
      <4>1. RegisterHolds(cfg, input, w, w)
        BY <1>2, <1>3, <3>1, RegisterIsRemainder
      <4> HIDE DEF crc
      <4> QED
        BY <3>2, <4>1 DEF RegisterHolds
    <3> HIDE DEF R, crc
    <3>4. crc = [b \in 1 .. w |-> crc[b]] /\ R = [b \in 1 .. w |-> R[b]]
      BY <3>3 DEF Word
    <3> QED
      BY <3>3, <3>4
  <2> QED
    BY <1>2, <2>1, <2>2
<1>5. CRC_CAL(cfg, data)
        = BitXor(IF cfg.isReverseOutput THEN ReverseOutput(crc) ELSE crc, cfg.finalXOR)
  BY DEF CRC_CAL, input
<1> HIDE DEF crc, R
<1> QED
  BY <1>3, <1>4, <1>5 DEF IsRemainder, R

LEMMA BitsType == ASSUME NEW w, NEW e PROVE Bits(w, e) \in Word(w)
BY DEF Bits, Word, Bit

LEMMA ModelType ==
    ASSUME NEW w \in Widths, NEW p, NEW i, NEW f, NEW r \in BOOLEAN
    PROVE  Model(w, p, i, f, r) \in Configs
<1>1. Model(w, p, i, f, r) \in [width : {w}, poly : Word(w), initVal : Word(w), finalXOR : Word(w),
                                isReverseInput : BOOLEAN, isReverseOutput : BOOLEAN]
  BY BitsType DEF Model
<1> QED
  BY <1>1 DEF Configs

\* The checksum of the records is the remainder: what TLC checks with four bytes, for the
\* 21 models of the component (llos_crc.c:73-146).
THEOREM RecordChecksum == Spec => []CrcIsRemainder
<1>1. \A cfg \in crcModels : cfg \in Configs
  <2>1. /\ 4 \in Widths /\ 5 \in Widths /\ 6 \in Widths /\ 7 \in Widths
        /\ 8 \in Widths /\ 16 \in Widths /\ 32 \in Widths
        /\ TRUE \in BOOLEAN /\ FALSE \in BOOLEAN
    BY DEF Widths
  <2>2. \A w \in Widths, r \in BOOLEAN : \A p, i, f : Model(w, p, i, f, r) \in Configs
    BY ModelType
  <2> QED
    BY <2>1, <2>2, ZenonT(60) DEF crcModels
<1>2. SomeBytes \subseteq Word(8)
  BY BitsType DEF SomeBytes
<1>3. \A n \in Nat : [1 .. n -> SomeBytes] \subseteq Seq(Word(8))
  BY <1>2
<1>4. SomeData \subseteq Seq(Word(8))
  <2>1. 0 .. 3 \subseteq Nat
    OBVIOUS
  <2> QED
    BY <1>3, <2>1, Zenon DEF SomeData
<1>5. CrcIsRemainder
  BY <1>1, <1>4, CrcIsTheRemainder DEF CrcIsRemainder
<1> QED
  BY <1>5, PTL

=============================================================================
