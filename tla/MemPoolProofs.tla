--------------------------- MODULE MemPoolProofs ---------------------------
(***************************************************************************)
(* What TLC checks of MemPool on a pool of seven words, proved for pools   *)
(* and header fields of every size; and, below, what it checks of Console, *)
(* from the tables LLOS_Init takes from the pool to the parameters of the  *)
(* commands, for all tables, lines and commands.                           *)
(*                                                                         *)
(* The scans trust any word with the header pattern, and payloads may hold *)
(* that pattern.  The argument is that no scan ever looks into a payload:  *)
(* it stands on a header or outside all blocks (Outside), a word outside   *)
(* all blocks is never a stray header, and so a header under the scan is   *)
(* the header of a live block.                                             *)
(***************************************************************************)
EXTENDS MemPool, ConsoleMC, FiniteSetTheorems, SequenceTheorems, WellFoundedInduction, TLAPS

\* InUse and FreeRun of MemPool as functions of the owned blocks sz: a step that
\* leaves size alone then leaves them alone.
UsedBy(sz, x) == \E a \in Addr : sz[a] > 0 /\ a <= x /\ x <= a + sz[a]
RunIn(sz, a, n) == a + n <= PoolWords /\ \A x \in a .. a + n - 1 : ~UsedBy(sz, x)

\* x is not inside the payload of a block of sz
Outside(sz, x) == \A a \in Addr : sz[a] > 0 => ~(a < x /\ x <= a + sz[a])

\* LLOS_malloc has overlooked no gap behind it
MallocInv ==
    pc \in {"malloc", "probe"} =>
        /\ words > 0
        /\ Outside(size, head)
        /\ \A a \in Addr : a < head => ~RunIn(size, a, words + 1)

\* the words probed so far are free
ProbeInv ==
    pc = "probe" =>
        /\ FitsAt(head)
        /\ head < next /\ next <= head + words + 1
        /\ \A x \in head .. next - 1 : ~UsedBy(size, x)

\* LLOS_free has not passed the block it looks for
FreeInv ==
    pc = "free" =>
        /\ head \in Addr
        /\ Outside(size, scan)
        /\ Owned(head) => scan <= head

\* the block being cleared belongs to nobody else
ZeroInv ==
    pc = "zero" =>
        /\ scan \in Addr /\ head = scan
        /\ words > 0 /\ next <= words /\ scan + words < PoolWords
        /\ size[scan] = IF next = 0 THEN words ELSE 0
        /\ \A a \in Addr \ {scan} : Owned(a) => Block(a) \cap scan .. scan + words = {}

IInv == TypeOK /\ BlocksIntact /\ NoStrayHeader /\ MallocInv /\ ProbeInv /\ FreeInv /\ ZeroInv

-----------------------------------------------------------------------------
USE DEF Addr, Word, Plain, IsHeader, Owned

\* InUse and FreeRun say of size what UsedBy and RunIn say of any sz.
LEMMA InUseIsUsedBy ==
    ASSUME TypeOK
    PROVE  /\ \A x \in Int : InUse(x) <=> UsedBy(size, x)
           /\ \A a \in Addr, n \in Nat : FreeRun(a, n) <=> RunIn(size, a, n)
<1>1. \A x \in Int : InUse(x) <=> UsedBy(size, x)
  BY PoolAssumption DEF TypeOK, InUse, Block, UsedBy
<1>2. ASSUME NEW a \in Addr, NEW n \in Nat PROVE FreeRun(a, n) <=> RunIn(size, a, n)
  <2>1. a .. a + n - 1 \subseteq Int
    BY PoolAssumption
  <2> QED BY <2>1, <1>1 DEF FreeRun, RunIn
<1> QED BY <1>1, <1>2

\* A header that a scan meets outside all payloads is that of a block in use, so it
\* holds the block's length and is not corrupt (the checks of llos.c:676, 724, 755).
LEMMA HeaderIsLive ==
    ASSUME TypeOK, BlocksIntact, NoStrayHeader, pc # "zero",
           NEW x \in Addr, Outside(size, x), IsHeader(x)
    PROVE  Owned(x) /\ mem[x] = size[x] /\ ~Corrupt(x) /\ PastBlock(x) = x + size[x] + 1
<1>1. UsedBy(size, x)
  BY InUseIsUsedBy, PoolAssumption DEF NoStrayHeader, Clearing
<1>2. PICK a \in Addr : Owned(a) /\ a <= x /\ x <= a + size[a]
  BY <1>1 DEF UsedBy
<1>3. a = x
  BY <1>2, PoolAssumption DEF Outside, TypeOK
<1>4. mem[x] = size[x] /\ x + size[x] < PoolWords /\ Owned(x)
  BY <1>2, <1>3 DEF BlocksIntact
<1> QED
  BY <1>4, PoolAssumption DEF Corrupt, PastBlock, TypeOK

\* A word with no header pattern, outside all payloads, is not in use.
LEMMA PlainIsFree ==
    ASSUME TypeOK, BlocksIntact, NEW x \in Addr, Outside(size, x), ~IsHeader(x)
    PROVE  ~UsedBy(size, x) /\ ~Owned(x)
<1>1. ~Owned(x)
  BY PoolAssumption DEF BlocksIntact, TypeOK
<1>2. ASSUME NEW a \in Addr, Owned(a), a <= x, x <= a + size[a] PROVE FALSE
  BY <1>1, <1>2, PoolAssumption DEF Outside, TypeOK
<1> QED
  BY <1>1, <1>2 DEF UsedBy

\* The word after a free word, and the word after a block, are outside all payloads.
LEMMA StepOutside ==
    ASSUME TypeOK, BlocksIntact, NEW x \in Addr, Outside(size, x)
    PROVE  /\ ~UsedBy(size, x) => Outside(size, x + 1)
           /\ Owned(x) => Outside(size, x + size[x] + 1)
<1>1. ASSUME ~UsedBy(size, x) PROVE Outside(size, x + 1)
  <2>1. ASSUME NEW a \in Addr, Owned(a), a < x + 1, x + 1 <= a + size[a] PROVE FALSE
    BY <1>1, <2>1, PoolAssumption DEF TypeOK, UsedBy
  <2> QED BY <2>1 DEF Outside
<1>2. ASSUME Owned(x) PROVE Outside(size, x + size[x] + 1)
  <2>1. ASSUME NEW a \in Addr, Owned(a),
               a < x + size[x] + 1, x + size[x] + 1 <= a + size[a] PROVE FALSE
    <3>1. a # x
      BY <2>1, PoolAssumption DEF TypeOK
    <3>2. Block(a) \cap Block(x) = {}
      BY <3>1, <2>1, <1>2 DEF BlocksIntact
    <3>3. a \in Block(a) /\ x \in Block(x) /\ size[a] \in Nat /\ size[x] \in Nat
      BY PoolAssumption DEF Block, TypeOK
    <3>4. CASE a < x
      BY <3>4, <3>3, <2>1, PoolAssumption DEF Outside
    <3>5. CASE a > x
      BY <3>5, <3>3, <3>2, <2>1, PoolAssumption DEF Block
    <3> QED BY <3>1, <3>4, <3>5, PoolAssumption
  <2> QED BY <2>1 DEF Outside
<1> QED BY <1>1, <1>2

-----------------------------------------------------------------------------
(* The invariant is inductive: one lemma per function, one step per action. *)

LEMMA InitIInv == Init => IInv
BY PoolAssumption DEF Init, IInv, TypeOK, BlocksIntact, NoStrayHeader, MallocInv, ProbeInv,
                      FreeInv, ZeroInv

\* The scans of all three functions change no block.
LEMMA PoolUnchanged ==
    ASSUME IInv, UNCHANGED <<mem, size>>, pc # "zero"
    PROVE  BlocksIntact' /\ NoStrayHeader'
<1>1. BlocksIntact'
  BY DEF IInv, BlocksIntact, Block
<1>2. NoStrayHeader'
  BY DEF IInv, NoStrayHeader, InUse, Block, Clearing
<1> QED
  BY <1>1, <1>2

\* A function that returns without touching the pool leaves nothing to show.
LEMMA ReturnIInv ==
    ASSUME IInv, pc # "zero", Idle, UNCHANGED <<mem, size>>
    PROVE  IInv'
<1>1. TypeOK'
  BY PoolAssumption DEF IInv, TypeOK, Idle
<1> QED
  BY <1>1, PoolUnchanged DEF IInv, Idle, MallocInv, ProbeInv, FreeInv, ZeroInv

LEMMA MallocIInv ==
    ASSUME IInv, NEW w \in 1 .. PoolWords, Malloc(w)
    PROVE  IInv'
<1>1. TypeOK'
  BY PoolAssumption DEF IInv, TypeOK, Malloc, Request
<1>2. MallocInv'
  BY PoolAssumption DEF IInv, Malloc, MallocInv, Outside, Request, TypeOK
<1> QED
  BY <1>1, <1>2, PoolUnchanged DEF IInv, Malloc, ProbeInv, FreeInv, ZeroInv

LEMMA MallocSkipIInv ==
    ASSUME IInv, MallocSkip
    PROVE  IInv' /\ pc' = "malloc"
<1>1. head \in Addr /\ Outside(size, head) /\ IsHeader(head) /\ pc = "malloc" /\ words > 0
  BY PoolAssumption DEF IInv, MallocSkip, MallocInv, FitsAt, TypeOK
<1>2. Owned(head) /\ ~Corrupt(head) /\ PastBlock(head) = head + size[head] + 1
  BY <1>1, HeaderIsLive DEF IInv
<1>3. head' = head + size[head] + 1 /\ UNCHANGED <<mem, size, pc, next, words, scan, used>>
  BY <1>2 DEF MallocSkip
<1>4. TypeOK'
  BY <1>1, <1>3, PoolAssumption DEF IInv, TypeOK
<1>5. Outside(size, head')
  BY <1>1, <1>2, <1>3, StepOutside DEF IInv
<1>6. ASSUME NEW a \in Addr, a < head' PROVE ~RunIn(size, a, words + 1)
  <2>1. CASE a < head
    BY <2>1, <1>1 DEF IInv, MallocInv
  <2>2. CASE ~(a < head)
    <3>1. UsedBy(size, a)
      BY <2>2, <1>1, <1>2, <1>3, <1>6, PoolAssumption DEF IInv, TypeOK, UsedBy
    <3> QED BY <3>1, <1>1, PoolAssumption DEF RunIn, IInv, TypeOK
  <2> QED BY <2>1, <2>2
<1>7. MallocInv'
  BY <1>1, <1>3, <1>5, <1>6 DEF IInv, MallocInv
<1> QED
  BY <1>1, <1>3, <1>4, <1>7, PoolUnchanged DEF IInv, ProbeInv, FreeInv, ZeroInv

LEMMA MallocProbeIInv ==
    ASSUME IInv, MallocProbe
    PROVE  IInv'
<1>1. head \in Addr /\ Outside(size, head) /\ ~IsHeader(head) /\ pc = "malloc" /\ words > 0
  BY PoolAssumption DEF IInv, MallocProbe, MallocInv, FitsAt, TypeOK
<1>2. ~UsedBy(size, head)
  BY <1>1, PlainIsFree DEF IInv
<1>3. TypeOK'
  BY DEF IInv, TypeOK, MallocProbe
<1>4. MallocInv'
  BY DEF IInv, MallocProbe, MallocInv
<1>5. ProbeInv'
  BY <1>1, <1>2, PoolAssumption DEF IInv, TypeOK, MallocProbe, ProbeInv, FitsAt
<1> QED
  BY <1>1, <1>3, <1>4, <1>5, PoolUnchanged DEF IInv, MallocProbe, FreeInv, ZeroInv

\* next stands outside all payloads while the gap is probed
LEMMA NextOutside ==
    ASSUME IInv, pc = "probe"
    PROVE  /\ Outside(size, next) /\ head \in Addr /\ next \in 1 .. PoolWords
           /\ next < head + words + 1 => next \in Addr
<1>1. head \in Addr /\ next \in 1 .. PoolWords /\ next - 1 \in Addr /\ ~UsedBy(size, next - 1)
  BY PoolAssumption DEF IInv, ProbeInv, FitsAt, TypeOK
<1>2. next < head + words + 1 => next \in Addr
  BY <1>1, PoolAssumption DEF IInv, ProbeInv, FitsAt, TypeOK
<1>3. ASSUME NEW a \in Addr, Owned(a), a < next, next <= a + size[a] PROVE FALSE
  BY <1>1, <1>3, PoolAssumption DEF IInv, TypeOK, UsedBy
<1> QED
  BY <1>1, <1>2, <1>3 DEF Outside

LEMMA ProbeNextIInv ==
    ASSUME IInv, ProbeNext
    PROVE  IInv'
<1>1. next \in Addr /\ Outside(size, next) /\ ~IsHeader(next) /\ pc = "probe" /\ head \in Addr
  BY NextOutside DEF ProbeNext
<1>2. ~UsedBy(size, next)
  BY <1>1, PlainIsFree DEF IInv
<1>3. TypeOK'
  BY DEF IInv, TypeOK, ProbeNext
<1>4. MallocInv'
  BY DEF IInv, ProbeNext, MallocInv
<1>5. ProbeInv'
  BY <1>1, <1>2, PoolAssumption DEF IInv, TypeOK, ProbeNext, ProbeInv, FitsAt
<1> QED
  BY <1>1, <1>3, <1>4, <1>5, PoolUnchanged DEF IInv, ProbeNext, FreeInv, ZeroInv

LEMMA ProbeHitIInv ==
    ASSUME IInv, ProbeHit
    PROVE  IInv'
<1>1. next \in Addr /\ Outside(size, next) /\ IsHeader(next) /\ pc = "probe" /\ head \in Addr
  BY NextOutside DEF ProbeHit
<1>2. UsedBy(size, next)
  <2>1. Owned(next)
    BY <1>1, HeaderIsLive DEF IInv
  <2> QED BY <2>1, <1>1, PoolAssumption DEF IInv, TypeOK, UsedBy
<1>3. TypeOK'
  BY DEF IInv, TypeOK, ProbeHit
<1>4. ASSUME NEW a \in Addr, a < next PROVE ~RunIn(size, a, words + 1)
  <2>1. CASE a < head
    BY <2>1, <1>1 DEF IInv, MallocInv
  <2>2. CASE ~(a < head)
    BY <2>2, <1>1, <1>2, <1>4, PoolAssumption DEF RunIn, IInv, ProbeHit, TypeOK
  <2> QED BY <2>1, <2>2
<1>5. MallocInv'
  BY <1>1, <1>4 DEF IInv, MallocInv, ProbeHit
<1> QED
  BY <1>1, <1>3, <1>5, PoolUnchanged DEF IInv, ProbeHit, ProbeInv, FreeInv, ZeroInv

\* The block LLOS_malloc hands out takes only words that are free.
LEMMA MallocFitIInv ==
    ASSUME IInv, MallocFit
    PROVE  IInv'
<1>1. /\ head \in Addr /\ head + words < PoolWords /\ words \in 1 .. MaxLen
      /\ \A x \in head .. head + words : ~UsedBy(size, x)
  BY PoolAssumption DEF IInv, MallocFit, MallocInv, ProbeInv, FitsAt, TypeOK
<1>2. \A a \in Addr : Owned(a) => Block(a) \cap head .. head + words = {}
  BY <1>1, PoolAssumption DEF UsedBy, Block, IInv, TypeOK
<1>3. /\ mem' = [mem EXCEPT ![head] = words] /\ size' = [size EXCEPT ![head] = words]
      /\ pc = "probe" /\ pc' = "idle"
  BY DEF MallocFit, Idle
<1>4. TypeOK'
  BY <1>1, PoolAssumption DEF IInv, TypeOK, MallocFit, Idle
<1>5. size[head] = 0
  <2>1. ~UsedBy(size, head)
    BY <1>1, PoolAssumption
  <2>2. size[head] \in Nat /\ head \in Nat
    BY <1>1, PoolAssumption DEF IInv, TypeOK
  <2>3. size[head] > 0 => UsedBy(size, head)
    BY <2>2, <1>1 DEF UsedBy
  <2> QED BY <2>1, <2>2, <2>3
<1>6. \A a \in Addr : /\ size'[a] = IF a = head THEN words ELSE size[a]
                      /\ mem'[a] = IF a = head THEN words ELSE mem[a]
  <2>1. mem \in [Addr -> Word] /\ size \in [Addr -> 0 .. MaxLen]
    BY DEF IInv, TypeOK
  <2> QED BY <2>1, <1>3
<1>7. BlocksIntact'
  <2>1. ASSUME NEW a \in Addr, Owned(a)' PROVE a + size'[a] < PoolWords /\ mem'[a] = size'[a]
    BY <2>1, <1>1, <1>6 DEF IInv, BlocksIntact
  <2>2. ASSUME NEW a \in Addr, NEW b \in Addr, Owned(a)', Owned(b)', a # b
        PROVE  Block(a)' \cap Block(b)' = {}
    <3>1. CASE a = head
      BY <3>1, <2>2, <1>2, <1>6 DEF Block
    <3>2. CASE b = head
      BY <3>2, <2>2, <1>2, <1>6 DEF Block
    <3>3. CASE a # head /\ b # head
      BY <3>3, <2>2, <1>6 DEF Block, IInv, BlocksIntact
    <3> QED BY <3>1, <3>2, <3>3
  <2> QED BY <2>1, <2>2 DEF BlocksIntact
<1>8. NoStrayHeader'
  <2>1. ASSUME NEW x \in Addr, IsHeader(x)' PROVE InUse(x)'
    <3>1. CASE x = head
      BY <3>1, <1>1, <1>6, PoolAssumption DEF InUse, Block
    <3>2. CASE x # head
      <4>1. PICK a \in Addr : Owned(a) /\ x \in Block(a)
        BY <3>2, <2>1, <1>3, <1>6 DEF IInv, NoStrayHeader, InUse, Clearing
      <4>2. a # head
        BY <4>1, <1>5
      <4> QED BY <4>1, <4>2, <1>6 DEF InUse, Block
    <3> QED BY <3>1, <3>2
  <2> QED BY <2>1 DEF NoStrayHeader
<1> QED
  BY <1>3, <1>4, <1>7, <1>8 DEF IInv, MallocInv, ProbeInv, FreeInv, ZeroInv

-----------------------------------------------------------------------------

LEMMA FreeIInv ==
    ASSUME IInv, NEW p \in 1 .. PoolWords - 1, Free(p)
    PROVE  IInv'
<1>1. TypeOK'
  BY PoolAssumption DEF IInv, TypeOK, Free
<1>2. FreeInv'
  BY PoolAssumption DEF IInv, TypeOK, Free, FreeInv, Outside
<1> QED
  BY <1>1, <1>2, PoolUnchanged DEF IInv, Free, MallocInv, ProbeInv, ZeroInv

\* One iteration of a scan over all words: it ends outside all payloads again, and
\* passes no header of a block in use but the one it stands on.
LEMMA ScanAdvance ==
    ASSUME IInv, pc # "zero", NEW x \in Addr, Outside(size, x)
    PROVE  /\ ~IsHeader(x) => Outside(size, x + 1) /\ ~Owned(x)
           /\ IsHeader(x) => /\ ~Corrupt(x) /\ PastBlock(x) \in Nat /\ x < PastBlock(x)
                             /\ Outside(size, PastBlock(x)) /\ Owned(x)
                             /\ \A a \in Addr : Owned(a) /\ x < a => PastBlock(x) <= a
<1>1. ASSUME ~IsHeader(x) PROVE Outside(size, x + 1) /\ ~Owned(x)
  BY <1>1, PlainIsFree, StepOutside DEF IInv
<1>2. ASSUME IsHeader(x)
      PROVE  /\ ~Corrupt(x) /\ PastBlock(x) \in Nat /\ x < PastBlock(x)
             /\ Outside(size, PastBlock(x)) /\ Owned(x)
             /\ \A a \in Addr : Owned(a) /\ x < a => PastBlock(x) <= a
  <2>1. Owned(x) /\ ~Corrupt(x) /\ PastBlock(x) = x + size[x] + 1
    BY <1>2, HeaderIsLive DEF IInv
  <2>2. Outside(size, PastBlock(x)) /\ PastBlock(x) \in Nat /\ x < PastBlock(x)
    BY <2>1, StepOutside, PoolAssumption DEF IInv, TypeOK
  <2>3. ASSUME NEW a \in Addr, Owned(a), x < a PROVE PastBlock(x) <= a
    <3>1. Block(x) \cap Block(a) = {}
      BY <2>1, <2>3, PoolAssumption DEF IInv, BlocksIntact
    <3>2. a \in Block(a) /\ size[x] \in Nat
      BY PoolAssumption DEF Block, IInv, TypeOK
    <3> QED BY <3>1, <3>2, <2>1, <2>3, PoolAssumption DEF Block
  <2> QED BY <2>1, <2>2, <2>3
<1> QED BY <1>1, <1>2

LEMMA FreeSkipIInv ==
    ASSUME IInv, FreeSkip
    PROVE  IInv' /\ pc' = "free"
<1>1. /\ pc = "free" /\ scan \in Addr /\ head \in Addr /\ scan # head
      /\ Outside(size, scan) /\ (Owned(head) => scan <= head)
  BY PoolAssumption DEF IInv, TypeOK, FreeSkip, FreeInv
<1>2. /\ scan' = IF IsHeader(scan) THEN PastBlock(scan) ELSE scan + 1
      /\ UNCHANGED <<mem, size, pc, head, next, words, used>>
  BY <1>1, ScanAdvance DEF FreeSkip
<1>3. TypeOK'
  BY <1>1, <1>2, ScanAdvance, PoolAssumption DEF IInv, TypeOK
<1>4. Outside(size, scan') /\ (Owned(head) => scan' <= head)
  BY <1>1, <1>2, ScanAdvance, PoolAssumption
<1>5. FreeInv'
  BY <1>1, <1>2, <1>4 DEF FreeInv
<1> QED
  BY <1>1, <1>2, <1>3, <1>5, PoolUnchanged DEF IInv, MallocInv, ProbeInv, ZeroInv

LEMMA FreeFoundIInv ==
    ASSUME IInv, FreeFound
    PROVE  IInv' /\ (pc' # "free" => pc' = "zero" /\ Owned(head))
<1>1. /\ pc = "free" /\ scan \in Addr /\ head = scan /\ Outside(size, scan)
  BY DEF IInv, FreeFound, FreeInv
<1>2. CASE IsHeader(scan)
  <2>1. Owned(scan) /\ mem[scan] = size[scan] /\ Accepts
    BY <1>1, <1>2, HeaderIsLive DEF IInv, Accepts
  <2>2. /\ pc' = "zero" /\ next' = 0 /\ words' = size[scan]
        /\ UNCHANGED <<mem, size, head, scan, used>>
    BY <2>1 DEF FreeFound
  <2>3. TypeOK'
    BY <1>1, <2>1, <2>2 DEF IInv, TypeOK
  <2>4. ZeroInv'
    <3>1. \A a \in Addr \ {scan} : Owned(a) => Block(a) \cap scan .. scan + size[scan] = {}
      BY <1>1, <2>1 DEF IInv, BlocksIntact, Block
    <3>2. scan + size[scan] < PoolWords
      BY <1>1, <2>1 DEF IInv, BlocksIntact
    <3> QED BY <3>1, <3>2, <1>1, <2>1, <2>2, PoolAssumption DEF ZeroInv, Block, IInv, TypeOK
  <2> QED
    BY <1>1, <2>1, <2>2, <2>3, <2>4, PoolUnchanged DEF IInv, MallocInv, ProbeInv, FreeInv
<1>3. CASE ~IsHeader(scan)
  <2>1. scan' = scan + 1 /\ UNCHANGED <<mem, size, pc, head, next, words, used>>
    BY <1>3 DEF FreeFound, Accepts
  <2>2. Outside(size, scan + 1) /\ ~Owned(head)
    BY <1>1, <1>3, ScanAdvance
  <2>3. TypeOK'
    BY <2>1 DEF IInv, TypeOK
  <2>4. FreeInv'
    BY <1>1, <2>1, <2>2 DEF FreeInv
  <2> QED
    BY <1>1, <2>1, <2>3, <2>4, PoolUnchanged DEF IInv, MallocInv, ProbeInv, ZeroInv
<1> QED BY <1>2, <1>3

\* Clearing a block takes it out of size first and touches no other block.
LEMMA ZeroIInv ==
    ASSUME IInv, Zero
    PROVE  IInv'
<1>1. /\ pc = "zero" /\ scan \in Addr /\ head = scan
      /\ words \in 1 .. MaxLen /\ next \in 0 .. words /\ scan + words < PoolWords
      /\ size[scan] = IF next = 0 THEN words ELSE 0
      /\ \A a \in Addr \ {scan} : Owned(a) => Block(a) \cap scan .. scan + words = {}
  BY PoolAssumption DEF IInv, TypeOK, Zero, ZeroInv
<1>2. scan + next \in Addr
  BY <1>1, PoolAssumption
<1>3. \A a \in Addr : /\ size'[a] = IF a = scan THEN 0 ELSE size[a]
                      /\ mem'[a] = IF a = scan + next THEN Plain ELSE mem[a]
  <2>1. mem \in [Addr -> Word] /\ size \in [Addr -> 0 .. MaxLen]
    BY DEF IInv, TypeOK
  <2> QED BY <2>1, <1>1, <1>2 DEF Zero
<1>4. TypeOK'
  <2>1. mem' \in [Addr -> Word] /\ size' \in [Addr -> 0 .. MaxLen]
    <3>1. mem' = [mem EXCEPT ![scan + next] = Plain] /\ size' = [size EXCEPT ![scan] = 0]
      BY DEF Zero
    <3>2. Plain \in Word /\ 0 \in 0 .. MaxLen
      BY PoolAssumption
    <3>3. mem \in [Addr -> Word] /\ size \in [Addr -> 0 .. MaxLen]
      BY DEF IInv, TypeOK
    <3> QED BY <3>1, <3>2, <3>3 DEF Addr
  <2>2. CASE next = words
    BY <2>1, <2>2, PoolAssumption DEF TypeOK, Zero, Idle, LastCleared
  <2>3. CASE next # words
    BY <2>1, <2>3, PoolAssumption DEF IInv, TypeOK, Zero, LastCleared
  <2> QED BY <2>2, <2>3
<1>5. BlocksIntact'
  <2>1. ASSUME NEW a \in Addr, Owned(a)'
        PROVE  a # scan /\ a # scan + next /\ size'[a] = size[a] /\ mem'[a] = mem[a]
    <3>1. a # scan /\ size'[a] = size[a] /\ Owned(a)
      BY <2>1, <1>3
    <3>2. a \in Block(a)
      BY <3>1, PoolAssumption DEF Block, IInv, TypeOK
    <3>3. a # scan + next
      BY <3>1, <3>2, <1>1, PoolAssumption
    <3> QED BY <3>1, <3>3, <1>3
  <2>2. \A a \in Addr : Owned(a)' => Owned(a) /\ Block(a)' = Block(a)
    BY <2>1 DEF Block
  <2> QED BY <2>1, <2>2 DEF IInv, BlocksIntact
<1>6. NoStrayHeader'
  <2>1. ASSUME NEW x \in Addr, IsHeader(x)' PROVE InUse(x)' \/ Clearing(x)'
    <3>1. x # scan + next /\ IsHeader(x)
      BY <2>1, <1>3
    <3>2. CASE x \in scan .. scan + words /\ scan + next < x
      <4>1. next # words
        BY <3>2, <1>1, PoolAssumption
      <4>2. pc' = "zero" /\ scan' = scan /\ words' = words /\ next' = next + 1
        BY <4>1, <1>1 DEF Zero, LastCleared
      <4> QED BY <3>2, <4>2, <1>1, PoolAssumption DEF Clearing
    <3>3. CASE ~(x \in scan .. scan + words /\ scan + next < x)
      <4>1. ~Clearing(x)
        BY <3>1, <3>3, <1>1, PoolAssumption DEF Clearing
      <4>2. PICK a \in Addr : Owned(a) /\ x \in Block(a)
        BY <4>1, <3>1 DEF IInv, NoStrayHeader, InUse
      <4>3. a # scan
        BY <4>2, <3>1, <3>3, <1>1, PoolAssumption DEF Block
      <4> QED BY <4>2, <4>3, <1>3 DEF InUse, Block
    <3> QED BY <3>2, <3>3
  <2> QED BY <2>1 DEF NoStrayHeader
<1>7. ZeroInv'
  <2>1. CASE next = words
    BY <2>1 DEF Zero, LastCleared, Idle, ZeroInv
  <2>2. CASE next # words
    <3>1. pc' = "zero" /\ scan' = scan /\ head' = head /\ words' = words /\ next' = next + 1
      BY <2>2, <1>1 DEF Zero, LastCleared
    <3>2. \A a \in Addr \ {scan} : Owned(a)' => Block(a)' \cap scan .. scan + words = {}
      BY <1>1, <1>3 DEF Block
    <3> QED BY <3>1, <3>2, <2>2, <1>1, <1>3, PoolAssumption DEF ZeroInv
  <2> QED BY <2>1, <2>2
<1>8. MallocInv' /\ ProbeInv' /\ FreeInv'
  BY <1>1 DEF Zero, Idle, MallocInv, ProbeInv, FreeInv
<1> QED
  BY <1>4, <1>5, <1>6, <1>7, <1>8 DEF IInv

-----------------------------------------------------------------------------

LEMMA CountIInv ==
    ASSUME IInv, GetUsedSize \/ CountStep \/ CountEnd
    PROVE  IInv'
<1>1. TypeOK'
  <2>1. CASE GetUsedSize
    BY <2>1 DEF IInv, TypeOK, GetUsedSize
  <2>2. CASE CountStep
    <3>1. head \in Addr /\ mem[head] \in Word
      BY <2>2, PoolAssumption DEF IInv, TypeOK, CountStep
    <3>2. CASE ~IsHeader(head)
      BY <2>2, <3>1, <3>2 DEF IInv, TypeOK, CountStep
    <3>3. CASE IsHeader(head) /\ Corrupt(head)
      BY <2>2, <3>3, PoolAssumption DEF IInv, TypeOK, CountStep, Idle
    <3>4. CASE IsHeader(head) /\ ~Corrupt(head)
      <4>1. mem[head] \in Nat
        BY <3>1, <3>4, PoolAssumption
      <4>2. head' \in Nat /\ used' \in Nat
        BY <2>2, <3>4, <4>1 DEF IInv, TypeOK, CountStep, BlockUse, PastBlock
      <4> QED BY <2>2, <3>4, <4>2 DEF IInv, TypeOK, CountStep
    <3> QED BY <3>2, <3>3, <3>4
  <2>3. CASE CountEnd
    BY <2>3, PoolAssumption DEF IInv, TypeOK, CountEnd, Idle
  <2> QED BY <2>1, <2>2, <2>3
<1>2. UNCHANGED <<mem, size>> /\ pc # "zero" /\ pc' \in {"idle", "count"}
  BY DEF GetUsedSize, CountStep, CountEnd, Idle
<1> QED
  BY <1>1, <1>2, PoolUnchanged DEF IInv, MallocInv, ProbeInv, FreeInv, ZeroInv

\* Whatever the program writes into its payloads, no scan sees it.
LEMMA AppWriteIInv ==
    ASSUME IInv, NEW a \in Addr, NEW k \in 1 .. MaxLen, NEW w \in Word, AppWrite(a, k, w)
    PROVE  IInv'
<1>1. /\ k \in 1 .. size[a] /\ Owned(a) /\ a + k \in Addr /\ a + k \in Block(a)
      /\ a + k # a /\ size[a] \in Nat
  BY PoolAssumption DEF AppWrite, IInv, TypeOK, BlocksIntact, Block
<1>2. /\ UNCHANGED <<pc, head, next, words, scan, used, size>>
      /\ \A x \in Addr : mem'[x] = IF x = a + k THEN w ELSE mem[x]
  <2>1. mem \in [Addr -> Word]
    BY DEF IInv, TypeOK
  <2> QED BY <2>1, <1>1 DEF AppWrite
<1>3. TypeOK'
  BY <1>1 DEF IInv, TypeOK, AppWrite
<1>4. BlocksIntact'
  <2>1. ASSUME NEW b \in Addr, Owned(b) PROVE mem'[b] = mem[b]
    <3>1. b \in Block(b)
      BY <2>1, PoolAssumption DEF Block, IInv, TypeOK
    <3>2. b # a + k
      BY <2>1, <3>1, <1>1 DEF IInv, BlocksIntact
    <3> QED BY <3>2, <1>2
  <2> QED BY <2>1, <1>2 DEF IInv, BlocksIntact, Block
<1>5. NoStrayHeader'
  <2>1. InUse(a + k)
    BY <1>1 DEF InUse
  <2>2. \A x \in Addr : (InUse(x)' <=> InUse(x)) /\ (Clearing(x)' <=> Clearing(x))
    BY <1>2 DEF InUse, Block, Clearing
  <2> QED BY <2>1, <2>2, <1>2 DEF IInv, NoStrayHeader
<1> QED
  BY <1>2, <1>3, <1>4, <1>5 DEF IInv, MallocInv, ProbeInv, FreeInv, ZeroInv, FitsAt, Block

-----------------------------------------------------------------------------
(* The theorems. *)

LEMMA NextIInv == IInv /\ [Next]_vars => IInv'
<1> SUFFICES ASSUME IInv, [Next]_vars PROVE IInv'
  OBVIOUS
<1>1. CASE \E w \in 1 .. PoolWords : Malloc(w)
  BY <1>1, MallocIInv
<1>2. CASE MallocSkip
  BY <1>2, MallocSkipIInv
<1>3. CASE MallocProbe
  BY <1>3, MallocProbeIInv
<1>4. CASE ProbeNext
  BY <1>4, ProbeNextIInv
<1>5. CASE ProbeHit
  BY <1>5, ProbeHitIInv
<1>6. CASE MallocFit
  BY <1>6, MallocFitIInv
<1>7. CASE MallocFull \/ FreeReject
  BY <1>7, ReturnIInv DEF MallocFull, FreeReject
<1>8. CASE \E p \in 1 .. PoolWords - 1 : Free(p)
  BY <1>8, FreeIInv
<1>9. CASE FreeSkip
  BY <1>9, FreeSkipIInv
<1>10. CASE FreeFound
  BY <1>10, FreeFoundIInv
<1>11. CASE Zero
  BY <1>11, ZeroIInv
<1>12. CASE GetUsedSize \/ CountStep \/ CountEnd
  BY <1>12, CountIInv
<1>13. CASE \E a \in Addr, k \in 1 .. MaxLen, w \in Word : AppWrite(a, k, w)
  <2>1. PICK a \in Addr, k \in 1 .. MaxLen, w \in Word : AppWrite(a, k, w)
    BY <1>13
  <2> QED BY <2>1, AppWriteIInv
<1>14. CASE UNCHANGED vars
  BY <1>14 DEF vars, IInv, TypeOK, BlocksIntact, NoStrayHeader, MallocInv, ProbeInv, FreeInv,
               ZeroInv, InUse, Block, Clearing, FitsAt
<1> QED
  BY <1>1, <1>2, <1>3, <1>4, <1>5, <1>6, <1>7, <1>8, <1>9, <1>10, <1>11, <1>12, <1>13, <1>14
     DEF Next

LEMMA SpecIInv == Spec => []IInv
<1> QED BY InitIInv, NextIInv, PTL DEF Spec

\* In every pool, every variable keeps its type.
THEOREM PoolTypes == Spec => []TypeOK
<1>1. IInv => TypeOK
  BY DEF IInv
<1> QED BY SpecIInv, <1>1, PTL

\* In every pool, the blocks in use stay inside it, disjoint and with their headers,
\* whatever is written into payloads and passed to LLOS_free.
THEOREM BlocksStayIntact == Spec => []BlocksIntact
<1>1. IInv => BlocksIntact
  BY DEF IInv
<1> QED BY SpecIInv, <1>1, PTL

\* In every pool, no word outside the payloads is a stray header.
THEOREM NoStrayHeaders == Spec => []NoStrayHeader
<1>1. IInv => NoStrayHeader
  BY DEF IInv
<1> QED BY SpecIInv, <1>1, PTL

\* In every pool, LLOS_malloc returns NULL only if no gap is large enough.
THEOREM MallocIsComplete == Spec => NullOnlyWhenFull
<1>1. IInv /\ [Next]_vars =>
        [pc = "malloc" /\ pc' = "idle" => ~\E a \in Addr : FreeRun(a, words + 1)]_vars
  <2> SUFFICES ASSUME IInv, [Next]_vars, pc = "malloc", pc' = "idle",
                      NEW a \in Addr, FreeRun(a, words + 1)
               PROVE  FALSE
    OBVIOUS
  <2>1. MallocFull
    <3>1. ~MallocSkip
      BY MallocSkipIInv
    <3> QED BY <3>1 DEF Next, Malloc, MallocProbe, ProbeNext, ProbeHit, MallocFit, Free,
                        FreeSkip, FreeFound, FreeReject, Zero, GetUsedSize, CountStep,
                        CountEnd, AppWrite, vars
  <2>2. words \in Nat /\ words + 1 \in Nat /\ head \in Nat
    BY PoolAssumption DEF IInv, TypeOK
  <2>3. RunIn(size, a, words + 1)
    BY <2>2, InUseIsUsedBy DEF IInv
  <2>4. ~(a < head)
    BY <2>3 DEF IInv, MallocInv
  <2> QED
    BY <2>1, <2>2, <2>3, <2>4, PoolAssumption DEF MallocFull, FitsAt, RunIn
<1> QED BY SpecIInv, <1>1, PTL DEF Spec, NullOnlyWhenFull

\* In every pool, LLOS_free accepts the pointers LLOS_malloc returned and that were
\* not freed since, and no other.
THEOREM FreeTakesBlocks == Spec => FreeIsExact
<1>1. IInv /\ [Next]_vars =>
        [pc = "free" /\ pc' # "free" => (pc' = "zero" <=> Owned(head))]_vars
  <2> SUFFICES ASSUME IInv, [Next]_vars, pc = "free", pc' # "free"
               PROVE  pc' = "zero" <=> Owned(head)
    OBVIOUS
  <2>1. CASE FreeFound
    BY <2>1, FreeFoundIInv
  <2>2. CASE FreeReject
    <3>1. pc' = "idle" /\ scan >= PoolWords
      BY <2>2 DEF FreeReject, Idle
    <3>2. ~Owned(head)
      BY <3>1, PoolAssumption DEF IInv, FreeInv, TypeOK
    <3> QED BY <3>1, <3>2
  <2>3. ~FreeSkip
    BY FreeSkipIInv
  <2> QED
    BY <2>1, <2>2, <2>3
       DEF Next, Malloc, MallocSkip, MallocProbe, ProbeNext, ProbeHit, MallocFit, MallocFull,
           Free, Zero, GetUsedSize, CountStep, CountEnd, AppWrite, vars
<1> QED BY SpecIInv, <1>1, PTL DEF Spec, FreeIsExact

-----------------------------------------------------------------------------
(* LLOS_Pool_GetUsedSize.                                                    *)

\* the words below h that belong to blocks of sz
UsedBelow(sz, h) == {x \in Addr : x < h /\ UsedBy(sz, x)}

\* the scan has counted every word in use that lies behind it, and no other
CountInv == pc = "count" => Outside(size, head) /\ used = Cardinality(UsedBelow(size, head))

\* A set of addresses is finite.
LEMMA AddressesAreFinite ==
    ASSUME NEW S \in SUBSET Addr
    PROVE  IsFiniteSet(S)
<1>1. 0 \in Int /\ PoolWords - 1 \in Int
  BY PoolAssumption
<1>2. IsFiniteSet(0 .. PoolWords - 1)
  BY <1>1, FS_Interval
<1> QED BY <1>2, FS_Subset

\* A word that is not in use adds nothing.
LEMMA CountPlain ==
    ASSUME TypeOK, NEW h \in Addr, ~UsedBy(size, h)
    PROVE  UsedBelow(size, h + 1) = UsedBelow(size, h)
<1>1. \A x \in Addr : x < h + 1 <=> x < h \/ x = h
  BY PoolAssumption
<1> QED BY <1>1 DEF UsedBelow

\* A block adds its words, none of which was counted before.
LEMMA CountBlock ==
    ASSUME TypeOK, BlocksIntact, NEW h \in Addr, Owned(h)
    PROVE  Cardinality(UsedBelow(size, h + size[h] + 1))
             = Cardinality(UsedBelow(size, h)) + size[h] + 1
<1> DEFINE n == size[h]
           Before == UsedBelow(size, h)
<1>1. n \in Nat /\ n > 0 /\ h + n < PoolWords
  BY PoolAssumption DEF TypeOK, BlocksIntact
<1>2. h .. h + n \subseteq Addr
  BY <1>1, PoolAssumption
<1>3. ASSUME NEW x \in Addr
      PROVE  x \in UsedBelow(size, h + n + 1) <=> x \in Before \cup (h .. h + n)
  <2>1. CASE x < h
    BY <2>1, <1>1, PoolAssumption DEF UsedBelow
  <2>2. CASE h <= x /\ x <= h + n
    <3>1. UsedBy(size, x)
      BY <2>2 DEF UsedBy
    <3> QED BY <3>1, <2>2, <1>1, PoolAssumption DEF UsedBelow
  <2>3. CASE x > h + n
    BY <2>3, <1>1, PoolAssumption DEF UsedBelow
  <2> QED BY <2>1, <2>2, <2>3, <1>1, PoolAssumption
<1>4. UsedBelow(size, h + n + 1) = Before \cup (h .. h + n)
  BY <1>2, <1>3 DEF UsedBelow
<1>5. Before \cap (h .. h + n) = {}
  BY <1>1, PoolAssumption DEF UsedBelow
<1>6. IsFiniteSet(Before)
  BY AddressesAreFinite DEF UsedBelow
<1>7. IsFiniteSet(h .. h + n) /\ Cardinality(h .. h + n) = n + 1
  <2>1. h \in Int /\ h + n \in Int /\ ~(h > h + n) /\ (h + n) - h + 1 = n + 1
    BY <1>1, PoolAssumption
  <2> QED BY <2>1, FS_Interval
<1>8. Cardinality(Before \cap (h .. h + n)) = 0
  BY <1>5, FS_EmptySet
<1>9. Cardinality(Before) \in Nat
  BY <1>6, FS_CardinalityType
<1>10. Cardinality(Before \cup (h .. h + n))
         = Cardinality(Before) + Cardinality(h .. h + n) - Cardinality(Before \cap (h .. h + n))
  BY <1>6, <1>7, FS_Union
<1> QED
  <2>1. Cardinality(Before \cup (h .. h + n)) = Cardinality(Before) + (n + 1) - 0
    BY <1>7, <1>8, <1>10
  <2>2. \A c \in Nat : c + (n + 1) - 0 = c + n + 1
    BY <1>1
  <2>3. Cardinality(Before \cup (h .. h + n)) = Cardinality(Before) + n + 1
    BY <1>9, <2>1, <2>2
  <2> QED BY <1>4, <2>3

LEMMA NextCountInv == IInv /\ CountInv /\ [Next]_vars => CountInv'
<1> SUFFICES ASSUME IInv, CountInv, [Next]_vars, pc' = "count"
             PROVE  Outside(size', head') /\ used' = Cardinality(UsedBelow(size', head'))
  BY DEF CountInv, Outside, UsedBelow, UsedBy
<1>1. CASE GetUsedSize
  <2>1. UsedBelow(size, 0) = {}
    BY PoolAssumption DEF UsedBelow
  <2>2. Outside(size, 0)
    BY PoolAssumption DEF Outside
  <2> QED BY <1>1, <2>1, <2>2, FS_EmptySet DEF GetUsedSize
<1>2. CASE CountStep
  <2>1. pc = "count" /\ head \in Addr /\ Outside(size, head) /\ UNCHANGED size
    BY <1>2, PoolAssumption DEF CountStep, CountInv, IInv, TypeOK
  <2>2. CASE ~IsHeader(head)
    <3>1. ~UsedBy(size, head)
      BY <2>1, <2>2, PlainIsFree DEF IInv
    <3>2. head' = head + 1 /\ used' = used
      BY <1>2, <2>2 DEF CountStep
    <3>3. Outside(size, head + 1) /\ UsedBelow(size, head + 1) = UsedBelow(size, head)
      BY <2>1, <3>1, StepOutside, CountPlain DEF IInv
    <3> QED BY <2>1, <3>2, <3>3 DEF CountInv
  <2>3. CASE IsHeader(head)
    <3>1. Owned(head) /\ mem[head] = size[head] /\ ~Corrupt(head)
             /\ PastBlock(head) = head + size[head] + 1
      BY <2>1, <2>3, HeaderIsLive DEF IInv
    <3>2. head' = head + size[head] + 1 /\ used' = used + (size[head] + 1)
      BY <1>2, <2>3, <3>1 DEF CountStep, BlockUse
    <3>3. Outside(size, head + size[head] + 1)
      BY <2>1, <3>1, StepOutside DEF IInv
    <3>4. Cardinality(UsedBelow(size, head + size[head] + 1)) = used + size[head] + 1
      BY <2>1, <3>1, CountBlock DEF IInv, CountInv
    <3>5. used \in Nat /\ size[head] \in Nat
      BY <2>1, PoolAssumption DEF IInv, TypeOK
    <3> QED BY <2>1, <3>2, <3>3, <3>4, <3>5
  <2> QED BY <2>2, <2>3
<1>3. CASE UNCHANGED vars
  BY <1>3 DEF vars, CountInv
<1>4. CASE \E a \in Addr, k \in 1 .. MaxLen, w \in Word : AppWrite(a, k, w)
  BY <1>4 DEF AppWrite, CountInv
<1> QED
  BY <1>1, <1>2, <1>3, <1>4
     DEF Next, Malloc, MallocSkip, MallocProbe, ProbeNext, ProbeHit, MallocFit, MallocFull,
         Free, FreeSkip, FreeFound, FreeReject, Zero, CountEnd, Idle

\* In every pool, LLOS_Pool_GetUsedSize returns the words of all blocks in use, headers
\* included, whatever was written into the payloads while it counted.
THEOREM CountIsExact == Spec => UsedIsExact
<1>1. Init => CountInv
  BY DEF Init, CountInv
<1>2. Spec => []CountInv
  BY <1>1, SpecIInv, NextCountInv, PTL DEF Spec
<1>3. IInv /\ CountInv /\ [Next]_vars =>
        [pc = "count" /\ pc' = "idle" => used = Cardinality({x \in Addr : InUse(x)})]_vars
  <2> SUFFICES ASSUME IInv, CountInv, [Next]_vars, pc = "count", pc' = "idle"
               PROVE  used = Cardinality({x \in Addr : InUse(x)})
    OBVIOUS
  <2>1. CASE CountEnd
    <3>1. \A x \in Addr : x < head
      BY <2>1, PoolAssumption DEF CountEnd, IInv, TypeOK
    <3>2. \A x \in Addr : InUse(x) <=> UsedBy(size, x)
      BY InUseIsUsedBy, PoolAssumption DEF IInv
    <3>3. {x \in Addr : InUse(x)} = UsedBelow(size, head)
      BY <3>1, <3>2 DEF UsedBelow
    <3> QED BY <3>3 DEF CountInv
  <2>2. ~CountStep
    <3>1. SUFFICES ASSUME CountStep PROVE FALSE
      OBVIOUS
    <3>2. head \in Addr /\ Outside(size, head)
      BY <3>1, PoolAssumption DEF CountStep, CountInv, IInv, TypeOK
    <3>3. ~(IsHeader(head) /\ Corrupt(head))
      BY <3>2, HeaderIsLive DEF IInv
    <3> QED BY <3>1, <3>3 DEF CountStep
  <2> QED
    BY <2>1, <2>2
       DEF Next, Malloc, MallocSkip, MallocProbe, ProbeNext, ProbeHit, MallocFit, MallocFull,
           Free, FreeSkip, FreeFound, FreeReject, Zero, GetUsedSize, AppWrite, vars
<1> QED BY SpecIInv, <1>2, <1>3, PTL DEF Spec, UsedIsExact

-----------------------------------------------------------------------------
(* The console, an application of one event whose loop is reduced to it:      *)
(* TablesExist and LinesRunRight of Console, from power-on.                   *)

\* The assumptions of Console.
LEMMA Settings ==
    /\ Wanted \subseteq Tables
    /\ Commands \in Seq(Seq(Token) \ {<<>>})
    /\ Lines \subseteq Seq(Token) \ {<<>>}
    /\ Delay \in Nat /\ MaxGap \in Nat /\ BufferLen \in Nat \ {0, 1}
BY WantedAssumption, PatternAssumption, LineAssumption, TimeAssumption, LengthAssumption

\* The other side waits for the answer to a line, and does not pause within one for as long
\* as the console waits for its end.
LinesApart == SenderWaits /\ MaxGap < Delay

BootPoints == {"reset", "init", "event", "msg", "timer", "alarm", "device", "failed", "cmd",
               "register", "start", "halt"}
MainPoints == {"loop", "clear", "due", "return", "check", "memset"}
Reply == [cmd : Seq(Token), params : Seq(Token)]

ConsoleTypes ==
    /\ place \in BootPoints \cup MainPoints
    /\ cfgs \in BOOLEAN /\ bufSize \in BOOLEAN
    /\ recBuf \in Seq(Token) /\ Len(recBuf) <= BufferLen
    /\ wire \in Seq(Token) /\ sent \in Seq(Lines) /\ ran \in Seq(Reply)
    /\ left \in Nat /\ gap \in Nat

\* There is a buffer only behind LLOS_Cmd_Init, which has sorted the table then.
ListInv ==
    /\ bufSize => place \in {"register", "start", "halt"} \cup MainPoints
    /\ ~bufSize => cmdList = Commands
    /\ bufSize => cmdList \in Sorted(Commands)

\* Nothing is sent, received or started before the loop.
BeforeInv ==
    place \in BootPoints =>
        /\ sent = <<>> /\ ran = <<>> /\ wire = <<>> /\ recBuf = <<>>
        /\ ~rxOK /\ ~newEvent /\ ~oldEvent /\ ~pending

\* Where the main program is while a pending event or a complete line is under way.
PlaceInv ==
    /\ pending => place = "clear"
    /\ rxOK => place \in {"return", "check", "memset"}
    /\ place \in {"return", "memset"} => wire = <<>>
    /\ rxOK => wire = <<>>

\* No event is left over when a line begins, and the handler is stuck with a full buffer only.
SilenceInv ==
    /\ wire # <<>> /\ recBuf = <<>> => ~newEvent /\ ~oldEvent /\ ~pending
    /\ stuck => recBuf # <<>>

\* While there is more of a line to come, its event lies ahead by what is left of the delay.
GapInv == wire # <<>> /\ recBuf # <<>> /\ ~stuck => left = Delay - gap /\ gap <= MaxGap

\* At most one line is under way, and what has come of it and what is to come make it up; a
\* line that has run is in the buffer until the buffer is cleared.
LineInv ==
    /\ Len(sent) \in {Len(ran), Len(ran) + 1}
    /\ Len(sent) = Len(ran) + 1 => place # "memset" /\ recBuf \o wire = sent[Len(sent)]
    /\ Len(sent) = Len(ran) => wire = <<>> /\ (place # "memset" => recBuf = <<>>)

ConsoleInv ==
    /\ LinesApart
    /\ ConsoleTypes /\ ListInv /\ BeforeInv /\ PlaceInv /\ SilenceInv /\ GapInv /\ LineInv
    /\ LinesRunRight

-----------------------------------------------------------------------------

\* The points Booted is about.
LEMMA BootedMeans ==
    ASSUME place \in BootPoints \cup MainPoints
    PROVE  Booted <=> place \in MainPoints
BY DEF Booted, BootPoints, MainPoints, Tables, TableOrder

\* The tables, and the order LLOS_Init allocates them in.
LEMMA TableList == Tables = {"event", "msg", "timer", "alarm", "device"}
<1>1. Len(TableOrder) = 5 /\ 1 .. 5 = {1, 2, 3, 4, 5}
  BY DEF TableOrder
<1>2. TableOrder[1] = "event" /\ TableOrder[2] = "msg" /\ TableOrder[3] = "timer"
         /\ TableOrder[4] = "alarm" /\ TableOrder[5] = "device"
  BY DEF TableOrder
<1> QED BY <1>1, <1>2 DEF Tables

LEMMA AfterEach ==
    /\ After("event") = "msg" /\ After("msg") = "timer"
    /\ After("timer") = "alarm" /\ After("alarm") = "device"
    /\ After("device") = "cmd"
<1> DEFINE Place(t) == CHOOSE n \in 1 .. Len(TableOrder) : TableOrder[n] = t
<1>1. Len(TableOrder) = 5 /\ 1 .. 5 = {1, 2, 3, 4, 5}
  BY DEF TableOrder
<1>2. TableOrder[1] = "event" /\ TableOrder[2] = "msg" /\ TableOrder[3] = "timer"
         /\ TableOrder[4] = "alarm" /\ TableOrder[5] = "device"
  BY DEF TableOrder
<1>3. Place("event") = 1
  BY <1>1, <1>2
<1>4. Place("msg") = 2
  BY <1>1, <1>2
<1>5. Place("timer") = 3
  BY <1>1, <1>2
<1>6. Place("alarm") = 4
  BY <1>1, <1>2
<1>7. After("device") = "cmd"
  BY DEF After
<1>8. \A t : t # "device" => After(t) = TableOrder[1 + Place(t)]
  BY DEF After
<1> HIDE DEF Place
<1> QED BY <1>2, <1>3, <1>4, <1>5, <1>6, <1>7, <1>8

\* A set of natural numbers has a least element.
LEMMA Least ==
    ASSUME NEW T \in SUBSET Nat, T # {}
    PROVE  \E x \in T : \A y \in T : x <= y
<1>1. PICK x \in T : \A y \in T : ~ (<<y, x>> \in OpToRel(<, Nat))
  BY NatLessThanWellFounded, WFMin
<1>2. ASSUME NEW y \in T, y < x PROVE FALSE
  <2>1. <<y, x>> \in OpToRel(<, Nat)
    BY <1>2 DEF OpToRel
  <2> QED
    BY <1>1, <2>1
<1> QED
  BY <1>2

\* A sorted table has the patterns of the table, none behind a shorter one.
LEMMA SortedHas ==
    ASSUME NEW list \in Sorted(Commands)
    PROVE  /\ list \in Seq(Seq(Token) \ {<<>>}) /\ Len(list) = Len(Commands)
           /\ \E order \in [1 .. Len(Commands) -> 1 .. Len(Commands)] :
                /\ \A n \in 1 .. Len(list) : list[n] = Commands[order[n]]
                /\ \A n \in 1 .. Len(list) : \E m \in 1 .. Len(list) : order[m] = n
                /\ \A m, n \in 1 .. Len(list) : m < n => Len(list[n]) <= Len(list[m])
<1> DEFINE Entries == 1 .. Len(Commands)
           Pattern == Seq(Token) \ {<<>>}
<1>1. /\ Len(Commands) \in Nat
      /\ \A n \in Entries : Commands[n] \in Pattern /\ Len(Commands[n]) \in Nat
  BY Settings
<1>2. PICK order \in Bijection(Entries, Entries) :
         /\ list = [n \in Entries |-> Commands[order[n]]]
         /\ \A m, n \in Entries : m < n => ~Longer(Commands[order[n]], Commands[order[m]])
  BY DEF Sorted
<1>3. order \in [Entries -> Entries] /\ \A n \in Entries : \E m \in Entries : order[m] = n
  BY <1>2 DEF Bijection, Injection, Surjection
<1>4. list \in [1 .. Len(Commands) -> Pattern]
  BY <1>1, <1>2, <1>3
<1>5. list \in Seq(Pattern) /\ Len(list) = Len(Commands)
  BY <1>1, <1>4
<1>6. \A n \in Entries : list[n] = Commands[order[n]]
  BY <1>2
<1>7. ASSUME NEW m \in Entries, NEW n \in Entries, m < n PROVE Len(list[n]) <= Len(list[m])
  <2>1. order[m] \in Entries /\ order[n] \in Entries
    BY <1>3
  <2>2. ~(Len(Commands[order[n]]) > Len(Commands[order[m]]))
    BY <1>2, <1>7 DEF Longer
  <2> QED BY <1>1, <1>6, <2>1, <2>2
<1>8. /\ \A n \in 1 .. Len(list) : list[n] = Commands[order[n]]
      /\ \A n \in 1 .. Len(list) : \E m \in 1 .. Len(list) : order[m] = n
      /\ \A m, n \in 1 .. Len(list) : m < n => Len(list[n]) <= Len(list[m])
  BY <1>3, <1>5, <1>6, <1>7
<1> QED BY <1>3, <1>5, <1>8

\* The first match in the sorted table is a longest match, and the parameters behind it fit
\* into the buffer (llos.c:1107-1117).
LEMMA InputAnswers ==
    ASSUME NEW data \in Seq(Token), data # <<>>, Len(data) <= BufferLen,
           bufSize => cmdList \in Sorted(Commands)
    PROVE  Answers(Cmd_Input(data), data) /\ Cmd_Input(data) \in Reply
<1> DEFINE fits == {n \in 1 .. Len(Commands) : Matches(Commands[n], data)}
           I == {n \in 1 .. Len(cmdList) : Matches(cmdList[n], data)}
           found == SelectInSeq(cmdList, LAMBDA pattern : Matches(pattern, data))
<1>1. NotFound \in Reply
  BY DEF NotFound, Reply
<1>2. CASE ~bufSize
  <2>1. Cmd_Input(data) = NotFound
    BY <1>2 DEF Cmd_Input
  <2> QED BY <1>1, <1>2, <2>1 DEF Answers
<1>3. CASE bufSize
  <2>1. /\ Len(cmdList) = Len(Commands) /\ Len(Commands) \in Nat
        /\ cmdList \in Seq(Seq(Token) \ {<<>>})
    BY <1>3, SortedHas, Settings
  <2>2. PICK order \in [1 .. Len(Commands) -> 1 .. Len(Commands)] :
          /\ \A n \in 1 .. Len(cmdList) : cmdList[n] = Commands[order[n]]
          /\ \A n \in 1 .. Len(cmdList) : \E m \in 1 .. Len(cmdList) : order[m] = n
          /\ \A m, n \in 1 .. Len(cmdList) : m < n => Len(cmdList[n]) <= Len(cmdList[m])
    BY <1>3, SortedHas
  <2>3. \A n \in I : order[n] \in fits
    BY <2>1, <2>2
  <2>4. \A n \in fits : \E m \in I : order[m] = n
    BY <2>1, <2>2
  <2>5. found = IF I # {} THEN Min(I) ELSE 0
    BY DEF SelectInSeq
  <2>6. CASE I = {}
    <3>1. Cmd_Input(data) = NotFound
      BY <2>5, <2>6 DEF Cmd_Input
    <3>2. fits = {}
      BY <2>4, <2>6
    <3> QED BY <1>1, <3>1, <3>2 DEF Answers
  <2>7. CASE I # {}
    <3>1. \E x \in I : \A y \in I : x <= y
      <4>1. I \in SUBSET Nat
        BY <2>1
      <4> HIDE DEF I
      <4> QED BY <2>7, <4>1, Least
    <3>2. Min(I) \in I /\ \A y \in I : Min(I) <= y
      BY <3>1 DEF Min
    <3>3. found \in I /\ \A y \in I : found <= y
      BY <2>5, <2>7, <3>2
    <3> HIDE DEF found
    <3> DEFINE cmd == cmdList[found]
    <3>4. /\ found \in 1 .. Len(cmdList) /\ cmd \in Seq(Token) /\ cmd # <<>>
          /\ Matches(cmd, data)
      BY <2>1, <3>3
    <3>5. Len(cmd) \in Nat \ {0} /\ Len(data) \in Nat /\ Len(data) >= Len(cmd)
      BY <3>4 DEF Matches
    <3>6. Len(cmd) + Kept(Len(data) - Len(cmd)) = Len(data)
      <4>1. ~(Len(data) - Len(cmd) >= BufferLen)
        BY <3>5, Settings
      <4>2. Kept(Len(data) - Len(cmd)) = Len(data) - Len(cmd)
        BY <4>1 DEF Kept
      <4> QED BY <3>5, <4>2
    <3>7. found # 0
      BY <2>1, <3>4
    <3>8. Cmd_Input(data) = [cmd |-> cmd, params |-> SubSeq(data, Len(cmd) + 1, Len(data))]
      BY <1>3, <3>6, <3>7 DEF Cmd_Input, found
    <3>9. SubSeq(data, Len(cmd) + 1, Len(data)) \in Seq(Token)
      BY <3>5, SubSeqProperties
    <3>10. order[found] \in fits /\ cmd = Commands[order[found]]
      BY <2>1, <2>2, <2>3, <3>3, <3>4
    <3>11. ASSUME NEW m \in fits PROVE Len(Commands[m]) <= Len(Commands[order[found]])
      <4>1. PICK k \in I : order[k] = m
        BY <2>4
      <4>2. k \in 1 .. Len(cmdList) /\ cmdList[k] = Commands[m] /\ found <= k
        BY <2>2, <3>3, <4>1
      <4>3. CASE k = found
        BY <4>2, <4>3, <3>5, <3>10
      <4>4. CASE found < k
        BY <2>2, <3>4, <3>10, <4>2, <4>4
      <4> QED BY <2>1, <3>4, <4>2, <4>3, <4>4
    <3>12. Cmd_Input(data).cmd = cmd
              /\ Cmd_Input(data).params = SubSeq(data, Len(cmd) + 1, Len(data))
              /\ Cmd_Input(data) \in Reply
      BY <3>4, <3>8, <3>9 DEF Reply
    <3> HIDE DEF fits, cmd
    <3>13. fits # {}
      BY <3>10
    <3>14. \E n \in fits :
             /\ \A m \in fits : Len(Commands[m]) <= Len(Commands[n])
             /\ Cmd_Input(data).cmd = Commands[n]
             /\ Cmd_Input(data).params = SubSeq(data, Len(Commands[n]) + 1, Len(data))
      BY <3>10, <3>11, <3>12
    <3> QED BY <1>3, <3>12, <3>13, <3>14 DEF Answers, fits
  <2> QED BY <2>6, <2>7
<1> QED BY <1>2, <1>3

-----------------------------------------------------------------------------

\* Steps that leave the lines, what was made of them and the command list alone.
LEMMA SameLines ==
    ASSUME ConsoleInv, UNCHANGED <<bufSize, sent, ran>>
    PROVE  LinesRunRight'
BY DEF ConsoleInv, LinesRunRight, Answers

\* At power-on.
LEMMA InitConsole ==
    ASSUME LinesApart, ConsoleInit
    PROVE  ConsoleInv
<1>1. ConsoleTypes
  <2>1. <<>> \in Seq(Token) /\ Len(<<>>) = 0 /\ <<>> \in Seq(Lines) /\ <<>> \in Seq(Reply)
    BY EmptySeq
  <2>2. 0 <= BufferLen
    BY Settings
  <2> QED BY <2>1, <2>2 DEF ConsoleInit, BootInit, ConsoleTypes, BootPoints
<1>2. ListInv /\ BeforeInv /\ PlaceInv /\ SilenceInv /\ GapInv /\ LineInv
  BY DEF ConsoleInit, BootInit, ListInv, BeforeInv, PlaceInv, SilenceInv, GapInv, LineInv
<1>3. LinesRunRight
  BY DEF ConsoleInit, LinesRunRight
<1> QED BY <1>1, <1>2, <1>3 DEF ConsoleInv

\* LLOS_Init, wherever it fails, and the steps around it.
LEMMA BootKeeps ==
    ASSUME ConsoleInv, Boot
    PROVE  ConsoleInv'
<1>1. /\ place \in BootPoints /\ place' \in BootPoints \cup {"loop"}
      /\ cfgs' \in BOOLEAN
      /\ place \in {"register", "start"} => place' \in {"start", "halt", "loop"}
      /\ place \notin {"halt"}
  <2>1. CASE \/ SysTick_Config \/ StoreCfgs \/ GiveUp
             \/ RegisterUART \/ EnterLoop
    BY <2>1 DEF SysTick_Config, StoreCfgs, GiveUp, Wiped,
                RegisterUART, EnterLoop, BootPoints, ConsoleInv, ConsoleTypes
  <2>2. CASE Allocate
    BY <2>2, AfterEach, TableList DEF Allocate, BootPoints, ConsoleInv, ConsoleTypes
  <2> QED BY <2>1, <2>2 DEF Boot, BootStep
<1>2. UNCHANGED <<bufSize, cmdList, recBuf, rxOK, event, line, ran>>
  BY DEF Boot, BootStep, SysTick_Config, StoreCfgs, GiveUp,
         RegisterUART, EnterLoop, Allocate
<1>3. ConsoleTypes' /\ ListInv'
  BY <1>1, <1>2 DEF ConsoleInv, ConsoleTypes, ListInv, event, line, BootPoints,
                    MainPoints
<1>4. BeforeInv' /\ PlaceInv' /\ SilenceInv' /\ GapInv' /\ LineInv'
  BY <1>1, <1>2 DEF ConsoleInv, BeforeInv, PlaceInv, SilenceInv, GapInv, LineInv, event,
                    line
<1> QED BY <1>2, <1>3, <1>4, SameLines DEF ConsoleInv, line

\* LLOS_Cmd_Init, with room for its buffer or without.
LEMMA CmdInitKeeps ==
    ASSUME ConsoleInv, Cmd_Init
    PROVE  ConsoleInv'
<1>1. /\ place = "cmd" /\ place' = "register" /\ bufSize' \in BOOLEAN /\ ~bufSize
      /\ cmdList' \in IF bufSize' THEN Sorted(cmdList) ELSE {cmdList}
      /\ UNCHANGED <<cfgs, recBuf, rxOK, event, line, ran>>
  BY DEF Cmd_Init, CmdBuffer, ConsoleInv, ConsoleTypes, ListInv, MainPoints
<1>2. ConsoleTypes' /\ ListInv'
  BY <1>1 DEF ConsoleInv, ConsoleTypes, ListInv, event, line, BootPoints,
              MainPoints
<1>3. BeforeInv' /\ PlaceInv' /\ SilenceInv' /\ GapInv' /\ LineInv' /\ LinesRunRight'
  BY <1>1 DEF ConsoleInv, BeforeInv, PlaceInv, SilenceInv, GapInv, LineInv, event,
              line, BootPoints, LinesRunRight
<1> QED BY <1>2, <1>3 DEF ConsoleInv

-----------------------------------------------------------------------------

\* The steps of LLOS_Loop only move the event on, and forget some of it at worst.
LEMMA LoopKeeps ==
    ASSUME ConsoleInv,
           \/ Take \/ TakeClear \/ EventReturns
           \/ NoEvent \/ NoLine
    PROVE  ConsoleInv'
<1>1. /\ place \in MainPoints /\ place' \in {"clear", "due", "check", "loop"} /\ ~stuck
      /\ place # "memset"
      /\ UNCHANGED <<cfgs, bufSize, cmdList, line, recBuf, rxOK, left, ran>>
  BY DEF Take, TakeClear, EventReturns, NoEvent, NoLine,
         At, MainPoints, event
<1>2. /\ newEvent' => newEvent
      /\ oldEvent' => oldEvent \/ pending
      /\ pending' => newEvent /\ place' = "clear"
      /\ rxOK => place' = "check"
  <2>1. CASE Take
    BY <2>1 DEF Take, At, ConsoleInv, PlaceInv
  <2>2. CASE TakeClear
    BY <2>2 DEF TakeClear, At, Merged, ConsoleInv, PlaceInv
  <2>3. CASE EventReturns
    BY <2>3 DEF EventReturns, At, ConsoleInv, PlaceInv
  <2>4. CASE NoEvent \/ NoLine
    BY <2>4 DEF NoEvent, NoLine, At, event, ConsoleInv, PlaceInv
  <2> QED BY <2>1, <2>2, <2>3, <2>4
<1>3. ConsoleTypes' /\ ListInv'
  BY <1>1 DEF ConsoleInv, ConsoleTypes, ListInv, line, BootPoints, MainPoints
<1>4. BeforeInv' /\ LineInv' /\ GapInv'
  BY <1>1 DEF ConsoleInv, BeforeInv, LineInv, GapInv, line, BootPoints
<1>5. PlaceInv' /\ SilenceInv'
  BY <1>1, <1>2 DEF ConsoleInv, PlaceInv, SilenceInv, line
<1> QED BY <1>1, <1>3, <1>4, <1>5, SameLines DEF ConsoleInv, line

\* The event runs when the line is complete: while there is more of it to come, the start
\* tick is ahead.
LEMMA RunEventKeeps ==
    ASSUME ConsoleInv, RunEvent
    PROVE  ConsoleInv'
<1>1. /\ place = "due" /\ place' = "return" /\ ~stuck /\ oldEvent /\ left = 0 /\ rxOK' = TRUE
      /\ UNCHANGED <<cfgs, bufSize, cmdList, line, event, recBuf, ran>>
  BY DEF RunEvent, At, Due
<1>2. wire = <<>>
  <2>1. CASE recBuf = <<>>
    BY <1>1, <2>1 DEF ConsoleInv, SilenceInv
  <2>2. CASE recBuf # <<>>
    BY <1>1, <2>2, Settings DEF ConsoleInv, GapInv, LinesApart, ConsoleTypes
  <2> QED BY <2>1, <2>2
<1>3. ConsoleTypes' /\ ListInv'
  BY <1>1 DEF ConsoleInv, ConsoleTypes, ListInv, line, event, BootPoints,
              MainPoints
<1>4. BeforeInv' /\ LineInv' /\ GapInv'
  BY <1>1 DEF ConsoleInv, BeforeInv, LineInv, GapInv, line, event, BootPoints
<1>5. PlaceInv' /\ SilenceInv'
  BY <1>1, <1>2 DEF ConsoleInv, PlaceInv, SilenceInv, line, event
<1> QED BY <1>1, <1>3, <1>4, <1>5, SameLines DEF ConsoleInv, line

\* A line that is in the buffer as a whole is the last one sent, and the next to run.
LEMMA RunLineKeeps ==
    ASSUME ConsoleInv, RunLine
    PROVE  ConsoleInv'
<1> DEFINE newest == sent[Len(sent)]
<1>1. /\ place = "check" /\ place' = "memset" /\ rxOK /\ ~stuck /\ wire = <<>>
      /\ UNCHANGED <<cfgs, bufSize, cmdList, line, event, recBuf, rxOK>>
      /\ ran' = IF recBuf = <<>> THEN ran ELSE Append(ran, Cmd_Input(recBuf))
  BY DEF RunLine, At, ConsoleInv, PlaceInv
<1>2. Len(sent) \in Nat /\ Len(ran) \in Nat /\ sent \in Seq(Lines) /\ ran \in Seq(Reply)
  BY DEF ConsoleInv, ConsoleTypes
<1>3. ListInv' /\ BeforeInv' /\ GapInv' /\ PlaceInv' /\ SilenceInv'
  BY <1>1 DEF ConsoleInv, BeforeInv, ListInv, GapInv, PlaceInv, SilenceInv, line,
              event, BootPoints, MainPoints
<1>4. CASE recBuf = <<>>
  <2>1. Len(sent) = Len(ran)
    <3>1. SUFFICES ASSUME Len(sent) = Len(ran) + 1 PROVE FALSE
      BY DEF ConsoleInv, LineInv
    <3>2. newest = <<>>
      BY <1>1, <1>4, <3>1 DEF ConsoleInv, LineInv
    <3>3. newest \in Lines
      BY <1>2, <3>1
    <3> QED BY <3>2, <3>3, Settings DEF ConsoleInv
  <2>2. ran' = ran
    BY <1>1, <1>4
  <2>3. ConsoleTypes' /\ LineInv'
    BY <1>1, <1>4, <2>1, <2>2 DEF ConsoleInv, ConsoleTypes, LineInv, line, event,
                                  MainPoints
  <2> QED BY <1>1, <1>3, <2>2, <2>3, SameLines DEF ConsoleInv, line
<1>5. CASE recBuf # <<>>
  <2>1. Len(sent) = Len(ran) + 1
    BY <1>1, <1>5 DEF ConsoleInv, LineInv
  <2>2. newest = recBuf
    BY <1>1, <2>1, ConcatEmptySeq DEF ConsoleInv, LineInv, ConsoleTypes
  <2>3. Answers(Cmd_Input(recBuf), recBuf) /\ Cmd_Input(recBuf) \in Reply
    BY <1>5, InputAnswers DEF ConsoleInv, ConsoleTypes, ListInv
  <2>4. /\ ran' \in Seq(Reply) /\ Len(ran') = Len(ran) + 1
        /\ \A n \in 1 .. Len(ran) : ran'[n] = ran[n]
        /\ ran'[Len(ran) + 1] = Cmd_Input(recBuf)
    BY <1>1, <1>2, <1>5, <2>3
  <2>5. ConsoleTypes'
    BY <1>1, <2>4 DEF ConsoleInv, ConsoleTypes, line, event, MainPoints
  <2>6. LineInv'
    BY <1>1, <1>2, <2>1, <2>4 DEF LineInv, line
  <2>7. LinesRunRight'
    <3>1. SUFFICES ASSUME NEW n \in 1 .. Len(ran')
                   PROVE  n <= Len(sent) /\ Answers(ran'[n], sent[n])
      BY <1>1 DEF LinesRunRight, Answers, line
    <3>2. CASE n <= Len(ran)
      <4>1. n \in 1 .. Len(ran) /\ ran'[n] = ran[n]
        BY <1>2, <2>4, <3>2
      <4> QED BY <4>1 DEF ConsoleInv, LinesRunRight
    <3>3. CASE n = Len(ran) + 1
      BY <1>2, <2>1, <2>2, <2>3, <2>4, <3>3
    <3> QED BY <1>2, <2>4, <3>2, <3>3
  <2> QED BY <1>3, <2>5, <2>6, <2>7 DEF ConsoleInv
<1> QED BY <1>4, <1>5

\* memset erases nothing but the line that has run: the next one is not on its way yet.
LEMMA ClearBufferKeeps ==
    ASSUME ConsoleInv, ClearBuffer
    PROVE  ConsoleInv'
<1>1. /\ place = "memset" /\ place' = "loop" /\ ~stuck /\ recBuf' = <<>> /\ rxOK' = FALSE
      /\ UNCHANGED <<cfgs, bufSize, cmdList, line, event, ran>>
  BY DEF ClearBuffer, At
<1>2. wire = <<>> /\ Len(sent) = Len(ran)
  BY <1>1 DEF ConsoleInv, PlaceInv, LineInv
<1>3. ConsoleTypes' /\ ListInv'
  BY <1>1, Settings DEF ConsoleInv, ConsoleTypes, ListInv, line, event, BootPoints,
              MainPoints
<1>4. BeforeInv' /\ LineInv' /\ GapInv' /\ PlaceInv' /\ SilenceInv'
  <2>1. Len(ran) \in Nat
    BY DEF ConsoleInv, ConsoleTypes
  <2> QED
    BY <1>1, <1>2, <2>1 DEF ConsoleInv, BeforeInv, LineInv, GapInv, PlaceInv, SilenceInv,
                            line, event, BootPoints
<1> QED BY <1>1, <1>3, <1>4, SameLines DEF ConsoleInv, line

-----------------------------------------------------------------------------

\* A tick between two bytes brings the event closer, but not up.
LEMMA TickKeeps ==
    ASSUME ConsoleInv, Tick
    PROVE  ConsoleInv'
<1>1. UNCHANGED <<bootVars, cmdList, recBuf, rxOK, newEvent, oldEvent, pending, wire, stuck,
                  sent, ran>>
  BY DEF Tick
<1>2. left' \in Nat /\ gap' \in Nat
  BY DEF Tick, ConsoleInv, ConsoleTypes
<1>3. ConsoleTypes' /\ ListInv'
  BY <1>1, <1>2 DEF ConsoleInv, ConsoleTypes, ListInv, bootVars
<1>4. BeforeInv' /\ LineInv' /\ PlaceInv' /\ SilenceInv'
  BY <1>1 DEF ConsoleInv, BeforeInv, LineInv, PlaceInv, SilenceInv, bootVars
<1>5. GapInv'
  <2>1. SUFFICES ASSUME wire # <<>>, recBuf # <<>>, ~stuck
                 PROVE  left' = Delay - gap' /\ gap' <= MaxGap
    BY <1>1 DEF GapInv
  <2>2. gap < MaxGap /\ left = Delay - gap /\ gap \in Nat /\ gap' = gap + 1
    BY <2>1 DEF Tick, ConsoleInv, GapInv, ConsoleTypes
  <2>3. left > 0 /\ left' = left - 1
    BY <2>2, Settings DEF Tick, ConsoleInv, LinesApart
  <2> QED BY <2>2, <2>3, Settings DEF ConsoleInv
<1> QED BY <1>1, <1>3, <1>4, <1>5, SameLines DEF ConsoleInv, bootVars

\* A line begins when the one before has been answered and nothing of it is left.
LEMMA LineKeeps ==
    ASSUME ConsoleInv, NEW l \in Lines, Line(l)
    PROVE  ConsoleInv'
<1>1. /\ wire = <<>> /\ ~stuck /\ place = "loop" /\ Len(ran) = Len(sent) /\ recBuf = <<>>
      /\ ~newEvent /\ ~oldEvent
      /\ wire' = l /\ gap' = 0 /\ sent' = Append(sent, l)
      /\ UNCHANGED <<bootVars, cmdList, recBuf, rxOK, event, stuck, ran>>
  BY DEF Line, MaySend, ConsoleInv, LinesApart
<1>2. l \in Seq(Token) /\ l # <<>> /\ sent \in Seq(Lines) /\ Len(sent) \in Nat
  BY Settings DEF ConsoleInv, ConsoleTypes
<1>3. /\ sent' \in Seq(Lines) /\ Len(sent') = Len(sent) + 1 /\ sent'[Len(sent')] = l
      /\ \A n \in 1 .. Len(sent) : sent'[n] = sent[n]
  BY <1>1, <1>2
<1>4. ConsoleTypes' /\ ListInv'
  BY <1>1, <1>2, <1>3 DEF ConsoleInv, ConsoleTypes, ListInv, bootVars, event
<1>5. BeforeInv' /\ PlaceInv' /\ SilenceInv' /\ GapInv'
  BY <1>1 DEF ConsoleInv, BeforeInv, PlaceInv, SilenceInv, GapInv, bootVars,
              event, BootPoints
<1>6. LineInv'
  <2>1. recBuf' \o wire' = l
    BY <1>1, <1>2, ConcatEmptySeq
  <2> QED BY <1>1, <1>2, <1>3, <2>1 DEF LineInv, bootVars
<1>7. LinesRunRight'
  <2>1. \A n \in 1 .. Len(ran) : n <= Len(sent') /\ sent'[n] = sent[n]
    BY <1>1, <1>2, <1>3
  <2>2. UNCHANGED <<bufSize, ran>>
    BY <1>1 DEF bootVars
  <2> QED BY <2>1, <2>2 DEF ConsoleInv, LinesRunRight, Answers
<1> QED BY <1>4, <1>5, <1>6, <1>7 DEF ConsoleInv

\* Moving the next token over leaves buffer and rest together as they were.
LEMMA TokenMoves ==
    ASSUME NEW s \in Seq(Token), NEW t \in Seq(Token), t # <<>>
    PROVE  /\ Append(s, Head(t)) \in Seq(Token) /\ Tail(t) \in Seq(Token)
           /\ Len(Append(s, Head(t))) = Len(s) + 1
           /\ Append(s, Head(t)) # <<>>
           /\ Append(s, Head(t)) \o Tail(t) = s \o t
<1> DEFINE a == Append(s, Head(t))
           b == Tail(t)
<1>1. /\ a \in Seq(Token) /\ b \in Seq(Token) /\ Head(t) = t[1]
      /\ Len(a) = Len(s) + 1 /\ Len(b) = Len(t) - 1 /\ Len(t) > 0
      /\ Len(s) \in Nat /\ Len(t) \in Nat
      /\ \A n \in 1 .. Len(s) : a[n] = s[n]
      /\ a[Len(s) + 1] = t[1]
      /\ \A n \in 1 .. Len(b) : b[n] = t[n + 1]
  BY HeadTailProperties
<1> HIDE DEF a, b
<1>2. /\ a \o b \in Seq(Token) /\ s \o t \in Seq(Token)
      /\ Len(a \o b) = Len(s) + Len(t) /\ Len(s \o t) = Len(s) + Len(t)
  <2>1. \A p, q \in Int : (p + 1) + (q - 1) = p + q
    OBVIOUS
  <2>2. Len(a) + Len(b) = Len(s) + Len(t)
    BY <1>1, <2>1
  <2>3. a \o b \in Seq(Token) /\ Len(a \o b) = Len(a) + Len(b)
    BY <1>1, ConcatProperties
  <2>4. s \o t \in Seq(Token) /\ Len(s \o t) = Len(s) + Len(t)
    BY ConcatProperties
  <2> QED BY <2>2, <2>3, <2>4
<1>3. ASSUME NEW n \in 1 .. Len(s) + Len(t) PROVE (a \o b)[n] = (s \o t)[n]
  <2>1. CASE n <= Len(s)
    BY <1>1, <2>1
  <2>2. CASE n = Len(s) + 1
    BY <1>1, <2>2
  <2>3. CASE n > Len(s) + 1
    BY <1>1, <2>3
  <2> QED BY <1>1, <2>1, <2>2, <2>3
<1>4. a \o b = s \o t
  BY <1>2, <1>3, SeqEqual
<1>5. a # <<>>
  BY <1>1
<1> QED BY <1>1, <1>4, <1>5 DEF a, b

\* Each byte moves from the wire to the buffer and puts the event off again.
LEMMA ByteKeeps ==
    ASSUME ConsoleInv, UART0_IRQHandler
    PROVE  ConsoleInv'
<1>1. /\ wire # <<>> /\ ~stuck /\ gap' = 0 /\ StartEvent
      /\ UNCHANGED <<bootVars, cmdList, rxOK, oldEvent, pending, sent, ran>>
  BY DEF UART0_IRQHandler
<1>2. place \in MainPoints /\ Booted
  BY <1>1, BootedMeans DEF ConsoleInv, BeforeInv, ConsoleTypes
<1>3. left' = Delay /\ newEvent' = TRUE
  BY <1>1, <1>2 DEF StartEvent
<1>4. ListInv' /\ BeforeInv'
  BY <1>1, <1>2 DEF ConsoleInv, ListInv, BeforeInv, bootVars, BootPoints, MainPoints
<1>5. place \notin {"return", "memset"} /\ ~rxOK
  BY <1>1 DEF ConsoleInv, PlaceInv
<1>6. PlaceInv'
  BY <1>1, <1>5 DEF ConsoleInv, PlaceInv, bootVars
<1>7. Len(sent) = Len(ran) + 1 /\ recBuf \o wire = sent[Len(sent)] /\ Len(ran) \in Nat
  BY <1>1 DEF ConsoleInv, LineInv, ConsoleTypes
<1>8. CASE Len(recBuf) < BufferLen
  <2>1. recBuf' = Append(recBuf, Head(wire)) /\ wire' = Tail(wire) /\ stuck' = FALSE
    BY <1>8, Settings DEF UART0_IRQHandler, ConsoleInv, ConsoleTypes
  <2>2. /\ recBuf' \in Seq(Token) /\ wire' \in Seq(Token) /\ Len(recBuf') = Len(recBuf) + 1
        /\ recBuf' # <<>> /\ recBuf' \o wire' = recBuf \o wire
    BY <1>1, <2>1, TokenMoves DEF ConsoleInv, ConsoleTypes
  <2>3. Len(recBuf') <= BufferLen
    BY <1>8, <2>2, Settings DEF ConsoleInv, ConsoleTypes
  <2>4. ConsoleTypes'
    BY <1>1, <1>3, <2>2, <2>3, Settings DEF ConsoleInv, ConsoleTypes, bootVars
  <2>5. SilenceInv' /\ GapInv'
    BY <1>1, <1>3, <2>2, Settings DEF ConsoleInv, SilenceInv, GapInv
  <2>6. LineInv'
    BY <1>1, <1>5, <1>7, <2>2 DEF LineInv, bootVars
  <2> QED BY <1>1, <1>4, <1>6, <2>4, <2>5, <2>6, SameLines DEF ConsoleInv, bootVars
<1>9. CASE ~(Len(recBuf) < BufferLen)
  <2>1. UNCHANGED <<recBuf, wire>> /\ stuck' = TRUE
    BY <1>9 DEF UART0_IRQHandler
  <2>2. recBuf # <<>>
    BY <1>9, Settings DEF ConsoleInv, ConsoleTypes
  <2>3. ConsoleTypes'
    BY <1>1, <1>3, <2>1, Settings DEF ConsoleInv, ConsoleTypes, bootVars
  <2>4. SilenceInv' /\ GapInv' /\ LineInv'
    BY <1>1, <2>1, <2>2 DEF ConsoleInv, SilenceInv, GapInv, LineInv, bootVars
  <2> QED BY <1>1, <1>4, <1>6, <2>3, <2>4, SameLines DEF ConsoleInv, bootVars
<1> QED BY <1>8, <1>9

\* From then on the processor is in this handler: nothing that a line needs changes.
LEMMA AgainKeeps ==
    ASSUME ConsoleInv, IrqAgain
    PROVE  ConsoleInv'
<1>1. /\ stuck /\ recBuf # <<>> /\ StartEvent
      /\ UNCHANGED <<bootVars, cmdList, recBuf, rxOK, oldEvent, pending, line, ran>>
  BY DEF IrqAgain, ConsoleInv, SilenceInv
<1>2. place \in MainPoints /\ Booted
  BY <1>1, BootedMeans DEF ConsoleInv, BeforeInv, ConsoleTypes
<1>3. left' = Delay
  BY <1>1, <1>2 DEF StartEvent
<1>4. ConsoleTypes' /\ ListInv'
  BY <1>1, <1>3, Settings DEF ConsoleInv, ConsoleTypes, ListInv, bootVars, line
<1>5. BeforeInv' /\ PlaceInv' /\ SilenceInv' /\ GapInv' /\ LineInv'
  BY <1>1, <1>2 DEF ConsoleInv, BeforeInv, PlaceInv, SilenceInv, GapInv, LineInv,
                    bootVars, line, BootPoints, MainPoints
<1> QED BY <1>1, <1>4, <1>5, SameLines DEF ConsoleInv, bootVars, line

\* No step of the console breaks the invariant.
LEMMA NextKeeps == ConsoleInv /\ [ConsoleNext]_consoleVars => ConsoleInv'
<1> SUFFICES ASSUME ConsoleInv, [ConsoleNext]_consoleVars PROVE ConsoleInv'
  OBVIOUS
<1>1. CASE UNCHANGED consoleVars
  <2>1. /\ ConsoleTypes' /\ ListInv' /\ BeforeInv' /\ PlaceInv'
        /\ SilenceInv' /\ GapInv' /\ LineInv'
    BY <1>1 DEF ConsoleInv, ConsoleTypes, ListInv, BeforeInv, PlaceInv, SilenceInv, GapInv,
                LineInv, consoleVars, bootVars, event, line
  <2>2. UNCHANGED <<bufSize, sent, ran>>
    BY <1>1 DEF consoleVars, bootVars, line
  <2> QED BY <2>1, <2>2, SameLines DEF ConsoleInv
<1>2. CASE Main
  BY <1>2, BootKeeps, CmdInitKeeps, LoopKeeps, RunEventKeeps, RunLineKeeps, ClearBufferKeeps
     DEF Main
<1>3. CASE Tick \/ UART0_IRQHandler \/ IrqAgain
  BY <1>3, TickKeeps, ByteKeeps, AgainKeeps
<1>4. CASE \E l \in Lines : Line(l)
  BY <1>4, LineKeeps
<1> QED BY <1>1, <1>2, <1>3, <1>4 DEF ConsoleNext

\* For all commands, lines and buffers, the lines are run whole, once, in order and as what
\* they ask for, if the other side waits for each and does not pause for the delay within
\* one.  LLOS_Init may fail anywhere, and bytes may arrive anywhere.
THEOREM LinesRunAsSent ==
    ASSUME LinesApart
    PROVE  ConsoleSpec => []LinesRunRight
<1>1. ConsoleInit => ConsoleInv
  BY InitConsole
<1>2. ConsoleInv => LinesRunRight
  BY DEF ConsoleInv
<1> QED BY <1>1, <1>2, NextKeeps, PTL DEF ConsoleSpec

-----------------------------------------------------------------------------

\* the tables LLOS_Init is done with at p
Allocated(p) ==
    CASE p = "msg" -> {"event"}
      [] p = "timer" -> {"event", "msg"}
      [] p = "alarm" -> {"event", "msg", "timer"}
      [] p = "device" -> {"event", "msg", "timer", "alarm"}
      [] p \in {"cmd", "register", "start"} \cup MainPoints -> Tables
      [] OTHER -> {}

\* The tables LLOS_Init has passed exist, or the numbers are wiped, and the tick is enabled
\* behind them.
StartInv ==
    /\ place \in BootPoints \cup MainPoints
    /\ ticking => place \in MainPoints
    /\ cfgs => Wanted \cap Allocated(place) \subseteq tables

\* No step, of the start or later, leaves a number without its table.
LEMMA NextStart ==
    ASSUME ~TickFirst, StartInv, [ConsoleNext]_consoleVars
    PROVE  StartInv'
<1>1. CASE UNCHANGED <<place, ticking, cfgs, tables>>
  BY <1>1 DEF StartInv
<1>2. CASE Allocate
  <2>1. cfgs' = cfgs /\ ticking' = ticking
    BY <1>2 DEF Allocate
  <2>2. CASE place' = "failed"
    BY <2>1, <2>2, <1>2, TableList DEF StartInv, Allocated, Allocate, BootPoints,
                                       MainPoints
  <2>3. CASE /\ place' = After(place)
             /\ Wanted \cap (Allocated(place) \cup {place}) \subseteq tables'
    <3>1. place \in Tables /\ Allocated(After(place)) = Allocated(place) \cup {place}
      BY <1>2, AfterEach, TableList DEF Allocated, Allocate, MainPoints
    <3>2. place' \in BootPoints
      BY <2>3, <3>1, AfterEach, TableList DEF BootPoints
    <3>3. ~ticking
      BY <3>1, TableList DEF StartInv, MainPoints
    <3> QED BY <2>1, <2>3, <3>1, <3>2, <3>3 DEF StartInv
  <2>4. \/ place' = "failed"
        \/ /\ place' = After(place) /\ tables \subseteq tables'
           /\ place \in Wanted => tables' = tables \cup {place}
    BY <1>2 DEF Allocate
  <2>5. cfgs => Wanted \cap Allocated(place) \subseteq tables
    BY DEF StartInv
  <2>6. CASE place' = After(place) /\ ~cfgs
    <3>1. place \in Tables
      BY <1>2 DEF Allocate
    <3>2. place' \in BootPoints
      BY <2>6, <3>1, AfterEach, TableList DEF BootPoints
    <3>3. ~ticking
      BY <3>1, TableList DEF StartInv, MainPoints
    <3> QED BY <2>1, <2>6, <3>2, <3>3 DEF StartInv
  <2>7. CASE place' = After(place) /\ cfgs
    <3>1. place' # "failed"
      BY <1>2, <2>7, AfterEach, TableList DEF Allocate
    <3>2. Wanted \cap Allocated(place) \subseteq tables'
      BY <2>4, <2>5, <2>7, <3>1
    <3>3. place \in Wanted => place \in tables'
      BY <2>4, <3>1
    <3> QED BY <2>3, <2>7, <3>2, <3>3
  <2> QED
    BY <2>2, <2>4, <2>6, <2>7
<1>3. CASE SysTick_Config \/ StoreCfgs
  BY <1>3 DEF SysTick_Config, StoreCfgs, StartInv, BootPoints, MainPoints,
              Allocated
<1>4. CASE GiveUp
  BY <1>4 DEF GiveUp, Wiped, StartInv, BootPoints, MainPoints
<1>5. CASE CmdBuffer \/ RegisterUART \/ EnterLoop
  BY <1>5 DEF CmdBuffer, RegisterUART, EnterLoop, StartInv, BootPoints,
              MainPoints, Allocated
<1>6. CASE \E from, to \in MainPoints : At(from, to)
  BY <1>6 DEF At, StartInv, MainPoints, Allocated
<1>7. \/ UNCHANGED <<place, ticking, cfgs, tables>>
      \/ Allocate \/ SysTick_Config \/ StoreCfgs \/ GiveUp
      \/ CmdBuffer \/ RegisterUART \/ EnterLoop
      \/ \E from, to \in MainPoints : At(from, to)
  <2>1. CASE UNCHANGED consoleVars
    BY <2>1 DEF consoleVars, bootVars
  <2>2. CASE Boot \/ Cmd_Init
    BY <2>2 DEF Boot, BootStep, Cmd_Init
  <2>3. CASE \/ Take \/ TakeClear \/ RunEvent \/ EventReturns
             \/ NoEvent \/ NoLine \/ RunLine \/ ClearBuffer
    <3>1. {"loop", "clear", "due", "return", "check", "memset"} \subseteq MainPoints
      BY DEF MainPoints
    <3>2. \/ At("loop", "clear") \/ At("clear", "due") \/ At("due", "return")
          \/ At("return", "check") \/ At("due", "check") \/ At("check", "loop")
          \/ At("check", "memset") \/ At("memset", "loop")
      BY <2>3 DEF Take, TakeClear, RunEvent, EventReturns,
                  NoEvent, NoLine, RunLine, ClearBuffer
    <3> QED BY <3>1, <3>2
  <2>4. CASE Tick \/ UART0_IRQHandler \/ IrqAgain \/ \E l \in Lines : Line(l)
    BY <2>4 DEF Tick, UART0_IRQHandler, IrqAgain, Line, bootVars
  <2> QED BY <2>1, <2>2, <2>3, <2>4 DEF ConsoleNext, Main
<1> QED BY <1>1, <1>2, <1>3, <1>4, <1>5, <1>6, <1>7

\* For every choice of tables and every room in the pool, whoever runs finds the tables it
\* walks, if the tick is enabled behind LLOS_Init.
THEOREM TablesStand ==
    ASSUME ~TickFirst
    PROVE  ConsoleSpec => []TablesExist
<1>1. ConsoleInit => StartInv
  BY DEF ConsoleInit, BootInit, StartInv, BootPoints
<1>2. StartInv /\ [ConsoleNext]_consoleVars => StartInv'
  BY NextStart
<1>3. StartInv => TablesExist
  <2> SUFFICES ASSUME StartInv PROVE TablesExist
    OBVIOUS
  <2>1. Booted <=> place \in MainPoints
    BY BootedMeans DEF StartInv
  <2>2. place \in MainPoints => Allocated(place) = Tables
    BY DEF Allocated, MainPoints
  <2> QED BY <2>1, <2>2, TableList, WantedAssumption DEF StartInv, TablesExist
<1> QED BY <1>1, <1>2, <1>3, PTL DEF ConsoleSpec

-----------------------------------------------------------------------------
(* The parameters of a command.                                               *)

\* What a text may consist of: the tokens of the parameters, those of the lines and a quote.
Letters == Delimiters \cup BoolWords \cup NumberWords \cup Units \cup Token \cup {"quote"}
Texts == Seq(Letters)
Blanks == {"space", "comma"}
Skipped == Seq(Blanks)      \* what may come before a parameter

LEMMA SkippedText == Skipped \subseteq Texts
<1> SUFFICES ASSUME NEW s \in Skipped PROVE s \in Texts
  OBVIOUS
<1>1. Blanks \subseteq Letters
  BY DEF Blanks, Letters, Delimiters
<1> QED BY <1>1, SeqMonotonic DEF Skipped, Texts

\* A token in front of a text.
LEMMA InFront ==
    ASSUME NEW w \in Letters, NEW t \in Texts
    PROVE  /\ <<w>> \o t \in Texts /\ <<w>> \o t # <<>>
           /\ Head(<<w>> \o t) = w /\ (<<w>> \o t)[1] = w
           /\ Tail(<<w>> \o t) = t
<1> DEFINE u == <<w>> \o t
<1>1. <<w>> \in Seq(Letters) /\ t \in Seq(Letters) /\ Len(<<w>>) = 1 /\ <<w>>[1] = w
  BY DEF Texts
<1>2. /\ u \in Seq(Letters) /\ Len(u) = 1 + Len(t) /\ Len(t) \in Nat
      /\ \A i \in 1 .. 1 + Len(t) : u[i] = IF i <= 1 THEN <<w>>[i] ELSE t[i - 1]
  BY <1>1, ConcatProperties, LenProperties
<1> HIDE DEF u
<1>3. u # <<>> /\ u[1] = w
  <2>1. 1 \in 1 .. 1 + Len(t) /\ 1 <= 1
    BY <1>2
  <2>2. u[1] = w
    BY <1>1, <1>2, <2>1
  <2>3. Len(u) # 0
    BY <1>2
  <2> QED BY <2>2, <2>3, EmptySeq
<1>4. Tail(u) \in Seq(Letters) /\ Len(Tail(u)) = Len(t) /\ \A i \in 1 .. Len(t) : Tail(u)[i] = t[i]
  <2>1. Tail(u) \in Seq(Letters) /\ Len(Tail(u)) = Len(u) - 1
        /\ \A i \in 1 .. Len(Tail(u)) : Tail(u)[i] = u[i + 1]
    BY <1>2, <1>3, HeadTailProperties
  <2> QED BY <1>2, <2>1
<1>5. Tail(u) = t
  BY <1>1, <1>4, SeqEqual
<1>6. Head(u) = u[1]
  BY <1>2, <1>3
<1> QED BY <1>2, <1>3, <1>5, <1>6 DEF u, Texts

LEMMA LeastIs ==
    ASSUME NEW I \in SUBSET Nat, NEW k \in I, \A i \in I : k <= i
    PROVE  Min(I) = k
<1>1. Min(I) \in I /\ \A i \in I : Min(I) <= i
  BY DEF Min
<1>2. Min(I) \in Nat /\ k \in Nat /\ Min(I) <= k /\ k <= Min(I)
  BY <1>1
<1> QED BY <1>2

\* What two texts make up, and how it comes apart again.
LEMMA Parts ==
    ASSUME NEW s \in Texts, NEW t \in Texts
    PROVE  /\ s \o t \in Texts /\ Len(s \o t) = Len(s) + Len(t) /\ Len(s) \in Nat /\ Len(t) \in Nat
           /\ \A i \in 1 .. Len(s) : (s \o t)[i] = s[i]
           /\ \A i \in 1 .. Len(t) : (s \o t)[Len(s) + i] = t[i]
           /\ SubSeq(s \o t, 1, Len(s)) = s
           /\ SubSeq(s \o t, Len(s) + 1, Len(s \o t)) = t
<1> DEFINE u == s \o t
           a == SubSeq(u, 1, Len(s))
           b == SubSeq(u, Len(s) + 1, Len(u))
<1>1. s \in Seq(Letters) /\ t \in Seq(Letters)
  BY DEF Texts
<1>2. /\ u \in Seq(Letters) /\ Len(u) = Len(s) + Len(t)
      /\ Len(s) \in Nat /\ Len(t) \in Nat
      /\ \A i \in 1 .. Len(s) + Len(t) : u[i] = IF i <= Len(s) THEN s[i] ELSE t[i - Len(s)]
  BY <1>1, ConcatProperties, LenProperties
<1> HIDE DEF u
<1>3. \A i \in 1 .. Len(s) : u[i] = s[i]
  BY <1>2
<1>4. ASSUME NEW i \in 1 .. Len(t) PROVE u[Len(s) + i] = t[i]
  <2>1. /\ Len(s) + i \in 1 .. Len(s) + Len(t) /\ ~(Len(s) + i <= Len(s))
        /\ Len(s) + i - Len(s) = i
    BY <1>2
  <2> QED BY <1>2, <2>1
<1>5. \A i \in 1 .. Len(u) : u[i] \in Letters
  BY <1>2, ElementOfSeq
<1>6. a = s
  <2>1. \A i \in 1 .. Len(s) : u[i] \in Letters
    BY <1>2, <1>5
  <2>2. /\ a \in Seq(Letters) /\ Len(a) = IF 1 <= Len(s) THEN Len(s) - 1 + 1 ELSE 0
        /\ \A i \in 1 .. Len(s) - 1 + 1 : a[i] = u[1 + i - 1]
    BY <1>2, <2>1, SubSeqProperties
  <2>3. Len(a) = Len(s) /\ \A i \in 1 .. Len(s) : a[i] = s[i]
    BY <1>2, <1>3, <2>2
  <2> HIDE DEF a
  <2> QED BY <1>1, <2>2, <2>3, SeqEqual
<1>7. b = t
  <2>1. \A i \in Len(s) + 1 .. Len(u) : u[i] \in Letters
    BY <1>2, <1>5
  <2>2. /\ b \in Seq(Letters)
        /\ Len(b) = IF Len(s) + 1 <= Len(u) THEN Len(u) - (Len(s) + 1) + 1 ELSE 0
        /\ \A i \in 1 .. Len(u) - (Len(s) + 1) + 1 : b[i] = u[Len(s) + 1 + i - 1]
    BY <1>2, <2>1, SubSeqProperties
  <2>3. Len(b) = Len(t) /\ \A i \in 1 .. Len(t) : b[i] = u[Len(s) + i]
    BY <1>2, <2>2
  <2> HIDE DEF b
  <2> QED BY <1>1, <1>4, <2>2, <2>3, SeqEqual
<1> QED BY <1>2, <1>3, <1>4, <1>6, <1>7 DEF u, Texts

\* Trim takes off the blanks, and nothing else.
LEMMA TrimIs ==
    ASSUME NEW s \in Skipped, NEW t \in Texts, t = <<>> \/ t[1] \notin Blanks
    PROVE  Trim(s \o t) = t
<1> DEFINE u == s \o t
           I == {i \in 1 .. Len(u) : u[i] \notin Blanks}
           n == SelectInSeq(u, LAMBDA tok : tok \notin {"space", "comma"})
<1>1. s \in Texts /\ s \in Seq(Blanks)
  BY SkippedText DEF Skipped
<1>2. /\ Len(u) = Len(s) + Len(t) /\ Len(s) \in Nat /\ Len(t) \in Nat
      /\ \A i \in 1 .. Len(s) : u[i] = s[i]
      /\ \A i \in 1 .. Len(t) : u[Len(s) + i] = t[i]
      /\ SubSeq(u, Len(s) + 1, Len(u)) = t
  BY <1>1, Parts
<1>3. \A i \in 1 .. Len(s) : s[i] \in Blanks
  BY <1>1, ElementOfSeq
<1>4. n = IF I # {} THEN Min(I) ELSE 0
  BY DEF SelectInSeq, Blanks
<1>5. Trim(u) = IF n = 0 THEN <<>> ELSE SubSeq(u, n, Len(u))
  BY DEF Trim
<1> HIDE DEF u, n
<1>6. CASE t = <<>>
  <2>1. I = {}
    BY <1>2, <1>3, <1>6, EmptySeq
  <2> QED BY <1>4, <1>5, <1>6, <2>1 DEF u
<1>7. CASE t # <<>>
  <2>1. Len(t) > 0 /\ t[1] \notin Blanks
    BY <1>2, <1>7, EmptySeq DEF Texts
  <2>2. Len(s) + 1 \in I /\ I \in SUBSET Nat
    BY <1>2, <2>1
  <2>3. ASSUME NEW i \in I PROVE Len(s) + 1 <= i
    BY <1>2, <1>3
  <2>4. n = Len(s) + 1 /\ n # 0
    <3> HIDE DEF I
    <3>1. Min(I) = Len(s) + 1
      BY <2>2, <2>3, LeastIs
    <3> QED BY <1>2, <1>4, <2>2, <3>1
  <2> QED BY <1>2, <1>5, <2>4 DEF u
<1> QED BY <1>6, <1>7

LEMMA BoolTaken ==
    ASSUME NEW s \in Skipped, NEW w \in BoolWords, NEW t \in Texts, Ends(t)
    PROVE  ParamBool(s \o (<<w>> \o t)) = Got([bool |-> IsTrue(w)], t)
<1> DEFINE u == <<w>> \o t
<1>1. w \in Letters /\ w \notin Blanks
  BY DEF BoolWords, Blanks, Letters
<1>2. u \in Texts /\ u # <<>> /\ Head(u) = w /\ u[1] = w /\ Tail(u) = t
  BY <1>1, InFront
<1> HIDE DEF u
<1>3. Trim(s \o u) = u
  BY <1>1, <1>2, TrimIs
<1> QED BY <1>2, <1>3 DEF ParamBool, u

\* Behind a number: no unit.
NoUnit(t) == Trim(t) # <<>> => Head(Trim(t)) \notin Units \cup {"FALSE"}

\* A number, by the unit found behind it.
LEMMA NumberIs ==
    ASSUME NEW buffer, NEW u, Trim(buffer) = u, u # <<>>, Head(u) \in NumberWords,
           NEW times, NEW t, convert_unit(Tail(u)) = [times |-> times, text |-> t], Ends(t)
    PROVE  ParamNumber(buffer) = Got([num |-> NumberOf[Head(u)] * times], t)
<1> DEFINE c == convert_unit(Tail(u))
<1>1. c.times = times /\ c.text = t
  OBVIOUS
<1> HIDE DEF c
<1>2. ParamNumber(buffer) = IF Ends(c.text) THEN Got([num |-> NumberOf[Head(u)] * c.times], c.text)
                            ELSE Failed(u)
  BY DEF ParamNumber, c
<1> QED BY <1>1, <1>2

LEMMA NumberTaken ==
    ASSUME NEW s \in Skipped, NEW w \in NumberWords, NEW t \in Texts, Ends(t), NoUnit(t)
    PROVE  ParamNumber(s \o (<<w>> \o t)) = Got([num |-> NumberOf[w] * 1000], t)
<1> DEFINE u == <<w>> \o t
<1>1. w \in Letters /\ w \notin Blanks
  BY DEF NumberWords, Blanks, Letters
<1>2. u \in Texts /\ u # <<>> /\ Head(u) = w /\ u[1] = w /\ Tail(u) = t
  BY <1>1, InFront
<1> HIDE DEF u
<1>3. Trim(s \o u) = u
  BY <1>1, <1>2, TrimIs
<1>4. convert_unit(t) = [times |-> 1000, text |-> t]
  BY DEF convert_unit, NoUnit
<1>5. convert_unit(Tail(u)) = [times |-> 1000, text |-> t]
  BY <1>2, <1>4
<1>6. ParamNumber(s \o u) = Got([num |-> NumberOf[Head(u)] * 1000], t)
  BY <1>2, <1>3, <1>5, NumberIs
<1> QED BY <1>2, <1>6 DEF u

LEMMA UnitTaken ==
    ASSUME NEW s \in Skipped, NEW w \in NumberWords, NEW x \in Units, NEW t \in Texts, Ends(t)
    PROVE  ParamNumber(s \o (<<w, x>> \o t)) = Got([num |-> NumberOf[w] * Thousandths[x]], t)
<1> DEFINE v == <<x>> \o t
           u == <<w>> \o v
<1>1. w \in Letters /\ w \notin Blanks /\ x \in Letters /\ x \notin Blanks
  BY DEF NumberWords, Blanks, Units, Letters
<1>2. v \in Texts /\ v # <<>> /\ Head(v) = x /\ v[1] = x /\ Tail(v) = t
  BY <1>1, InFront
<1>0. <<w, x>> \o t = u
  <2>1. <<w>> \in Seq(Letters) /\ <<x>> \in Seq(Letters) /\ t \in Seq(Letters)
    BY <1>1 DEF Texts
  <2>2. (<<w>> \o <<x>>) \o t = <<w>> \o (<<x>> \o t)
    BY <2>1, ConcatAssociative
  <2>3. <<w>> \o <<x>> = <<w, x>>
    <3>1. /\ <<w>> \o <<x>> \in Seq(Letters) /\ Len(<<w>> \o <<x>>) = 2
          /\ (<<w>> \o <<x>>)[1] = w /\ (<<w>> \o <<x>>)[2] = x
      BY <2>1, ConcatProperties
    <3>2. <<w, x>> \in Seq(Letters) /\ Len(<<w, x>>) = 2 /\ <<w, x>>[1] = w /\ <<w, x>>[2] = x
      BY <1>1
    <3>3. 1 .. 2 = {1, 2}
      OBVIOUS
    <3> QED BY <3>1, <3>2, <3>3, SeqEqual
  <2> QED BY <2>2, <2>3
<1> HIDE DEF v
<1>3. u \in Texts /\ u # <<>> /\ Head(u) = w /\ u[1] = w /\ Tail(u) = v
  BY <1>1, <1>2, InFront
<1> HIDE DEF u
<1>4. Trim(s \o u) = u
  BY <1>1, <1>3, TrimIs
<1>5. Trim(v) = v
  <2>1. <<>> \in Skipped /\ <<>> \o v = v
    BY <1>2, EmptySeq, ConcatEmptySeq DEF Skipped, Texts
  <2>2. Trim(<<>> \o v) = v
    BY <1>1, <1>2, <2>1, TrimIs
  <2> QED BY <2>1, <2>2
<1>6. convert_unit(v) = [times |-> Thousandths[x], text |-> t]
  <2>1. x # "FALSE"
    BY DEF Units
  <2>2. /\ Trim(v) # <<>> /\ Head(Trim(v)) \in Units /\ Head(Trim(v)) # "FALSE"
        /\ Head(Trim(v)) = x /\ Tail(Trim(v)) = t
    BY <1>2, <1>5, <2>1
  <2> DEFINE at == Trim(v)
  <2> HIDE DEF at
  <2>3. convert_unit(v) = [times |-> Thousandths[Head(at)], text |-> Tail(at)]
    BY <2>2 DEF convert_unit, at
  <2> QED BY <2>2, <2>3 DEF at
<1>7. convert_unit(Tail(u)) = [times |-> Thousandths[x], text |-> t]
  BY <1>3, <1>6
<1>8. ParamNumber(s \o u) = Got([num |-> NumberOf[Head(u)] * Thousandths[x]], t)
  BY <1>3, <1>4, <1>7, NumberIs
<1> QED BY <1>0, <1>3, <1>8

\* A quoted text that fits, whatever it says.
LEMMA TextTaken ==
    ASSUME NEW s \in Skipped, NEW x \in Seq(Letters \ {"quote"}), NEW t \in Texts,
           NEW n \in Nat, Len(x) <= n
    PROVE  ParamCopyText(s \o (<<"quote">> \o (x \o (<<"quote">> \o t))), n)
             = Got([text |-> x], t)
<1> DEFINE q == <<"quote">> \o t
           b == x \o q
           u == <<"quote">> \o b
           I == {i \in 1 .. Len(u) : u[i] = "quote"}
           J == {i \in 1 .. Len(b) : b[i] = "quote"}
<1>1. "quote" \in Letters /\ "quote" \notin Blanks
  BY DEF Letters, Blanks
<1>2. q \in Texts /\ q # <<>> /\ q[1] = "quote" /\ Tail(q) = t
  BY <1>1, InFront
<1>3. x \in Texts /\ \A i \in 1 .. Len(x) : x[i] # "quote"
  <2>1. \A i \in 1 .. Len(x) : x[i] \in Letters \ {"quote"}
    BY ElementOfSeq
  <2>2. x \in Seq(Letters)
    <3>1. Letters \ {"quote"} \subseteq Letters
      OBVIOUS
    <3> QED BY <3>1, SeqMonotonic
  <2> QED BY <2>1, <2>2 DEF Texts
<1>4. Len(q) > 0 /\ Len(q) \in Nat
  BY <1>2, EmptySeq DEF Texts
<1>5. /\ b \in Texts /\ Len(b) = Len(x) + Len(q) /\ Len(x) \in Nat
      /\ \A i \in 1 .. Len(x) : b[i] = x[i]
      /\ \A i \in 1 .. Len(q) : b[Len(x) + i] = q[i]
      /\ SubSeq(b, 1, Len(x)) = x
      /\ SubSeq(b, Len(x) + 1, Len(b)) = q
  <2> HIDE DEF q
  <2> QED BY <1>2, <1>3, Parts
<1>6. SubSeq(b, Len(x) + 2, Len(b)) = t
  <2>1. <<"quote">> \in Texts /\ Len(<<"quote">>) = 1
    BY <1>1 DEF Texts
  <2>2. b = (x \o <<"quote">>) \o t
    BY <1>3, <2>1, ConcatAssociative DEF Texts
  <2>3. x \o <<"quote">> \in Texts /\ Len(x \o <<"quote">>) = Len(x) + 1
    BY <1>3, <2>1, Parts
  <2> DEFINE y == x \o <<"quote">>
  <2> HIDE DEF y
  <2>4. SubSeq(y \o t, Len(y) + 1, Len(y \o t)) = t
    BY <2>3, Parts DEF y
  <2>5. Len(y) + 1 = Len(x) + 2
    BY <1>5, <2>3 DEF y
  <2> HIDE DEF b
  <2> QED BY <2>2, <2>4, <2>5 DEF y
<1> HIDE DEF q, b
<1>7. u \in Texts /\ u # <<>> /\ u[1] = "quote" /\ Tail(u) = b
  BY <1>1, <1>5, InFront
<1>8. Len(u) \in Nat /\ Len(u) > 0 /\ SubSeq(u, 2, Len(u)) = b
  <2>1. u \in Seq(Letters)
    BY <1>7 DEF Texts
  <2> QED BY <1>7, <2>1, EmptySeq, TailIsSubSeq
<1> HIDE DEF u
<1>9. Trim(s \o u) = u
  BY <1>1, <1>7, TrimIs
<1>10. Min(I) = 1 /\ I # {}
  <2>1. 1 \in I /\ I \in SUBSET Nat /\ \A i \in I : 1 <= i
    BY <1>7, <1>8
  <2> HIDE DEF I
  <2> QED BY <2>1, LeastIs
<1>11. Min(J) = Len(x) + 1 /\ J # {}
  <2>1. Len(x) + 1 \in J
    BY <1>2, <1>4, <1>5
  <2>2. J \in SUBSET Nat
    BY <1>5
  <2>3. ASSUME NEW i \in J PROVE Len(x) + 1 <= i
    BY <1>3, <1>5
  <2> HIDE DEF J
  <2> QED BY <2>1, <2>2, <2>3, LeastIs
<1> DEFINE start == SelectInSeq(u, LAMBDA tok : tok = "quote")
           end == SelectInSeq(b, LAMBDA tok : tok = "quote")
<1>12. start = IF I # {} THEN Min(I) ELSE 0
  BY DEF SelectInSeq
<1>13. end = IF J # {} THEN Min(J) ELSE 0
  BY DEF SelectInSeq
<1>14. /\ SubSeq(u, start + 1, Len(u)) = b
       /\ start # 0 /\ end # 0 /\ end - 1 = Len(x) /\ ~(end - 1 > n) /\ end + 1 = Len(x) + 2
  <2> HIDE DEF I, J, start, end
  <2>1. start = 1 /\ end = Len(x) + 1
    BY <1>10, <1>11, <1>12, <1>13
  <2> QED BY <1>5, <1>8, <2>1
<1> DEFINE behind == SubSeq(u, start + 1, Len(u))
           last == SelectInSeq(behind, LAMBDA tok : tok = "quote")
<1>15. ParamCopyText(s \o u, n) =
         IF start = 0 \/ last = 0 THEN Failed(u)
         ELSE Got([text |-> SubSeq(behind, 1, IF last - 1 > n THEN n ELSE last - 1)],
                  SubSeq(behind, last + 1, Len(behind)))
  BY <1>9 DEF ParamCopyText
<1>16. last = end
  <2>1. behind = b
    BY <1>14
  <2> HIDE DEF behind, start, b
  <2> QED BY <2>1
<1> HIDE DEF start, end, last, I, J
<1> QED BY <1>5, <1>6, <1>14, <1>15, <1>16 DEF u, b, q

\* Every parameter there is, as it is written and what it means: Meant of CmdParams has some
\* of them.
Quoted == {x \in Seq(Letters \ {"quote"}) : Len(x) <= CopyLen}
Parameters ==
    {[type |-> "bool", word |-> <<w>>, val |-> [bool |-> IsTrue(w)]] : w \in BoolWords}
    \cup {[type |-> "int32", word |-> <<w>>, val |-> [num |-> Truncated(NumberOf[w] * 1000)]] :
            w \in NumberWords}
    \cup {[type |-> "int32", word |-> <<p[1], p[2]>>,
           val |-> [num |-> Truncated(NumberOf[p[1]] * Thousandths[p[2]])]] :
            p \in NumberWords \X Units}
    \cup {[type |-> "float", word |-> <<w>>, val |-> [num |-> NumberOf[w] * 1000]] :
            w \in NumberWords}
    \cup {[type |-> "float", word |-> <<p[1], p[2]>>,
           val |-> [num |-> NumberOf[p[1]] * Thousandths[p[2]]]] : p \in NumberWords \X Units}
    \cup {[type |-> "text", word |-> <<"quote">> \o x \o <<"quote">>, val |-> [text |-> x]] :
            x \in Quoted}

Bare(p) == p.type \in {"int32", "float"} /\ Len(p.word) = 1

LEMMA QuotedIs ==
    ASSUME NEW x \in Seq(Letters \ {"quote"}), NEW t \in Texts
    PROVE  /\ (<<"quote">> \o x \o <<"quote">>) \o t = <<"quote">> \o (x \o (<<"quote">> \o t))
           /\ <<"quote">> \o x \o <<"quote">> = <<"quote">> \o (x \o <<"quote">>)
           /\ x \o <<"quote">> \in Texts /\ <<"quote">> \o x \o <<"quote">> \in Texts
<1>1. <<"quote">> \in Seq(Letters) /\ t \in Seq(Letters)
  <2>1. "quote" \in Letters
    BY DEF Letters
  <2> QED BY <2>1 DEF Texts
<1>2. x \in Seq(Letters)
  <2>1. Letters \ {"quote"} \subseteq Letters
    OBVIOUS
  <2> QED BY <2>1, SeqMonotonic
<1> DEFINE q == <<"quote">>
<1> HIDE DEF q
<1>3. q \in Seq(Letters)
  BY <1>1 DEF q
<1>4. q \o x \in Seq(Letters) /\ q \o t \in Seq(Letters) /\ x \o q \in Seq(Letters)
  BY <1>1, <1>2, <1>3, ConcatProperties
<1>5. /\ ((q \o x) \o q) \o t = (q \o x) \o (q \o t)
      /\ (q \o x) \o (q \o t) = q \o (x \o (q \o t))
      /\ (q \o x) \o q = q \o (x \o q)
  <2>1. \A a, b, c \in Seq(Letters) : (a \o b) \o c = a \o (b \o c)
    BY ConcatAssociative
  <2>2. ((q \o x) \o q) \o t = (q \o x) \o (q \o t)
    BY <1>1, <1>3, <1>4, <2>1
  <2>3. (q \o x) \o (q \o t) = q \o (x \o (q \o t))
    BY <1>2, <1>3, <1>4, <2>1
  <2>4. (q \o x) \o q = q \o (x \o q)
    BY <1>2, <1>3, <2>1
  <2> QED BY <2>2, <2>3, <2>4
<1>6. (q \o x) \o q \in Seq(Letters)
  BY <1>3, <1>4, ConcatProperties
<1> QED BY <1>4, <1>5, <1>6 DEF q, Texts

\* Each parser takes its own parameter off the front, returns what was meant and leaves the
\* rest as it is, whatever blanks and commas precede the parameter and whatever text follows,
\* provided it begins with a delimiter and is not taken for the unit of a number
\* (llos.c:1015-1046, 1133-1327).
THEOREM ParameterIsTaken ==
    \A p \in Parameters, s \in Skipped, t \in Texts :
        Ends(t) /\ (Bare(p) => NoUnit(t)) => Param(p, s \o (p.word \o t)) = Got(p.val, t)
<1> SUFFICES ASSUME NEW p \in Parameters, NEW s \in Skipped, NEW t \in Texts, Ends(t),
                    Bare(p) => NoUnit(t)
             PROVE  Param(p, s \o (p.word \o t)) = Got(p.val, t)
  OBVIOUS
<1> DEFINE text == s \o (p.word \o t)
<1>1. ASSUME NEW w \in BoolWords,
             p = [type |-> "bool", word |-> <<w>>, val |-> [bool |-> IsTrue(w)]]
      PROVE  Param(p, text) = Got(p.val, t)
  <2>1. text = s \o (<<w>> \o t) /\ p.type = "bool" /\ p.val = [bool |-> IsTrue(w)]
    BY <1>1
  <2>2. ParamBool(text) = Got([bool |-> IsTrue(w)], t)
    BY <2>1, BoolTaken
  <2> HIDE DEF text
  <2>3. Param(p, text) = ParamBool(text)
    BY <2>1 DEF Param
  <2> QED BY <2>1, <2>2, <2>3
<1>2. ASSUME NEW num, ParamNumber(text) = Got([num |-> num], t), num \in Int
      PROVE  /\ p.type = "int32" => Param(p, text) = Got([num |-> Truncated(num)], t)
             /\ p.type = "float" => Param(p, text) = Got([num |-> num], t)
  <2> HIDE DEF text
  <2>1. ParamInt32(text) = Got([num |-> Truncated(num)], t)
    <3> DEFINE r == ParamNumber(text)
    <3>1. r.ok = TRUE /\ r.val = [num |-> num] /\ r.text = t
      BY <1>2 DEF Got
    <3>2. ParamInt32(text) = IF r.ok THEN Got([num |-> Truncated(r.val.num)], r.text) ELSE r
      BY DEF ParamInt32
    <3> HIDE DEF r
    <3> QED BY <3>1, <3>2
  <2>2. p.type = "int32" => Param(p, text) = ParamInt32(text)
    BY DEF Param
  <2>3. p.type = "float" => Param(p, text) = ParamFloat(text)
    BY DEF Param
  <2> QED BY <1>2, <2>1, <2>2, <2>3 DEF ParamFloat
<1>3. ASSUME NEW w \in NumberWords, p.word = <<w>>, p.type \in {"int32", "float"}
      PROVE  ParamNumber(text) = Got([num |-> NumberOf[w] * 1000], t) /\ NumberOf[w] * 1000 \in Int
  <2>1. text = s \o (<<w>> \o t) /\ Bare(p)
    BY <1>3 DEF Bare
  <2>2. NumberOf[w] * 1000 \in Int
    BY DEF NumberWords, NumberOf
  <2>3. ParamNumber(text) = Got([num |-> NumberOf[w] * 1000], t)
    BY <2>1, NumberTaken
  <2> QED BY <2>2, <2>3
<1>4. ASSUME NEW w \in NumberWords, NEW x \in Units, p.word = <<w, x>>
      PROVE  /\ ParamNumber(text) = Got([num |-> NumberOf[w] * Thousandths[x]], t)
             /\ NumberOf[w] * Thousandths[x] \in Int
  <2>1. text = s \o (<<w, x>> \o t)
    BY <1>4
  <2>2. NumberOf[w] \in Int /\ Thousandths[x] \in Int
    BY DEF NumberWords, NumberOf, Units, Thousandths
  <2>3. ParamNumber(text) = Got([num |-> NumberOf[w] * Thousandths[x]], t)
    BY <2>1, UnitTaken
  <2> QED BY <2>2, <2>3
<1>5. ASSUME NEW x \in Quoted,
             p = [type |-> "text", word |-> <<"quote">> \o x \o <<"quote">>, val |-> [text |-> x]]
      PROVE  Param(p, text) = Got(p.val, t)
  <2>1. x \in Seq(Letters \ {"quote"}) /\ Len(x) <= CopyLen /\ CopyLen \in Nat
    BY DEF Quoted, CopyLen
  <2>2. text = s \o (<<"quote">> \o (x \o (<<"quote">> \o t)))
    BY <1>5, <2>1, QuotedIs
  <2>3. ParamCopyText(text, CopyLen) = Got([text |-> x], t)
    BY <2>1, <2>2, TextTaken
  <2> HIDE DEF text
  <2>4. Param(p, text) = ParamCopyText(text, CopyLen) /\ p.val = [text |-> x]
    BY <1>5 DEF Param
  <2> QED BY <2>3, <2>4
<1> HIDE DEF text
<1>6. CASE \E w \in BoolWords : p = [type |-> "bool", word |-> <<w>>, val |-> [bool |-> IsTrue(w)]]
  BY <1>1, <1>6 DEF text
<1>7. CASE \E w \in NumberWords :
             \/ p = [type |-> "int32", word |-> <<w>>,
                     val |-> [num |-> Truncated(NumberOf[w] * 1000)]]
             \/ p = [type |-> "float", word |-> <<w>>, val |-> [num |-> NumberOf[w] * 1000]]
  <2>1. PICK w \in NumberWords :
             \/ p = [type |-> "int32", word |-> <<w>>,
                     val |-> [num |-> Truncated(NumberOf[w] * 1000)]]
             \/ p = [type |-> "float", word |-> <<w>>, val |-> [num |-> NumberOf[w] * 1000]]
    BY <1>7
  <2> DEFINE num == NumberOf[w] * 1000
  <2> HIDE DEF num
  <2>2. /\ p.word = <<w>> /\ p.type \in {"int32", "float"}
        /\ p.type = "int32" => p.val = [num |-> Truncated(num)]
        /\ p.type = "float" => p.val = [num |-> num]
    BY <2>1 DEF num
  <2>3. ParamNumber(text) = Got([num |-> num], t) /\ num \in Int
    BY <1>3, <2>2 DEF num
  <2>4. /\ p.type = "int32" => Param(p, text) = Got([num |-> Truncated(num)], t)
        /\ p.type = "float" => Param(p, text) = Got([num |-> num], t)
    BY <1>2, <2>3
  <2> QED BY <2>2, <2>4 DEF text
<1>8. CASE \E w \in NumberWords, x \in Units :
             \/ p = [type |-> "int32", word |-> <<w, x>>,
                     val |-> [num |-> Truncated(NumberOf[w] * Thousandths[x])]]
             \/ p = [type |-> "float", word |-> <<w, x>>,
                     val |-> [num |-> NumberOf[w] * Thousandths[x]]]
  <2>1. PICK w \in NumberWords, x \in Units :
             \/ p = [type |-> "int32", word |-> <<w, x>>,
                     val |-> [num |-> Truncated(NumberOf[w] * Thousandths[x])]]
             \/ p = [type |-> "float", word |-> <<w, x>>,
                     val |-> [num |-> NumberOf[w] * Thousandths[x]]]
    BY <1>8
  <2> DEFINE num == NumberOf[w] * Thousandths[x]
  <2> HIDE DEF num
  <2>2. /\ p.word = <<w, x>> /\ p.type \in {"int32", "float"}
        /\ p.type = "int32" => p.val = [num |-> Truncated(num)]
        /\ p.type = "float" => p.val = [num |-> num]
    BY <2>1 DEF num
  <2>3. ParamNumber(text) = Got([num |-> num], t) /\ num \in Int
    BY <1>4, <2>2 DEF num
  <2>4. /\ p.type = "int32" => Param(p, text) = Got([num |-> Truncated(num)], t)
        /\ p.type = "float" => Param(p, text) = Got([num |-> num], t)
    BY <1>2, <2>3
  <2> QED BY <2>2, <2>4 DEF text
<1>9. CASE \E x \in Quoted : p = [type |-> "text", word |-> <<"quote">> \o x \o <<"quote">>,
                                  val |-> [text |-> x]]
  BY <1>5, <1>9 DEF text
<1> QED BY <1>6, <1>7, <1>8, <1>9 DEF Parameters

\* No parameter begins like a separator, a unit or, unless it is that word, like FALSE.
LEMMA WordStarts ==
    ASSUME NEW p \in Parameters
    PROVE  /\ p.word \in Texts /\ p.word # <<>>
           /\ p.word[1] \notin Blanks \cup Units
           /\ p.word[1] = "FALSE" => p.word = <<"FALSE">>
<1>1. /\ \A w \in BoolWords \cup NumberWords : w \in Letters /\ w \notin Blanks \cup Units
      /\ \A w \in NumberWords : w # "FALSE"
      /\ Units \subseteq Letters
      /\ "quote" \in Letters /\ "quote" \notin Blanks \cup Units /\ "quote" # "FALSE"
  BY DEF BoolWords, NumberWords, Letters, Blanks, Units
<1>2. ASSUME NEW w \in BoolWords \cup NumberWords, p.word = <<w>>
      PROVE  /\ p.word \in Texts /\ p.word # <<>> /\ p.word[1] = w
  BY <1>1, <1>2 DEF Texts
<1>3. ASSUME NEW w \in NumberWords, NEW x \in Units, p.word = <<w, x>>
      PROVE  /\ p.word \in Texts /\ p.word # <<>> /\ p.word[1] = w
  <2>1. w \in Letters /\ x \in Letters
    BY <1>1
  <2> QED BY <1>3, <2>1 DEF Texts
<1>4. ASSUME NEW x \in Quoted, p.word = <<"quote">> \o x \o <<"quote">>
      PROVE  /\ p.word \in Texts /\ p.word # <<>> /\ p.word[1] = "quote"
  <2>1. x \in Seq(Letters \ {"quote"}) /\ <<>> \in Texts
    BY EmptySeq DEF Quoted, Texts
  <2>2. p.word = <<"quote">> \o (x \o <<"quote">>) /\ x \o <<"quote">> \in Texts
    BY <1>4, <2>1, QuotedIs
  <2> DEFINE y == x \o <<"quote">>
  <2> HIDE DEF y
  <2>3. p.word = <<"quote">> \o y /\ y \in Texts
    BY <2>2 DEF y
  <2> QED BY <1>1, <2>3, InFront
<1>5. \/ \E w \in BoolWords \cup NumberWords : p.word = <<w>>
      \/ \E w \in NumberWords, x \in Units : p.word = <<w, x>>
      \/ \E x \in Quoted : p.word = <<"quote">> \o x \o <<"quote">>
  BY DEF Parameters
<1>6. CASE \E w \in BoolWords \cup NumberWords : p.word = <<w>>
  BY <1>1, <1>2, <1>6
<1>7. CASE \E w \in NumberWords, x \in Units : p.word = <<w, x>>
  BY <1>1, <1>3, <1>7
<1>8. CASE \E x \in Quoted : p.word = <<"quote">> \o x \o <<"quote">>
  BY <1>1, <1>4, <1>8
<1> QED BY <1>5, <1>6, <1>7, <1>8

\* A parameter is taken if a separator and another one follow, and what follows is left.
LEMMA NextIsLeft ==
    ASSUME NEW p \in Parameters, NEW q \in Parameters, ~Ambiguous(p, q),
           NEW s \in Skipped, NEW sep \in Skipped \ {<<>>}, NEW r \in Texts
    PROVE  /\ sep \o (q.word \o r) \in Texts
           /\ Param(p, s \o (p.word \o (sep \o (q.word \o r)))) = Got(p.val, sep \o (q.word \o r))
<1> DEFINE u == q.word \o r
           t == sep \o u
<1>1. /\ q.word \in Texts /\ q.word # <<>> /\ q.word[1] \notin Blanks \cup Units
      /\ q.word[1] = "FALSE" => q.word = <<"FALSE">>
  BY WordStarts
<1>2. Len(q.word) > 0 /\ Len(sep) > 0 /\ Len(q.word) \in Nat /\ Len(sep) \in Nat
  BY <1>1, EmptySeq DEF Texts, Skipped
<1>3. sep \in Texts /\ sep[1] \in Blanks
  <2>1. sep \in Seq(Blanks) /\ 1 \in 1 .. Len(sep)
    BY <1>2 DEF Skipped
  <2> QED BY <2>1, SkippedText, ElementOfSeq
<1>4. u \in Texts /\ u[1] = q.word[1] /\ u # <<>>
  <2>1. u \in Texts /\ Len(u) = Len(q.word) + Len(r) /\ Len(r) \in Nat
        /\ \A i \in 1 .. Len(q.word) : u[i] = q.word[i]
    BY <1>1, Parts
  <2>2. Len(u) # 0
    BY <1>2, <2>1
  <2> QED BY <1>2, <2>1, <2>2, EmptySeq
<1> HIDE DEF u
<1>5. t \in Texts /\ t[1] = sep[1] /\ t # <<>>
  <2>1. t \in Texts /\ Len(t) = Len(sep) + Len(u) /\ Len(u) \in Nat
        /\ \A i \in 1 .. Len(sep) : t[i] = sep[i]
    BY <1>3, <1>4, Parts
  <2>2. Len(t) # 0
    BY <1>2, <2>1
  <2> QED BY <1>2, <2>1, <2>2, EmptySeq
<1>6. Trim(t) = u
  BY <1>1, <1>4, TrimIs
<1> HIDE DEF t
<1>7. Ends(t)
  <2>1. Head(t) = t[1]
    BY <1>5 DEF Texts
  <2> QED BY <1>3, <1>5, <2>1 DEF Ends, Delimiters, Blanks
<1>8. Bare(p) => NoUnit(t)
  <2> SUFFICES ASSUME Bare(p) PROVE NoUnit(t)
    OBVIOUS
  <2>1. Head(u) = q.word[1]
    BY <1>4 DEF Texts
  <2>2. q.word # <<"FALSE">>
    BY DEF Bare, Ambiguous
  <2> QED BY <1>1, <1>6, <2>1, <2>2 DEF NoUnit
<1>9. Param(p, s \o (p.word \o t)) = Got(p.val, t)
  BY <1>5, <1>7, <1>8, ParameterIsTaken
<1> QED BY <1>5, <1>9 DEF t, u

\* The parsers, called one after the other, return three parameters of any types and values,
\* with any number of blanks and commas between them, and leave nothing over, unless a
\* number without a unit is followed by FALSE, whose F is taken for farad
\* (llos.c:1015-1046, 1133-1327).
THEOREM ThreeComeBack ==
    \A p1, p2, p3 \in Parameters, sep \in Skipped \ {<<>>} :
        ~Ambiguous(p1, p2) /\ ~Ambiguous(p2, p3) => ComeBack(p1, p2, p3, sep)
<1> SUFFICES ASSUME NEW p1 \in Parameters, NEW p2 \in Parameters, NEW p3 \in Parameters,
                    NEW sep \in Skipped \ {<<>>}, ~Ambiguous(p1, p2), ~Ambiguous(p2, p3)
             PROVE  ComeBack(p1, p2, p3, sep)
  OBVIOUS
<1> DEFINE t3 == sep \o (p3.word \o <<>>)
           t2 == sep \o (p2.word \o t3)
           first == Param(p1, Written(p1, p2, p3, sep))
           second == Param(p2, first.text)
           third == Param(p3, second.text)
<1>1. /\ p1.word \in Texts /\ p2.word \in Texts /\ p3.word \in Texts /\ sep \in Texts
      /\ <<>> \in Texts /\ <<>> \in Skipped
  BY WordStarts, SkippedText, EmptySeq DEF Texts, Skipped
<1>2. t3 \in Texts /\ Param(p2, sep \o (p2.word \o t3)) = Got(p2.val, t3)
  <2> DEFINE none == <<>>
  <2>1. sep \in Skipped /\ none \in Texts
    BY <1>1
  <2> HIDE DEF none
  <2> DEFINE u == sep \o (p3.word \o none)
  <2>2. u \in Texts /\ Param(p2, sep \o (p2.word \o u)) = Got(p2.val, u)
    BY <2>1, NextIsLeft
  <2>3. u = t3
    BY DEF none, t3
  <2> HIDE DEF u
  <2> QED BY <2>2, <2>3
<1> HIDE DEF t3
<1>3. t2 \in Texts /\ Param(p1, <<>> \o (p1.word \o t2)) = Got(p1.val, t2)
  <2> DEFINE none == <<>>
  <2>1. none \in Skipped
    BY <1>1
  <2> HIDE DEF none
  <2>2. t2 \in Texts /\ Param(p1, none \o (p1.word \o t2)) = Got(p1.val, t2)
    BY <1>2, <2>1, NextIsLeft
  <2> QED BY <2>2 DEF none
<1>4. Written(p1, p2, p3, sep) = <<>> \o (p1.word \o t2)
  <2> DEFINE a == p1.word
             b == p2.word
             c == p3.word
  <2>1. a \in Seq(Letters) /\ b \in Seq(Letters) /\ c \in Seq(Letters) /\ sep \in Seq(Letters)
    BY <1>1 DEF Texts
  <2>2. Written(p1, p2, p3, sep) = (((a \o sep) \o b) \o sep) \o c
    BY DEF Written
  <2> HIDE DEF a, b, c
  <2>3. \A x, y \in Seq(Letters) : x \o y \in Seq(Letters)
    BY ConcatProperties
  <2>4. \A x, y, z \in Seq(Letters) : (x \o y) \o z = x \o (y \o z)
    BY ConcatAssociative
  <2>5. \A x \in Seq(Letters) : x \o <<>> = x /\ <<>> \o x = x
    BY ConcatEmptySeq
  <2>6. (((a \o sep) \o b) \o sep) \o c = ((a \o sep) \o b) \o (sep \o c)
    BY <2>1, <2>3, <2>4
  <2>7. ((a \o sep) \o b) \o (sep \o c) = (a \o sep) \o (b \o (sep \o c))
    <3>1. a \o sep \in Seq(Letters) /\ sep \o c \in Seq(Letters)
      BY <2>1, <2>3
    <3> DEFINE x == a \o sep
               y == sep \o c
    <3> HIDE DEF x, y
    <3>2. x \in Seq(Letters) /\ y \in Seq(Letters)
      BY <3>1 DEF x, y
    <3>3. b \in Seq(Letters)
      BY <2>1
    <3>4. (x \o b) \o y = x \o (b \o y)
      BY <2>4, <3>2, <3>3
    <3> QED BY <3>4 DEF x, y
  <2>8. (a \o sep) \o (b \o (sep \o c)) = a \o (sep \o (b \o (sep \o c)))
    <3>1. b \o (sep \o c) \in Seq(Letters)
      BY <2>1, <2>3
    <3> DEFINE y == b \o (sep \o c)
    <3> HIDE DEF y
    <3>2. y \in Seq(Letters)
      BY <3>1 DEF y
    <3>3. (a \o sep) \o y = a \o (sep \o y)
      BY <2>1, <2>4, <3>2
    <3> QED BY <3>3 DEF y
  <2>9. /\ <<>> \o (a \o (sep \o (b \o (sep \o c)))) = a \o (sep \o (b \o (sep \o c)))
        /\ c \o <<>> = c
    BY <2>1, <2>3, <2>5
  <2> QED BY <2>2, <2>6, <2>7, <2>8, <2>9 DEF t3, a, b, c
<1> HIDE DEF t2
<1>5. first = Got(p1.val, t2)
  BY <1>3, <1>4
<1> HIDE DEF first
<1>6. first.ok = TRUE /\ first.val = p1.val /\ first.text = t2
  BY <1>5 DEF Got
<1>7. second = Got(p2.val, t3)
  <2>1. sep \in Skipped
    OBVIOUS
  <2> QED BY <1>2, <1>6, <2>1 DEF t2
<1> HIDE DEF second
<1>8. second.ok = TRUE /\ second.val = p2.val /\ second.text = t3
  BY <1>7 DEF Got
<1>9. third = Got(p3.val, <<>>)
  <2>1. Ends(<<>>) /\ NoUnit(<<>>) /\ sep \in Skipped
    <3>1. Trim(<<>> \o <<>>) = <<>>
      BY <1>1, TrimIs
    <3>2. <<>> \o <<>> = <<>>
      BY <1>1, ConcatEmptySeq DEF Texts
    <3>3. Trim(<<>>) = <<>>
      BY <3>1, <3>2
    <3> QED BY <3>3 DEF Ends, NoUnit
  <2>2. Param(p3, sep \o (p3.word \o <<>>)) = Got(p3.val, <<>>)
    BY <1>1, <2>1, ParameterIsTaken
  <2> QED BY <1>8, <2>2 DEF t3
<1> HIDE DEF third
<1>10. third.ok = TRUE /\ third.val = p3.val /\ third.text = <<>>
  BY <1>9 DEF Got
<1> QED BY <1>6, <1>8, <1>10 DEF ComeBack, first, second, third

LEMMA MeantAreParameters == Meant \subseteq Parameters
<1>1. /\ \A w \in NumberWords : Truncated(NumberOf[w] * 1000) = NumberOf[w]
      /\ \A w \in {"1", "-2"} : Truncated(NumberOf[w] * Thousandths["kA"]) = NumberOf[w] * 1000
      /\ \A w \in {"15", "-2"} : NumberOf[w] * Thousandths["mA"] = NumberOf[w]
  BY DEF NumberWords, NumberOf, Truncated, Thousandths, Units
<1>2. \A w \in {"1", "-2", "15"} : w \in NumberWords
  BY DEF NumberWords
<1>3. "kA" \in Units /\ "mA" \in Units
  BY DEF Units
<1>4. {<<>>, <<"comma">>, <<"1", "TRUE">>} \subseteq Quoted
  <2>1. {"comma", "1", "TRUE"} \subseteq Letters \ {"quote"}
    BY DEF Letters, Delimiters, NumberWords, BoolWords
  <2>2. /\ <<>> \in Seq(Letters \ {"quote"}) /\ <<"comma">> \in Seq(Letters \ {"quote"})
        /\ <<"1", "TRUE">> \in Seq(Letters \ {"quote"})
        /\ Len(<<>>) = 0 /\ Len(<<"comma">>) = 1 /\ Len(<<"1", "TRUE">>) = 2
    BY <2>1
  <2> QED BY <2>2 DEF Quoted, CopyLen
<1> SUFFICES ASSUME NEW p \in Meant PROVE p \in Parameters
  OBVIOUS
<1>5. CASE p \in {[type |-> "bool", word |-> <<w>>, val |-> [bool |-> IsTrue(w)]] : w \in BoolWords}
  BY <1>5 DEF Parameters
<1>6. CASE p \in {[type |-> "int32", word |-> <<w>>, val |-> [num |-> NumberOf[w]]] :
                     w \in NumberWords}
  BY <1>1, <1>6 DEF Parameters
<1>7. CASE p \in {[type |-> "int32", word |-> <<w, "kA">>, val |-> [num |-> NumberOf[w] * 1000]] :
                     w \in {"1", "-2"}}
  <2>1. PICK w \in {"1", "-2"} :
          p = [type |-> "int32", word |-> <<w, "kA">>,
               val |-> [num |-> Truncated(NumberOf[w] * Thousandths["kA"])]]
    BY <1>1, <1>7
  <2> DEFINE at == <<w, "kA">>
  <2>2. at \in NumberWords \X Units /\ at[1] = w /\ at[2] = "kA"
    BY <1>2, <1>3
  <2>3. p = [type |-> "int32", word |-> <<at[1], at[2]>>,
             val |-> [num |-> Truncated(NumberOf[at[1]] * Thousandths[at[2]])]]
    BY <2>1
  <2> HIDE DEF at
  <2> QED BY <2>2, <2>3 DEF Parameters
<1>8. CASE p \in {[type |-> "float", word |-> <<w, "mA">>, val |-> [num |-> NumberOf[w]]] :
                     w \in {"15", "-2"}}
  <2>1. PICK w \in {"15", "-2"} :
          p = [type |-> "float", word |-> <<w, "mA">>,
               val |-> [num |-> NumberOf[w] * Thousandths["mA"]]]
    BY <1>1, <1>8
  <2> DEFINE at == <<w, "mA">>
  <2>2. at \in NumberWords \X Units /\ at[1] = w /\ at[2] = "mA"
    BY <1>2, <1>3
  <2>3. p = [type |-> "float", word |-> <<at[1], at[2]>>,
             val |-> [num |-> NumberOf[at[1]] * Thousandths[at[2]]]]
    BY <2>1
  <2> HIDE DEF at
  <2> QED BY <2>2, <2>3 DEF Parameters
<1>9. CASE p \in {[type |-> "text", word |-> <<"quote">> \o s \o <<"quote">>,
                   val |-> [text |-> s]] :
                     s \in {<<>>, <<"comma">>, <<"1", "TRUE">>}}
  BY <1>4, <1>9 DEF Parameters
<1> QED BY <1>5, <1>6, <1>7, <1>8, <1>9 DEF Meant

\* What TLC checks of the parsers: the parameters of Meant come back as they were written
\* (llos.c:1015-1046, 1133-1327).
THEOREM ParametersAreRead == ConsoleSpec => []ParamsComeBack
<1>1. Separators \subseteq Skipped \ {<<>>}
  <2>1. "comma" \in Blanks /\ "space" \in Blanks
    BY DEF Blanks
  <2>2. /\ <<"comma">> \in Seq(Blanks) /\ <<"space">> \in Seq(Blanks)
        /\ <<"comma", "space">> \in Seq(Blanks)
        /\ <<"comma">> # <<>> /\ <<"space">> # <<>> /\ <<"comma", "space">> # <<>>
    BY <2>1
  <2> QED BY <2>2 DEF Separators, Skipped
<1>2. ParamsComeBack
  BY <1>1, MeantAreParameters, ThreeComeBack DEF ParamsComeBack
<1> QED BY <1>2, PTL
=============================================================================
