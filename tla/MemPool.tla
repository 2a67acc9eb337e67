------------------------------- MODULE MemPool -------------------------------
(***************************************************************************)
(* The memory pool of LLOS (kernel/llos.c: LLOS_malloc, LLOS_free and      *)
(* LLOS_Pool_GetUsedSize): first fit in an array of 32-bit words, with the *)
(* allocation table kept in the array itself.  A block is a header word,   *)
(* 0xcd <length> 0xac, followed by its payload; any word that looks like a *)
(* header is taken for one wherever a scan meets it.                       *)
(*                                                                         *)
(* The main program runs the three functions one loop iteration at a time. *)
(* Between two iterations an interrupt may write anything, headers         *)
(* included, into the payload of a block that is in use.                   *)
(***************************************************************************)
EXTENDS Integers, FiniteSets

CONSTANTS
    PoolWords,  \* poolSize >> 2
    MaxLen      \* largest length a header holds; 0xFFFF in the code

ASSUME PoolAssumption == PoolWords \in Nat \ {0, 1} /\ MaxLen \in Nat \ {0}

Addr  == 0 .. PoolWords - 1
Plain == -1                     \* a word without the 0xcd..ac pattern
Word  == {Plain} \cup 0 .. MaxLen   \* or a header pattern, by its length field

VARIABLES
    mem,    \* the pool
    pc,     \* the function the main program is in, or "idle"
    head,   \* head of LLOS_malloc, LLOS_free and LLOS_Pool_GetUsedSize
    next,   \* next of LLOS_malloc; i of LLOS_free's clearing loop
    words,  \* words of LLOS_malloc; size of LLOS_free
    scan,   \* scan of LLOS_free
    used,   \* used of LLOS_Pool_GetUsedSize
    size    \* history: payload words of the block the program owns at this header, or 0

vars == <<mem, pc, head, next, words, scan, used, size>>

\* LLOS_Init zeroes the pool before it allocates.
Init ==
    /\ mem = [a \in Addr |-> Plain]
    /\ pc = "idle"
    /\ head = 0 /\ next = 0 /\ words = 0 /\ scan = 0 /\ used = 0
    /\ size = [a \in Addr |-> 0]

IsHeader(a) == mem[a] # Plain
Corrupt(a) == mem[a] = 0 \/ a + mem[a] + 1 > PoolWords

Idle == pc' = "idle" /\ head' = 0 /\ next' = 0 /\ words' = 0 /\ scan' = 0 /\ used' = 0

-----------------------------------------------------------------------------
(* LLOS_malloc of w words, after rounding the byte size up. *)

\* In the code a request that fits the pool, of uint16_t bytes, never exceeds 0xFFFF words: the
\* last conjunct refuses nothing there, and refuses here only what MaxLen < PoolWords lets through.
Request(w) == w > 0 /\ w + 1 <= PoolWords /\ w <= MaxLen

Malloc(w) ==
    /\ pc = "idle"
    /\ Request(w)
    /\ pc' = "malloc" /\ head' = 0 /\ words' = w
    /\ UNCHANGED <<mem, next, scan, used, size>>

PastBlock_header(a) == a + mem[a]      \* mutant: the header word is forgotten
PastBlock(a) == a + mem[a] + 1

FitsAt_tight(a) == a + words + 1 < PoolWords    \* mutant: the last word is never used
FitsAt(a) == a + words + 1 <= PoolWords

\* skip an allocated block, or give up on a corrupt header
MallocSkip ==
    /\ pc = "malloc" /\ FitsAt(head) /\ IsHeader(head)
    /\ IF Corrupt(head)
       THEN Idle
       ELSE head' = PastBlock(head) /\ UNCHANGED <<pc, next, words, scan, used>>
    /\ UNCHANGED <<mem, size>>

MallocProbe ==
    /\ pc = "malloc" /\ FitsAt(head) /\ ~IsHeader(head)
    /\ pc' = "probe" /\ next' = head + 1
    /\ UNCHANGED <<mem, head, words, scan, used, size>>

ProbeNext ==
    /\ pc = "probe" /\ next < head + words + 1 /\ ~IsHeader(next)
    /\ next' = next + 1
    /\ UNCHANGED <<mem, pc, head, words, scan, used, size>>

\* the gap is too small: go on at the block that ends it
ProbeHit ==
    /\ pc = "probe" /\ next < head + words + 1 /\ IsHeader(next)
    /\ pc' = "malloc" /\ head' = next /\ next' = 0
    /\ UNCHANGED <<mem, words, scan, used, size>>

\* a gap of words + 1: write the header, return head + 1
MallocFit ==
    /\ pc = "probe" /\ next = head + words + 1
    /\ mem' = [mem EXCEPT ![head] = words]
    /\ size' = [size EXCEPT ![head] = words]
    /\ Idle

MallocFull ==
    /\ pc = "malloc" /\ ~FitsAt(head)
    /\ Idle
    /\ UNCHANGED <<mem, size>>

-----------------------------------------------------------------------------
(* LLOS_free(p) for a word-aligned p inside the pool; it ignores any other p. *)

Free(p) ==
    /\ pc = "idle"
    /\ p \in 1 .. PoolWords - 1
    /\ pc' = "free" /\ head' = p - 1 /\ scan' = 0
    /\ UNCHANGED <<mem, next, words, used, size>>

FreeSkip ==
    /\ pc = "free" /\ scan < PoolWords /\ scan # head
    /\ IF ~IsHeader(scan) THEN scan' = scan + 1 /\ UNCHANGED <<pc, head, next, words, used>>
       ELSE IF Corrupt(scan) THEN Idle
       ELSE scan' = PastBlock(scan) /\ UNCHANGED <<pc, head, next, words, used>>
    /\ UNCHANGED <<mem, size>>

\* the scan has come to the word before p
Accepts_any == TRUE                      \* mutant: no header is required there
Accepts == IsHeader(scan) /\ ~Corrupt(scan)

FreeFound ==
    /\ pc = "free" /\ scan = head
    /\ IF Accepts
       THEN pc' = "zero" /\ next' = 0 /\ words' = mem[scan] /\ UNCHANGED <<head, scan, used>>
       ELSE IF IsHeader(scan) THEN Idle
       ELSE scan' = scan + 1 /\ UNCHANGED <<pc, head, next, words, used>>
    /\ UNCHANGED <<mem, size>>

FreeReject ==
    /\ pc = "free" /\ scan >= PoolWords
    /\ Idle
    /\ UNCHANGED <<mem, size>>

\* for (i = 0; i <= size; i++) scan[i] = 0
LastCleared == words

Zero ==
    /\ pc = "zero"
    /\ mem' = [mem EXCEPT ![scan + next] = Plain]
    /\ size' = [size EXCEPT ![scan] = 0]
    /\ IF next = LastCleared
       THEN Idle
       ELSE next' = next + 1 /\ UNCHANGED <<pc, head, words, scan, used>>

-----------------------------------------------------------------------------
(* LLOS_Pool_GetUsedSize *)

GetUsedSize ==
    /\ pc = "idle"
    /\ pc' = "count" /\ head' = 0 /\ used' = 0
    /\ UNCHANGED <<mem, next, words, scan, size>>

BlockUse_payload(a) == mem[a]    \* mutant: headers are not counted
BlockUse(a) == mem[a] + 1

CountStep ==
    /\ pc = "count" /\ head < PoolWords
    /\ IF ~IsHeader(head) THEN head' = head + 1 /\ UNCHANGED <<pc, next, words, scan, used>>
       ELSE IF Corrupt(head) THEN Idle
       ELSE /\ used' = used + BlockUse(head) /\ head' = PastBlock(head)
            /\ UNCHANGED <<pc, next, words, scan>>
    /\ UNCHANGED <<mem, size>>

CountEnd ==
    /\ pc = "count" /\ head >= PoolWords
    /\ Idle
    /\ UNCHANGED <<mem, size>>

-----------------------------------------------------------------------------
(* The program writes word w at offset k of a block it owns. *)

AppWrite(a, k, w) ==
    /\ k \in 1 .. size[a]
    /\ ~(pc \in {"free", "zero"} /\ head = a)   \* not into what it is freeing
    /\ mem' = [mem EXCEPT ![a + k] = w]
    /\ UNCHANGED <<pc, head, next, words, scan, used, size>>

Next ==
    \/ \E w \in 1 .. PoolWords : Malloc(w)
    \/ MallocSkip \/ MallocProbe \/ ProbeNext \/ ProbeHit \/ MallocFit \/ MallocFull
    \/ \E p \in 1 .. PoolWords - 1 : Free(p)
    \/ FreeSkip \/ FreeFound \/ FreeReject \/ Zero
    \/ GetUsedSize \/ CountStep \/ CountEnd
    \/ \E a \in Addr, k \in 1 .. MaxLen, w \in Word : AppWrite(a, k, w)

Spec == Init /\ [][Next]_vars

-----------------------------------------------------------------------------
(* Properties. *)

\* The block the program owns at header a, as a set of addresses.
Block(a) == a .. a + size[a]
Owned(a) == size[a] > 0
InUse(x) == \E a \in Addr : Owned(a) /\ x \in Block(a)

\* Every variable keeps the type its C declaration gives it.
TypeOK ==
    /\ mem \in [Addr -> Word]
    /\ pc \in {"idle", "malloc", "probe", "free", "zero", "count"}
    /\ head \in Nat /\ next \in Nat /\ scan \in Nat /\ used \in Nat
    /\ words \in 0 .. MaxLen
    /\ size \in [Addr -> 0 .. MaxLen]

\* Blocks the program owns lie inside the pool, do not overlap, and keep the header
\* LLOS_malloc wrote, whatever the program writes into payloads and whatever it
\* passes to LLOS_free (llos.c:670-691, 719-740).
BlocksIntact ==
    \A a \in Addr : Owned(a) =>
        /\ a + size[a] < PoolWords
        /\ mem[a] = size[a]
        /\ \A b \in Addr : Owned(b) /\ b # a => Block(a) \cap Block(b) = {}

\* What LLOS_free still has to clear of the block it is freeing.
Clearing(x) == pc = "zero" /\ x \in scan + next .. scan + words

\* No stray header: outside the payloads, a word that looks like a header is one.
\* This is why LLOS_free clears the whole block (llos.c:733-734).
NoStrayHeader == \A x \in Addr : IsHeader(x) => InUse(x) \/ Clearing(x)

\* LLOS_malloc returns NULL only when no run of words + 1 words is free: first fit
\* overlooks no gap and never takes a live block for a corrupt one (llos.c:671-689).
FreeRun(a, n) == a + n <= PoolWords /\ \A x \in a .. a + n - 1 : ~InUse(x)
NullOnlyWhenFull ==
    [][pc = "malloc" /\ pc' = "idle" => ~\E a \in Addr : FreeRun(a, words + 1)]_vars

\* LLOS_free frees exactly the blocks in use: a pointer is accepted if and only if
\* LLOS_malloc returned it and it was not freed since (llos.c:719-742).
FreeIsExact ==
    [][pc = "free" /\ pc' # "free" => (pc' = "zero" <=> Owned(head))]_vars

\* LLOS_Pool_GetUsedSize returns the words of all blocks in use, headers included
\* (llos.c:749-761).
UsedIsExact ==
    [][pc = "count" /\ pc' = "idle" => used = Cardinality({x \in Addr : InUse(x)})]_vars

=============================================================================
