-------------------------------- MODULE Fifo --------------------------------
(***************************************************************************)
(* The byte ring of component/llos_fifo.c between the main program and an  *)
(* interrupt: each of LLOS_FIFO_Input and LLOS_FIFO_Output is called from  *)
(* one of them (in the FIFO demo the main program inputs and a key         *)
(* callback, which runs in the tick interrupt, outputs).                   *)
(*                                                                         *)
(* pHead and pEnd run freely and wrap at 2^32; their difference is the     *)
(* number of bytes inside.  The main program may be interrupted between    *)
(* any two accesses; an interrupt's call is one step.                      *)
(***************************************************************************)
EXTENDS Integers, Sequences

CONSTANTS
    Size,        \* fifo->size, a power of two
    Wrap,        \* at which the counters wrap: 2^32, a larger power of two
    Bytes,       \* values of a byte, 0 among them
    Roles,       \* who inputs and who outputs: records of "main" or "isr"
    MaxLen,      \* bound: bytes per call
    ClearAlone   \* does the program keep interrupts away while it clears?

ASSUME SizeAssumption == Size \in Nat \ {0} /\ Wrap \in Nat /\ Wrap > Size /\ Wrap % Size = 0
ASSUME CallerAssumption ==
    /\ 0 \in Bytes /\ MaxLen \in Nat \ {0} /\ ClearAlone \in BOOLEAN
    /\ Roles \subseteq [input : {"main", "isr"}, output : {"main", "isr"}]

Lengths == 1 .. MaxLen
Data == UNION {[1 .. len -> Bytes] : len \in Lengths}

VARIABLES
    pHead, pEnd, buffer,
    roles,   \* who calls what, for good
    pc,      \* the access the main program makes next, or "idle"
    data,    \* LLOS_FIFO_Input: the bytes it has still to store
    left,    \* LLOS_FIFO_Output: how many it has still to read
    reg,     \* the byte, or the counter, just read
    seen,    \* history: bytes inside when LLOS_FIFO_Get_UsedSize began
    io       \* history: the last transfer

ring == <<pHead, pEnd, buffer>>
main == <<pc, data, left, reg>>
vars == <<ring, roles, main, seen, io>>

\* LLOS_FIFO_Init
Init ==
    /\ pHead = 0 /\ pEnd = 0 /\ buffer = [a \in 0 .. Size - 1 |-> 0]
    /\ roles \in Roles
    /\ pc = "idle" /\ data = <<>> /\ left = 0 /\ reg = 0
    /\ seen = 0 /\ io = [way |-> "none", bytes |-> <<>>]

Plus(counter, n) == (counter + n) % Wrap
Minus(a, b) == (a - b) % Wrap

Used == Minus(pEnd, pHead)

Available_one == Size - Used + 1              \* mutant: one byte too many
Available == IF Used > Size THEN 0 ELSE Size - Used

At_size(counter) == counter % (Size - 1)      \* mutant: the mask is off by one
At(counter) == counter % Size

-----------------------------------------------------------------------------
(* LLOS_FIFO_Input and LLOS_FIFO_Output in the main program. The side that    *)
(* calls is the only one that changes its counter, so the check of the room   *)
(* has one access that matters: the other side's counter.                     *)

Smaller(a, b) == IF a < b THEN a ELSE b   \* LL_MIN

Room(s) == Smaller(Len(s), Available)
Stock(len) == Smaller(len, Used)

Input(s) ==
    /\ pc = "idle" /\ roles.input = "main" /\ Room(s) > 0
    /\ data' = SubSeq(s, 1, Room(s))
    /\ pc' = "store"
    /\ UNCHANGED <<ring, roles, left, reg, seen, io>>

Store ==
    /\ pc = "store"
    /\ buffer' = [buffer EXCEPT ![At(pEnd)] = Head(data)]
    /\ pc' = "advanceEnd"
    /\ UNCHANGED <<pHead, pEnd, roles, data, left, reg, seen, io>>

AdvanceEnd ==
    /\ pc = "advanceEnd"
    /\ pEnd' = Plus(pEnd, 1)
    /\ data' = Tail(data)
    /\ pc' = IF Tail(data) = <<>> THEN "idle" ELSE "store"
    /\ io' = [way |-> "in", bytes |-> <<Head(data)>>]
    /\ UNCHANGED <<pHead, buffer, roles, left, reg, seen>>

Output(len) ==
    /\ pc = "idle" /\ roles.output = "main" /\ Stock(len) > 0
    /\ left' = Stock(len)
    /\ pc' = "load"
    /\ UNCHANGED <<ring, roles, data, reg, seen, io>>

LoadByte ==
    /\ pc = "load"
    /\ reg' = buffer[At(pHead)]
    /\ pc' = "advanceHead"
    /\ UNCHANGED <<ring, roles, data, left, seen, io>>

AdvanceHead ==
    /\ pc = "advanceHead"
    /\ pHead' = Plus(pHead, 1)
    /\ left' = left - 1 /\ reg' = 0
    /\ pc' = IF left = 1 THEN "idle" ELSE "load"
    /\ io' = [way |-> "out", bytes |-> <<reg>>]
    /\ UNCHANGED <<pEnd, buffer, roles, data, seen>>

-----------------------------------------------------------------------------
(* LLOS_FIFO_Get_UsedSize and LLOS_FIFO_Get_AvailableSize in the main program: *)
(* the compiler chooses which counter is read first.                          *)

GetUsedSize ==
    /\ pc = "idle"
    /\ \/ pc' = "readHead" /\ reg' = pEnd
       \/ pc' = "readEnd" /\ reg' = pHead
    /\ seen' = Used
    /\ UNCHANGED <<ring, roles, data, left, io>>

UsedSize_swapped == IF pc = "readHead" THEN Minus(pHead, reg) ELSE Minus(reg, pEnd)   \* mutant
UsedSize == IF pc = "readHead" THEN Minus(reg, pHead) ELSE Minus(pEnd, reg)

SizeReturn ==
    /\ pc \in {"readHead", "readEnd"}
    /\ pc' = "idle" /\ reg' = 0 /\ seen' = 0
    /\ UNCHANGED <<ring, roles, data, left, io>>

-----------------------------------------------------------------------------
(* LLOS_FIFO_Clear: pHead, then pEnd, then the buffer.                        *)

Clear ==
    /\ pc = "idle"
    /\ pHead' = 0 /\ pc' = "clearEnd"
    /\ UNCHANGED <<pEnd, buffer, roles, data, left, reg, seen, io>>

ClearEnd ==
    /\ pc = "clearEnd"
    /\ pEnd' = 0 /\ pc' = "clearBuffer"
    /\ UNCHANGED <<pHead, buffer, roles, data, left, reg, seen, io>>

ClearBuffer ==
    /\ pc = "clearBuffer"
    /\ buffer' = [a \in DOMAIN buffer |-> 0] /\ pc' = "idle"
    /\ UNCHANGED <<pHead, pEnd, roles, data, left, reg, seen, io>>

-----------------------------------------------------------------------------
(* The calls of the interrupt.                                                *)

Interruptible == ~ClearAlone \/ pc \notin {"clearEnd", "clearBuffer"}

\* the n oldest bytes
Taken(n) == [m \in 1 .. n |-> buffer[At(Plus(pHead, m - 1))]]

IsrInput(s) ==
    /\ Interruptible /\ roles.input = "isr" /\ Room(s) > 0
    /\ buffer' = [a \in DOMAIN buffer |->
                    LET m == 1 + ((a - At(pEnd)) % Size)
                    IN  IF m <= Room(s) THEN s[m] ELSE buffer[a]]
    /\ pEnd' = Plus(pEnd, Room(s))
    /\ io' = [way |-> "in", bytes |-> SubSeq(s, 1, Room(s))]
    /\ UNCHANGED <<pHead, roles, main, seen>>

IsrOutput(len) ==
    /\ Interruptible /\ roles.output = "isr" /\ Stock(len) > 0
    /\ pHead' = Plus(pHead, Stock(len))
    /\ io' = [way |-> "out", bytes |-> Taken(Stock(len))]
    /\ UNCHANGED <<pEnd, buffer, roles, main, seen>>

-----------------------------------------------------------------------------

Next ==
    \/ \E s \in Data : Input(s) \/ IsrInput(s)
    \/ \E len \in Lengths : Output(len) \/ IsrOutput(len)
    \/ Store \/ AdvanceEnd \/ LoadByte \/ AdvanceHead
    \/ GetUsedSize \/ SizeReturn
    \/ Clear \/ ClearEnd \/ ClearBuffer

Spec == Init /\ [][Next]_vars

-----------------------------------------------------------------------------
(* Properties.                                                               *)

\* Counters stay within their width, and a call has as many bytes to move as it says.
TypeOK ==
    /\ pHead \in 0 .. Wrap - 1 /\ pEnd \in 0 .. Wrap - 1
    /\ buffer \in [0 .. Size - 1 -> Bytes]
    /\ roles \in Roles
    /\ pc \in {"idle", "store", "advanceEnd", "load", "advanceHead", "readHead", "readEnd",
               "clearEnd", "clearBuffer"}
    /\ data \in Data \cup {<<>>} /\ (pc \in {"store", "advanceEnd"} <=> data # <<>>)
    /\ left \in 0 .. MaxLen /\ (pc \in {"load", "advanceHead"} <=> left > 0)
    /\ reg \in Bytes \cup 0 .. Wrap - 1
    /\ seen \in 0 .. Wrap - 1
    /\ io \in [way : {"none", "in", "out"}, bytes : Data \cup {<<>>}]

\* A call never runs over the other side: there are never more bytes inside than the buffer
\* holds, and what a call under way has still to store or to read is room, or bytes, that
\* are there, whatever the other side does meanwhile (llos_fifo.c:75, 91-92, 117-118).
NeverOverrun ==
    pc # "clearEnd" => Used + Len(data) <= Size /\ left <= Used

\* Both of these, in every state: the counters' width, and no call over the other side
\* (llos_fifo.c:62-128).
Inv == TypeOK /\ NeverOverrun

\* The bytes inside; LLOS_FIFO_Clear has emptied the ring when it has stored pHead.
Contents == IF pc = "clearEnd" THEN <<>> ELSE Taken(Used)

\* The ring is a queue: every byte accepted comes out once and in order, through any number
\* of wraps of the counters and of the buffer, and however the two sides interleave
\* (llos_fifo.c:95-99, 121-125).
Queue == INSTANCE ByteQueue WITH q <- Contents
ImplementsQueue == Queue!Spec

\* The size reported is one the queue had while the call ran, although the two counters are
\* read one after the other (llos_fifo.c:59).
SizeIsReal == [][SizeReturn => UsedSize \in {seen, Used}]_vars

=============================================================================
