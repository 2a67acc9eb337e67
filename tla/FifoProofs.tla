----------------------------- MODULE FifoProofs -----------------------------
(***************************************************************************)
(* What TLC checks of Fifo on a ring of four bytes, proved for every size, *)
(* every width of the counters that is a multiple of it, and calls of any  *)
(* length.                                                                 *)
(***************************************************************************)
EXTENDS Fifo, SequenceTheorems, TLAPS

Counters == 0 .. Wrap - 1
Slots == 0 .. Size - 1

LEMMA RingFacts ==
    /\ Size \in Nat \ {0} /\ Wrap \in Nat \ {0} /\ Size < Wrap /\ Wrap % Size = 0
    /\ MaxLen \in Nat \ {0} /\ 0 \in Bytes /\ 0 \in Counters
    /\ \A r \in Roles : r.input \in {"main", "isr"} /\ r.output \in {"main", "isr"}
BY SizeAssumption, CallerAssumption DEF Counters

-----------------------------------------------------------------------------
(* Remainders.                                                               *)

LEMMA RemainderIs ==
    ASSUME NEW n \in Nat \ {0}, NEW x \in Int, NEW q \in Int, NEW r \in 0 .. n - 1, x = q * n + r
    PROVE  x % n = r
OBVIOUS

LEMMA QuotientIs ==
    ASSUME NEW n \in Nat \ {0}, NEW x \in Int
    PROVE  x % n \in 0 .. n - 1 /\ x \div n \in Int /\ x = (x \div n) * n + (x % n)
OBVIOUS

\* A multiple of the divisor does not show in the remainder.
LEMMA RemainderRepeats ==
    ASSUME NEW n \in Nat \ {0}, NEW x \in Int, NEW q \in Int
    PROVE  (x + q * n) % n = x % n
<1> DEFINE p == x \div n
           r == x % n
<1>1. p \in Int /\ r \in 0 .. n - 1 /\ x = p * n + r
  BY QuotientIs
<1> HIDE DEF p, r
<1>2. p + q \in Int /\ x + q * n = (p + q) * n + r
  BY <1>1
<1>3. x + q * n \in Int
  OBVIOUS
<1>4. (x + q * n) % n = r
  BY <1>1, <1>2, <1>3, RemainderIs
<1> QED
  BY <1>4 DEF r

\* Numbers less than the divisor apart have different remainders.
LEMMA RemaindersDiffer ==
    ASSUME NEW n \in Nat \ {0}, NEW x \in Int, NEW y \in Int, x % n = y % n,
           x - y < n, y - x < n
    PROVE  x = y
<1> DEFINE p == x \div n
           q == y \div n
           r == x % n
<1>1. p \in Int /\ q \in Int /\ r \in Int /\ x = p * n + r /\ y = q * n + r
  BY QuotientIs
<1> HIDE DEF p, q, r
<1>2. p * n - q * n < n /\ p * n - q * n > - n
  BY <1>1
<1>3. p = q
  BY <1>1, <1>2
<1> QED
  BY <1>1, <1>3

-----------------------------------------------------------------------------
(* The counters.                                                             *)

LEMMA PlusIs ==
    ASSUME NEW c \in Counters, NEW n \in 0 .. Wrap - 1
    PROVE  Plus(c, n) \in Counters /\ Plus(c, n) = (IF c + n < Wrap THEN c + n ELSE c + n - Wrap)
<1>1. CASE c + n < Wrap
  BY <1>1, RingFacts, RemainderIs DEF Plus, Counters
<1>2. CASE c + n >= Wrap
  <2>1. c + n = 1 * Wrap + (c + n - Wrap) /\ c + n - Wrap \in 0 .. Wrap - 1 /\ c + n \in Int
    BY <1>2, RingFacts DEF Counters
  <2>2. (c + n) % Wrap = c + n - Wrap
    BY <2>1, RingFacts, RemainderIs
  <2> QED
    BY <1>2, <2>1, <2>2, RingFacts DEF Plus, Counters
<1> QED
  BY <1>1, <1>2, RingFacts DEF Counters

LEMMA MinusIs ==
    ASSUME NEW a \in Counters, NEW b \in Counters
    PROVE  Minus(a, b) \in Counters /\ Minus(a, b) = (IF a >= b THEN a - b ELSE a - b + Wrap)
<1>1. CASE a >= b
  BY <1>1, RingFacts, RemainderIs DEF Minus, Counters
<1>2. CASE a < b
  <2>1. a - b = (-1) * Wrap + (a - b + Wrap) /\ a - b + Wrap \in 0 .. Wrap - 1 /\ a - b \in Int
    BY <1>2, RingFacts DEF Counters
  <2>2. (a - b) % Wrap = a - b + Wrap
    BY <2>1, RingFacts, RemainderIs
  <2> QED
    BY <1>2, <2>1, <2>2, RingFacts DEF Minus, Counters
<1> QED
  BY <1>1, <1>2, RingFacts DEF Counters

\* n bytes in, n bytes out.
LEMMA UsedGrows ==
    ASSUME NEW e \in Counters, NEW h \in Counters, NEW n \in Nat, Minus(e, h) + n <= Size
    PROVE  Minus(Plus(e, n), h) = Minus(e, h) + n
<1> DEFINE u == Minus(e, h)
           p == Plus(e, n)
           v == Minus(p, h)
<1>1. u \in Counters /\ u = (IF e >= h THEN e - h ELSE e - h + Wrap)
  BY MinusIs
<1>2. n \in 0 .. Wrap - 1
  BY <1>1, RingFacts DEF Counters
<1>3. p \in Counters /\ p = (IF e + n < Wrap THEN e + n ELSE e + n - Wrap)
  BY <1>2, PlusIs
<1>4. v = (IF p >= h THEN p - h ELSE p - h + Wrap)
  BY <1>3, MinusIs
<1>5. u + n <= Size
  OBVIOUS
<1> HIDE DEF u, p, v
<1>6. v = u + n
  BY <1>1, <1>3, <1>4, <1>5, RingFacts DEF Counters
<1> QED
  BY <1>6 DEF u, p, v

LEMMA UsedShrinks ==
    ASSUME NEW e \in Counters, NEW h \in Counters, NEW n \in Nat, n <= Minus(e, h)
    PROVE  Minus(e, Plus(h, n)) = Minus(e, h) - n
<1> DEFINE u == Minus(e, h)
           p == Plus(h, n)
           v == Minus(e, p)
<1>1. u \in Counters /\ u = (IF e >= h THEN e - h ELSE e - h + Wrap)
  BY MinusIs
<1>2. n \in 0 .. Wrap - 1
  BY <1>1, RingFacts DEF Counters
<1>3. p \in Counters /\ p = (IF h + n < Wrap THEN h + n ELSE h + n - Wrap)
  BY <1>2, PlusIs
<1>4. v = (IF e >= p THEN e - p ELSE e - p + Wrap)
  BY <1>3, MinusIs
<1>5. n <= u
  OBVIOUS
<1> HIDE DEF u, p, v
<1>6. v = u - n
  BY <1>1, <1>3, <1>4, <1>5, RingFacts DEF Counters
<1> QED
  BY <1>6 DEF u, p, v

\* Steps add up.
LEMMA PlusPlus ==
    ASSUME NEW c \in Counters, NEW m \in Nat, NEW n \in Nat, m + n < Wrap
    PROVE  Plus(Plus(c, m), n) = Plus(c, m + n)
<1>1. m \in 0 .. Wrap - 1 /\ n \in 0 .. Wrap - 1 /\ m + n \in 0 .. Wrap - 1
  BY RingFacts
<1> DEFINE p == Plus(c, m)
           r == Plus(p, n)
           s == Plus(c, m + n)
<1>2. p \in Counters /\ p = (IF c + m < Wrap THEN c + m ELSE c + m - Wrap)
  BY <1>1, PlusIs
<1>3. r = (IF p + n < Wrap THEN p + n ELSE p + n - Wrap)
  BY <1>1, <1>2, PlusIs
<1>4. s = (IF c + (m + n) < Wrap THEN c + (m + n) ELSE c + (m + n) - Wrap)
  BY <1>1, PlusIs
<1> HIDE DEF p, r, s
<1>5. r = s
  BY <1>2, <1>3, <1>4, RingFacts DEF Counters
<1> QED
  BY <1>5 DEF p, r, s

LEMMA EndIs ==
    ASSUME NEW e \in Counters, NEW h \in Counters
    PROVE  e = Plus(h, Minus(e, h))
<1> DEFINE u == Minus(e, h)
           p == Plus(h, u)
<1>1. u \in 0 .. Wrap - 1 /\ u = (IF e >= h THEN e - h ELSE e - h + Wrap)
  BY MinusIs DEF Counters
<1>2. p = (IF h + u < Wrap THEN h + u ELSE h + u - Wrap)
  BY <1>1, PlusIs
<1> HIDE DEF u, p
<1>3. e = p
  BY <1>1, <1>2, RingFacts DEF Counters
<1> QED
  BY <1>3 DEF p, u

-----------------------------------------------------------------------------
(* The slots of the buffer.                                                  *)

LEMMA AtIs == ASSUME NEW c \in Counters PROVE At(c) \in Slots
<1>1. c \in Int /\ Size \in Nat \ {0}
  BY RingFacts DEF Counters
<1> QED
  BY <1>1, QuotientIs DEF At, Slots

\* The wrap of a counter does not show in its slot.
LEMMA AtPlus ==
    ASSUME NEW c \in Counters, NEW n \in 0 .. Wrap - 1
    PROVE  At(Plus(c, n)) = (c + n) % Size
<1>1. c + n \in Int /\ c + n - Wrap \in Int
  BY RingFacts DEF Counters
<1>2. (c + n - Wrap) % Size = (c + n) % Size
  <2> DEFINE q == Wrap \div Size
  <2>1. q \in Int /\ Wrap = q * Size
    BY QuotientIs, RingFacts
  <2> DEFINE x == c + n - Wrap
  <2>2. x \in Int /\ c + n = x + Wrap
    BY RingFacts DEF Counters
  <2> HIDE DEF q, x
  <2>3. c + n = x + q * Size
    BY <2>1, <2>2
  <2>4. (x + q * Size) % Size = x % Size
    BY <2>1, <2>2, RemainderRepeats, RingFacts
  <2> QED
    BY <2>3, <2>4 DEF x
<1> QED
  BY <1>2, PlusIs DEF At

\* As many bytes as the buffer holds are in different slots.
LEMMA SlotsDiffer ==
    ASSUME NEW c \in Counters, NEW m \in Slots, NEW n \in Slots, At(Plus(c, m)) = At(Plus(c, n))
    PROVE  m = n
<1>1. m \in 0 .. Wrap - 1 /\ n \in 0 .. Wrap - 1
  BY RingFacts DEF Slots
<1>2. (c + m) % Size = (c + n) % Size
  BY <1>1, AtPlus
<1>3. c + m \in Int /\ c + n \in Int /\ (c + m) - (c + n) < Size /\ (c + n) - (c + m) < Size
  BY RingFacts DEF Slots, Counters
<1>4. c + m = c + n
  BY <1>2, <1>3, RemaindersDiffer, RingFacts
<1> QED
  BY <1>4 DEF Slots, Counters

\* Which byte from c on is in a slot.
LEMMA SlotOf ==
    ASSUME NEW c \in Counters, NEW a \in Slots
    PROVE  (a - At(c)) % Size \in Slots /\ At(Plus(c, (a - At(c)) % Size)) = a
<1> DEFINE r == At(c)
           j == (a - r) % Size
           p == c \div Size
           q == (a - r) \div Size
<1>1. r \in Slots /\ c = p * Size + r /\ p \in Int
  <2>1. c \in Int /\ Size \in Nat \ {0}
    BY RingFacts DEF Counters
  <2> QED
    BY <2>1, QuotientIs, AtIs DEF At
<1>2. j \in Slots /\ a - r = q * Size + j /\ q \in Int
  <2>1. a - r \in Int /\ Size \in Nat \ {0}
    BY <1>1, RingFacts DEF Slots
  <2> QED
    BY <2>1, QuotientIs DEF Slots
<1> HIDE DEF r, j, p, q
<1>3. c + j = (p - q) * Size + a /\ p - q \in Int /\ c + j \in Int
  BY <1>1, <1>2, RingFacts DEF Slots, Counters
<1>4. (c + j) % Size = a
  BY <1>3, RemainderIs, RingFacts DEF Slots
<1>5. j \in 0 .. Wrap - 1
  BY <1>2, RingFacts DEF Slots
<1>6. At(Plus(c, j)) = a
  BY <1>4, <1>5, AtPlus
<1> QED
  BY <1>2, <1>6 DEF j, r

LEMMA SlotIs ==
    ASSUME NEW c \in Counters, NEW n \in Slots
    PROVE  At(Plus(c, n)) \in Slots /\ (At(Plus(c, n)) - At(c)) % Size = n
<1> DEFINE a == At(Plus(c, n))
<1>1. a \in Slots
  BY PlusIs, AtIs, RingFacts DEF Slots
<1>2. (a - At(c)) % Size \in Slots /\ At(Plus(c, (a - At(c)) % Size)) = a
  BY <1>1, SlotOf
<1> QED
  BY <1>1, <1>2, SlotsDiffer

-----------------------------------------------------------------------------
(* The bytes of a call.                                                      *)

LEMMA DataIs ==
    ASSUME NEW s \in Data
    PROVE  s \in Seq(Bytes) /\ Len(s) \in 1 .. MaxLen /\ s # <<>> /\ s \in [1 .. Len(s) -> Bytes]
<1>1. PICK n \in 1 .. MaxLen : s \in [1 .. n -> Bytes]
  BY DEF Data, Lengths
<1>2. s \in Seq(Bytes) /\ Len(s) = n
  BY <1>1, RingFacts
<1> QED
  BY <1>1, <1>2, RingFacts

LEMMA IsData ==
    ASSUME NEW s \in Seq(Bytes), Len(s) \in 1 .. MaxLen
    PROVE  s \in Data
<1>1. s \in [1 .. Len(s) -> Bytes]
  BY LenProperties
<1> QED
  BY <1>1 DEF Data, Lengths

LEMMA OneIsData == ASSUME NEW b \in Bytes PROVE <<b>> \in Data /\ Len(<<b>>) = 1 /\ <<b>>[1] = b
<1> DEFINE h == <<b>>
<1>1. h \in Seq(Bytes) /\ Len(h) = 1 /\ h[1] = b
  OBVIOUS
<1>2. h \in Data
  <2> HIDE DEF h
  <2>1. Len(h) \in 1 .. MaxLen
    BY <1>1, RingFacts
  <2> QED
    BY <1>1, <2>1, IsData
<1> QED
  BY <1>1, <1>2

\* The first n bytes of a call.
LEMMA PrefixIs ==
    ASSUME NEW s \in Data, NEW n \in 1 .. Len(s)
    PROVE  /\ SubSeq(s, 1, n) \in Data /\ Len(SubSeq(s, 1, n)) = n
           /\ \A m \in 1 .. n : SubSeq(s, 1, n)[m] = s[m]
<1>1. s \in Seq(Bytes) /\ Len(s) \in 1 .. MaxLen /\ \A m \in 1 .. n : s[m] \in Bytes
  BY DataIs, RingFacts
<1> DEFINE t == SubSeq(s, 1, n)
<1>2. t \in Seq(Bytes) /\ Len(t) = n /\ \A m \in 1 .. n : t[m] = s[m]
  BY <1>1, SubSeqProperties, RingFacts
<1> HIDE DEF t
<1>3. Len(t) \in 1 .. MaxLen
  BY <1>1, <1>2, RingFacts
<1>4. t \in Data
  BY <1>2, <1>3, IsData
<1> QED
  BY <1>2, <1>4 DEF t

\* The bytes behind the first.
LEMMA RestIs ==
    ASSUME NEW s \in Data
    PROVE  /\ Tail(s) \in Data \cup {<<>>} /\ Len(Tail(s)) = Len(s) - 1
           /\ Head(s) \in Bytes /\ <<Head(s)>> \in Data /\ Len(<<Head(s)>>) = 1
<1>1. s \in Seq(Bytes) /\ Len(s) \in 1 .. MaxLen /\ s # <<>>
  BY DataIs
<1>2. /\ Head(s) \in Bytes /\ Tail(s) \in Seq(Bytes) /\ Len(Tail(s)) = Len(s) - 1
  BY <1>1, HeadTailProperties
<1> DEFINE t == Tail(s)
<1>4. t \in Seq(Bytes) /\ Len(t) = Len(s) - 1
  BY <1>2
<1> HIDE DEF t
<1>6. t = <<>> \/ Len(t) \in 1 .. MaxLen
  BY <1>1, <1>4, EmptySeq, RingFacts
<1>7. t = <<>> \/ t \in Data
  BY <1>4, <1>6, IsData
<1> QED
  BY <1>2, <1>7, OneIsData DEF t

-----------------------------------------------------------------------------
(* Types, and no call over the other side.                                   *)

\* A call in the main program is one its side may make; a byte stored and not yet counted is the
\* first of the call, a byte loaded the oldest one; a cleared counter stays 0 until the end.
CallInv ==
    /\ pc \in {"store", "advanceEnd"} => roles.input = "main"
    /\ pc \in {"load", "advanceHead"} => roles.output = "main"
    /\ pc = "advanceEnd" => buffer[At(pEnd)] = Head(data)
    /\ pc = "advanceHead" => reg = buffer[At(pHead)]
    /\ pc \in {"clearEnd", "clearBuffer"} => pHead = 0
    /\ pc = "clearBuffer" => pEnd = 0

RingInv == Inv /\ CallInv

LEMMA InvFacts ==
    ASSUME RingInv
    PROVE  /\ pHead \in Counters /\ pEnd \in Counters /\ Used \in Counters /\ Used \in Nat
           /\ buffer \in [Slots -> Bytes] /\ DOMAIN buffer = Slots
           /\ At(pHead) \in Slots /\ At(pEnd) \in Slots
           /\ roles \in Roles /\ left \in 0 .. MaxLen /\ Len(data) \in Nat
           /\ pc # "clearEnd" => Used + Len(data) <= Size /\ Used <= Size /\ left <= Used
           /\ data = <<>> \/ data \in Data
           /\ pc \notin {"store", "advanceEnd"} => data = <<>> /\ Len(data) = 0
           /\ pc \in {"store", "advanceEnd"} => data \in Data /\ Len(data) >= 1
           /\ pc \in {"load", "advanceHead"} <=> left > 0
<1>1. pHead \in Counters /\ pEnd \in Counters /\ buffer \in [Slots -> Bytes] /\ roles \in Roles
  BY DEF RingInv, Inv, TypeOK, Counters, Slots
<1>2. Used \in Counters /\ Used \in Nat
  <2>1. Used \in Counters
    BY <1>1, MinusIs DEF Used
  <2> QED
    BY <2>1 DEF Counters
<1>3. data = <<>> \/ data \in Data
  BY DEF RingInv, Inv, TypeOK
<1>4. Len(data) \in Nat /\ (data = <<>> => Len(data) = 0)
  BY <1>3, DataIs, EmptySeq
<1>5. /\ pc \in {"store", "advanceEnd"} <=> data # <<>>
      /\ pc \in {"load", "advanceHead"} <=> left > 0
      /\ left \in 0 .. MaxLen
  BY DEF RingInv, Inv, TypeOK
<1>6. pc # "clearEnd" => Used + Len(data) <= Size /\ left <= Used
  BY DEF RingInv, Inv, NeverOverrun
<1>7. pc # "clearEnd" => Used <= Size
  BY <1>2, <1>4, <1>6, RingFacts
<1>8. At(pHead) \in Slots /\ At(pEnd) \in Slots
  BY <1>1, AtIs
<1>9. data \in Data => Len(data) >= 1
  BY DataIs, RingFacts
<1> QED
  BY <1>1, <1>2, <1>3, <1>4, <1>5, <1>6, <1>7, <1>8, <1>9

\* A call moves some bytes, at most as many as there is room for or as there are.
LEMMA RoomIs ==
    ASSUME RingInv, pc # "clearEnd", NEW s \in Data
    PROVE  Room(s) \in 0 .. Len(s) /\ Used + Room(s) <= Size /\ Len(s) \in Nat
<1>1. Used \in Nat /\ Used <= Size /\ Len(s) \in Nat /\ Size \in Nat
  BY InvFacts, DataIs, RingFacts
<1>2. Available = Size - Used /\ Room(s) = (IF Len(s) < Size - Used THEN Len(s) ELSE Size - Used)
  BY <1>1 DEF Room, Smaller, Available
<1> QED
  BY <1>1, <1>2

LEMMA StockIs ==
    ASSUME RingInv, NEW len \in Lengths
    PROVE  Stock(len) \in 0 .. len /\ Stock(len) <= Used /\ len \in 1 .. MaxLen
<1>1. Used \in Nat /\ len \in Nat
  BY InvFacts, RingFacts DEF Lengths
<1>2. Stock(len) = (IF len < Used THEN len ELSE Used)
  BY DEF Stock, Smaller
<1> QED
  BY <1>1, <1>2 DEF Lengths

LEMMA RingInit == Init => RingInv
<1> SUFFICES ASSUME Init PROVE RingInv
  OBVIOUS
<1> USE RingFacts DEF Init
<1>1. Used = 0
  BY MinusIs DEF Used
<1>2. Len(data) = 0
  BY EmptySeq
<1>3. TypeOK
  <2>1. buffer \in [0 .. Size - 1 -> Bytes]
    OBVIOUS
  <2>2. io \in [way : {"none", "in", "out"}, bytes : Data \cup {<<>>}]
    OBVIOUS
  <2> QED
    BY <2>1, <2>2 DEF TypeOK, Counters
<1>4. NeverOverrun
  BY <1>1, <1>2 DEF NeverOverrun
<1> QED
  BY <1>3, <1>4 DEF RingInv, Inv, CallInv

\* The main program inputs.
LEMMA InputStep ==
    ASSUME RingInv, (\E s \in Data : Input(s)) \/ Store \/ AdvanceEnd
    PROVE  RingInv'
<1> USE InvFacts, RingFacts DEF ring
<1>1. ASSUME NEW s \in Data, Input(s) PROVE RingInv'
  <2>1. Room(s) \in 1 .. Len(s) /\ Used + Room(s) <= Size /\ pc = "idle"
    BY <1>1, RoomIs DEF Input
  <2>2. data' \in Data /\ Len(data') = Room(s) /\ data' # <<>>
    BY <1>1, <2>1, PrefixIs, DataIs DEF Input
  <2>3. TypeOK'
    BY <1>1, <2>1, <2>2 DEF Input, RingInv, Inv, TypeOK
  <2>4. NeverOverrun'
    BY <1>1, <2>1, <2>2 DEF Input, NeverOverrun, Used
  <2>5. CallInv'
    BY <1>1 DEF Input, CallInv
  <2> QED
    BY <2>3, <2>4, <2>5 DEF RingInv, Inv
<1>2. CASE Store
  <2>1. Head(data) \in Bytes /\ At(pEnd) \in Slots /\ data \in Data /\ data # <<>>
    BY <1>2, RestIs, DataIs DEF Store
  <2>2. buffer' = [buffer EXCEPT ![At(pEnd)] = Head(data)]
    BY <1>2 DEF Store
  <2>3. buffer' \in [Slots -> Bytes] /\ buffer'[At(pEnd)] = Head(data)
    BY <2>1, <2>2
  <2>4. TypeOK'
    BY <1>2, <2>1, <2>3 DEF Store, RingInv, Inv, TypeOK, Slots
  <2>5. NeverOverrun'
    BY <1>2 DEF Store, NeverOverrun, Used
  <2>6. CallInv'
    BY <1>2, <2>3 DEF Store, RingInv, CallInv
  <2> QED
    BY <2>4, <2>5, <2>6 DEF RingInv, Inv
<1>3. CASE AdvanceEnd
  <2>1. /\ data \in Data /\ data' = Tail(data) /\ data' \in Data \cup {<<>>}
        /\ Len(data') = Len(data) - 1 /\ Len(data) >= 1 /\ <<Head(data)>> \in Data
    BY <1>3, RestIs DEF AdvanceEnd
  <2>2. pEnd' = Plus(pEnd, 1) /\ pEnd' \in Counters /\ Used + 1 <= Size
    BY <1>3, <2>1, PlusIs DEF AdvanceEnd
  <2>3. Used' = Used + 1
    BY <1>3, <2>2, UsedGrows DEF AdvanceEnd, Used
  <2>4. io' \in [way : {"none", "in", "out"}, bytes : Data \cup {<<>>}]
    BY <1>3, <2>1 DEF AdvanceEnd
  <2>5. /\ pc = "advanceEnd" /\ pc' \in {"idle", "store"} /\ (pc' = "store" <=> data' # <<>>)
        /\ UNCHANGED <<pHead, buffer, roles, left, reg, seen>>
    BY <1>3 DEF AdvanceEnd
  <2>6. TypeOK'
    BY <2>1, <2>2, <2>4, <2>5 DEF RingInv, Inv, TypeOK, Counters
  <2>7. NeverOverrun'
    BY <2>1, <2>3, <2>5 DEF NeverOverrun
  <2>8. CallInv'
    BY <2>5 DEF RingInv, CallInv
  <2> QED
    BY <2>6, <2>7, <2>8 DEF RingInv, Inv
<1> QED
  BY <1>1, <1>2, <1>3

\* The main program outputs.
LEMMA OutputStep ==
    ASSUME RingInv, (\E len \in Lengths : Output(len)) \/ LoadByte \/ AdvanceHead
    PROVE  RingInv'
<1> USE InvFacts, RingFacts DEF ring
<1>1. ASSUME NEW len \in Lengths, Output(len) PROVE RingInv'
  <2>1. Stock(len) \in 1 .. MaxLen /\ Stock(len) <= Used /\ pc = "idle"
    BY <1>1, StockIs DEF Output
  <2>2. TypeOK'
    BY <1>1, <2>1 DEF Output, RingInv, Inv, TypeOK
  <2>3. NeverOverrun'
    BY <1>1, <2>1 DEF Output, NeverOverrun, Used
  <2>4. CallInv'
    BY <1>1 DEF Output, CallInv
  <2> QED
    BY <2>2, <2>3, <2>4 DEF RingInv, Inv
<1>2. CASE LoadByte
  <2>1. reg' = buffer[At(pHead)] /\ reg' \in Bytes
    BY <1>2 DEF LoadByte
  <2>2. TypeOK'
    BY <1>2, <2>1 DEF LoadByte, RingInv, Inv, TypeOK
  <2>3. NeverOverrun'
    BY <1>2 DEF LoadByte, NeverOverrun, Used
  <2>4. CallInv'
    BY <1>2, <2>1 DEF LoadByte, RingInv, CallInv
  <2> QED
    BY <2>2, <2>3, <2>4 DEF RingInv, Inv
<1>3. CASE AdvanceHead
  <2>1. /\ pc = "advanceHead" /\ pHead' = Plus(pHead, 1) /\ left' = left - 1 /\ reg' = 0
        /\ pc' = (IF left = 1 THEN "idle" ELSE "load") /\ io' = [way |-> "out", bytes |-> <<reg>>]
        /\ UNCHANGED <<pEnd, buffer, roles, data, seen>>
    BY <1>3 DEF AdvanceHead
  <2>2. reg \in Bytes /\ <<reg>> \in Data
    <3>1. reg \in Bytes
      BY <2>1 DEF RingInv, CallInv
    <3> QED
      BY <3>1, OneIsData
  <2>3. pHead' \in Counters /\ left >= 1 /\ left <= Used
    BY <2>1, PlusIs
  <2>4. Used' = Used - 1
    BY <2>1, <2>3, UsedShrinks DEF Used
  <2>5. io' \in [way : {"none", "in", "out"}, bytes : Data \cup {<<>>}]
    BY <2>1, <2>2
  <2>6. TypeOK'
    BY <2>1, <2>3, <2>5 DEF RingInv, Inv, TypeOK, Counters
  <2>7. NeverOverrun'
    BY <2>1, <2>3, <2>4 DEF NeverOverrun
  <2>8. CallInv'
    BY <2>1 DEF RingInv, CallInv
  <2> QED
    BY <2>6, <2>7, <2>8 DEF RingInv, Inv
<1> QED
  BY <1>1, <1>2, <1>3

\* The main program asks for the size, or clears.
LEMMA OtherStep ==
    ASSUME RingInv, GetUsedSize \/ SizeReturn \/ Clear \/ ClearEnd \/ ClearBuffer
    PROVE  RingInv'
<1> USE InvFacts, RingFacts DEF ring
<1>1. CASE GetUsedSize
  <2>1. /\ pc = "idle" /\ pc' \in {"readHead", "readEnd"} /\ seen' = Used /\ reg' \in Counters
        /\ UNCHANGED <<ring, roles, data, left, io>>
    BY <1>1 DEF GetUsedSize
  <2>2. TypeOK'
    BY <2>1 DEF RingInv, Inv, TypeOK, Counters
  <2> QED
    BY <2>1, <2>2 DEF RingInv, Inv, NeverOverrun, CallInv, Used
<1>2. CASE SizeReturn
  <2>1. TypeOK'
    BY <1>2 DEF SizeReturn, RingInv, Inv, TypeOK, Counters
  <2> QED
    BY <1>2, <2>1 DEF SizeReturn, RingInv, Inv, NeverOverrun, CallInv, Used
<1>3. CASE Clear
  <2>1. TypeOK'
    BY <1>3 DEF Clear, RingInv, Inv, TypeOK, Counters
  <2> QED
    BY <1>3, <2>1 DEF Clear, RingInv, Inv, NeverOverrun, CallInv
<1>4. CASE ClearEnd
  <2>1. TypeOK'
    BY <1>4 DEF ClearEnd, RingInv, Inv, TypeOK, Counters
  <2>2. pHead' = 0 /\ pEnd' = 0 /\ UNCHANGED <<data, left>> /\ Len(data) = 0 /\ left = 0
    BY <1>4 DEF ClearEnd, RingInv, CallInv
  <2>3. Used' = 0
    BY <2>2, MinusIs DEF Used
  <2>4. NeverOverrun'
    BY <2>2, <2>3 DEF NeverOverrun
  <2> QED
    BY <1>4, <2>1, <2>2, <2>4 DEF ClearEnd, RingInv, Inv, CallInv
<1>5. CASE ClearBuffer
  <2>1. buffer' \in [Slots -> Bytes]
    BY <1>5 DEF ClearBuffer
  <2>2. TypeOK'
    BY <1>5, <2>1 DEF ClearBuffer, RingInv, Inv, TypeOK, Slots
  <2> QED
    BY <1>5, <2>2 DEF ClearBuffer, RingInv, Inv, NeverOverrun, CallInv, Used
<1> QED
  BY <1>1, <1>2, <1>3, <1>4, <1>5

\* A byte inside the ring and the room behind the last one are in different slots.
LEMMA InsideIsApart ==
    ASSUME RingInv, NEW n \in Nat, n < Used, NEW j \in Nat, Used + j < Size
    PROVE  At(Plus(pHead, n)) # At(Plus(pEnd, j))
<1>1. pEnd = Plus(pHead, Used)
  BY InvFacts, EndIs DEF Used
<1>2. Plus(pEnd, j) = Plus(pHead, Used + j)
  BY <1>1, InvFacts, PlusPlus, RingFacts
<1>3. n \in Slots /\ Used + j \in Slots /\ n # Used + j
  BY InvFacts, RingFacts DEF Slots
<1> QED
  BY <1>2, <1>3, InvFacts, SlotsDiffer

LEMMA PlusNothing == ASSUME NEW c \in Counters PROVE Plus(c, 0) = c
BY PlusIs, RingFacts DEF Counters

\* The buffer after an interrupt's input.
LEMMA IsrInputBuffer ==
    ASSUME RingInv, NEW s \in Data, IsrInput(s), pc # "clearEnd"
    PROVE  /\ buffer' \in [Slots -> Bytes]
           /\ \A n \in 0 .. Room(s) - 1 : buffer'[At(Plus(pEnd, n))] = s[n + 1]
           /\ \A n \in 0 .. Used - 1 : buffer'[At(Plus(pHead, n))] = buffer[At(Plus(pHead, n))]
<1> DEFINE m(a) == 1 + ((a - At(pEnd)) % Size)
<1>1. Room(s) \in 0 .. Len(s) /\ Used + Room(s) <= Size /\ Len(s) \in Nat /\ s \in [1 .. Len(s) -> Bytes]
  BY RoomIs, DataIs
<1>2. /\ DOMAIN buffer' = Slots
      /\ \A a \in Slots : buffer'[a] = (IF m(a) <= Room(s) THEN s[m(a)] ELSE buffer[a])
  BY InvFacts DEF IsrInput
<1>3. ASSUME NEW a \in Slots PROVE m(a) \in Nat /\ m(a) >= 1 /\ At(Plus(pEnd, m(a) - 1)) = a
  <2> DEFINE j == (a - At(pEnd)) % Size
  <2>1. j \in Slots /\ At(Plus(pEnd, j)) = a
    BY SlotOf, InvFacts
  <2>2. m(a) = 1 + j
    OBVIOUS
  <2> HIDE DEF j, m
  <2>3. m(a) \in Nat /\ m(a) >= 1 /\ m(a) - 1 = j
    BY <2>1, <2>2, RingFacts DEF Slots
  <2> QED
    BY <2>1, <2>3
<1>4. ASSUME NEW n \in Slots PROVE At(Plus(pEnd, n)) \in Slots /\ m(At(Plus(pEnd, n))) = n + 1
  <2> DEFINE j == (At(Plus(pEnd, n)) - At(pEnd)) % Size
  <2>1. At(Plus(pEnd, n)) \in Slots /\ j = n
    BY SlotIs, InvFacts
  <2>2. m(At(Plus(pEnd, n))) = 1 + j
    OBVIOUS
  <2> HIDE DEF j, m
  <2> QED
    BY <2>1, <2>2, RingFacts DEF Slots
<1>5. buffer' = [a \in Slots |-> buffer'[a]]
  BY <1>2, InvFacts DEF IsrInput
<1> HIDE DEF m
<1>6. \A a \in Slots : buffer'[a] \in Bytes
  <2> SUFFICES ASSUME NEW a \in Slots PROVE buffer'[a] \in Bytes
    OBVIOUS
  <2>1. m(a) <= Room(s) => m(a) \in 1 .. Len(s)
    BY <1>1, <1>3
  <2> QED
    BY <1>1, <1>2, <2>1, InvFacts
<1>7. buffer' \in [Slots -> Bytes]
  BY <1>5, <1>6
<1>8. ASSUME NEW n \in 0 .. Room(s) - 1 PROVE buffer'[At(Plus(pEnd, n))] = s[n + 1]
  <2>1. n \in Slots /\ n + 1 <= Room(s)
    BY <1>1, InvFacts, RingFacts DEF Slots
  <2> QED
    BY <1>2, <1>4, <2>1
<1>9. ASSUME NEW n \in 0 .. Used - 1 PROVE buffer'[At(Plus(pHead, n))] = buffer[At(Plus(pHead, n))]
  <2> DEFINE a == At(Plus(pHead, n))
  <2>1. n \in Slots
    BY <1>1, InvFacts, RingFacts DEF Slots
  <2>2. a \in Slots
    BY <2>1, SlotIs, InvFacts
  <2>3. ~ (m(a) <= Room(s))
    <3>1. SUFFICES ASSUME m(a) <= Room(s) PROVE FALSE
      OBVIOUS
    <3>2. m(a) - 1 \in Nat /\ Used + (m(a) - 1) < Size /\ At(Plus(pEnd, m(a) - 1)) = a
      <4> HIDE DEF a
      <4>1. m(a) \in Nat /\ m(a) >= 1 /\ At(Plus(pEnd, m(a) - 1)) = a
        BY <1>3, <2>2
      <4>2. Used \in Nat /\ Size \in Nat /\ Room(s) \in Nat /\ Used + Room(s) <= Size
        BY <1>1, InvFacts, RingFacts
      <4>3. \A y \in Nat, z \in Nat : y >= 1 /\ y <= z /\ Used + z <= Size =>
                y - 1 \in Nat /\ Used + (y - 1) < Size
        BY <4>2
      <4> QED
        BY <3>1, <4>1, <4>2, <4>3
    <3>3. n \in Nat /\ n < Used
      BY InvFacts
    <3> QED
      BY <3>2, <3>3, InsideIsApart
  <2> QED
    BY <1>2, <2>2, <2>3
<1> QED
  BY <1>7, <1>8, <1>9

LEMMA IsrStep ==
    ASSUME ClearAlone, RingInv, (\E s \in Data : IsrInput(s)) \/ (\E len \in Lengths : IsrOutput(len))
    PROVE  RingInv'
<1> USE InvFacts, RingFacts DEF main
<1>1. ASSUME NEW s \in Data, IsrInput(s) PROVE RingInv'
  <2>1. /\ pc \notin {"clearEnd", "clearBuffer"} /\ pEnd' = Plus(pEnd, Room(s))
        /\ io' = [way |-> "in", bytes |-> SubSeq(s, 1, Room(s))]
        /\ roles.input = "isr" /\ Room(s) > 0
        /\ UNCHANGED <<pHead, roles, pc, data, left, reg, seen>>
    BY <1>1 DEF IsrInput, Interruptible
  <2>2. pc \notin {"store", "advanceEnd"} /\ Len(data) = 0
    BY <2>1 DEF RingInv, CallInv
  <2>3. Room(s) \in 1 .. Len(s) /\ Used + Room(s) <= Size
    BY <2>1, RoomIs
  <2>4. pEnd' \in Counters
    BY <2>1, <2>3, PlusIs
  <2>5. Used' = Used + Room(s)
    BY <2>1, <2>3, UsedGrows DEF Used
  <2>6. io' \in [way : {"none", "in", "out"}, bytes : Data \cup {<<>>}]
    BY <2>1, <2>3, PrefixIs
  <2>7. /\ buffer' \in [Slots -> Bytes]
        /\ \A n \in 0 .. Used - 1 : buffer'[At(Plus(pHead, n))] = buffer[At(Plus(pHead, n))]
    BY <1>1, <2>1, IsrInputBuffer
  <2>8. TypeOK'
    BY <2>1, <2>4, <2>6, <2>7 DEF RingInv, Inv, TypeOK, Counters, Slots
  <2>9. NeverOverrun'
    BY <2>1, <2>2, <2>3, <2>5 DEF NeverOverrun
  <2>10. pc = "advanceHead" => buffer'[At(pHead)] = buffer[At(pHead)]
    BY <2>1, <2>7, PlusNothing
  <2>11. CallInv'
    BY <2>1, <2>2, <2>10 DEF RingInv, CallInv
  <2> QED
    BY <2>8, <2>9, <2>11 DEF RingInv, Inv
<1>2. ASSUME NEW len \in Lengths, IsrOutput(len) PROVE RingInv'
  <2>1. /\ pc \notin {"clearEnd", "clearBuffer"} /\ pHead' = Plus(pHead, Stock(len))
        /\ io' = [way |-> "out", bytes |-> Taken(Stock(len))]
        /\ roles.output = "isr" /\ Stock(len) > 0
        /\ UNCHANGED <<pEnd, buffer, roles, pc, data, left, reg, seen>>
    BY <1>2 DEF IsrOutput, Interruptible
  <2>2. pc \notin {"load", "advanceHead"} /\ left = 0
    BY <2>1 DEF RingInv, CallInv
  <2>3. Stock(len) \in 1 .. MaxLen /\ Stock(len) <= Used
    BY <2>1, StockIs
  <2>4. Stock(len) \in 0 .. Wrap - 1
    BY <2>1, <2>3
  <2>5. pHead' \in Counters
    BY <2>1, <2>4, PlusIs
  <2>6. Used' = Used - Stock(len)
    BY <2>1, <2>3, UsedShrinks DEF Used
  <2>7. Taken(Stock(len)) \in Data
    <3>1. ASSUME NEW j \in 1 .. Stock(len) PROVE buffer[At(Plus(pHead, j - 1))] \in Bytes
      <4>1. j - 1 \in 0 .. Wrap - 1
        BY <2>3, <2>4
      <4>2. At(Plus(pHead, j - 1)) \in Slots
        BY <4>1, PlusIs, AtIs
      <4> QED
        BY <4>2
    <3>2. Taken(Stock(len)) \in [1 .. Stock(len) -> Bytes]
      BY <3>1 DEF Taken
    <3> QED
      BY <2>3, <3>2 DEF Data, Lengths
  <2>8. TypeOK'
    BY <2>1, <2>5, <2>7 DEF RingInv, Inv, TypeOK, Counters
  <2>9. NeverOverrun'
    BY <2>1, <2>2, <2>3, <2>6 DEF NeverOverrun
  <2>10. CallInv'
    BY <2>1, <2>2 DEF RingInv, CallInv
  <2> QED
    BY <2>8, <2>9, <2>10 DEF RingInv, Inv
<1> QED
  BY <1>1, <1>2

LEMMA RingStep == ASSUME ClearAlone PROVE RingInv /\ [Next]_vars => RingInv'
<1> SUFFICES ASSUME RingInv, [Next]_vars PROVE RingInv'
  OBVIOUS
<1>1. CASE UNCHANGED vars
  BY <1>1 DEF RingInv, Inv, TypeOK, NeverOverrun, CallInv, Used, vars, ring, main
<1> QED
  BY <1>1, InputStep, OutputStep, OtherStep, IsrStep DEF Next

LEMMA RingHolds == ASSUME ClearAlone PROVE Spec => []RingInv
BY RingInit, RingStep, PTL DEF Spec

\* Whichever side inputs and whichever outputs, and wherever the interrupt comes, no call runs
\* over the other side: what was room, or a byte inside, when the call looked still is when it
\* stores or reads it (llos_fifo.c:62-128), through any number of wraps of the counters, if the
\* program keeps interrupts away while it clears the ring.
THEOREM NoCallOverruns == ASSUME ClearAlone PROVE Spec => []Inv
<1>1. RingInv => Inv
  BY DEF RingInv
<1> QED
  BY <1>1, RingHolds, PTL

-----------------------------------------------------------------------------
(* The size reported.                                                        *)

\* Each of the two calls is made by one side, and the main program makes one of them at least.
OneSideMoves == \A r \in Roles : r.input = "main" \/ r.output = "main"

\* The counter read first is still right if the main program moves it, and if not, the other
\* one still is where it was.
SizeInv ==
    /\ pc = "readHead" => /\ roles.input = "main" => reg = pEnd
                          /\ roles.output = "main" => seen = Minus(reg, pHead)
    /\ pc = "readEnd" => /\ roles.output = "main" => reg = pHead
                         /\ roles.input = "main" => seen = Minus(pEnd, reg)

LEMMA SizeStep == SizeInv /\ [Next]_vars => SizeInv'
<1> SUFFICES ASSUME SizeInv, [Next]_vars PROVE SizeInv'
  OBVIOUS
<1>1. CASE GetUsedSize
  BY <1>1 DEF GetUsedSize, SizeInv, ring, Used
<1>2. CASE \E s \in Data : IsrInput(s)
  BY <1>2 DEF IsrInput, SizeInv, main
<1>3. CASE \E len \in Lengths : IsrOutput(len)
  BY <1>3 DEF IsrOutput, SizeInv, main
<1>4. CASE UNCHANGED vars
  BY <1>4 DEF SizeInv, vars, ring, main
<1>5. CASE Store \/ AdvanceEnd \/ LoadByte \/ AdvanceHead \/ SizeReturn \/ Clear \/ ClearEnd \/ ClearBuffer
  <2>1. pc' \notin {"readHead", "readEnd"}
    BY <1>5 DEF Store, AdvanceEnd, LoadByte, AdvanceHead, SizeReturn, Clear, ClearEnd, ClearBuffer
  <2> QED
    BY <2>1 DEF SizeInv
<1>6. CASE (\E s \in Data : Input(s)) \/ (\E len \in Lengths : Output(len))
  <2>1. pc' \notin {"readHead", "readEnd"}
    BY <1>6 DEF Input, Output
  <2> QED
    BY <2>1 DEF SizeInv
<1> QED
  BY <1>1, <1>2, <1>3, <1>4, <1>5, <1>6 DEF Next

\* LLOS_FIFO_Get_UsedSize returns a number of bytes that were inside at some moment of the call,
\* although it reads the two counters one after the other, in an order the compiler chooses,
\* while an interrupt moves one of them (llos_fifo.c:53-60).
THEOREM SizeWasReal == ASSUME ClearAlone, OneSideMoves PROVE Spec => SizeIsReal
<1>1. Init => SizeInv
  BY DEF Init, SizeInv
<1>2. RingInv /\ SizeInv /\ [Next]_vars => [SizeReturn => UsedSize \in {seen, Used}]_vars
  <2> SUFFICES ASSUME RingInv, SizeInv, SizeReturn PROVE UsedSize \in {seen, Used}
    OBVIOUS
  <2>1. roles.input = "main" \/ roles.output = "main"
    BY OneSideMoves, InvFacts DEF OneSideMoves
  <2> QED
    BY <2>1 DEF SizeReturn, SizeInv, UsedSize, Used
<1> QED
  BY <1>1, <1>2, SizeStep, RingHolds, PTL DEF Spec, SizeIsReal

-----------------------------------------------------------------------------
(* The ring is a queue.                                                      *)

\* A function on 1 .. n is a sequence.
LEMMA SequenceIs ==
    ASSUME NEW S, NEW n \in Nat, NEW s, s = [m \in 1 .. n |-> s[m]], \A m \in 1 .. n : s[m] \in S
    PROVE  s \in Seq(S) /\ Len(s) = n
<1>1. [m \in 1 .. n |-> s[m]] \in [1 .. n -> S]
  OBVIOUS
<1>2. s \in [1 .. n -> S]
  BY <1>1
<1> QED
  BY <1>2

\* The n oldest bytes, as a sequence.
LEMMA TakenIs ==
    ASSUME RingInv, NEW n \in Nat, n < Wrap
    PROVE  /\ Taken(n) \in Seq(Bytes) /\ Len(Taken(n)) = n
           /\ \A m \in 1 .. n : Taken(n)[m] = buffer[At(Plus(pHead, m - 1))]
<1>1. ASSUME NEW m \in 1 .. n PROVE buffer[At(Plus(pHead, m - 1))] \in Bytes
  <2>1. m - 1 \in 0 .. Wrap - 1
    BY RingFacts
  <2>2. At(Plus(pHead, m - 1)) \in Slots
    BY <2>1, PlusIs, AtIs, InvFacts
  <2> QED
    BY <2>2, InvFacts
<1>2. Taken(n) = [m \in 1 .. n |-> buffer[At(Plus(pHead, m - 1))]]
  BY DEF Taken
<1> QED
  BY <1>1, <1>2

\* Bytes are stored behind the last one and then counted: they are put into the queue.
LEMMA MoveIn ==
    ASSUME RingInv, RingInv', pc # "clearEnd", pc' # "clearEnd", NEW b \in Data,
           Used + Len(b) <= Size, pEnd' = Plus(pEnd, Len(b)), pHead' = pHead,
           \A n \in 0 .. Len(b) - 1 : buffer'[At(Plus(pEnd, n))] = b[n + 1],
           \A n \in 0 .. Used - 1 : buffer'[At(Plus(pHead, n))] = buffer[At(Plus(pHead, n))],
           io' = [way |-> "in", bytes |-> b]
    PROVE  Queue!Put
<1> USE RingFacts
<1>1. b \in Seq(Bytes) /\ Len(b) \in Nat
  BY DataIs
<1>2. Used \in Nat /\ Used <= Size /\ pHead \in Counters /\ pEnd \in Counters
  BY InvFacts
<1>3. Used' = Used + Len(b)
  BY <1>1, <1>2, UsedGrows DEF Used
<1> DEFINE old == Taken(Used)
           new == Taken(Used)'
<1>4. /\ old \in Seq(Bytes) /\ Len(old) = Used
      /\ \A m \in 1 .. Used : old[m] = buffer[At(Plus(pHead, m - 1))]
  BY <1>2, TakenIs
<1>5. new = [m \in 1 .. Used + Len(b) |-> buffer'[At(Plus(pHead, m - 1))]]
  BY <1>3 DEF Taken
<1>6. pEnd = Plus(pHead, Used)
  BY <1>2, EndIs DEF Used
<1> HIDE DEF old, new
<1>7. ASSUME NEW m \in 1 .. Used + Len(b)
      PROVE  new[m] = (IF m <= Used THEN old[m] ELSE b[m - Used])
  <2>1. new[m] = buffer'[At(Plus(pHead, m - 1))]
    BY <1>5
  <2>2. CASE m <= Used
    <3>1. m \in 1 .. Used /\ m - 1 \in 0 .. Used - 1
      BY <1>1, <1>2, <2>2
    <3> QED
      BY <1>4, <2>1, <2>2, <3>1
  <2>3. CASE m > Used
    <3>0. m \in Nat /\ m <= Used + Len(b)
      BY <1>1, <1>2
    <3> DEFINE j == m - (Used + 1)
    <3>1. /\ j \in Nat /\ j \in 0 .. Len(b) - 1 /\ m - 1 = Used + j /\ j + 1 = m - Used
          /\ Used + j < Wrap
      BY <1>1, <1>2, <2>3, <3>0
    <3> HIDE DEF j
    <3>2. Plus(pHead, m - 1) = Plus(pEnd, j)
      BY <1>2, <1>6, <3>1, PlusPlus
    <3> QED
      BY <1>2, <2>1, <2>3, <3>1, <3>2
  <2> QED
    BY <1>2, <2>2, <2>3
<1>8. new = old \o b
  <2>1. /\ old \o b \in Seq(Bytes) /\ Len(old \o b) = Used + Len(b)
        /\ \A m \in 1 .. Used + Len(b) : (old \o b)[m] = (IF m <= Used THEN old[m] ELSE b[m - Used])
    BY <1>1, <1>4, ConcatProperties
  <2>2. \A m \in 1 .. Used + Len(b) : new[m] = (old \o b)[m]
    BY <1>7, <2>1
  <2>3. new = [m \in 1 .. Used + Len(b) |-> new[m]]
    BY <1>5
  <2>4. new \in Seq(Bytes) /\ Len(new) = Used + Len(b)
    <3>1. \A m \in 1 .. Used + Len(b) : new[m] \in Bytes
      BY <2>1, <2>2, ElementOfSeq
    <3>2. Used + Len(b) \in Nat
      BY <1>1, <1>2
    <3> QED
      BY <2>3, <3>1, <3>2, SequenceIs
  <2> QED
    BY <2>1, <2>2, <2>4, SeqEqual
<1>9. Len(new) <= Size
  BY <1>1, <1>4, <1>8, ConcatProperties
<1>10. Contents = old /\ Contents' = new
  BY DEF Contents, old, new
<1> QED
  BY <1>8, <1>9, <1>10 DEF Queue!Put

\* The oldest bytes are counted out: they are taken from the queue.
LEMMA MoveOut ==
    ASSUME RingInv, RingInv', pc # "clearEnd", pc' # "clearEnd", NEW n \in Nat,
           n <= Used, pHead' = Plus(pHead, n), pEnd' = pEnd, buffer' = buffer,
           io' = [way |-> "out", bytes |-> Taken(n)]
    PROVE  Queue!Get
<1> USE RingFacts
<1>1. Used \in Nat /\ Used <= Size /\ pHead \in Counters /\ pEnd \in Counters
  BY InvFacts
<1>2. Used' = Used - n
  BY <1>1, UsedShrinks DEF Used
<1> DEFINE old == Taken(Used)
           new == Taken(Used)'
           out == Taken(n)
<1>3. /\ old \in Seq(Bytes) /\ Len(old) = Used
      /\ \A m \in 1 .. Used : old[m] = buffer[At(Plus(pHead, m - 1))]
  BY <1>1, TakenIs
<1>4. /\ out \in Seq(Bytes) /\ Len(out) = n
      /\ \A m \in 1 .. n : out[m] = buffer[At(Plus(pHead, m - 1))]
  BY <1>1, TakenIs
<1>5. new = [m \in 1 .. Used - n |-> buffer[At(Plus(Plus(pHead, n), m - 1))]]
  BY <1>2 DEF Taken
<1> HIDE DEF old, new, out
<1>6. ASSUME NEW m \in 1 .. Used - n PROVE new[m] = old[n + m]
  <2>1. m - 1 \in Nat /\ n + (m - 1) < Wrap /\ n + (m - 1) = (n + m) - 1 /\ n + m \in 1 .. Used
    BY <1>1
  <2>2. Plus(Plus(pHead, n), m - 1) = Plus(pHead, n + (m - 1))
    BY <1>1, <2>1, PlusPlus
  <2>3. new[m] = buffer[At(Plus(Plus(pHead, n), m - 1))]
    BY <1>5
  <2>4. old[n + m] = buffer[At(Plus(pHead, (n + m) - 1))]
    BY <1>3, <2>1
  <2> QED
    BY <2>1, <2>2, <2>3, <2>4
<1>7. new \in Seq(Bytes) /\ Len(new) = Used - n
  <2>1. Used - n \in Nat
    BY <1>1
  <2>2. ASSUME NEW m \in 1 .. Used - n PROVE new[m] \in Bytes
    <3>1. n + m \in 1 .. Used
      BY <1>1
    <3> QED
      BY <1>3, <1>6, <3>1, ElementOfSeq
  <2>3. new = [m \in 1 .. Used - n |-> new[m]]
    BY <1>5
  <2> QED
    BY <2>1, <2>2, <2>3
<1>8. old = out \o new
  <2> DEFINE both == out \o new
  <2>1. n + (Used - n) = Used
    BY <1>1
  <2>2. /\ both \in Seq(Bytes) /\ Len(both) = Used
        /\ \A m \in 1 .. Used : both[m] = (IF m <= n THEN out[m] ELSE new[m - n])
    <3>1. /\ both \in Seq(Bytes) /\ Len(both) = Len(out) + Len(new)
          /\ \A m \in 1 .. Len(out) + Len(new) :
                 both[m] = IF m <= Len(out) THEN out[m] ELSE new[m - Len(out)]
      BY <1>4, <1>7, ConcatProperties
    <3>2. Len(out) = n /\ Len(out) + Len(new) = Used
      BY <1>4, <1>7, <2>1
    <3> HIDE DEF both
    <3> QED
      BY <3>1, <3>2
  <2> HIDE DEF both
  <2>3. ASSUME NEW m \in 1 .. Used PROVE old[m] = both[m]
    <3>1. CASE m <= n
      <4>1. m \in 1 .. n
        BY <3>1
      <4> QED
        BY <1>3, <1>4, <2>2, <3>1, <4>1
    <3>2. CASE m > n
      <4>1. m - n \in 1 .. Used - n /\ n + (m - n) = m
        BY <1>1, <3>2
      <4> QED
        BY <1>6, <2>2, <3>2, <4>1
    <3> QED
      BY <3>1, <3>2
  <2>4. old = both
    BY <1>3, <2>2, <2>3, SeqEqual
  <2> QED
    BY <2>4 DEF both
<1>9. Contents = old /\ Contents' = new
  BY DEF Contents, old, new
<1> QED
  BY <1>8, <1>9 DEF Queue!Get, out

LEMMA NothingTaken == Taken(0) = <<>>
BY DEF Taken

\* Every step of the code is a step of the queue or does not show in it.
LEMMA QueueStep ==
    ASSUME ClearAlone, RingInv, RingInv', [Next]_vars
    PROVE  [Queue!Next]_(Queue!queue)
<1> USE InvFacts, RingFacts DEF ring, main
<1>1. ASSUME UNCHANGED <<pHead, pEnd, buffer, io>>, pc # "clearEnd", pc' # "clearEnd"
      PROVE  UNCHANGED Queue!queue
  BY <1>1 DEF Queue!queue, Contents, Taken, Used
<1>2. CASE \E s \in Data : Input(s)
  BY <1>1, <1>2 DEF Input
<1>3. CASE \E len \in Lengths : Output(len)
  BY <1>1, <1>3 DEF Output
<1>4. CASE LoadByte \/ GetUsedSize \/ SizeReturn
  BY <1>1, <1>4 DEF LoadByte, GetUsedSize, SizeReturn
<1>5. CASE UNCHANGED vars
  BY <1>5 DEF vars, Queue!queue, Contents, Taken, Used
<1>6. CASE Store
  <2>1. /\ pc = "store" /\ pc' = "advanceEnd" /\ UNCHANGED <<pHead, pEnd, io>>
        /\ buffer' = [buffer EXCEPT ![At(pEnd)] = Head(data)]
    BY <1>6 DEF Store
  <2>2. Used + 0 < Size
    BY <2>1
  <2>3. ASSUME NEW m \in 1 .. Used PROVE buffer'[At(Plus(pHead, m - 1))] = buffer[At(Plus(pHead, m - 1))]
    <3>1. m - 1 \in Nat /\ m - 1 < Used /\ m - 1 \in 0 .. Wrap - 1
      BY <2>1
    <3>2. At(Plus(pHead, m - 1)) # At(Plus(pEnd, 0))
      BY <2>2, <3>1, InsideIsApart
    <3>3. At(Plus(pHead, m - 1)) \in Slots
      BY <3>1, PlusIs, AtIs
    <3> QED
      BY <2>1, <3>2, <3>3, PlusNothing
  <2>4. Used' = Used
    BY <2>1 DEF Used
  <2>5. Taken(Used)' = Taken(Used)
    BY <2>1, <2>3, <2>4 DEF Taken
  <2> QED
    BY <2>1, <2>5 DEF Queue!queue, Contents
<1>7. CASE AdvanceEnd
  <2> DEFINE b == <<Head(data)>>
  <2>1. /\ pc = "advanceEnd" /\ pc' # "clearEnd" /\ pEnd' = Plus(pEnd, 1) /\ UNCHANGED <<pHead, buffer>>
        /\ io' = [way |-> "in", bytes |-> b]
    BY <1>7 DEF AdvanceEnd
  <2>2. b \in Data /\ Len(b) = 1 /\ b[1] = Head(data)
    BY <2>1, RestIs
  <2>3. Used + 1 <= Size
    BY <2>1
  <2>4. \A n \in 0 .. Len(b) - 1 : buffer'[At(Plus(pEnd, n))] = b[n + 1]
    <3>1. buffer[At(pEnd)] = Head(data)
      BY <2>1 DEF RingInv, CallInv
    <3> QED
      BY <2>1, <2>2, <3>1, PlusNothing
  <2> HIDE DEF b
  <2>5. Queue!Put
    BY <2>1, <2>2, <2>3, <2>4, MoveIn
  <2> QED
    BY <2>5 DEF Queue!Next
<1>8. CASE AdvanceHead
  <2>1. /\ pc = "advanceHead" /\ pc' # "clearEnd" /\ pHead' = Plus(pHead, 1) /\ UNCHANGED <<pEnd, buffer>>
        /\ io' = [way |-> "out", bytes |-> <<reg>>]
    BY <1>8 DEF AdvanceHead
  <2>2. 1 <= Used
    BY <2>1
  <2>3. Taken(1) = <<reg>>
    <3>1. reg = buffer[At(Plus(pHead, 0))]
      BY <2>1, PlusNothing DEF RingInv, CallInv
    <3>2. 1 \in Nat /\ 1 < Wrap /\ 1 - 1 = 0 /\ 1 \in 1 .. 1
      OBVIOUS
    <3>3. /\ Taken(1) \in Seq(Bytes) /\ Len(Taken(1)) = 1
          /\ \A m \in 1 .. 1 : Taken(1)[m] = buffer[At(Plus(pHead, m - 1))]
      BY <3>2, TakenIs
    <3>4. Taken(1)[1] = reg
      BY <3>1, <3>2, <3>3
    <3> QED
      BY <3>3, <3>4
  <2>4. Queue!Get
    BY <2>1, <2>2, <2>3, MoveOut
  <2> QED
    BY <2>4 DEF Queue!Next
<1>9. ASSUME NEW s \in Data, IsrInput(s) PROVE Queue!Next
  <2> DEFINE b == SubSeq(s, 1, Room(s))
  <2>1. /\ pc # "clearEnd" /\ pc' = pc /\ pEnd' = Plus(pEnd, Room(s)) /\ pHead' = pHead
        /\ io' = [way |-> "in", bytes |-> b] /\ Room(s) > 0
    BY <1>9 DEF IsrInput, Interruptible
  <2>2. Room(s) \in 1 .. Len(s) /\ Used + Room(s) <= Size
    BY <2>1, RoomIs
  <2>3. b \in Data /\ Len(b) = Room(s) /\ \A m \in 1 .. Room(s) : b[m] = s[m]
    BY <2>2, PrefixIs
  <2> HIDE DEF b
  <2>4. \A n \in 0 .. Len(b) - 1 : buffer'[At(Plus(pEnd, n))] = b[n + 1]
    <3> SUFFICES ASSUME NEW n \in 0 .. Room(s) - 1 PROVE buffer'[At(Plus(pEnd, n))] = b[n + 1]
      BY <2>3
    <3>1. n + 1 \in 1 .. Room(s)
      BY <2>2
    <3> QED
      BY <1>9, <2>1, <2>3, <3>1, IsrInputBuffer
  <2>5. \A n \in 0 .. Used - 1 : buffer'[At(Plus(pHead, n))] = buffer[At(Plus(pHead, n))]
    BY <1>9, <2>1, IsrInputBuffer
  <2>6. Queue!Put
    BY <2>1, <2>2, <2>3, <2>4, <2>5, MoveIn
  <2> QED
    BY <2>6 DEF Queue!Next
<1>10. ASSUME NEW len \in Lengths, IsrOutput(len) PROVE Queue!Next
  <2>1. /\ pc # "clearEnd" /\ pc' = pc /\ pHead' = Plus(pHead, Stock(len)) /\ UNCHANGED <<pEnd, buffer>>
        /\ io' = [way |-> "out", bytes |-> Taken(Stock(len))]
    BY <1>10 DEF IsrOutput, Interruptible
  <2>2. Stock(len) \in Nat /\ Stock(len) <= Used
    BY StockIs
  <2>3. Queue!Get
    BY <2>1, <2>2, MoveOut
  <2> QED
    BY <2>3 DEF Queue!Next
<1>11. CASE Clear
  <2>1. pc' = "clearEnd" /\ UNCHANGED io
    BY <1>11 DEF Clear
  <2>2. Contents' = <<>>
    BY <2>1 DEF Contents
  <2> QED
    BY <2>1, <2>2 DEF Queue!Next, Queue!Clear
<1>12. CASE ClearEnd
  <2>1. pc = "clearEnd" /\ pc' = "clearBuffer" /\ UNCHANGED io
    BY <1>12 DEF ClearEnd
  <2>2. pHead' = 0 /\ pEnd' = 0
    BY <2>1 DEF RingInv, CallInv
  <2>3. Used' = 0
    BY <2>2, MinusIs DEF Used
  <2>4. Contents = <<>> /\ Contents' = <<>>
    BY <2>1, <2>3 DEF Contents, Taken
  <2> QED
    BY <2>1, <2>4 DEF Queue!queue
<1>13. CASE ClearBuffer
  <2>1. pc = "clearBuffer" /\ pc' = "idle" /\ UNCHANGED <<pHead, pEnd, io>>
    BY <1>13 DEF ClearBuffer
  <2>2. pHead = 0 /\ pEnd = 0
    BY <2>1 DEF RingInv, CallInv
  <2>3. Used = 0 /\ Used' = 0
    BY <2>1, <2>2, MinusIs DEF Used
  <2>4. Contents = <<>> /\ Contents' = <<>>
    BY <2>1, <2>3 DEF Contents, Taken
  <2> QED
    BY <2>1, <2>4 DEF Queue!queue
<1> QED
  BY <1>2, <1>3, <1>4, <1>5, <1>6, <1>7, <1>8, <1>9, <1>10, <1>11, <1>12, <1>13 DEF Next

\* The ring implements ByteQueue: every byte accepted comes out once and in order, through any
\* number of wraps of the counters and of the buffer, whoever inputs and outputs and wherever the
\* interrupt comes (llos_fifo.c:62-147), if the program keeps interrupts away while it clears.
THEOREM RingIsQueue == ASSUME ClearAlone PROVE Spec => ImplementsQueue
<1>1. Init => Queue!Init
  <2> SUFFICES ASSUME Init PROVE Queue!Init
    OBVIOUS
  <2>1. Used = 0
    BY RingFacts, MinusIs DEF Init, Used
  <2>2. Contents = <<>>
    BY <2>1, NothingTaken DEF Contents
  <2> QED
    BY <2>2 DEF Init, Queue!Init
<1>2. RingInv /\ RingInv' /\ [Next]_vars => [Queue!Next]_(Queue!queue)
  BY QueueStep
<1> QED
  BY <1>1, <1>2, RingHolds, PTL DEF Spec, ImplementsQueue, Queue!Spec
=============================================================================
