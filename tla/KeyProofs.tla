------------------------------ MODULE KeyProofs ------------------------------
(***************************************************************************)
(* What TLC checks of Key for one choice of its periods and thresholds,    *)
(* proved for all of them: a user who presses at most three times in a     *)
(* gesture, and holds and releases the key for at least three polling      *)
(* periods each time, is reported rightly and in time.                     *)
(***************************************************************************)
EXTENDS Key, TLAPS

\* The event of four presses would be that of a long press; a level that does not last three
\* periods may be missed by the reads, or come before which.pressTime is renewed.
UserIsSteady == MaxClicks <= 3 /\ MinAge >= 3

-----------------------------------------------------------------------------
(* Times are multiples of the period.                                        *)

T(n) == n * Period

LEMMA TimeFacts ==
    /\ Period \in Nat \ {0} /\ OverTime \in Nat /\ OverTime > Period
    /\ LongPressTime \in Nat \ {0} /\ Limit \in Nat \ {0}
    /\ MaxClicks \in Nat \ {0} /\ MinAge \in Nat \ {0} /\ MaxSpan \in Nat
    /\ T(MaxSpan) + OverTime + Period < Limit
BY TimeAssumption, UserAssumption DEF T

LEMMA TIs ==
    ASSUME NEW a \in Int
    PROVE  /\ T(a) \in Int /\ T(0) = 0 /\ T(1) = Period
           /\ T(a + 1) = T(a) + Period /\ T(a - 1) = T(a) - Period /\ T(a - 2) = T(a) - Period - Period
           /\ a > 0 => T(a) >= Period
BY TimeFacts DEF T

LEMMA TMinus == ASSUME NEW a \in Int, NEW b \in Int PROVE T(a - b) = T(a) - T(b)
BY TimeFacts DEF T

LEMMA TGrows == ASSUME NEW a \in Int, NEW b \in Int, a <= b PROVE T(a) <= T(b)
<1>1. b - a \in Nat /\ T(b - a) = T(b) - T(a) /\ T(a) \in Int /\ T(b) \in Int
  BY TMinus, TIs
<1>2. T(b - a) >= 0
  BY <1>1, TimeFacts DEF T
<1> QED
  BY <1>1, <1>2

\* An age at which the over time is not yet past is below the bound of age.
LEMMA AgeFacts == MaxAge \in Nat /\ MaxAge > MinAge
<1> DEFINE q == OverTime \div Period
           r == OverTime % Period
<1>1. q \in Int /\ r \in 0 .. Period - 1 /\ OverTime = q * Period + r
  BY TimeFacts
<1> HIDE DEF q, r
<1>2. q >= 1
  BY <1>1, TimeFacts
<1> QED
  BY <1>1, <1>2, TimeFacts DEF MaxAge, q

LEMMA AgeBelow ==
    ASSUME UserIsSteady, NEW a \in Nat, T(a - 1) < OverTime
    PROVE  a < MaxAge
<1> DEFINE q == OverTime \div Period
           r == OverTime % Period
<1>1. q \in Int /\ r \in 0 .. Period - 1 /\ OverTime = q * Period + r
  BY TimeFacts
<1> HIDE DEF q, r
<1>2. T(q) \in Int /\ T(q + 1) = T(q) + Period /\ OverTime = T(q) + r /\ r < Period
  BY <1>1, TIs, TimeFacts DEF T
<1>3. ~(q + 1 <= a - 1)
  <2>1. q + 1 <= a - 1 => T(q + 1) <= T(a - 1)
    BY <1>1, TGrows
  <2>2. T(a - 1) \in Int
    BY TIs
  <2> QED
    BY <1>1, <1>2, <2>1, <2>2, TimeFacts
<1> QED
  BY <1>1, <1>3, TimeFacts DEF MaxAge, q, UserIsSteady

-----------------------------------------------------------------------------
(* The invariant.                                                            *)

\* The blocks an initialisation owns at each of its steps.
Owned == CASE pc = "idle"   -> IF ready THEN Blocks ELSE {}
           [] pc = "which"  -> {}
           [] pc = "config" -> {"which"}
           [] pc = "fsm"    -> {"which", "config"}
           [] OTHER         -> Blocks

InitInv ==
    /\ pc # "idle" => ~ready
    /\ blocks = Owned
    /\ ~ready => clicks = 0 /\ span = 0

\* No gesture, or one that began in this period behind the read of the tick.
UpInv ==
    ready /\ state = "up" =>
        /\ pressTime = 0
        /\ IF io THEN clicks = 1 /\ span = 1 /\ age = 1 ELSE clicks = 0 /\ span = 0

\* pressTime counts the periods of the gesture, but for the one or two in which it was noticed;
\* which.pressTime is where it was when the key was last seen down; and a press is counted as soon
\* as it is seen, once.
DownInv ==
    ready /\ state = "down" =>
        /\ span > 0 /\ clicks > 0
        /\ pressTime \in {T(span - 1), T(span - 2)}
        /\ pressTime = 0 => io /\ age <= 2
        /\ IF io THEN span <= MaxSpan ELSE span - age <= MaxSpan
        /\ io /\ age >= 2 => /\ event = clicks /\ ~flag
                             /\ pressTime > 0 => which.pressTime = pressTime
        /\ io /\ age = 1 => (event = clicks /\ ~flag) \/ (event = clicks - 1 /\ flag)
        /\ ~io => /\ event = clicks /\ (age >= 2 => flag)
                  /\ which.pressTime \in {pressTime - T(age), pressTime - T(age - 1)}
                  /\ pressTime < which.pressTime + OverTime

KeyInv == TypeOK /\ InitInv /\ UpInv /\ DownInv

Which == [event : ll_key_event_NULL .. ll_key_event_LongPress, pressTime : 0 .. Limit - 1]

LEMMA InitKey == Init => KeyInv
<1> SUFFICES ASSUME Init PROVE KeyInv
  OBVIOUS
<1>1. NoKey \in Which
  BY TimeFacts DEF NoKey, Which, ll_key_event_NULL, ll_key_event_LongPress
<1>2. 0 \in 0 .. Limit - 1 /\ 0 \in 0 .. MaxClicks /\ MinAge \in 1 .. MaxAge /\ 0 \in 0 .. 4 - 1
  BY TimeFacts, AgeFacts
<1>3. TypeOK
  BY <1>1, <1>2 DEF Init, TypeOK, Which, ll_key_event_NULL, ll_key_event_LongPress
<1> QED
  BY <1>3 DEF Init, KeyInv, InitInv, UpInv, DownInv, Owned

-----------------------------------------------------------------------------
(* LLOS_Key_Init.                                                            *)

LEMMA InitKeeps == ASSUME KeyInv, KeyInit PROVE KeyInv'
<1> USE DEF KeyInv, TypeOK
<1>0. clicks \in 0 .. MaxClicks /\ 0 \in 0 .. MaxClicks /\ 1 \in 0 .. MaxClicks /\ 1 \in 1 .. MaxAge
  BY TimeFacts, AgeFacts
<1>1. CASE InitBegin
  BY <1>0, <1>1 DEF InitBegin, InitInv, UpInv, DownInv, Owned, Blocks, fsm, user
<1>2. CASE InitMalloc
  <2>1. /\ pc \in Blocks /\ ~ready /\ ready' = ready /\ blocks' = blocks \cup {pc}
        /\ pc' = CASE pc = "which" -> "config" [] pc = "config" -> "fsm" [] pc = "fsm" -> "timer"
    BY <1>2 DEF InitMalloc, InitInv, Blocks, AfterMalloc
  <2>2. blocks' = Owned'
    BY <2>1 DEF InitInv, Owned, Blocks
  <2>3. blocks' \subseteq Blocks /\ pc' \in {"config", "fsm", "timer"}
    BY <2>1 DEF Blocks
  <2> QED
    BY <1>2, <2>1, <2>2, <2>3 DEF InitMalloc, InitInv, UpInv, DownInv, Blocks, fsm, user, gesture
<1>3. CASE InitFail
  <2>1. ~ready
    BY <1>3 DEF InitFail, InitInv, Blocks
  <2> QED
    BY <1>3, <2>1 DEF InitFail, KeptOnFailure, InitInv, UpInv, DownInv, Owned, Blocks, fsm, user, gesture
<1>4. CASE InitTimer
  BY <1>4 DEF InitTimer, InitInv, UpInv, DownInv, Owned, Blocks, fsm, user, gesture
<1>5. CASE InitPublish
  <2>1. /\ ready' = TRUE /\ pc' = "idle" /\ blocks' = blocks /\ blocks = Blocks /\ io' = io
        /\ state' = "up" /\ event' = 0 /\ pressTime' = 0 /\ flag' = FALSE /\ which' = NoKey
        /\ clicks' = IF io THEN 1 ELSE 0
        /\ span' = IF io THEN 1 ELSE 0
        /\ age' = IF io THEN 1 ELSE age
    BY <1>5 DEF InitPublish, InitInv, Owned, ll_key_event_NULL, Blocks
  <2>2. NoKey \in Which
    BY TimeFacts DEF NoKey, Which, ll_key_event_NULL, ll_key_event_LongPress
  <2>3. 0 \in 0 .. Limit - 1 /\ 0 \in 0 .. 4 - 1
    BY TimeFacts
  <2>4. TypeOK'
    BY <1>0, <2>1, <2>2, <2>3 DEF Which, ll_key_event_NULL, ll_key_event_LongPress
  <2> QED
    BY <2>1, <2>4 DEF InitInv, UpInv, DownInv, Owned
<1> QED
  BY <1>1, <1>2, <1>3, <1>4, <1>5 DEF KeyInit

-----------------------------------------------------------------------------
(* The user, and what a tick sees of it.                                     *)

LEMMA UserDoes ==
    ASSUME UserIsSteady, TypeOK, NEW down \in BOOLEAN, NEW first \in BOOLEAN, NEW last \in BOOLEAN,
           User(down, first, last)
    PROVE  /\ io' \in BOOLEAN /\ (io' <=> down) /\ age' \in 1 .. MaxAge
           /\ io /\ down => first /\ last /\ age' >= 2 /\ (age < MaxAge => age' = age + 1)
           /\ ~io /\ ~down => ~first /\ ~last /\ age' >= 2 /\ (age < MaxAge => age' = age + 1)
           /\ io /\ ~down => age >= 3 /\ age' = 1 /\ (last => first)
           /\ ~io /\ down => age >= 3 /\ age' = 1 /\ (first => last) /\ clicks < MaxClicks
           /\ down => span < MaxSpan
<1>1. io \in BOOLEAN /\ age \in 1 .. MaxAge
  BY DEF TypeOK
<1>2. io' = down /\ <<first, last>> \in {<<io, io>>, <<io, down>>, <<down, down>>}
  BY DEF User
<1>3. \/ first = io /\ last = io
      \/ first = io /\ last = down
      \/ first = down /\ last = down
  BY <1>2
<1>4. /\ io' \in BOOLEAN /\ (io' <=> down)
      /\ io /\ down => first /\ last
      /\ ~io /\ ~down => ~first /\ ~last
      /\ io /\ ~down => (last => first)
      /\ ~io /\ down => (first => last)
  BY <1>1, <1>2, <1>3
<1>5. CASE io <=> down
  <2>1. down = io
    BY <1>1, <1>5
  <2>2. age' = (IF age < MaxAge THEN age + 1 ELSE age) /\ (down => span < MaxSpan)
    BY <2>1 DEF User
  <2>3. MaxAge \in Nat /\ MaxAge > 3
    BY AgeFacts, TimeFacts DEF UserIsSteady
  <2> QED
    BY <1>1, <1>4, <1>5, <2>2, <2>3
<1>6. CASE ~(io <=> down)
  <2>1. down # io
    BY <1>1, <1>6
  <2>2. /\ age' = 1 /\ age >= MinAge /\ (down => span < MaxSpan)
        /\ down /\ ~io => clicks < MaxClicks
    BY <2>1 DEF User
  <2>3. MaxAge \in Nat /\ MaxAge > 3 /\ MinAge \in Nat /\ MinAge >= 3
    BY AgeFacts, TimeFacts DEF UserIsSteady
  <2> QED
    BY <1>1, <1>4, <1>6, <2>2, <2>3
<1> QED
  BY <1>5, <1>6

LEMMA GestureDoes ==
    ASSUME TypeOK, NEW down \in BOOLEAN, NEW ends \in BOOLEAN, Gesture(down, ends),
           down /\ ~io => clicks < MaxClicks
    PROVE  /\ clicks' = (IF ends THEN 0 ELSE clicks) + (IF down /\ ~io THEN 1 ELSE 0)
           /\ span' = IF clicks' = 0 THEN 0 ELSE IF ends \/ clicks = 0 THEN 1 ELSE span + 1
           /\ clicks' \in 0 .. MaxClicks /\ span' \in Nat
<1>1. clicks \in 0 .. MaxClicks /\ span \in Nat
  BY DEF TypeOK
<1>2. clicks' = (IF ends THEN 0 ELSE clicks) + (IF down /\ ~io THEN 1 ELSE 0)
  BY <1>1 DEF Gesture
<1>3. span' = IF clicks' = 0 THEN 0 ELSE IF ends \/ clicks = 0 THEN 1 ELSE span + 1
  BY <1>1 DEF Gesture
<1> QED
  BY <1>1, <1>2, <1>3, TimeFacts

LEMMA CountDoes ==
    ASSUME TypeOK, NEW last \in BOOLEAN, NEW up \in BOOLEAN, CountClick(last, up)
    PROVE  /\ event' = event + (IF last /\ up THEN 1 ELSE 0)
           /\ flag' = (up /\ ~last)
<1>1. event \in Int
  BY DEF TypeOK, ll_key_event_NULL, ll_key_event_LongPress
<1>2. CASE last /\ up
  BY <1>1, <1>2 DEF CountClick
<1>3. CASE ~(last /\ up)
  <2>1. flag' = up /\ event' = event
    BY <1>3 DEF CountClick
  <2>2. up = (up /\ ~last)
    BY <1>3
  <2> QED
    BY <1>1, <1>3, <2>1, <2>2
<1> QED
  BY <1>2, <1>3

LEMMA TickTypes ==
    ASSUME UserIsSteady, TypeOK, UNCHANGED <<ready, blocks, pc>>, state' \in {"up", "down"},
           flag' \in BOOLEAN, event' \in 0 .. 3, pressTime' \in 0 .. Limit - 1, which' \in Which,
           io' \in BOOLEAN, age' \in 1 .. MaxAge, clicks' \in 0 .. MaxClicks, span' \in Nat
    PROVE  TypeOK'
BY DEF TypeOK, Which, ll_key_event_NULL, ll_key_event_LongPress

LEMMA SameInit == ASSUME InitInv, UNCHANGED <<ready, blocks, pc>>, ready PROVE InitInv'
BY DEF InitInv, Owned

\* The state of a gesture in numbers.
LEMMA Numbers ==
    ASSUME TypeOK
    PROVE  /\ event \in 0 .. 3 /\ pressTime \in 0 .. Limit - 1 /\ which \in Which
           /\ which.pressTime \in Nat /\ age \in 1 .. MaxAge /\ clicks \in 0 .. MaxClicks
           /\ span \in Nat /\ io \in BOOLEAN /\ flag \in BOOLEAN
           /\ ready \in BOOLEAN /\ state \in {"up", "down"}
BY TimeFacts DEF TypeOK, Which, ll_key_event_NULL, ll_key_event_LongPress

\* While the key is up, the over time is not past, and age counts every period of it.
LEMMA UpAge ==
    ASSUME UserIsSteady, TypeOK, DownInv, ready, state = "down", ~io
    PROVE  T(age - 1) < OverTime /\ age < MaxAge
<1>1. /\ which.pressTime \in {pressTime - T(age), pressTime - T(age - 1)}
      /\ pressTime < which.pressTime + OverTime
  BY DEF DownInv
<1>0. age \in Nat /\ pressTime \in Nat /\ which.pressTime \in Nat
  <2>1. age \in 1 .. MaxAge /\ pressTime \in 0 .. Limit - 1 /\ which.pressTime \in Nat
    BY Numbers
  <2> QED
    BY <2>1, AgeFacts, TimeFacts
<1>2. T(age) \in Int /\ T(age - 1) = T(age) - Period
  <2>1. age \in Int
    BY <1>0
  <2> QED
    BY <2>1, TIs
<1>3. T(age - 1) < OverTime
  <2>1. Period \in Nat \ {0} /\ OverTime \in Nat
    BY TimeFacts
  <2>2. which.pressTime = pressTime - T(age) \/ which.pressTime = pressTime - (T(age) - Period)
    BY <1>1, <1>2
  <2> QED
    BY <1>0, <1>1, <1>2, <2>1, <2>2
<1> QED
  BY <1>0, <1>3, AgeBelow

\* pressTime does not wrap.
LEMMA NoWrap ==
    ASSUME UserIsSteady, TypeOK, DownInv, ready, state = "down"
    PROVE  Time = pressTime + Period
<1>1. pressTime \in Nat /\ span \in Nat /\ age \in Nat /\ MaxSpan \in Nat
  BY Numbers, AgeFacts, TimeFacts
<1>0. /\ T(span) \in Int /\ T(span - 1) = T(span) - Period /\ T(span - 2) = T(span) - Period - Period
      /\ T(age) \in Int /\ T(age - 1) = T(age) - Period
      /\ T(MaxSpan) \in Int
  BY <1>1, TIs
<1>2. pressTime + Period <= T(span)
  BY <1>0, <1>1, TimeFacts DEF DownInv
<1>3. CASE io
  <2>1. span <= MaxSpan
    BY <1>3 DEF DownInv
  <2>2. T(span) <= T(MaxSpan)
    BY <1>1, <2>1, TGrows
  <2> QED
    BY <1>0, <1>1, <1>2, <2>2, TimeFacts DEF Time
<1>4. CASE ~io
  <2>1. span - age <= MaxSpan
    BY <1>4 DEF DownInv
  <2>2. T(span - age) <= T(MaxSpan)
    BY <1>1, <2>1, TGrows
  <2>3. T(span - age) = T(span) - T(age)
    BY <1>1, TMinus
  <2>4. T(age - 1) < OverTime
    BY <1>4, UpAge
  <2>5. Period \in Nat \ {0} /\ OverTime \in Nat /\ Limit \in Nat /\ T(MaxSpan) + OverTime + Period < Limit
    BY TimeFacts
  <2>6. T(span) <= T(MaxSpan) + T(age) /\ T(age) < OverTime + Period
    BY <1>0, <2>2, <2>3, <2>4, <2>5
  <2>7. pressTime + Period \in 0 .. Limit - 1
    BY <1>0, <1>1, <1>2, <2>5, <2>6
  <2> QED
    BY <2>5, <2>7 DEF Time
<1> QED
  BY <1>3, <1>4

-----------------------------------------------------------------------------
(* LLOS_Key_Tick.                                                            *)

LEMMA IgnoredKeeps ==
    ASSUME UserIsSteady, KeyInv, NEW down \in BOOLEAN, TickIgnored(down)
    PROVE  KeyInv'
<1>1. /\ ~ready /\ User(down, io, io) /\ UNCHANGED <<ready, blocks, pc, fsm, which, gesture>>
      /\ TypeOK /\ io \in BOOLEAN
  BY DEF TickIgnored, KeyInv, TypeOK
<1>2. io' \in BOOLEAN /\ age' \in 1 .. MaxAge
  BY <1>1, UserDoes
<1>3. TypeOK'
  BY <1>1, <1>2 DEF TypeOK, fsm, gesture
<1> QED
  BY <1>1, <1>3 DEF KeyInv, InitInv, Owned, UpInv, DownInv, gesture

LEMMA UpKeeps ==
    ASSUME UserIsSteady, KeyInv,
           NEW down \in BOOLEAN, NEW first \in BOOLEAN, NEW last \in BOOLEAN,
           TickUp(down, first, last)
    PROVE  KeyInv'
<1>0. TypeOK /\ InitInv /\ UpInv
  BY DEF KeyInv
<1>1. /\ ready /\ state = "up" /\ User(down, first, last) /\ Gesture(down, FALSE)
      /\ flag' = FALSE
      /\ state' = IF first THEN "down" ELSE "up"
      /\ event' = IF first THEN 1 ELSE 0
      /\ UNCHANGED <<ready, blocks, pc>> /\ pressTime' = pressTime /\ which' = which
  BY DEF TickUp, ll_key_event_Click, ll_key_event_NULL
<1>2. /\ pressTime = 0
      /\ IF io THEN clicks = 1 /\ span = 1 /\ age = 1 ELSE clicks = 0 /\ span = 0
  BY <1>0, <1>1 DEF UpInv
<1>3. /\ io' \in BOOLEAN /\ (io' <=> down) /\ age' \in 1 .. MaxAge
      /\ io /\ down => first /\ last /\ age' >= 2 /\ (age < MaxAge => age' = age + 1)
      /\ ~io /\ ~down => ~first /\ ~last /\ age' >= 2 /\ (age < MaxAge => age' = age + 1)
      /\ io /\ ~down => age >= 3 /\ age' = 1 /\ (last => first)
      /\ ~io /\ down => age >= 3 /\ age' = 1 /\ (first => last) /\ clicks < MaxClicks
      /\ down => span < MaxSpan
  BY <1>0, <1>1, UserDoes
<1>4. /\ clicks' = clicks + (IF down /\ ~io THEN 1 ELSE 0)
      /\ span' = IF clicks' = 0 THEN 0 ELSE IF clicks = 0 THEN 1 ELSE span + 1
      /\ clicks' \in 0 .. MaxClicks /\ span' \in Nat
  BY <1>0, <1>1, <1>3, GestureDoes
<1>5. pressTime \in 0 .. Limit - 1 /\ which \in Which /\ io \in BOOLEAN /\ MaxSpan \in Nat
  BY <1>0, Numbers, TimeFacts
<1>6. TypeOK'
  <2>1. state' \in {"up", "down"} /\ event' \in 0 .. 3
    BY <1>1
  <2>2. flag' \in BOOLEAN
    BY <1>1
  <2>3. pressTime' \in 0 .. Limit - 1 /\ which' \in Which
    BY <1>1, <1>5
  <2> QED
    BY <1>0, <1>1, <1>3, <1>4, <2>1, <2>2, <2>3, TickTypes
<1>7. CASE io
  <2>1. MaxAge \in Nat /\ MaxAge > 1
    BY AgeFacts, TimeFacts
  <2>2. down /\ first /\ age' = 2 /\ clicks' = 1 /\ span' = 2 /\ 1 < MaxSpan
    BY <1>2, <1>3, <1>4, <1>7, <2>1
  <2>3. T(span' - 2) = 0
    BY <2>2, TIs
  <2>4. DownInv'
    BY <1>1, <1>2, <1>3, <1>5, <2>2, <2>3 DEF DownInv
  <2> QED
    BY <1>0, <1>1, <1>6, <2>2, <2>4, SameInit DEF KeyInv, UpInv
<1>8. CASE ~io /\ down
  <2>1. age' = 1 /\ clicks' = 1 /\ span' = 1 /\ 0 < MaxSpan /\ io'
    BY <1>2, <1>3, <1>4, <1>8
  <2>2. T(span' - 1) = 0
    BY <2>1, TIs
  <2>3. DownInv'
    BY <1>1, <1>2, <1>5, <2>1, <2>2 DEF DownInv
  <2>4. UpInv'
    BY <1>1, <1>2, <2>1 DEF UpInv
  <2> QED
    BY <1>0, <1>1, <1>6, <2>3, <2>4, SameInit DEF KeyInv
<1>9. CASE ~io /\ ~down
  <2>1. ~first /\ clicks' = 0 /\ span' = 0 /\ state' = "up" /\ ~io'
    BY <1>1, <1>2, <1>3, <1>4, <1>9
  <2> QED
    BY <1>0, <1>1, <1>2, <1>6, <2>1, SameInit DEF KeyInv, UpInv, DownInv
<1> QED
  BY <1>5, <1>7, <1>8, <1>9

\* What every tick of a gesture that goes on has in common.
LEMMA GoesOn ==
    ASSUME UserIsSteady, KeyInv, ready, state = "down", UNCHANGED <<ready, blocks, pc>>,
           state' = "down",
           NEW down \in BOOLEAN, NEW first \in BOOLEAN, NEW last \in BOOLEAN, NEW up \in BOOLEAN,
           User(down, first, last), Gesture(down, FALSE), CountClick(last, up), pressTime' = Time,
           event' <= clicks'
    PROVE  /\ clicks' = clicks + (IF down /\ ~io THEN 1 ELSE 0) /\ span' = span + 1
           /\ pressTime' = pressTime + Period /\ pressTime' \in 0 .. Limit - 1 /\ pressTime' > 0
           /\ pressTime' \in {T(span' - 1), T(span' - 2)}
           /\ IF io' THEN span' <= MaxSpan ELSE span' - age' <= MaxSpan
           /\ which' \in Which => TypeOK'
           /\ InitInv' /\ UpInv'
<1>0. TypeOK /\ InitInv /\ DownInv
  BY DEF KeyInv
<1>1. /\ io' \in BOOLEAN /\ (io' <=> down) /\ age' \in 1 .. MaxAge
      /\ ~io /\ ~down => (age < MaxAge => age' = age + 1)
      /\ io /\ ~down => age' = 1
      /\ ~io /\ down => clicks < MaxClicks
      /\ down => span < MaxSpan
  BY <1>0, UserDoes
<1>2. span > 0 /\ clicks > 0 /\ pressTime \in {T(span - 1), T(span - 2)}
      /\ IF io THEN span <= MaxSpan ELSE span - age <= MaxSpan
  BY <1>0 DEF DownInv
<1>3. /\ clicks' = clicks + (IF down /\ ~io THEN 1 ELSE 0)
      /\ span' = IF clicks' = 0 THEN 0 ELSE IF clicks = 0 THEN 1 ELSE span + 1
      /\ clicks' \in 0 .. MaxClicks /\ span' \in Nat
  BY <1>0, <1>1, GestureDoes
<1>4. clicks \in 0 .. MaxClicks /\ span \in Nat /\ age \in 1 .. MaxAge /\ event \in 0 .. 3 /\ io \in BOOLEAN
  BY <1>0, Numbers
<1>5. clicks' > 0 /\ span' = span + 1
  BY <1>2, <1>3, <1>4
<1>6. pressTime \in 0 .. Limit - 1 /\ Period \in Nat \ {0} /\ Limit \in Nat /\ MaxClicks \in 0 .. 3
      /\ MaxSpan \in Nat /\ MaxAge \in Nat
  BY <1>0, Numbers, TimeFacts, AgeFacts DEF UserIsSteady
<1>7. pressTime' = pressTime + Period /\ pressTime' \in 0 .. Limit - 1 /\ pressTime' > 0
  <2>1. Time = pressTime + Period
    BY <1>0, NoWrap
  <2>2. Time \in 0 .. Limit - 1
    BY <1>6 DEF Time
  <2> QED
    BY <1>6, <2>1, <2>2
<1>8. pressTime' \in {T(span' - 1), T(span' - 2)}
  <2>1. span \in Int /\ span' - 1 = span /\ span' - 2 = span - 1
    BY <1>4, <1>5
  <2>2. T(span - 1) = T(span) - Period /\ T(span - 2) = T(span) - Period - Period /\ T(span) \in Int
    BY <2>1, TIs
  <2>3. pressTime' = T(span) \/ pressTime' = T(span - 1)
    BY <1>2, <1>6, <1>7, <2>2
  <2> QED
    BY <2>1, <2>3
<1>9. IF io' THEN span' <= MaxSpan ELSE span' - age' <= MaxSpan
  <2>1. CASE down
    BY <1>1, <1>4, <1>5, <1>6, <2>1
  <2>2. CASE ~down /\ io
    BY <1>1, <1>2, <1>4, <1>5, <1>6, <2>2
  <2>3. CASE ~down /\ ~io
    <3>1. age' = age + 1
      BY <1>0, <1>1, <2>3, UpAge
    <3> QED
      BY <1>1, <1>2, <1>4, <1>5, <1>6, <2>3, <3>1
  <2> QED
    BY <2>1, <2>2, <2>3
<1>10. ASSUME which' \in Which PROVE TypeOK'
  <2>1. event' = event + (IF last /\ up THEN 1 ELSE 0) /\ flag' = (up /\ ~last)
    BY <1>0, CountDoes
  <2>2. event' \in 0 .. 3
    BY <1>3, <1>4, <1>6, <2>1
  <2>3. flag' \in BOOLEAN
    BY <2>1
  <2>4. state' \in {"up", "down"}
    OBVIOUS
  <2> QED
    BY <1>0, <1>1, <1>3, <1>7, <1>10, <2>2, <2>3, <2>4, TickTypes
<1>11. InitInv' /\ UpInv'
  BY <1>0, SameInit DEF UpInv
<1> QED
  BY <1>3, <1>5, <1>7, <1>8, <1>9, <1>10, <1>11

LEMMA HeldKeeps ==
    ASSUME UserIsSteady, KeyInv,
           NEW down \in BOOLEAN, NEW first \in BOOLEAN, NEW last \in BOOLEAN,
           TickHeld(down, first, last)
    PROVE  KeyInv'
<1>0. TypeOK /\ DownInv
  BY DEF KeyInv
<1>1. /\ ready /\ state = "down" /\ first /\ User(down, first, last) /\ Gesture(down, FALSE)
      /\ UNCHANGED <<ready, blocks, pc>> /\ state' = "down"
      /\ pressTime' = Time /\ which' = [which EXCEPT !.pressTime = Time] /\ CountClick(last, flag)
  BY DEF TickHeld
<1>2. /\ io' \in BOOLEAN /\ (io' <=> down) /\ age' \in 1 .. MaxAge
      /\ io /\ down => first /\ last /\ age' >= 2 /\ (age < MaxAge => age' = age + 1)
      /\ ~io /\ ~down => ~first /\ ~last /\ age' >= 2 /\ (age < MaxAge => age' = age + 1)
      /\ io /\ ~down => age >= 3 /\ age' = 1 /\ (last => first)
      /\ ~io /\ down => age >= 3 /\ age' = 1 /\ (first => last) /\ clicks < MaxClicks
  BY <1>0, <1>1, UserDoes
<1>3. /\ event \in 0 .. 3 /\ age \in 1 .. MaxAge /\ clicks \in 0 .. MaxClicks
      /\ io \in BOOLEAN /\ flag \in BOOLEAN /\ which \in Which /\ span \in Nat
      /\ MaxAge \in Nat /\ MaxClicks \in Nat
  BY <1>0, Numbers, AgeFacts, TimeFacts
<1>4. event' = event + (IF last /\ flag THEN 1 ELSE 0) /\ flag' = (flag /\ ~last)
  BY <1>0, <1>1, <1>3, CountDoes
<1>5. /\ clicks > 0
      /\ io /\ age >= 2 => event = clicks /\ ~flag
      /\ io /\ age = 1 => (event = clicks /\ ~flag) \/ (event = clicks - 1 /\ flag)
      /\ ~io => event = clicks /\ (age >= 2 => flag)
  BY <1>0, <1>1 DEF DownInv
<1>6. clicks' = clicks + (IF down /\ ~io THEN 1 ELSE 0)
  <2>1. clicks \in Nat
    BY <1>3
  <2> QED
    BY <1>0, <1>1, <1>2, <2>1, GestureDoes
<1>7. event' = clicks' /\ ~flag'
  <2>1. CASE io /\ down
    <3>1. last /\ (age = 1 \/ age >= 2) /\ clicks' = clicks /\ event \in Int /\ clicks \in Int
      BY <1>2, <1>3, <1>6, <2>1
    <3>2. ~flag'
      BY <1>4, <3>1
    <3>3. (event = clicks /\ ~flag) \/ (event = clicks - 1 /\ flag)
      BY <1>5, <2>1, <3>1
    <3>4. event' = clicks
      BY <1>4, <3>1, <3>3
    <3> QED
      BY <3>1, <3>2, <3>4
  <2>2. CASE io /\ ~down
    BY <1>2, <1>3, <1>4, <1>5, <1>6, <2>2
  <2>3. CASE ~io
    BY <1>1, <1>2, <1>3, <1>4, <1>5, <1>6, <2>3
  <2> QED
    BY <2>1, <2>2, <2>3
<1>8. event' <= clicks'
  BY <1>3, <1>6, <1>7
<1>9. /\ span' = span + 1
      /\ pressTime' \in 0 .. Limit - 1 /\ pressTime' > 0
      /\ pressTime' \in {T(span' - 1), T(span' - 2)}
      /\ IF io' THEN span' <= MaxSpan ELSE span' - age' <= MaxSpan
      /\ which' \in Which => TypeOK'
      /\ InitInv' /\ UpInv'
  BY <1>1, <1>3, <1>8, GoesOn
<1>10. which' \in Which /\ which'.pressTime = pressTime'
  BY <1>1, <1>3, <1>9 DEF Which
<1>11. ASSUME ~io' PROVE age' = 1
  BY <1>1, <1>2, <1>11
<1>12. T(0) = 0
  BY TIs
<1>13. pressTime' < which'.pressTime + OverTime /\ which'.pressTime = pressTime' - T(0)
  <2>1. pressTime' \in Int /\ OverTime \in Int /\ OverTime > 0
    BY <1>3, <1>9, TimeFacts
  <2>2. \A t \in Int : t < t + OverTime /\ t = t - 0
    BY <2>1
  <2> QED
    BY <1>10, <1>12, <2>1, <2>2
<1>14. DownInv'
  <2>1. clicks' > 0 /\ span' > 0
    BY <1>3, <1>5, <1>6, <1>9
  <2>2. ~io' => which'.pressTime \in {pressTime' - T(age'), pressTime' - T(age' - 1)} /\ ~(age' >= 2)
    BY <1>11, <1>13
  <2>3. pressTime' # 0
    BY <1>9
  <2> QED
    BY <1>7, <1>9, <1>10, <1>13, <2>1, <2>2, <2>3 DEF DownInv
<1> QED
  BY <1>9, <1>10, <1>14 DEF KeyInv

LEMMA ReleasedKeeps ==
    ASSUME UserIsSteady, KeyInv,
           NEW down \in BOOLEAN, NEW first \in BOOLEAN, NEW last \in BOOLEAN,
           TickReleased(down, first, last)
    PROVE  KeyInv'
<1>0. TypeOK /\ DownInv
  BY DEF KeyInv
<1>1. /\ ready /\ state = "down" /\ ~first /\ ~Over /\ User(down, first, last) /\ Gesture(down, FALSE)
      /\ UNCHANGED <<ready, blocks, pc>> /\ state' = "down"
      /\ pressTime' = Time /\ which' = which /\ CountClick(last, TRUE)
  BY DEF TickReleased
<1>2. /\ io' \in BOOLEAN /\ (io' <=> down) /\ age' \in 1 .. MaxAge
      /\ io /\ down => first
      /\ ~io /\ ~down => ~last /\ age' >= 2 /\ (age < MaxAge => age' = age + 1)
      /\ io /\ ~down => age >= 3 /\ age' = 1 /\ (last => first)
      /\ ~io /\ down => age >= 3 /\ age' = 1 /\ clicks < MaxClicks
  BY <1>0, <1>1, UserDoes
<1>3. /\ event \in 0 .. 3 /\ age \in 1 .. MaxAge /\ clicks \in 0 .. MaxClicks
      /\ io \in BOOLEAN /\ which \in Which /\ span \in Nat /\ which.pressTime \in Nat
      /\ pressTime \in 0 .. Limit - 1
      /\ MaxAge \in Nat /\ MaxClicks \in Nat /\ Period \in Nat \ {0} /\ Limit \in Nat
  BY <1>0, Numbers, AgeFacts, TimeFacts
<1>4. event' = event + (IF last THEN 1 ELSE 0) /\ flag' = ~last
  <2>1. CountClick(last, TRUE) => event' = event + (IF last /\ TRUE THEN 1 ELSE 0) /\ flag' = (TRUE /\ ~last)
    BY <1>0, CountDoes
  <2> QED
    BY <1>1, <2>1
<1>5. /\ clicks > 0
      /\ pressTime = 0 => io /\ age <= 2
      /\ io /\ age >= 2 => /\ event = clicks
                           /\ pressTime > 0 => which.pressTime = pressTime
      /\ ~io => event = clicks /\ which.pressTime \in {pressTime - T(age), pressTime - T(age - 1)}
  BY <1>0, <1>1 DEF DownInv
<1>6. clicks' = clicks + (IF down /\ ~io THEN 1 ELSE 0)
  <2>1. clicks \in Nat
    BY <1>3
  <2> QED
    BY <1>0, <1>1, <1>2, <2>1, GestureDoes
<1>7. ~(io /\ down)
  BY <1>1, <1>2
<1>8. event' = (IF io' /\ flag' THEN clicks' - 1 ELSE clicks') /\ flag' \in BOOLEAN
  <2>1. CASE io /\ ~down
    BY <1>1, <1>2, <1>3, <1>4, <1>5, <1>6, <2>1
  <2>2. CASE ~io /\ down
    <3>1. event = clicks /\ clicks' = clicks + 1 /\ clicks \in Int /\ io'
      BY <1>2, <1>3, <1>5, <1>6, <2>2
    <3>2. CASE last
      BY <1>4, <3>1, <3>2
    <3>3. CASE ~last
      <4>1. flag' = TRUE /\ event' = event + 0
        BY <1>4, <3>3
      <4>2. event' = clicks' - 1
        BY <3>1, <4>1
      <4> QED
        BY <3>1, <4>1, <4>2
    <3> QED
      BY <3>2, <3>3
  <2>3. CASE ~io /\ ~down
    BY <1>1, <1>2, <1>3, <1>4, <1>5, <1>6, <2>3
  <2> QED
    BY <1>3, <1>7, <2>1, <2>2, <2>3
<1>9. event' <= clicks'
  BY <1>3, <1>6, <1>8
<1>10. /\ span' = span + 1 /\ pressTime' = pressTime + Period
       /\ pressTime' \in 0 .. Limit - 1 /\ pressTime' > 0
       /\ pressTime' \in {T(span' - 1), T(span' - 2)}
       /\ IF io' THEN span' <= MaxSpan ELSE span' - age' <= MaxSpan
       /\ TypeOK' /\ InitInv' /\ UpInv'
  <2>1. which' \in Which
    BY <1>1, <1>3
  <2> QED
    BY <1>1, <1>9, <2>1, GoesOn
<1>11. pressTime' < which'.pressTime + OverTime
  BY <1>1, <1>3, <1>10, TimeFacts DEF Over
<1>12. ASSUME ~io'
       PROVE  /\ which'.pressTime \in {pressTime' - T(age'), pressTime' - T(age' - 1)}
              /\ age' >= 2 => flag'
  <2>0. age \in Int /\ ~down
    BY <1>2, <1>3, <1>12
  <2>1. CASE io
    <3>1. which.pressTime = pressTime /\ age' = 1
      BY <1>2, <1>3, <1>5, <2>0, <2>1
    <3>2. T(1) = Period
      BY TIs
    <3>3. which'.pressTime = pressTime' - T(1)
      BY <1>1, <1>3, <1>10, <3>1, <3>2
    <3> QED
      BY <3>1, <3>3
  <2>2. CASE ~io
    <3>1. age' = age + 1 /\ ~last
      BY <1>0, <1>1, <1>2, <2>0, <2>2, UpAge
    <3>2. T(age + 1) = T(age) + Period /\ T(age - 1) = T(age) - Period /\ T(age) \in Int
      BY <2>0, TIs
    <3>3. age' - 1 = age
      BY <2>0, <3>1
    <3>4. \/ which.pressTime = (pressTime + Period) - T(age + 1)
          \/ which.pressTime = (pressTime + Period) - T(age)
      <4>1. which.pressTime = pressTime - T(age) \/ which.pressTime = pressTime - T(age - 1)
        BY <1>5, <2>2
      <4> QED
        BY <1>3, <3>2, <4>1
    <3>5. \/ which'.pressTime = pressTime' - T(age')
          \/ which'.pressTime = pressTime' - T(age' - 1)
      <4>1. ASSUME NEW n, n = age' PROVE T(n) = T(age + 1) /\ T(n - 1) = T(age)
        BY <3>1, <3>3, <4>1
      <4>2. ASSUME NEW w, w = which'.pressTime, NEW t, t = pressTime' PROVE w = t - T(age + 1) \/ w = t - T(age)
        <5>1. w = which.pressTime /\ t = pressTime + Period
          BY <1>1, <1>10, <4>2
        <5> QED
          BY <3>4, <5>1
      <4> QED
        BY <4>1, <4>2
    <3>6. flag'
      BY <1>4, <3>1
    <3> QED
      BY <3>5, <3>6
  <2> QED
    BY <2>1, <2>2
<1>13. io' => age' = 1
  BY <1>2, <1>3, <1>7
<1>14. DownInv'
  <2>1. clicks' > 0 /\ span' > 0
    BY <1>3, <1>5, <1>6, <1>10
  <2>2. pressTime' # 0
    BY <1>10
  <2>3. io' => (event' = clicks' /\ ~flag') \/ (event' = clicks' - 1 /\ flag')
    BY <1>8
  <2>4. ~io' => event' = clicks'
    BY <1>8
  <2> QED
    BY <1>10, <1>11, <1>12, <1>13, <2>1, <2>2, <2>3, <2>4 DEF DownInv
<1> QED
  BY <1>10, <1>14 DEF KeyInv

\* What holds when the report is made: the key is up, and long enough.
LEMMA ReportDoes ==
    ASSUME UserIsSteady, KeyInv,
           NEW down \in BOOLEAN, NEW first \in BOOLEAN, NEW last \in BOOLEAN,
           Report(down, first, last)
    PROVE  /\ ~io /\ pressTime + Period >= which.pressTime + OverTime
           /\ event = clicks
           /\ \/ which.pressTime = pressTime - T(age)
              \/ which.pressTime = (pressTime - T(age)) + Period
           /\ which' \in Which /\ which'.event = Told
<1>0. TypeOK /\ DownInv
  BY DEF KeyInv
<1>1. /\ ready /\ state = "down" /\ ~first /\ Over /\ User(down, first, last)
      /\ which' = [which EXCEPT !.event = Told]
  BY DEF Report
<1>2. /\ event \in 0 .. 3 /\ age \in 1 .. MaxAge /\ io \in BOOLEAN /\ which \in Which
      /\ which.pressTime \in Nat /\ pressTime \in Nat /\ MaxAge \in Nat
  BY <1>0, Numbers, AgeFacts, TimeFacts
<1>3. pressTime + Period >= which.pressTime + OverTime
  <2>1. Time = pressTime + Period
    BY <1>0, <1>1, NoWrap
  <2> QED
    BY <1>1, <2>1 DEF Over
<1>4. ~io
  <2>1. SUFFICES ASSUME io PROVE FALSE
    OBVIOUS
  <2>2. age >= 3
    BY <1>0, <1>1, <2>1, UserDoes
  <2>3. which.pressTime = pressTime
    BY <1>0, <1>1, <1>2, <2>1, <2>2 DEF DownInv
  <2> QED
    BY <1>2, <1>3, <2>3, TimeFacts
<1>5. event = clicks /\ which.pressTime \in {pressTime - T(age), pressTime - T(age - 1)}
  BY <1>0, <1>1, <1>4 DEF DownInv
<1>6. T(age) \in Int /\ T(age - 1) = T(age) - Period
  <2>1. age \in Int
    BY <1>2
  <2> QED
    BY <2>1, TIs
<1>7. \/ which.pressTime = pressTime - T(age)
      \/ which.pressTime = (pressTime - T(age)) + Period
  BY <1>2, <1>5, <1>6, TimeFacts
<1>8. which' \in Which /\ which'.event = Told
  <2>1. Told \in 0 .. 4
    BY <1>2 DEF Told, ll_key_event_LongPress
  <2> QED
    BY <1>1, <1>2, <2>1 DEF Which, ll_key_event_NULL, ll_key_event_LongPress
<1> QED
  BY <1>3, <1>4, <1>5, <1>7, <1>8

LEMMA ReportKeeps ==
    ASSUME UserIsSteady, KeyInv,
           NEW down \in BOOLEAN, NEW first \in BOOLEAN, NEW last \in BOOLEAN,
           Report(down, first, last)
    PROVE  KeyInv'
<1>0. TypeOK /\ InitInv
  BY DEF KeyInv
<1>1. /\ ready /\ User(down, first, last) /\ Gesture(down, TRUE)
      /\ UNCHANGED <<ready, blocks, pc>> /\ event' = event
      /\ state' = "up" /\ flag' = FALSE /\ pressTime' = 0
  BY DEF Report
<1>2. /\ io' \in BOOLEAN /\ (io' <=> down) /\ age' \in 1 .. MaxAge
      /\ ~io /\ down => age' = 1 /\ clicks < MaxClicks
  BY <1>0, <1>1, UserDoes
<1>3. ~io /\ which' \in Which
  BY ReportDoes
<1>4. /\ clicks' = 0 + (IF down /\ ~io THEN 1 ELSE 0)
      /\ span' = IF clicks' = 0 THEN 0 ELSE 1
      /\ clicks' \in 0 .. MaxClicks /\ span' \in Nat
  BY <1>0, <1>1, <1>2, GestureDoes
<1>5. TypeOK'
  <2>1. event' \in 0 .. 3 /\ pressTime' \in 0 .. Limit - 1
    BY <1>0, <1>1, Numbers, TimeFacts
  <2>2. flag' \in BOOLEAN /\ state' \in {"up", "down"}
    BY <1>1
  <2> QED
    BY <1>0, <1>1, <1>2, <1>3, <1>4, <2>1, <2>2, TickTypes
<1>6. IF io' THEN clicks' = 1 /\ span' = 1 /\ age' = 1 ELSE clicks' = 0 /\ span' = 0
  BY <1>2, <1>3, <1>4
<1> QED
  BY <1>0, <1>1, <1>5, <1>6, SameInit DEF KeyInv, UpInv, DownInv

LEMMA TickIs ==
    ASSUME Next
    PROVE  \/ KeyInit
           \/ \E down \in BOOLEAN : TickIgnored(down)
           \/ \E down, first, last \in BOOLEAN : TickUp(down, first, last)
           \/ \E down, first, last \in BOOLEAN : TickHeld(down, first, last)
           \/ \E down, first, last \in BOOLEAN : TickReleased(down, first, last)
           \/ \E down, first, last \in BOOLEAN : Report(down, first, last)
BY Zenon DEF Next, Tick

LEMMA NextKeeps == ASSUME UserIsSteady, KeyInv, [Next]_vars PROVE KeyInv'
<1>1. CASE UNCHANGED vars
  BY <1>1 DEF vars, fsm, user, gesture, KeyInv, TypeOK, InitInv, Owned, UpInv, DownInv
<1>2. CASE Next
  BY <1>2, TickIs, InitKeeps, IgnoredKeeps, UpKeeps, HeldKeeps, ReleasedKeeps, ReportKeeps
<1> QED
  BY <1>1, <1>2

-----------------------------------------------------------------------------
(* The theorems.                                                             *)

LEMMA Keeps == ASSUME UserIsSteady PROVE Spec => []KeyInv
<1>1. KeyInv /\ [Next]_vars => KeyInv'
  BY NextKeeps
<1> QED
  BY InitKey, <1>1, PTL DEF Spec

\* Every variable keeps its type, pressTime does not wrap and the click counter never runs into
\* the long press; and an initialisation that fails keeps no block of the pool
\* (llos_key.c:50-103, 195-199).
THEOREM DriverIsSound == ASSUME UserIsSteady PROVE Spec => []Inv
<1>1. KeyInv => Inv
  BY DEF KeyInv, InitInv, Owned, Inv, NoLeak
<1> QED
  BY Keeps, <1>1, PTL

\* No gesture is forgotten: one period after the over time it has been reported
\* (llos_key.c:165-183).
THEOREM ReportsComeInTime == ASSUME UserIsSteady PROVE Spec => []ReportedInTime
<1>1. KeyInv => ReportedInTime
  <2> SUFFICES ASSUME KeyInv, ready, clicks > 0, ~io PROVE age * Period < OverTime + Period
    BY DEF ReportedInTime
  <2>1. TypeOK /\ UpInv /\ DownInv
    BY DEF KeyInv
  <2>2. clicks \in Nat /\ age \in Int /\ state \in {"up", "down"}
    BY <2>1, Numbers, TimeFacts, AgeFacts
  <2>3. state = "down"
    BY <2>1, <2>2 DEF UpInv
  <2>4. T(age - 1) < OverTime
    BY <2>1, <2>3, UpAge
  <2>5. T(age - 1) = T(age) - Period /\ T(age) \in Int
    BY <2>2, TIs
  <2>6. T(age) < OverTime + Period
    BY <2>4, <2>5, TimeFacts
  <2> QED
    BY <2>6 DEF T
<1> QED
  BY Keeps, <1>1, PTL

LEMMA RightReport ==
    ASSUME UserIsSteady, KeyInv,
           NEW down \in BOOLEAN, NEW first \in BOOLEAN, NEW last \in BOOLEAN,
           Report(down, first, last)
    PROVE  /\ ~io /\ T(age) >= OverTime - Period
           /\ which'.event = ll_key_event_LongPress => T(Touch) > LongPressTime
           /\ which'.event # ll_key_event_LongPress =>
                which'.event = clicks /\ T(Touch - 2) <= LongPressTime
<1>1. /\ ~io /\ pressTime + Period >= which.pressTime + OverTime
      /\ event = clicks /\ which'.event = Told
      /\ \/ which.pressTime = pressTime - T(age)
         \/ which.pressTime = (pressTime - T(age)) + Period
  BY ReportDoes
<1>2. /\ event \in 0 .. 3 /\ pressTime \in Int /\ which.pressTime \in Int
      /\ age \in Int /\ span \in Int
  BY Numbers, TimeFacts, AgeFacts DEF KeyInv
<1>3. T(age) \in Int /\ T(span) \in Int
      /\ T(span - 1) = T(span) - Period /\ T(span - 2) = T(span) - Period - Period
  BY <1>2, TIs
<1>4. T(Touch) = T(span) - T(age) /\ T(Touch - 2) = T(Touch) - Period - Period
  <2>1. Touch = span - age /\ Touch \in Int
    BY <1>2 DEF Touch
  <2> QED
    BY <1>2, <2>1, TIs, TMinus
<1>5. pressTime = T(span - 1) \/ pressTime = T(span - 2)
  BY DEF Report, KeyInv, DownInv
<1>6. Period \in Nat /\ OverTime \in Nat /\ LongPressTime \in Nat
  BY TimeFacts
<1>7. T(age) >= OverTime - Period
  BY <1>1, <1>2, <1>3, <1>6
<1>8. T(Touch - 2) <= which.pressTime /\ which.pressTime <= T(Touch)
  BY <1>1, <1>2, <1>3, <1>4, <1>5, <1>6
<1>9. T(Touch) \in Int /\ T(Touch - 2) \in Int
  BY <1>3, <1>4, <1>6
<1>10. IF which.pressTime > LongPressTime THEN Told = ll_key_event_LongPress
                                          ELSE Told = clicks /\ Told # ll_key_event_LongPress
  BY <1>1, <1>2 DEF Told, ll_key_event_LongPress
<1> QED
  BY <1>1, <1>2, <1>6, <1>7, <1>8, <1>9, <1>10

\* A report comes when the key has been up for the over time, says how often it was pressed, and
\* says long press if and only if the gesture took longer than the threshold, up to the
\* resolution of the polling (llos_key.c:148-197).
THEOREM ReportsAreRight == ASSUME UserIsSteady PROVE Spec => ReportIsRight
<1> DEFINE Right ==
        /\ ~io /\ age * Period >= OverTime - Period
        /\ which'.event = ll_key_event_LongPress => Touch * Period > LongPressTime
        /\ which'.event # ll_key_event_LongPress =>
             which'.event = clicks /\ (Touch - 2) * Period <= LongPressTime
<1>1. ASSUME KeyInv, [Next]_vars, Ending PROVE Right
  <2>1. ready /\ state = "down" /\ state' = "up" /\ pc = "idle"
    BY <1>1 DEF Ending, KeyInv, InitInv
  <2>2. (Next /\ ~KeyInit) \/ InitBegin
    BY <1>1, <2>1 DEF vars, fsm, KeyInit, InitMalloc, InitFail, InitTimer, InitPublish, Blocks
  <2>3. ~InitBegin
    BY <2>1 DEF InitBegin, fsm
  <2>4. \E down, first, last \in BOOLEAN : Report(down, first, last)
    <3>1. ASSUME NEW down \in BOOLEAN PROVE ~TickIgnored(down)
      BY <2>1 DEF TickIgnored
    <3>2. ASSUME NEW down \in BOOLEAN, NEW first \in BOOLEAN, NEW last \in BOOLEAN
          PROVE  ~TickUp(down, first, last) /\ ~TickHeld(down, first, last) /\ ~TickReleased(down, first, last)
      BY <2>1 DEF TickUp, TickHeld, TickReleased
    <3> QED
      BY <2>2, <2>3, <3>1, <3>2, TickIs
  <2>5. PICK down \in BOOLEAN, first \in BOOLEAN, last \in BOOLEAN : Report(down, first, last)
    BY <2>4
  <2> QED
    BY <1>1, <2>5, RightReport DEF T
<1>2. KeyInv /\ [Next]_vars => [Ending => Right]_vars
  BY <1>1
<1> QED
  BY Keeps, <1>2, PTL DEF Spec, ReportIsRight
=============================================================================
