------------------------- MODULE CanQueueCtrlProofs ------------------------
(***************************************************************************)
(* For any ring and any delay below its length, CCanQueueCtrl is a delay   *)
(* line until m_index wraps, whatever the interleaving of push and pop.    *)
(***************************************************************************)
EXTENDS CanQueueCtrl, TLAPS

(* The slot that was stored k pushes before the newest one.                *)
Back(k) == IF storePos - 1 - k >= 0 THEN storePos - 1 - k
                                    ELSE storePos - 1 - k + MaxCnt

(* m_index counts the pushes and wraps at Word.                            *)
IndexInv == pushed <= Word => index = IF pushed = Word THEN 0 ELSE pushed

(* The ring holds the newest records in the order they came.               *)
RingInv ==
  \A k \in 0 .. MaxCnt - 1 :
    buf[Back(k)] = IF k < pushed THEN pushed - k ELSE 0

(* m_fetchPos is Mode records behind the newest, or at the first record    *)
(* while there are fewer.                                                  *)
FetchInv ==
  pushed <= Word =>
    /\ pushed <= Mode => fetchPos = 0 /\ storePos = pushed
    /\ pushed > Mode => fetchPos = Back(Mode)

(* The unlocked test of pop still holds when the locked part runs.         *)
CountInv ==
  /\ pc = "read" => cnt > 0
  /\ cnt > 0 => pushed > 0

(* The slots are first written in order and m_fetchPos does not overtake.  *)
WrittenInv ==
  /\ pushed < MaxCnt => storePos = pushed
  /\ \A s \in Slots : s < pushed => buf[s] # 0
  /\ pushed > 0 => fetchPos < pushed

IInv ==
  TypeOK /\ IndexInv /\ RingInv /\ FetchInv /\ CountInv /\ WrittenInv

LEMMA InitInv == Init => IInv
BY CanQueueAssumption
   DEF Init, IInv, TypeOK, IndexInv, RingInv, FetchInv, CountInv,
       WrittenInv, Slots, Back

LEMMA PushInv ==
  ASSUME IInv, Push
  PROVE  IInv'
<1> USE CanQueueAssumption
<1> USE DEF Slots, Advance
<1>1. TypeOK'
  BY DEF IInv, Push, TypeOK, FetchAfterStoring, CountAfterStoring
<1>2. IndexInv'
  BY DEF IInv, Push, TypeOK, IndexInv
<1>3. RingInv'
  <2>1. Back(0)' = storePos
    BY DEF IInv, Push, TypeOK, Back
  <2>2. \A k \in 1 .. MaxCnt - 1 :
          /\ Back(k)' = Back(k - 1)
          /\ Back(k - 1) # storePos
          /\ Back(k - 1) \in Slots
    BY DEF IInv, Push, TypeOK, Back
  <2>3. buf'[Back(0)'] = pushed'
    BY <2>1 DEF IInv, Push, TypeOK
  <2>4. ASSUME NEW k \in 1 .. MaxCnt - 1
        PROVE  buf'[Back(k)'] = IF k < pushed' THEN pushed' - k ELSE 0
    <3>1. buf'[Back(k)'] = buf[Back(k - 1)]
      BY <2>2 DEF IInv, Push, TypeOK
    <3>2. buf[Back(k - 1)] = IF k - 1 < pushed THEN pushed - (k - 1) ELSE 0
      BY DEF IInv, RingInv
    <3> QED
      BY <3>1, <3>2 DEF IInv, Push, TypeOK
  <2> QED
    BY <2>3, <2>4 DEF IInv, Push, TypeOK, RingInv
<1>4. FetchInv'
  BY DEF IInv, Push, TypeOK, IndexInv, FetchInv, FetchAfterStoring, Back
<1>5. CountInv'
  BY DEF IInv, Push, TypeOK, CountInv, CountAfterStoring
<1>6. WrittenInv'
  BY DEF IInv, Push, TypeOK, IndexInv, FetchInv, WrittenInv, FetchAfterStoring
<1> QED
  BY <1>1, <1>2, <1>3, <1>4, <1>5, <1>6 DEF IInv

LEMMA PopInv ==
  ASSUME IInv, PopCheck \/ PopRead \/ UNCHANGED vars
  PROVE  IInv'
<1> USE CanQueueAssumption
<1>1. TypeOK'
  BY DEF IInv, PopCheck, PopRead, vars, TypeOK, CountInv
<1>2. IndexInv' /\ RingInv' /\ FetchInv'
  BY DEF IInv, PopCheck, PopRead, vars, IndexInv, RingInv, FetchInv, Back
<1>3. WrittenInv'
  BY DEF IInv, PopCheck, PopRead, vars, WrittenInv
<1>4. CountInv'
  BY DEF IInv, PopCheck, PopRead, vars, TypeOK, CountInv
<1> QED
  BY <1>1, <1>2, <1>3, <1>4 DEF IInv

LEMMA StepInv == IInv /\ [Next]_vars => IInv'
BY PushInv, PopInv DEF Next

(***************************************************************************)
(* queueCtrl.cpp:86-126: m_cnt stays between 0 and m_maxCnt (an unsigned   *)
(* m_cnt that underflowed would let 2^32 pops through) and the positions   *)
(* stay in the buffer.                                                     *)
(***************************************************************************)
THEOREM CanQueueTypeCorrect == Spec => []TypeOK
<1>1. IInv => TypeOK
  BY DEF IInv
<1> QED
  BY <1>1, InitInv, StepInv, PTL DEF Spec

(***************************************************************************)
(* queueCtrl.cpp:108-115: a pop never copies a slot nobody wrote, not even *)
(* after m_index wrapped.                                                  *)
(***************************************************************************)
THEOREM CanQueueReadsWritten == Spec => []ReadsWrittenSlot
<1>1. IInv => ReadsWrittenSlot
  BY DEF IInv, TypeOK, CountInv, WrittenInv, ReadsWrittenSlot
<1> QED
  BY <1>1, InitInv, StepInv, PTL DEF Spec

(***************************************************************************)
(* queueCtrl.cpp:71-78: until m_index wraps, the record that pop returns   *)
(* is exactly m_mode pushes older than the newest one.                     *)
(***************************************************************************)
THEOREM CanQueueDelayLine == Spec => []DelayLine
<1>1. IInv => DelayLine
  BY CanQueueAssumption
     DEF IInv, TypeOK, RingInv, FetchInv, DelayLine, Back
<1> QED
  BY <1>1, InitInv, StepInv, PTL DEF Spec
-----------------------------------------------------------------------------
(* Every slot is the one stored some number of pushes ago, and m_fetchPos  *)
(* moves on to a younger one.                                              *)
LEMMA AgeOf ==
  ASSUME IInv, NEW s \in Slots
  PROVE  \E k \in 0 .. MaxCnt - 1 :
           /\ Back(k) = s
           /\ k = 0 => Advance(s) = storePos
           /\ k > 0 => Advance(s) = Back(k - 1) /\ Advance(s) # storePos
<1> USE CanQueueAssumption DEF Slots
<1> DEFINE k == IF s < storePos THEN storePos - 1 - s ELSE storePos - 1 - s + MaxCnt
<1>1. storePos \in Slots
  BY DEF IInv, TypeOK
<1>2. k \in 0 .. MaxCnt - 1 /\ Back(k) = s
  BY <1>1 DEF Back
<1>3. k = 0 => Advance(s) = storePos
  BY <1>1 DEF Advance
<1>4. k > 0 => Advance(s) = Back(k - 1) /\ Advance(s) # storePos
  BY <1>1 DEF Advance, Back
<1> QED
  BY <1>2, <1>3, <1>4

(* What pop would hand over does not get older when a record is pushed.    *)
LEMMA PushNotOlder ==
  ASSUME IInv, Push
  PROVE  buf'[fetchPos'] >= buf[fetchPos]
<1> USE CanQueueAssumption
<1>t. /\ fetchPos \in Slots /\ storePos \in Slots /\ pushed \in Nat
      /\ buf \in [Slots -> 0 .. pushed]
      /\ buf' = [buf EXCEPT ![storePos] = pushed + 1]
      /\ fetchPos' = fetchPos \/ fetchPos' = Advance(fetchPos)
  BY DEF IInv, TypeOK, Push, FetchAfterStoring
<1>1. CASE fetchPos' = fetchPos
  BY <1>1, <1>t
<1>2. CASE fetchPos' = Advance(fetchPos)
  <2> PICK k \in 0 .. MaxCnt - 1 :
           /\ Back(k) = fetchPos
           /\ k = 0 => Advance(fetchPos) = storePos
           /\ k > 0 => Advance(fetchPos) = Back(k - 1) /\ Advance(fetchPos) # storePos
    BY <1>t, AgeOf
  <2>1. Advance(fetchPos) \in Slots
    BY <1>t DEF Advance, Slots
  <2>2. CASE k = 0
    BY <2>1, <2>2, <1>2, <1>t
  <2>3. CASE k > 0
    <3>1. buf[fetchPos] = IF k < pushed THEN pushed - k ELSE 0
      BY DEF IInv, RingInv
    <3>2. buf[Advance(fetchPos)] = IF k - 1 < pushed THEN pushed - (k - 1) ELSE 0
      BY <2>3 DEF IInv, RingInv
    <3>3. buf'[fetchPos'] = buf[Advance(fetchPos)]
      BY <2>1, <2>3, <1>2, <1>t
    <3> QED
      BY <3>1, <3>2, <3>3, <1>t
  <2> QED
    BY <2>2, <2>3
<1> QED
  BY <1>1, <1>2, <1>t

(* The last record handed over is not younger than the next one.           *)
TakenInv == taken <= buf[fetchPos]

LEMMA TakenStep == IInv /\ TakenInv /\ [Next]_vars => TakenInv'
<1> SUFFICES ASSUME IInv, TakenInv, [Next]_vars PROVE TakenInv'
  OBVIOUS
<1>t. /\ taken \in Nat /\ fetchPos \in Slots /\ buf \in [Slots -> 0 .. pushed]
      /\ pushed \in Nat
  BY CanQueueAssumption DEF IInv, TypeOK
<1>1. CASE Push
  <2>1. buf'[fetchPos'] >= buf[fetchPos] /\ taken' = taken
    BY <1>1, PushNotOlder DEF Push
  <2>2. IInv'
    BY <1>1, PushInv
  <2>3. buf'[fetchPos'] \in Nat /\ buf[fetchPos] \in Nat
    BY <2>2, <1>t DEF IInv, TypeOK
  <2> QED
    BY <2>1, <2>3, <1>t DEF TakenInv
<1>2. CASE PopCheck \/ PopRead \/ UNCHANGED vars
  BY <1>2, <1>t DEF PopCheck, PopRead, vars, TakenInv
<1> QED
  BY <1>1, <1>2 DEF Next

(***************************************************************************)
(* queueCtrl.cpp:71-78, 108-115: what pop hands over never gets older, not *)
(* even while m_fetchPos stands still after m_index wrapped and push       *)
(* overtakes it.                                                           *)
(***************************************************************************)
THEOREM CanQueueNeverOlder == Spec => NeverOlder
<1>1. Init => TakenInv
  BY CanQueueAssumption DEF Init, TakenInv, Slots
<1>2. ASSUME IInv, TakenInv, [Next]_vars PROVE [taken' >= taken]_taken
  <2>1. taken \in Nat /\ buf[fetchPos] \in Nat
    BY <1>2, CanQueueAssumption DEF IInv, TypeOK
  <2> QED
    BY <1>2, <2>1 DEF Next, Push, PopCheck, PopRead, vars, TakenInv
<1> QED
  BY <1>1, <1>2, InitInv, StepInv, TakenStep, PTL DEF Spec, NeverOlder

(* How far m_fetchPos is behind after the p-th push, from the wrap on.     *)
WrapLag(p) ==
  LET d == Mode + (IF p - Word > Mode THEN Mode + 1 ELSE p - Word)
  IN  IF d < MaxCnt THEN d ELSE d - MaxCnt

WrapInv ==
  pushed \in Word .. 2 * Word =>
    /\ index = IF pushed = 2 * Word THEN 0 ELSE pushed - Word
    /\ fetchPos = Back(WrapLag(pushed))

LEMMA WrapStep == IInv /\ WrapInv /\ [Next]_vars => WrapInv'
<1> SUFFICES ASSUME IInv, WrapInv, [Next]_vars PROVE WrapInv'
  OBVIOUS
<1> USE CanQueueAssumption
<1>1. CASE Push
  <2>t. /\ pushed \in Nat /\ storePos \in 0 .. MaxCnt - 1 /\ pushed' = pushed + 1
        /\ storePos' = Advance(storePos)
        /\ index' = IF index + 1 = Word THEN 0 ELSE index + 1
        /\ fetchPos' = IF index > Mode THEN Advance(fetchPos) ELSE fetchPos
    BY <1>1 DEF IInv, TypeOK, Push, FetchAfterStoring, Slots
  <2>1. \A k \in 0 .. MaxCnt - 1 :
          /\ Advance(Back(k)) = Back(k)'
          /\ Back(k) = IF k + 1 < MaxCnt THEN Back(k + 1)' ELSE Back(0)'
    BY <2>t DEF Advance, Back
  <2>2. CASE pushed + 1 = Word
    <3>1. index = pushed /\ fetchPos = Back(Mode)
      BY <2>2, <2>t DEF IInv, IndexInv, FetchInv
    <3>2. fetchPos' = Back(Mode)' /\ index' = 0 /\ pushed' = Word
      BY <3>1, <2>1, <2>2, <2>t
    <3>3. WrapLag(pushed)' = Mode
      BY <3>2 DEF WrapLag
    <3> QED
      BY <3>2, <3>3 DEF WrapInv
  <2>3. CASE pushed \in Word .. 2 * Word - 1
    <3>1. index = pushed - Word /\ fetchPos = Back(WrapLag(pushed))
      BY <2>3, <2>t DEF WrapInv
    <3>2. WrapLag(pushed) \in 0 .. MaxCnt - 1
      BY <2>3 DEF WrapLag
    <3>3. WrapLag(pushed)' = IF index > Mode THEN WrapLag(pushed)
                             ELSE IF WrapLag(pushed) + 1 < MaxCnt
                             THEN WrapLag(pushed) + 1 ELSE 0
      BY <3>1, <2>3, <2>t DEF WrapLag
    <3>4. fetchPos' = Back(WrapLag(pushed))'
      <4>0. PICK l \in 0 .. MaxCnt - 1 : l = WrapLag(pushed)
        BY <3>2
      <4>1. PICK n \in 0 .. MaxCnt - 1 : n = WrapLag(pushed)'
        BY <3>2, <3>3
      <4>2. /\ Advance(Back(l)) = Back(l)'
            /\ Back(l) = IF l + 1 < MaxCnt THEN Back(l + 1)' ELSE Back(0)'
        BY <2>1
      <4>3. fetchPos = Back(l)
        BY <3>1, <4>0
      <4>4. n = IF index > Mode THEN l ELSE IF l + 1 < MaxCnt THEN l + 1 ELSE 0
        BY <3>3, <4>0, <4>1
      <4>5. fetchPos' = Back(n)'
        BY <4>2, <4>3, <4>4, <2>t
      <4> QED
        BY <4>1, <4>5 DEF Back
    <3>5. index' = IF pushed' = 2 * Word THEN 0 ELSE pushed' - Word
      BY <3>1, <2>3, <2>t
    <3> QED
      BY <3>4, <3>5 DEF WrapInv
  <2>4. CASE pushed + 1 < Word \/ pushed >= 2 * Word
    BY <2>4, <2>t DEF WrapInv
  <2> QED
    BY <2>2, <2>3, <2>4, <2>t
<1>2. CASE PopCheck \/ PopRead \/ UNCHANGED vars
  BY <1>2 DEF PopCheck, PopRead, vars, WrapInv, Back, WrapLag
<1> QED
  BY <1>1, <1>2 DEF Next

LEMMA ModuloOnce ==
  ASSUME NEW m \in Nat \ {0}, NEW d \in 0 .. 2 * m - 1
  PROVE  d % m = IF d < m THEN d ELSE d - m
OBVIOUS

(***************************************************************************)
(* queueCtrl.cpp:71-78: after m_index wrapped, the delay is what the       *)
(* standstill of m_fetchPos left of it, for every delay and capacity.      *)
(***************************************************************************)
THEOREM CanQueueLagAfterWrap == Spec => []LagAfterWrap
<1> USE CanQueueAssumption
<1>1. Init => WrapInv
  BY DEF Init, WrapInv
<1>2. ASSUME IInv, WrapInv PROVE LagAfterWrap
  <2> SUFFICES ASSUME pushed \in Word + Mode + 1 .. 2 * Word
               PROVE  buf[fetchPos] = pushed - ((2 * Mode + 1) % MaxCnt)
    BY DEF LagAfterWrap
  <2> DEFINE l == WrapLag(pushed)
  <2>1. (2 * Mode + 1) % MaxCnt = IF 2 * Mode + 1 < MaxCnt THEN 2 * Mode + 1
                                  ELSE 2 * Mode + 1 - MaxCnt
    <3> DEFINE d == 2 * Mode + 1
    <3>1. d \in 0 .. 2 * MaxCnt - 1 /\ MaxCnt \in Nat \ {0}
      OBVIOUS
    <3> HIDE DEF d
    <3>2. d % MaxCnt = IF d < MaxCnt THEN d ELSE d - MaxCnt
      BY <3>1, ModuloOnce
    <3> QED
      BY <3>2 DEF d
  <2>2. l = (2 * Mode + 1) % MaxCnt /\ l \in 0 .. MaxCnt - 1 /\ l < pushed
    BY <2>1 DEF WrapLag
  <2>3. fetchPos = Back(l)
    BY <1>2 DEF WrapInv
  <2> HIDE DEF l
  <2> QED
    BY <2>2, <2>3, <1>2 DEF IInv, RingInv
<1> QED
  BY <1>1, <1>2, InitInv, StepInv, WrapStep, PTL DEF Spec

(* A pop that passed its test hands out a record that was pushed, at the   *)
(* distance the delay line has before and after m_index wraps; and m_cnt   *)
(* stays between zero and the capacity.                                    *)
THEOREM CanQueueHandsOutDelayed == Spec => []HandsOutDelayed
  BY CanQueueTypeCorrect, CanQueueReadsWritten, CanQueueDelayLine,
     CanQueueLagAfterWrap, PTL DEF HandsOutDelayed
-----------------------------------------------------------------------------
(***************************************************************************)
(* The refinement of DelayedFeed.  m_index is the remainder of the pushes, *)
(* and each push adds one to the lag unless m_fetchPos moves.              *)
(***************************************************************************)
LEMMA Divided ==
  ASSUME NEW w \in Nat \ {0}, NEW n \in Nat, NEW q \in Nat, NEW r \in 0 .. w - 1,
         n = q * w + r
  PROVE  n % w = r /\ n \div w = q
<1> DEFINE x == n \div w
           y == n % w
           d == q - x
<1>1. x \in Int /\ y \in 0 .. w - 1 /\ n = w * x + y
  <2>1. x \in Int
    OBVIOUS
  <2>2. y \in 0 .. w - 1
    OBVIOUS
  <2>3. n = w * x + y
    OBVIOUS
  <2> QED
    BY <2>1, <2>2, <2>3
<1> HIDE DEF x, y
<1>2. d \in Int /\ d * w = y - r
  <2>1. d \in Int /\ d * w = q * w - w * x
    BY <1>1
  <2> QED
    BY <2>1, <1>1
<1> HIDE DEF d
<1>3. d > 0 => d * w >= w
  BY <1>2
<1>4. d < 0 => d * w <= -w
  BY <1>2
<1>5. d = 0
  BY <1>1, <1>2, <1>3, <1>4
<1> QED
  BY <1>1, <1>2, <1>5 DEF d, x, y

LEMMA NextDivided ==
  ASSUME NEW w \in Nat \ {0}, NEW n \in Nat
  PROVE  /\ (n % w) + 1 = w => (n + 1) % w = 0 /\ (n + 1) \div w = (n \div w) + 1
         /\ (n % w) + 1 # w => (n + 1) % w = (n % w) + 1 /\ (n + 1) \div w = n \div w
<1> DEFINE x == n \div w
           y == n % w
<1>1. x \in Nat /\ y \in 0 .. w - 1 /\ n = x * w + y
  <2>1. x \in Nat
    OBVIOUS
  <2>2. y \in 0 .. w - 1
    OBVIOUS
  <2>3. n = x * w + y
    OBVIOUS
  <2> QED
    BY <2>1, <2>2, <2>3
<1> HIDE DEF x, y
<1>2. CASE y + 1 = w
  <2>1. n + 1 = (x + 1) * w + 0 /\ n + 1 \in Nat /\ x + 1 \in Nat /\ 0 \in 0 .. w - 1
    BY <1>1, <1>2
  <2>2. (n + 1) % w = 0 /\ (n + 1) \div w = x + 1
    BY <2>1, Divided
  <2> QED
    BY <2>2, <1>2 DEF x, y
<1>3. CASE y + 1 # w
  <2>1. n + 1 = x * w + (y + 1) /\ n + 1 \in Nat /\ y + 1 \in 0 .. w - 1
    BY <1>1, <1>3
  <2>2. (n + 1) % w = y + 1 /\ (n + 1) \div w = x
    BY <2>1, <1>1, Divided
  <2> QED
    BY <2>2, <1>3 DEF x, y
<1> QED
  BY <1>2, <1>3 DEF y

(* A push moves m_fetchPos on, or leaves it one record further behind.     *)
LEMMA BehindNext ==
  ASSUME NEW n \in Nat
  PROVE  /\ n % Word \in 0 .. Word - 1
         /\ n > 0 => Feed!Behind(n) \in Nat
         /\ Feed!Behind(n + 1) = IF n % Word > Mode THEN Feed!Behind(n) ELSE Feed!Behind(n) + 1
<1> DEFINE x == n \div Word
           y == n % Word
<1>0. Word \in Nat \ {0} /\ Mode \in Nat /\ Mode + 1 < Word
  BY CanQueueAssumption
<1>1. x \in Nat /\ y \in 0 .. Word - 1 /\ n = x * Word + y
  <2>1. x \in Nat
    BY <1>0
  <2>2. y \in 0 .. Word - 1
    BY <1>0
  <2>3. n = x * Word + y
    BY <1>0
  <2> QED
    BY <2>1, <2>2, <2>3
<1>2. /\ y + 1 = Word => (n + 1) % Word = 0 /\ (n + 1) \div Word = x + 1
      /\ y + 1 # Word => (n + 1) % Word = y + 1 /\ (n + 1) \div Word = x
  BY <1>0, NextDivided
<1>3. Feed!Behind(n) = x * (Mode + 1) + (IF y > Mode THEN Mode ELSE y - 1)
  BY DEF Feed!Behind
<1> DEFINE x1 == (n + 1) \div Word
           y1 == (n + 1) % Word
<1>4. Feed!Behind(n + 1) = x1 * (Mode + 1) + (IF y1 > Mode THEN Mode ELSE y1 - 1)
  BY DEF Feed!Behind
<1>5. /\ y + 1 = Word => y1 = 0 /\ x1 = x + 1
      /\ y + 1 # Word => y1 = y + 1 /\ x1 = x
  BY <1>2
<1> HIDE DEF x, y, x1, y1
<1>6. /\ x * (Mode + 1) \in Nat /\ (x > 0 => x * (Mode + 1) >= 1)
      /\ (x + 1) * (Mode + 1) = x * (Mode + 1) + Mode + 1
  BY <1>0, <1>1
<1>7. n > 0 => Feed!Behind(n) \in Nat
  <2> DEFINE k == x * (Mode + 1)
             m == IF y > Mode THEN Mode ELSE y - 1
  <2>1. n > 0 => x > 0 \/ y > 0
    <3>1. x = 0 => x * Word = 0
      BY <1>0
    <3>2. x = 0 => n = y
      BY <3>1, <1>1
    <3> QED
      BY <3>2, <1>1
  <2>2. k \in Nat /\ (x > 0 => k >= 1) /\ Feed!Behind(n) = k + m
    BY <1>3, <1>6
  <2>3. m \in Int /\ m >= -1 /\ (y > 0 => m >= 0)
    BY <1>0, <1>1
  <2> HIDE DEF k, m
  <2> QED
    BY <2>1, <2>2, <2>3
<1>8. Feed!Behind(n + 1) = IF y > Mode THEN Feed!Behind(n) ELSE Feed!Behind(n) + 1
  BY <1>0, <1>1, <1>3, <1>4, <1>5, <1>6
<1> QED
  BY <1>1, <1>7, <1>8 DEF y

LEMMA LagNext ==
  ASSUME NEW n \in Nat \ {0}
  PROVE  /\ Feed!Lag(n) \in 0 .. MaxCnt - 1
         /\ Feed!Lag(n + 1) = IF n % Word > Mode THEN Feed!Lag(n)
                              ELSE IF Feed!Lag(n) + 1 = MaxCnt THEN 0 ELSE Feed!Lag(n) + 1
<1> DEFINE b == Feed!Behind(n)
           c == Feed!Behind(n + 1)
<1>0. MaxCnt \in Nat \ {0}
  BY CanQueueAssumption
<1>1. b \in Nat /\ c = IF n % Word > Mode THEN b ELSE b + 1
  BY BehindNext
<1>2. Feed!Lag(n) = b % MaxCnt /\ Feed!Lag(n + 1) = c % MaxCnt
  BY DEF Feed!Lag
<1> HIDE DEF b, c
<1>3. b % MaxCnt \in 0 .. MaxCnt - 1
  BY <1>0, <1>1
<1>4. (b + 1) % MaxCnt = IF (b % MaxCnt) + 1 = MaxCnt THEN 0 ELSE (b % MaxCnt) + 1
  BY <1>0, <1>1, NextDivided
<1> QED
  BY <1>1, <1>2, <1>3, <1>4

(* No record is further behind than there were records before it.          *)
LEMMA LagBelow ==
  ASSUME NEW n \in Nat \ {0}
  PROVE  Feed!Behind(n) < n /\ Feed!Lag(n) < n
<1> DEFINE x == n \div Word
           y == n % Word
           b == Feed!Behind(n)
<1>0. Word \in Nat \ {0} /\ Mode \in Nat /\ Mode + 1 < Word /\ MaxCnt \in Nat \ {0}
  BY CanQueueAssumption
<1>1. x \in Nat /\ y \in 0 .. Word - 1 /\ n = x * Word + y
  <2>1. x \in Nat
    BY <1>0
  <2>2. y \in 0 .. Word - 1
    BY <1>0
  <2>3. n = x * Word + y
    BY <1>0
  <2> QED
    BY <2>1, <2>2, <2>3
<1>2. b = x * (Mode + 1) + (IF y > Mode THEN Mode ELSE y - 1)
  BY DEF Feed!Behind
<1>3. b \in Nat
  BY BehindNext
<1> HIDE DEF x, y, b
<1>4. x * (Mode + 1) <= x * Word
  BY <1>0, <1>1
<1>5. b < n
  BY <1>0, <1>1, <1>2, <1>4
<1>6. b % MaxCnt <= b
  <2>1. b = MaxCnt * (b \div MaxCnt) + (b % MaxCnt)
    BY <1>0, <1>3
  <2>2. MaxCnt * (b \div MaxCnt) >= 0
    BY <1>0, <1>3
  <2>3. b % MaxCnt \in Nat
    BY <1>0, <1>3
  <2>4. MaxCnt * (b \div MaxCnt) \in Int
    BY <1>0, <1>3
  <2> DEFINE k == MaxCnt * (b \div MaxCnt)
             r == b % MaxCnt
  <2>5. b = k + r /\ k >= 0 /\ k \in Int /\ r \in Nat
    BY <2>1, <2>2, <2>3, <2>4
  <2> HIDE DEF k, r
  <2>6. r <= b
    BY <2>5
  <2> QED
    BY <2>6 DEF r
<1>7. Feed!Lag(n) = b % MaxCnt
  BY DEF Feed!Lag, b
<1>8. b % MaxCnt \in Nat
  BY <1>0, <1>3
<1> QED
  BY <1>3, <1>5, <1>6, <1>7, <1>8 DEF b

LagInv ==
  /\ index = pushed % Word
  /\ pushed > 0 => fetchPos = Back(Feed!Lag(pushed))

LEMMA LagStep == IInv /\ LagInv /\ [Next]_vars => LagInv'
<1> SUFFICES ASSUME IInv, LagInv, [Next]_vars PROVE LagInv'
  OBVIOUS
<1>0. /\ Word \in Nat \ {0} /\ Mode \in Nat /\ Mode + 1 < Word /\ MaxCnt \in Nat \ {0}
      /\ pushed \in Nat /\ storePos \in 0 .. MaxCnt - 1 /\ fetchPos \in 0 .. MaxCnt - 1
  BY CanQueueAssumption DEF IInv, TypeOK, Slots
<1>1. CASE Push
  <2>t. /\ pushed' = pushed + 1 /\ storePos' = Advance(storePos)
        /\ index' = IF index + 1 = Word THEN 0 ELSE index + 1
        /\ fetchPos' = IF index > Mode THEN Advance(fetchPos) ELSE fetchPos
    BY <1>1 DEF Push, FetchAfterStoring
  <2>1. index' = pushed' % Word
    BY <2>t, <1>0, NextDivided DEF LagInv
  <2>2. CASE pushed = 0
    <3>1. fetchPos = 0 /\ storePos = 0 /\ index = 0
      BY <2>2, <1>0 DEF IInv, FetchInv, IndexInv
    <3>2. Feed!Lag(pushed') = 0
      <4>1. 1 % Word = 1 /\ 1 \div Word = 0
        BY <1>0, Divided
      <4>2. Feed!Behind(1) = 0
        BY <4>1, <1>0 DEF Feed!Behind
      <4>3. 0 % MaxCnt = 0
        BY <1>0
      <4> QED
        BY <4>2, <4>3, <2>2, <2>t DEF Feed!Lag
    <3>3. Back(0)' = 0 /\ fetchPos' = 0
      BY <3>1, <2>t, <1>0 DEF Back, Advance
    <3>4. PICK l : l = Feed!Lag(pushed')
      OBVIOUS
    <3>5. Back(l)' = 0
      BY <3>2, <3>3, <3>4
    <3>6. l = Feed!Lag(pushed)'
      BY <3>4
    <3>7. fetchPos' = Back(Feed!Lag(pushed))'
      BY <3>3, <3>5, <3>6 DEF Back
    <3> QED
      BY <2>1, <3>7 DEF LagInv
  <2>3. CASE pushed # 0
    <3>1. \A k \in 0 .. MaxCnt - 1 :
            /\ Advance(Back(k)) = Back(k)'
            /\ Back(k) = IF k + 1 = MaxCnt THEN Back(0)' ELSE Back(k + 1)'
      BY <2>t, <1>0 DEF Advance, Back
    <3>2. PICK l \in 0 .. MaxCnt - 1 : l = Feed!Lag(pushed)
      BY <2>3, <1>0, LagNext
    <3>3. PICK n \in 0 .. MaxCnt - 1 : n = Feed!Lag(pushed + 1)
      BY <1>0, LagNext
    <3>4. n = IF index > Mode THEN l ELSE IF l + 1 = MaxCnt THEN 0 ELSE l + 1
      BY <3>2, <3>3, <2>3, <1>0, LagNext DEF LagInv
    <3>5. fetchPos = Back(l)
      BY <3>2, <2>3, <1>0 DEF LagInv
    <3>6. fetchPos' = Back(n)'
      BY <3>1, <3>4, <3>5, <2>t
    <3>7. n = Feed!Lag(pushed)'
      BY <3>3, <2>t
    <3> QED
      BY <3>6, <3>7, <2>1 DEF LagInv, Back
  <2> QED
    BY <2>2, <2>3
<1>2. CASE PopCheck \/ PopRead \/ UNCHANGED vars
  BY <1>2 DEF PopCheck, PopRead, vars, LagInv, Back
<1> QED
  BY <1>1, <1>2 DEF Next

(***************************************************************************)
(* queueCtrl.cpp:54-126: CCanQueueCtrl is the delay line of DelayedFeed,   *)
(* for any capacity, delay and width of m_index, however often m_index     *)
(* wraps and however push and pop interleave.                              *)
(***************************************************************************)
THEOREM CanQueueDelays == Spec => DelaySpec
<1>1. Init => Feed!Init /\ LagInv
  BY CanQueueAssumption DEF Init, Feed!Init, LagInv
<1>2. ASSUME IInv, LagInv, [Next]_vars
      PROVE  [Feed!Put \/ Feed!Get]_<<pushed, taken>>
  <2>1. CASE Push
    BY <2>1 DEF Push, Feed!Put
  <2>2. CASE PopRead
    <3>1. /\ pushed \in Nat \ {0} /\ taken' = buf[fetchPos] /\ pushed' = pushed
      BY <1>2, <2>2, CanQueueAssumption DEF IInv, TypeOK, CountInv, PopRead
    <3>2. PICK l \in 0 .. MaxCnt - 1 : l = Feed!Lag(pushed)
      BY <3>1, LagNext
    <3>3. l < pushed /\ fetchPos = Back(l)
      BY <1>2, <3>1, <3>2, LagBelow DEF LagInv
    <3>4. buf[fetchPos] = pushed - l
      BY <1>2, <3>2, <3>3 DEF IInv, RingInv
    <3> QED
      BY <3>1, <3>2, <3>4 DEF Feed!Get
  <2>3. CASE PopCheck \/ UNCHANGED vars
    BY <2>3 DEF PopCheck, vars
  <2> QED
    BY <1>2, <2>1, <2>2, <2>3 DEF Next
<1> QED
  BY <1>1, <1>2, InitInv, StepInv, LagStep, PTL DEF Spec, DelaySpec, Feed!Spec
=============================================================================
