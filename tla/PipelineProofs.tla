--------------------------- MODULE PipelineProofs --------------------------
(***************************************************************************)
(* The record queue and the pipeline, for all values of the constants.     *)
(* With one producer and one consumer, CQueueCtrl's early tests are safe   *)
(* and the ring is a bounded FIFO.  Velocities leave in the order of their *)
(* frames, each with a sample of its own, and their numbers tell the       *)
(* losses, for any number of frames, samples, deaths and restarts.         *)
(***************************************************************************)
EXTENDS Pipeline, SequenceTheorems, TLAPS

(***************************************************************************)
(* QueueCtrl.                                                              *)
(***************************************************************************)
(* Exactly the threads between lock and unlock own m_lock, one at a time.  *)
LockInv ==
  /\ \A t \in Threads : pc[t] \in InLock <=> t \in owner
  /\ \A t, u \in owner : t = u

(* The ring holds cnt records from fetchPos on; storePos follows them.     *)
RingInv == storePos = Slot(cnt)

(* What a thread inside the lock copied is what it will account for.       *)
CopyInv ==
  /\ \A p \in Producers : pc[p] \in Committed => local[p] \in Item
  /\ \A p \in Producers : pc[p] = "advance" => buf[storePos] = local[p]
  /\ \A c \in Consumers : pc[c] = "advance" => local[c] = buf[fetchPos]

IInv == TypeOK /\ LockInv /\ RingInv /\ CheckStillHolds /\ CopyInv

LEMMA InitInv == Init => IInv
<1> SUFFICES ASSUME Init PROVE IInv
  OBVIOUS
<1> USE QueueAssumption
<1>1. TypeOK
  BY DEF Init, TypeOK, Slots, Threads
<1>2. LockInv
  BY DEF Init, LockInv, InLock
<1>3. RingInv
  BY DEF Init, RingInv, Slot
<1>4. CheckStillHolds /\ CopyInv
  BY DEF Init, CheckStillHolds, CopyInv, Committed, Threads
<1> QED
  BY <1>1, <1>2, <1>3, <1>4 DEF IInv

LEMMA StepInv ==
  ASSUME SingleProducerConsumer, ~Lifo, IInv, [Next]_vars
  PROVE  IInv'
<1> USE QueueAssumption
<1> USE DEF IInv, TypeOK, LockInv, RingInv, CheckStillHolds, CopyInv, InLock,
        Committed, Slots, Threads, Slot, Advance, SingleProducerConsumer
<1>1. ASSUME NEW p \in Producers, NEW v \in Item, PushCheck(p, v)
      PROVE  IInv'
  BY <1>1 DEF PushCheck
<1>2. ASSUME NEW p \in Producers, PushCopy(p)
      PROVE  IInv'
  BY <1>2 DEF PushCopy
<1>3. ASSUME NEW p \in Producers, PushAdvance(p)
      PROVE  IInv'
  BY <1>3 DEF PushAdvance
<1>4. ASSUME NEW c \in Consumers, PopCheck(c)
      PROVE  IInv'
  BY <1>4 DEF PopCheck
<1>5. ASSUME NEW c \in Consumers, PopCopy(c)
      PROVE  IInv'
  BY <1>5 DEF PopCopy
<1>6. ASSUME NEW c \in Consumers, PopAdvance(c)
      PROVE  IInv'
  BY <1>6 DEF PopAdvance
<1>7. ASSUME NEW t \in Threads, Lock(t)
      PROVE  IInv'
  BY <1>7 DEF Lock
<1>8. ASSUME NEW t \in Threads, Unlock(t)
      PROVE  IInv'
  BY <1>8 DEF Unlock
<1>9. CASE UNCHANGED vars
  BY <1>9 DEF vars
<1> QED
  BY <1>1, <1>2, <1>3, <1>4, <1>5, <1>6, <1>7, <1>8, <1>9 DEF Next, Push, Pop

(***************************************************************************)
(* queueCtrl.cpp:55-107 under one producer and one consumer: the positions *)
(* never leave the buffer and m_cnt never leaves 0 .. m_maxCnt, although   *)
(* m_cnt is tested outside the lock that protects it.                      *)
(***************************************************************************)
THEOREM QueueTypeCorrect ==
  ASSUME SingleProducerConsumer, ~Lifo
  PROVE  Spec => []TypeOK
<1>1. IInv => TypeOK
  BY DEF IInv
<1> QED
  BY <1>1, InitInv, StepInv, PTL DEF Spec

(***************************************************************************)
(* The unlocked tests of push and pop still hold when the locked part runs.*)
(***************************************************************************)
THEOREM QueueCheckStillHolds ==
  ASSUME SingleProducerConsumer, ~Lifo
  PROVE  Spec => []CheckStillHolds
<1>1. IInv => CheckStillHolds
  BY DEF IInv
<1> QED
  BY <1>1, InitInv, StepInv, PTL DEF Spec
-----------------------------------------------------------------------------
LEMMA WaitingType ==
  ASSUME TypeOK
  PROVE  /\ Len(Waiting) = cnt
         /\ Waiting \in Seq(Item \cup {NoItem})
<1>1. \A k \in 0 .. cnt - 1 : Slot(k) \in Slots
  BY QueueAssumption DEF TypeOK, Slot, Slots
<1>2. Waiting \in [1 .. cnt -> Item \cup {NoItem}]
  BY <1>1, QueueAssumption DEF TypeOK, Waiting
<1> QED
  BY <1>2 DEF TypeOK

(* A push that copies its record does not touch the records waiting.       *)
LEMMA CopyKeepsWaiting ==
  ASSUME IInv, NEW p \in Producers, PushCopy(p)
  PROVE  Waiting' = Waiting
<1>1. cnt < MaxCnt /\ storePos = Slot(cnt)
  BY DEF IInv, PushCopy, CheckStillHolds, Committed, RingInv
<1>2. \A k \in 0 .. cnt - 1 : Slot(k) \in Slots /\ Slot(k) # storePos
  BY <1>1, QueueAssumption DEF IInv, TypeOK, Slot, Slots
<1>3. \A k \in 0 .. cnt - 1 : buf'[Slot(k)'] = buf[Slot(k)]
  BY <1>2, QueueAssumption DEF PushCopy, IInv, TypeOK, Slot
<1> QED
  BY <1>3 DEF PushCopy, Waiting, IInv, TypeOK

(* Accounting for a pushed record appends it to the records waiting.       *)
LEMMA AdvanceAppends ==
  ASSUME IInv, ~Lifo, NEW p \in Producers, PushAdvance(p)
  PROVE  Waiting' = Append(Waiting, local[p])
<1>1. cnt < MaxCnt /\ cnt' = cnt + 1 /\ cnt \in Nat
  BY QueueAssumption
     DEF IInv, TypeOK, PushAdvance, CheckStillHolds, Committed
<1>2. \A k \in 0 .. cnt : Slot(k)' = Slot(k)
  BY DEF PushAdvance, Slot
<1>3. buf' = buf /\ buf[Slot(cnt)] = local[p]
  BY DEF IInv, PushAdvance, CopyInv, RingInv
<1>4. \A i \in 1 .. cnt + 1 :
         buf[Slot(i - 1)'] = IF i <= cnt THEN Waiting[i] ELSE local[p]
  BY <1>1, <1>2, <1>3 DEF Waiting
<1>5. Len(Waiting) = cnt /\ Waiting \in Seq(Item \cup {NoItem})
  BY WaitingType DEF IInv
<1>6. Append(Waiting, local[p])
        = [i \in 1 .. cnt + 1 |-> IF i <= cnt THEN Waiting[i] ELSE local[p]]
  BY <1>1, <1>5
<1>7. Waiting' = [i \in 1 .. cnt + 1 |-> buf[Slot(i - 1)']]
  BY <1>1, <1>3 DEF Waiting
<1> QED
  BY <1>1, <1>4, <1>6, <1>7

(* A pop takes the head of the records waiting.                            *)
LEMMA AdvanceTakesHead ==
  ASSUME IInv, ~Lifo, NEW c \in Consumers, PopAdvance(c)
  PROVE  /\ Waiting # <<>>
         /\ taken' = Head(Waiting)
         /\ Waiting' = Tail(Waiting)
<1>1. cnt > 0 /\ cnt' = cnt - 1 /\ cnt \in Nat /\ cnt <= MaxCnt
  BY QueueAssumption
     DEF IInv, TypeOK, PopAdvance, CheckStillHolds, Committed
<1>2. Len(Waiting) = cnt /\ Waiting \in Seq(Item \cup {NoItem})
  BY WaitingType DEF IInv
<1>3. Slot(0) = fetchPos
  BY QueueAssumption DEF IInv, TypeOK, Slots, Slot
<1>4. taken' = Waiting[1]
  BY <1>1, <1>3 DEF PopAdvance, IInv, CopyInv, Waiting
<1>5. \A k \in 0 .. cnt - 2 : Slot(k)' = Slot(k + 1)
  BY <1>1, QueueAssumption
     DEF PopAdvance, IInv, TypeOK, Slots, Slot, Advance
<1>6. \A i \in 1 .. cnt - 1 : buf'[Slot(i - 1)'] = Waiting[i + 1]
  <2> SUFFICES ASSUME NEW i \in 1 .. cnt - 1
               PROVE  buf'[Slot(i - 1)'] = Waiting[i + 1]
    OBVIOUS
  <2>1. Slot(i - 1)' = Slot((i - 1) + 1)
    BY <1>1, <1>5
  <2> QED
    BY <1>1, <2>1 DEF PopAdvance, Waiting
<1>7. Tail(Waiting) = [i \in 1 .. cnt - 1 |-> Waiting[i + 1]]
  <2>1. Waiting # <<>>
    BY <1>1, <1>2
  <2>2. /\ Tail(Waiting) \in Seq(Item \cup {NoItem})
        /\ Len(Tail(Waiting)) = cnt - 1
        /\ \A i \in 1 .. cnt - 1 : Tail(Waiting)[i] = Waiting[i + 1]
    BY <1>2, <2>1, HeadTailProperties
  <2>3. Tail(Waiting) \in [1 .. cnt - 1 -> Item \cup {NoItem}]
    BY <2>2, LenProperties
  <2> QED
    BY <1>1, <2>2, <2>3
<1>8. Waiting' = [i \in 1 .. cnt - 1 |-> buf'[Slot(i - 1)']]
  BY <1>1 DEF Waiting
<1> QED
  BY <1>1, <1>2, <1>4, <1>6, <1>7, <1>8

(***************************************************************************)
(* queueCtrl.h:15, mode 0: the ring of queueCtrl.cpp is a bounded FIFO.  A *)
(* push is the abstract Put when it has counted its record, a pop the      *)
(* abstract Get when it has uncounted it; all other steps change nothing   *)
(* an outsider can see.                                                    *)
(***************************************************************************)
THEOREM QueueIsFifo ==
  ASSUME SingleProducerConsumer, ~Lifo
  PROVE  Spec => FifoSpec
<1>1. Init => Fifo!Init
  BY DEF Init, Fifo!Init, Waiting
<1>2. ASSUME IInv, [Next]_vars
      PROVE  [Fifo!Next]_(Fifo!vars)
  <2> USE <1>2
  <2>1. ASSUME NEW p \in Producers, PushCopy(p)
        PROVE  UNCHANGED Fifo!vars
    BY <2>1, CopyKeepsWaiting DEF Fifo!vars, PushCopy
  <2>2. ASSUME NEW p \in Producers, PushAdvance(p)
        PROVE  Fifo!Next
    <3>1. local[p] \in Item /\ cnt < MaxCnt
      BY <2>2 DEF IInv, CopyInv, CheckStillHolds, Committed, PushAdvance
    <3>2. Fifo!Put(local[p])
      BY <2>2, <3>1, AdvanceAppends, WaitingType
         DEF Fifo!Put, IInv, PushAdvance
    <3> QED
      BY <3>1, <3>2 DEF Fifo!Next
  <2>3. ASSUME NEW c \in Consumers, PopAdvance(c)
        PROVE  Fifo!Next
    BY <2>3, AdvanceTakesHead DEF Fifo!Next, Fifo!Get
  <2>4. ASSUME UNCHANGED <<buf, fetchPos, cnt, taken>>
        PROVE  UNCHANGED Fifo!vars
    BY <2>4 DEF Fifo!vars, Waiting, Slot
  <2> QED
    BY <2>1, <2>2, <2>3, <2>4
       DEF Next, Push, Pop, PushCheck, PopCheck, PopCopy, Lock, Unlock, vars
<1> QED
  BY <1>1, <1>2, InitInv, StepInv, PTL DEF Spec, FifoSpec, Fifo!Spec
-----------------------------------------------------------------------------
(***************************************************************************)
(* VoPipeline.                                                             *)
(***************************************************************************)
ElementsOf(q) == {q[i] : i \in 1 .. Len(q)}

(* Every result of T is later than every one of S.                         *)
Before(S, T) == \A q \in S, r \in T : VP!Later(r, q)

InOrder(q) == \A i, j \in 1 .. Len(q) : i < j => VP!Later(q[j], q[i])

PipeTypes ==
  /\ samples \in 0 .. MaxSamples /\ imuCnt \in 0 .. ImuCap
  /\ imu \in 0 .. samples /\ frames \in 0 .. MaxFrames
  /\ seen \in 0 .. samples /\ starved \in BOOLEAN
  /\ chan \in [total : 0 .. MaxMsg, notes : Nat, newest : VP!Jobs]
  /\ Len(ctrl) <= CtrlCap /\ Len(records) <= CtrlCap
  /\ back \in Seq(VP!Jobs) /\ ctrl \in Seq(VP!Jobs)
  /\ records \in Seq(VP!Jobs) /\ file \in Seq(VP!Jobs)
  /\ lost \subseteq VP!Jobs /\ sent \in VP!Jobs
  /\ life \in 1 .. MaxLives /\ index \in Nat
  /\ vo \in [pc : {"idle", "measure", "push", "signal"}, job : VP!Jobs]
  /\ store \in [pc : {"pop", "wait", "write", "end"}, record : VP!Jobs]
  /\ down \in {"no", "stopped", "freed", "closed", "gone", "removed"}

(* Every pop of m_imuQueue takes one record and every sample brings one, so*)
(* a sample since the last frame is there to be popped, and what the last  *)
(* frame was joined with lies m_mode samples back.                         *)
SampleInv ==
  /\ imuCnt > 0 => samples > 0
  /\ samples > seen => imuCnt > 0
  /\ ~starved /\ seen > 0 =>
       imu = IF seen <= ImuDelay THEN 1 ELSE seen - ImuDelay

Measuring == IF vo.pc = "measure" THEN 1 ELSE 0

(* A frame is measured once for each time it was counted in the channel,   *)
(* by the process that was there then.                                     *)
FrameInv ==
  /\ index + chan.total + Measuring <= frames
  /\ chan.newest.frame <= frames
  /\ vo.pc = "measure" => vo.job.frame <= chan.newest.frame

(* A result that is out is older than all that is still to come.           *)
Past(r) ==
  /\ r.life < life \/ (r.life = life /\ r.cnt < index)
  /\ r.frame <= chan.newest.frame
  /\ vo.pc = "measure" => r.frame <= vo.job.frame

(* The way of a result back: kernel queue, m_qCtrl, CAN bus.               *)
BackInv ==
  /\ InOrder(ctrl) /\ InOrder(back)
  /\ Before({sent}, ElementsOf(ctrl)) /\ Before({sent}, ElementsOf(back))
  /\ Before(ElementsOf(ctrl), ElementsOf(back))
  /\ \A r \in {sent} \cup ElementsOf(ctrl) \cup ElementsOf(back) : Past(r)

Pushing == IF vo.pc = "push" THEN {vo.job} ELSE {}
Writing == IF store.pc = "write" THEN {store.record} ELSE {}

(* The way of its sample: message thread, m_queueCtrl, StoreImu, imu.txt.  *)
FileInv ==
  /\ InOrder(file) /\ InOrder(records)
  /\ Before(ElementsOf(file), Writing)
  /\ Before(ElementsOf(file) \cup Writing, ElementsOf(records))
  /\ Before(ElementsOf(file) \cup Writing \cup ElementsOf(records), Pushing)
  /\ \A r \in ElementsOf(file) \cup Writing \cup ElementsOf(records) \cup Pushing :
       Past(r)

(* The number c of process l was sent or skipped, is on its way, or lost.  *)
Accounted(l, c) ==
  \/ sent.life = l /\ c <= sent.cnt
  \/ \E r \in lost \cup ElementsOf(ctrl) \cup ElementsOf(back) :
       r.life = l /\ r.cnt = c

NumberInv ==
  /\ \A q \in ElementsOf(ctrl) \cup ElementsOf(back) :
       \A c \in 0 .. q.cnt - 1 : Accounted(q.life, c)
  /\ \A c \in 0 .. index - 1 : Accounted(life, c)
-----------------------------------------------------------------------------
LEMMA PipelineImplemented == AnySpec => VP!Spec
<1>1. AnyInit => VP!Init
  BY DEF AnyInit
<1>2. [AnyNext]_AnyVars => [VP!Next]_(VP!vars)
  BY DEF AnyNext, AnyVars, vpVars, VP!vars, VP!rcm, VP!velocity, VP!results
<1> QED
  BY <1>1, <1>2, PTL DEF AnySpec, VP!Spec

(* What a queue does to its elements and their order.                      *)
LEMMA AppendsElement ==
  ASSUME NEW q \in Seq(VP!Jobs), NEW r \in VP!Jobs
  PROVE  /\ Append(q, r) \in Seq(VP!Jobs)
         /\ Len(Append(q, r)) = Len(q) + 1
         /\ ElementsOf(Append(q, r)) = ElementsOf(q) \cup {r}
         /\ InOrder(q) /\ Before(ElementsOf(q), {r}) => InOrder(Append(q, r))
<1>1. /\ Append(q, r) \in Seq(VP!Jobs)
      /\ Len(Append(q, r)) = Len(q) + 1
      /\ \A i \in 1 .. Len(q) : Append(q, r)[i] = q[i]
      /\ Append(q, r)[Len(q) + 1] = r
  BY AppendProperties
<1> DEFINE n == Len(q)  a == Append(q, r)
<1>2. n \in Nat
  BY LenProperties
<1>3. /\ Len(a) = n + 1
      /\ \A i \in 1 .. n : a[i] = q[i]
      /\ a[n + 1] = r
  BY <1>1
<1>4. ElementsOf(q) = {q[i] : i \in 1 .. n} /\ ElementsOf(a) = {a[i] : i \in 1 .. n + 1}
  BY <1>3 DEF ElementsOf
<1>5. InOrder(q) <=> \A i, j \in 1 .. n : i < j => VP!Later(q[j], q[i])
  BY DEF InOrder
<1>6. InOrder(a) <=> \A i, j \in 1 .. n + 1 : i < j => VP!Later(a[j], a[i])
  BY <1>3 DEF InOrder
<1> HIDE DEF n, a
<1>7. \A i \in 1 .. n + 1 : i \in 1 .. n \/ i = n + 1
  BY <1>2
<1>8. ElementsOf(a) = ElementsOf(q) \cup {r}
  BY <1>2, <1>3, <1>4, <1>7
<1>9. ASSUME InOrder(q), Before(ElementsOf(q), {r})
      PROVE  InOrder(a)
  <2> SUFFICES ASSUME NEW i \in 1 .. n + 1, NEW j \in 1 .. n + 1, i < j
               PROVE  VP!Later(a[j], a[i])
    BY <1>6
  <2>1. i \in 1 .. n
    BY <1>2
  <2>2. CASE j \in 1 .. n
    BY <2>1, <2>2, <1>3, <1>5, <1>9
  <2>3. CASE j = n + 1
    BY <2>1, <2>3, <1>3, <1>4, <1>9 DEF Before
  <2> QED
    BY <1>7, <2>2, <2>3
<1> QED
  BY <1>1, <1>8, <1>9 DEF a

LEMMA TakesElement ==
  ASSUME NEW q \in Seq(VP!Jobs), q # <<>>
  PROVE  /\ Head(q) \in VP!Jobs
         /\ Tail(q) \in Seq(VP!Jobs)
         /\ Len(Tail(q)) < Len(q)
         /\ ElementsOf(q) = {Head(q)} \cup ElementsOf(Tail(q))
         /\ InOrder(q) => /\ InOrder(Tail(q))
                          /\ Before({Head(q)}, ElementsOf(Tail(q)))
<1>1. /\ Head(q) \in VP!Jobs /\ Head(q) = q[1]
      /\ Tail(q) \in Seq(VP!Jobs)
      /\ Len(Tail(q)) = Len(q) - 1
      /\ \A i \in 1 .. Len(Tail(q)) : Tail(q)[i] = q[i + 1]
  BY HeadTailProperties
<1> DEFINE n == Len(q)  t == Tail(q)  h == Head(q)
<1>2. n \in Nat \ {0}
  BY LenProperties, EmptySeq
<1>3. /\ Len(t) = n - 1 /\ h = q[1]
      /\ \A i \in 1 .. n - 1 : t[i] = q[i + 1]
  BY <1>1
<1>4. ElementsOf(q) = {q[i] : i \in 1 .. n} /\ ElementsOf(t) = {t[i] : i \in 1 .. n - 1}
  BY <1>3 DEF ElementsOf
<1>5. InOrder(q) <=> \A i, j \in 1 .. n : i < j => VP!Later(q[j], q[i])
  BY DEF InOrder
<1>6. InOrder(t) <=> \A i, j \in 1 .. n - 1 : i < j => VP!Later(t[j], t[i])
  BY <1>3 DEF InOrder
<1> HIDE DEF n, t, h
<1>7. /\ n - 1 < n
      /\ \A i \in 1 .. n - 1 : i + 1 \in 1 .. n /\ 1 < i + 1
      /\ \A i \in 1 .. n : i = 1 \/ (i - 1 \in 1 .. n - 1 /\ i = (i - 1) + 1)
      /\ \A i, j \in 1 .. n - 1 : i < j => i + 1 < j + 1
      /\ 1 \in 1 .. n
  BY <1>2
<1>8. ElementsOf(q) = {h} \cup ElementsOf(t)
  <2>1. ASSUME NEW x \in ElementsOf(q) PROVE x \in {h} \cup ElementsOf(t)
    <3>1. PICK i \in 1 .. n : x = q[i]
      BY <1>4
    <3>2. CASE i = 1
      BY <3>1, <3>2, <1>3
    <3>3. CASE i - 1 \in 1 .. n - 1 /\ i = (i - 1) + 1
      <4>1. x = t[i - 1]
        BY <3>1, <3>3, <1>3
      <4> QED
        BY <4>1, <3>3, <1>4
    <3> QED
      BY <1>7, <3>2, <3>3
  <2>2. h \in ElementsOf(q)
    BY <1>3, <1>4, <1>7
  <2>3. ElementsOf(t) \subseteq ElementsOf(q)
    BY <1>3, <1>4, <1>7
  <2> QED
    BY <2>1, <2>2, <2>3
<1>9. ASSUME InOrder(q) PROVE InOrder(t) /\ Before({h}, ElementsOf(t))
  BY <1>3, <1>4, <1>5, <1>6, <1>7, <1>9 DEF Before
<1>10. Len(t) < n
  BY <1>3, <1>7
<1> QED
  BY <1>1, <1>8, <1>9, <1>10 DEF n, t, h

LEMMA EmptyElements == ElementsOf(<<>>) = {} /\ InOrder(<<>>)
<1>1. 1 .. Len(<<>>) = {}
  BY EmptySeq
<1> QED
  BY <1>1 DEF ElementsOf, InOrder
-----------------------------------------------------------------------------
LEMMA JobFacts ==
  /\ VP!NoJob \in VP!Jobs
  /\ VP!NoJob.frame = 0 /\ VP!NoJob.life = 0 /\ VP!NoJob.cnt = -1
  /\ \A r \in VP!Jobs : /\ r.frame \in Nat /\ r.imu \in Nat
                        /\ r.life \in Nat /\ r.cnt \in Int
  BY VoAssumption DEF VP!PipelineAssumption, VP!NoJob, VP!Jobs, VP!Undetermined

LEMMA LaterFacts ==
  ASSUME NEW q \in VP!Jobs, NEW r \in VP!Jobs, NEW s \in VP!Jobs,
         VP!Later(r, q), VP!Later(s, r)
  PROVE  VP!Later(s, q)
  BY JobFacts DEF VP!Later

(* The steps of Deactive.                                                  *)
LEMMA AfterFacts ==
  /\ VP!After["no"] = "stopped" /\ VP!After["stopped"] = "freed"
  /\ VP!After["freed"] = "closed" /\ VP!After["closed"] = "removed"
  BY DEF VP!After

LEMMA PushedFacts ==
  ASSUME NEW q \in Seq(VP!Jobs), Len(q) <= CtrlCap, NEW r \in VP!Jobs
  PROVE  /\ VP!Pushed(q, r) \in Seq(VP!Jobs)
         /\ Len(VP!Pushed(q, r)) <= CtrlCap
         /\ ElementsOf(q) \subseteq ElementsOf(VP!Pushed(q, r))
         /\ ElementsOf(VP!Pushed(q, r)) \subseteq ElementsOf(q) \cup {r}
         /\ Len(q) < CtrlCap => r \in ElementsOf(VP!Pushed(q, r))
         /\ InOrder(q) /\ Before(ElementsOf(q), {r}) => InOrder(VP!Pushed(q, r))
<1>1. Len(q) \in Nat /\ CtrlCap \in Nat
  BY LenProperties, VoAssumption DEF VP!PipelineAssumption
<1>2. CASE Len(q) < CtrlCap
  <2>1. VP!Pushed(q, r) = Append(q, r)
    BY <1>2 DEF VP!Pushed
  <2>2. Len(Append(q, r)) <= CtrlCap
    <3>1. Len(Append(q, r)) = Len(q) + 1
      BY AppendsElement
    <3> QED
      BY <1>1, <1>2, <3>1
  <2> QED
    BY <2>1, <2>2, AppendsElement
<1>3. CASE ~(Len(q) < CtrlCap)
  <2>1. VP!Pushed(q, r) = q
    BY <1>3 DEF VP!Pushed
  <2> QED
    BY <1>3, <2>1
<1> QED
  BY <1>2, <1>3

LEMMA PipeTypesInit == VP!Init => PipeTypes
<1> SUFFICES ASSUME VP!Init PROVE PipeTypes
  OBVIOUS
<1>1. /\ samples \in 0 .. MaxSamples /\ imuCnt \in 0 .. ImuCap
      /\ imu \in 0 .. samples /\ frames \in 0 .. MaxFrames
      /\ seen \in 0 .. samples /\ starved \in BOOLEAN
  <2>1. samples = 0 /\ imuCnt = 0 /\ imu = 0 /\ frames = 0 /\ seen = 0
    BY DEF VP!Init, VP!Undetermined
  <2>2. MaxSamples \in Nat /\ ImuCap \in Nat /\ MaxFrames \in Nat
    BY VoAssumption DEF VP!PipelineAssumption
  <2>3. starved \in BOOLEAN
    BY DEF VP!Init
  <2> QED
    BY <2>1, <2>2, <2>3
<1> USE VoAssumption, JobFacts, EmptySeq
     DEF VP!Init, VP!PipelineAssumption, VP!IdleVo, VP!IdleStore
<1>2. chan \in [total : 0 .. MaxMsg, notes : Nat, newest : VP!Jobs]
  OBVIOUS
<1>3. /\ Len(ctrl) <= CtrlCap /\ Len(records) <= CtrlCap
      /\ back \in Seq(VP!Jobs) /\ ctrl \in Seq(VP!Jobs)
      /\ records \in Seq(VP!Jobs) /\ file \in Seq(VP!Jobs)
  OBVIOUS
<1>4. /\ lost \subseteq VP!Jobs /\ sent \in VP!Jobs
      /\ life \in 1 .. MaxLives /\ index \in Nat
      /\ vo \in [pc : {"idle", "measure", "push", "signal"}, job : VP!Jobs]
      /\ store \in [pc : {"pop", "wait", "write", "end"}, record : VP!Jobs]
      /\ down \in {"no", "stopped", "freed", "closed", "gone", "removed"}
  OBVIOUS
<1> QED
  BY <1>1, <1>2, <1>3, <1>4 DEF PipeTypes

(* GenerateMsg: the sample is one that came or none, and the job, if it    *)
(* goes into the channel, is that of the frame.                            *)
LEMMA FrameSteps ==
  ASSUME PipeTypes, SampleInv, FrameInv, VP!Frame
  PROVE  /\ frames' = frames + 1 /\ frames' \in 0 .. MaxFrames
         /\ imu' \in 0 .. samples /\ imuCnt' \in 0 .. ImuCap
         /\ seen' \in 0 .. samples /\ starved' \in BOOLEAN
         /\ chan' \in [total : 0 .. MaxMsg, notes : Nat, newest : VP!Jobs]
         /\ \/ chan'.newest = chan.newest /\ chan'.total = chan.total
            \/ chan'.newest.frame = frames' /\ chan'.total <= chan.total + 1
<1>1. frames < MaxFrames /\ frames \in Nat /\ MaxFrames \in Nat
  BY VoAssumption DEF VP!Frame, PipeTypes, VP!PipelineAssumption
<1>2. frames' = frames + 1 /\ frames' \in 0 .. MaxFrames
  BY <1>1 DEF VP!Frame
<1>3. imu' \in 0 .. samples /\ imuCnt' \in 0 .. ImuCap
  <2>1. imu \in 0 .. samples /\ imuCnt \in 0 .. ImuCap /\ samples \in Nat
    BY DEF PipeTypes
  <2>2. CASE UNCHANGED <<imu, imuCnt>>
    BY <2>1, <2>2
  <2>3. CASE VP!GetContent
    <3>1. CASE imuCnt > 0
      <4>1. imu' = VP!Delayed /\ imuCnt' = imuCnt - 1
        BY <2>3, <3>1 DEF VP!GetContent
      <4>2. samples > 0
        BY <3>1 DEF SampleInv
      <4>3. VP!Delayed \in 0 .. samples
        BY <2>1, <4>2, VoAssumption DEF VP!Delayed, VP!PipelineAssumption
      <4> QED
        BY <2>1, <3>1, <4>1, <4>3, VoAssumption DEF VP!PipelineAssumption
    <3>2. CASE ~(imuCnt > 0)
      BY <2>1, <2>3, <3>2 DEF VP!GetContent, VP!Undetermined
    <3> QED
      BY <3>1, <3>2
  <2> QED
    BY <2>2, <2>3 DEF VP!Frame
<1>4. seen' \in 0 .. samples /\ starved' \in BOOLEAN
  <2>1. seen \in 0 .. samples /\ samples \in Nat /\ starved \in BOOLEAN
    BY DEF PipeTypes
  <2>2. CASE frames' <= Discards
    BY <2>1, <2>2 DEF VP!Frame
  <2>3. CASE ~(frames' <= Discards)
    <3>1. seen' = samples
      BY <2>3 DEF VP!Frame
    <3>2. starved' = (starved \/ samples = seen)
      BY <2>3 DEF VP!Frame
    <3>3. starved' \in BOOLEAN
      BY <3>2, Zenon
    <3> QED
      BY <2>1, <3>1, <3>3
  <2> QED
    BY <2>2, <2>3
<1> DEFINE job == [VP!NoJob EXCEPT !.frame = frames', !.imu = imu']
<1>5. /\ job \in VP!Jobs /\ job.frame = frames'
  <2>1. imu' \in 0 .. MaxSamples
    BY <1>3, VoAssumption DEF PipeTypes, VP!PipelineAssumption
  <2>2. VP!NoJob \in VP!Jobs
    BY JobFacts
  <2> QED
    BY <1>2, <2>1, <2>2 DEF VP!Jobs
<1>6. \/ chan' = chan
      \/ chan' = VP!HandedOver(chan, job)
      \/ chan' = VP!HandedUntold(chan, job)
  BY DEF VP!Frame
<1> HIDE DEF job
<1>7. /\ chan \in [total : 0 .. MaxMsg, notes : Nat, newest : VP!Jobs]
      /\ MaxMsg \in Nat
  BY VoAssumption DEF PipeTypes, VP!PipelineAssumption
<1>8. /\ chan' \in [total : 0 .. MaxMsg, notes : Nat, newest : VP!Jobs]
      /\ \/ chan'.newest = chan.newest /\ chan'.total = chan.total
         \/ chan'.newest = job /\ chan'.total <= chan.total + 1
  <2>1. CASE chan' = chan
    BY <2>1, <1>7
  <2>2. CASE chan.total < MaxMsg /\ chan' = VP!HandedOver(chan, job)
    <3>1. chan' = [total |-> chan.total + 1, notes |-> chan.notes + 1, newest |-> job]
      BY <2>2 DEF VP!HandedOver
    <3> QED
      BY <3>1, <2>2, <1>5, <1>7
  <2>3. CASE chan.total < MaxMsg /\ chan' = VP!HandedUntold(chan, job)
    <3>1. chan' = [chan EXCEPT !.total = chan.total + 1, !.newest = job]
      BY <2>3 DEF VP!HandedUntold
    <3>2. chan.total + 1 \in 0 .. MaxMsg
      BY <2>3, <1>7
    <3>3. chan' \in [total : 0 .. MaxMsg, notes : Nat, newest : VP!Jobs]
      BY <3>1, <3>2, <1>5, <1>7
    <3>4. chan'.newest = job /\ chan'.total = chan.total + 1
      BY <3>1, <1>7
    <3>5. chan'.total <= chan.total + 1
      BY <3>4, <3>2
    <3> QED
      BY <3>3, <3>4, <3>5
  <2> QED
    BY <1>6, <2>1, <2>2, <2>3 DEF VP!HandedOver, VP!HandedUntold
<1> QED
  BY <1>2, <1>3, <1>4, <1>5, <1>8

(* What the measurement under way will send.                               *)
Result == [vo.job EXCEPT !.life = life, !.cnt = index]

(* A frame that is measured is one of those counted, so its number is.     *)
LEMMA MeasureSteps ==
  ASSUME PipeTypes, FrameInv, VP!Measure, down \notin {"freed", "closed"}
  PROVE  /\ Result \in VP!Jobs /\ Result.frame = vo.job.frame
         /\ Result.life = life /\ Result.cnt = index
         /\ vo.pc = "measure" /\ vo' = [pc |-> "push", job |-> Result]
         /\ index' = index + 1 /\ index + 1 <= MaxFrames
         /\ UNCHANGED <<life, ctrl, sent, chan, store, records, file, down>>
         /\ \/ back' = Append(back, Result) /\ lost' = lost
            \/ back' = back /\ lost' = lost \cup {Result}
<1>1. vo.pc = "measure" /\ vo.job \in VP!Jobs
  BY DEF VP!Measure, PipeTypes
<1>2. index + 1 <= MaxFrames /\ index \in Nat /\ index \in -1 .. MaxFrames
  <2>1. /\ index \in Nat /\ chan.total \in Nat /\ frames \in Nat /\ MaxFrames \in Nat
        /\ frames <= MaxFrames
    BY VoAssumption DEF PipeTypes, VP!PipelineAssumption
  <2>2. index + chan.total + 1 <= frames
    BY <1>1 DEF FrameInv, Measuring
  <2> QED
    BY <2>1, <2>2
<1>3. life \in 0 .. MaxLives
  BY VoAssumption DEF PipeTypes, VP!PipelineAssumption
<1>4. /\ Result \in VP!Jobs /\ Result.frame = vo.job.frame
      /\ Result.life = life /\ Result.cnt = index
  BY <1>1, <1>2, <1>3 DEF VP!Jobs, Result
<1>5. PICK told \in BOOLEAN :
        /\ vo' = [pc |-> "push", job |-> Result]
        /\ index' = VP!Numbered(told)
        /\ back' = IF told THEN Append(back, Result) ELSE back
        /\ lost' = IF told THEN lost ELSE lost \cup {Result}
        /\ UNCHANGED down
  BY DEF VP!Measure, Result
<1>6. UNCHANGED <<life, ctrl, sent, chan, store, records, file>>
  BY DEF VP!Measure, VP!rcm
<1>7. \/ back' = Append(back, Result) /\ lost' = lost
      \/ back' = back /\ lost' = lost \cup {Result}
  BY <1>5
<1> QED
  BY <1>1, <1>2, <1>4, <1>5, <1>6, <1>7 DEF VP!Numbered

LEMMA PipeTypesStep ==
  ASSUME PipeTypes, SampleInv, FrameInv, [VP!Next]_(VP!vars)
  PROVE  PipeTypes'
<1> USE DEF VP!rcm, VP!velocity, VP!results
<1>1. CASE VP!Sample
  <2>1. samples' \in 0 .. MaxSamples /\ samples' = samples + 1
    BY <1>1, VoAssumption DEF VP!Sample, PipeTypes, VP!PipelineAssumption
  <2>2. imuCnt' \in 0 .. ImuCap
    BY <1>1, VoAssumption DEF VP!Sample, PipeTypes, VP!PipelineAssumption
  <2>3. imu' \in 0 .. samples' /\ seen' \in 0 .. samples'
    BY <1>1, <2>1 DEF VP!Sample, PipeTypes
  <2> QED
    BY <1>1, <2>1, <2>2, <2>3 DEF VP!Sample, PipeTypes
<1>2. CASE VP!Frame
  <2>1. UNCHANGED <<samples, VP!velocity, VP!results>>
    BY <1>2 DEF VP!Frame
  <2> QED
    BY <1>2, <2>1, FrameSteps DEF PipeTypes
<1>3. CASE VP!ProcessVelocityMsg
  <2> USE <1>3 DEF VP!ProcessVelocityMsg
  <2>1. back \in Seq(VP!Jobs) /\ ctrl \in Seq(VP!Jobs) /\ Len(ctrl) <= CtrlCap
    BY DEF PipeTypes
  <2>2. back' \in Seq(VP!Jobs) /\ Head(back) \in VP!Jobs
    BY <2>1, TakesElement
  <2>3. ctrl' \in Seq(VP!Jobs) /\ Len(ctrl') <= CtrlCap
    BY <2>1, <2>2, PushedFacts
  <2>4. lost' \subseteq VP!Jobs
    BY <2>2 DEF PipeTypes
  <2> QED
    BY <2>2, <2>3, <2>4 DEF PipeTypes
<1>4. CASE VP!SendVoData
  <2> USE <1>4 DEF VP!SendVoData
  <2>1. ctrl \in Seq(VP!Jobs) /\ Len(ctrl) <= CtrlCap /\ CtrlCap \in Nat
    BY VoAssumption DEF PipeTypes, VP!PipelineAssumption
  <2>2. ctrl' \in Seq(VP!Jobs) /\ Len(ctrl') < Len(ctrl) /\ sent' \in VP!Jobs
    BY <2>1, TakesElement
  <2>3. Len(ctrl') <= CtrlCap
    BY <2>1, <2>2, LenProperties
  <2> QED
    BY <2>2, <2>3 DEF PipeTypes
<1>5. CASE VP!Receive
  <2> USE <1>5 DEF VP!Receive
  <2>1. /\ chan \in [total : 0 .. MaxMsg, notes : Nat, newest : VP!Jobs]
        /\ chan.notes \in Nat /\ chan.notes > 0 /\ chan.newest \in VP!Jobs
        /\ chan.total \in 0 .. MaxMsg /\ MaxMsg \in Nat
    BY VoAssumption DEF PipeTypes, VP!PipelineAssumption
  <2>2. chan' \in [total : 0 .. MaxMsg, notes : Nat, newest : VP!Jobs]
    <3>1. chan.notes - 1 \in Nat
      BY <2>1
    <3>2. CASE chan.total > 0
      <4>1. chan.total - 1 \in 0 .. MaxMsg
        BY <2>1, <3>2
      <4>2. chan' = [chan EXCEPT !.total = chan.total - 1, !.notes = chan.notes - 1]
        BY <3>2
      <4> QED
        BY <2>1, <3>1, <4>1, <4>2
    <3>3. CASE ~(chan.total > 0)
      <4>1. chan' = [chan EXCEPT !.notes = chan.notes - 1]
        BY <3>3
      <4> QED
        BY <2>1, <3>1, <4>1
    <3> QED
      BY <3>2, <3>3
  <2>3. vo' \in [pc : {"idle", "measure", "push", "signal"}, job : VP!Jobs]
    BY <2>1 DEF PipeTypes
  <2> QED
    BY <2>2, <2>3 DEF PipeTypes
<1>6. CASE VP!Measure
  <2>1. CASE down \in {"freed", "closed"}
    BY <1>6, <2>1 DEF VP!Measure, PipeTypes
  <2>2. CASE down \notin {"freed", "closed"}
    <3>1. /\ Result \in VP!Jobs
          /\ vo' = [pc |-> "push", job |-> Result]
          /\ index' = index + 1
          /\ UNCHANGED <<life, ctrl, sent, chan, store, records, file, down>>
          /\ \/ back' = Append(back, Result) /\ lost' = lost
             \/ back' = back /\ lost' = lost \cup {Result}
      BY <1>6, <2>2, MeasureSteps
    <3>2. vo' \in [pc : {"idle", "measure", "push", "signal"}, job : VP!Jobs]
      BY <3>1
    <3>3. back \in Seq(VP!Jobs) /\ lost \subseteq VP!Jobs
      BY DEF PipeTypes
    <3>4. back' \in Seq(VP!Jobs) /\ lost' \subseteq VP!Jobs
      BY <3>1, <3>3, AppendsElement
    <3>5. UNCHANGED <<samples, imuCnt, imu, frames, seen, starved>>
      BY <1>6 DEF VP!Measure
    <3>6. index' \in Nat
      BY <3>1 DEF PipeTypes
    <3> QED
      BY <3>1, <3>2, <3>4, <3>5, <3>6 DEF PipeTypes
  <2> QED
    BY <2>1, <2>2
<1>7. CASE VP!KeepImu
  <2> USE <1>7 DEF VP!KeepImu
  <2>1. /\ records \in Seq(VP!Jobs) /\ Len(records) <= CtrlCap
        /\ vo \in [pc : {"idle", "measure", "push", "signal"}, job : VP!Jobs]
        /\ vo.job \in VP!Jobs
    BY DEF PipeTypes
  <2>2. records' \in Seq(VP!Jobs) /\ Len(records') <= CtrlCap
    BY <2>1, PushedFacts
  <2>3. vo' \in [pc : {"idle", "measure", "push", "signal"}, job : VP!Jobs]
    BY <2>1
  <2> QED
    BY <2>2, <2>3 DEF PipeTypes
<1>8. CASE VP!Signal
  <2> USE <1>8 DEF VP!Signal
  <2>1. store' \in [pc : {"pop", "wait", "write", "end"}, record : VP!Jobs]
    BY DEF PipeTypes, VP!Woken
  <2>2. vo' \in [pc : {"idle", "measure", "push", "signal"}, job : VP!Jobs]
    BY JobFacts DEF VP!IdleVo
  <2> QED
    BY <2>1, <2>2 DEF PipeTypes
<1>9. CASE VP!StorePop
  <2> USE <1>9 DEF VP!StorePop
  <2>1. CASE records = <<>>
    <3>1. store' \in [pc : {"pop", "wait", "write", "end"}, record : VP!Jobs]
      BY <2>1 DEF PipeTypes
    <3> QED
      BY <2>1, <3>1 DEF PipeTypes
  <2>2. CASE records # <<>>
    <3>1. /\ records \in Seq(VP!Jobs) /\ Len(records) <= CtrlCap /\ CtrlCap \in Nat
      BY VoAssumption DEF PipeTypes, VP!PipelineAssumption
    <3>2. /\ Head(records) \in VP!Jobs /\ Tail(records) \in Seq(VP!Jobs)
          /\ Len(Tail(records)) < Len(records)
      BY <2>2, <3>1, TakesElement
    <3>3. Len(Tail(records)) <= CtrlCap
      BY <3>1, <3>2, LenProperties
    <3>4. store' \in [pc : {"pop", "wait", "write", "end"}, record : VP!Jobs]
      BY <2>2, <3>2
    <3> QED
      BY <2>2, <3>2, <3>3, <3>4 DEF PipeTypes
  <2> QED
    BY <2>1, <2>2
<1>10. CASE VP!WakeForNothing
  <2>1. store' \in [pc : {"pop", "wait", "write", "end"}, record : VP!Jobs]
    BY <1>10 DEF VP!WakeForNothing, PipeTypes
  <2> QED
    BY <1>10, <2>1 DEF VP!WakeForNothing, PipeTypes
<1>11. CASE VP!StoreWrite
  <2> USE <1>11 DEF VP!StoreWrite
  <2>1. CASE down = "closed"
    BY <2>1 DEF PipeTypes
  <2>2. CASE down # "closed"
    <3>1. /\ store \in [pc : {"pop", "wait", "write", "end"}, record : VP!Jobs]
          /\ store.record \in VP!Jobs /\ file \in Seq(VP!Jobs)
      BY DEF PipeTypes
    <3>2. file' \in Seq(VP!Jobs)
      BY <2>2, <3>1, AppendsElement
    <3>3. \/ store' = [store EXCEPT !.pc = "pop"]
          \/ store' = [store EXCEPT !.pc = "end"]
      <4>1. CASE down = "no"
        BY <2>2, <4>1
      <4>2. CASE down # "no"
        BY <2>2, <4>2
      <4> QED
        BY <4>1, <4>2
    <3>4. store' \in [pc : {"pop", "wait", "write", "end"}, record : VP!Jobs]
      BY <3>1, <3>3
    <3> QED
      BY <2>2, <3>2, <3>4 DEF PipeTypes
  <2> QED
    BY <2>1, <2>2
<1>12. CASE VP!Deactive
  <2> USE <1>12 DEF VP!Deactive
  <2>1. down' \in {"no", "stopped", "freed", "closed", "gone", "removed"}
    BY AfterFacts DEF VP!Up, PipeTypes
  <2>2. CASE down = "closed"
    <3>1. chan' \in [total : 0 .. MaxMsg, notes : Nat, newest : VP!Jobs]
      <4>1. chan' = [chan EXCEPT !.notes = 0]
        BY <2>2
      <4>2. chan \in [total : 0 .. MaxMsg, notes : Nat, newest : VP!Jobs]
        BY DEF PipeTypes
      <4> HIDE <1>12 DEF VP!Deactive
      <4> QED
        BY <4>1, <4>2
    <3>2. back' \in Seq(VP!Jobs)
      BY <2>2, EmptySeq
    <3>3. lost' \subseteq VP!Jobs
      <4>1. \A i \in DOMAIN back : back[i] \in VP!Jobs
        BY DEF PipeTypes
      <4> QED
        BY <2>2, <4>1 DEF PipeTypes
    <3> QED
      BY <2>1, <3>1, <3>2, <3>3 DEF PipeTypes
  <2>3. CASE down # "closed"
    BY <2>1, <2>3 DEF PipeTypes
  <2> QED
    BY <2>2, <2>3
<1>13. CASE VP!Kill
  BY <1>13 DEF VP!Kill, PipeTypes
<1>14. CASE VP!Start
  <2> USE <1>14 DEF VP!Start
  <2>1. chan' \in [total : 0 .. MaxMsg, notes : Nat, newest : VP!Jobs]
    <3>1. /\ chan \in [total : 0 .. MaxMsg, notes : Nat, newest : VP!Jobs]
          /\ 0 \in 0 .. MaxMsg
      BY VoAssumption DEF PipeTypes, VP!PipelineAssumption
    <3> QED
      BY <3>1
  <2>2. life' \in 1 .. MaxLives
    <3>1. life \in 1 .. MaxLives /\ life < MaxLives /\ MaxLives \in Nat
      BY VoAssumption DEF PipeTypes, VP!PipelineAssumption
    <3> QED
      BY <3>1
  <2>3. /\ vo' \in [pc : {"idle", "measure", "push", "signal"}, job : VP!Jobs]
        /\ store' \in [pc : {"pop", "wait", "write", "end"}, record : VP!Jobs]
    BY JobFacts DEF VP!IdleVo, VP!IdleStore
  <2>4. records' \in Seq(VP!Jobs) /\ file' \in Seq(VP!Jobs) /\ Len(records') <= CtrlCap
    BY EmptySeq, VoAssumption DEF VP!PipelineAssumption
  <2> QED
    BY <2>1, <2>2, <2>3, <2>4 DEF PipeTypes
<1>15. CASE UNCHANGED VP!vars
  BY <1>15 DEF VP!vars, PipeTypes
<1> QED
  BY <1>1, <1>2, <1>3, <1>4, <1>5, <1>6, <1>7, <1>8, <1>9, <1>10, <1>11, <1>12,
     <1>13, <1>14, <1>15 DEF VP!Next

(* Each pop of m_imuQueue takes one sample, and only a frame pops.         *)
LEMMA SampleInvStep ==
  ASSUME PipeTypes, SampleInv, [VP!Next]_(VP!vars)
  PROVE  SampleInv'
<1> USE DEF VP!rcm
<1>1. /\ samples \in Nat /\ imuCnt \in Nat /\ ImuCap \in Nat \ {0}
      /\ ImuDelay \in Nat /\ seen \in 0 .. samples
  BY VoAssumption DEF PipeTypes, VP!PipelineAssumption
<1>2. CASE VP!Sample
  <2>1. samples' = samples + 1 /\ imuCnt' > 0 /\ UNCHANGED <<imu, seen, starved>>
    BY <1>1, <1>2 DEF VP!Sample
  <2> QED
    BY <1>1, <2>1 DEF SampleInv
<1>3. CASE VP!Frame
  <2>1. UNCHANGED samples
    BY <1>3 DEF VP!Frame
  <2>2. CASE frames' <= Discards
    BY <1>3, <2>1, <2>2 DEF VP!Frame, SampleInv
  <2>3. CASE ~(frames' <= Discards)
    <3>1. VP!GetContent /\ seen' = samples /\ starved' = (starved \/ samples = seen)
      BY <1>3, <2>3 DEF VP!Frame
    <3>2. imuCnt' > 0 => samples > 0
      BY <1>1, <3>1 DEF VP!GetContent, SampleInv
    <3>3. ASSUME ~starved', samples > 0
          PROVE  imu' = IF samples <= ImuDelay THEN 1 ELSE samples - ImuDelay
      <4>1. samples # seen
        BY <3>1, <3>3
      <4>2. imuCnt > 0
        BY <1>1, <4>1 DEF SampleInv
      <4> QED
        BY <3>1, <4>2 DEF VP!GetContent, VP!Delayed
    <3> HIDE DEF VP!GetContent
    <3> QED
      BY <1>1, <2>1, <3>1, <3>2, <3>3 DEF SampleInv
  <2> QED
    BY <2>2, <2>3
<1>4. CASE UNCHANGED VP!rcm
  BY <1>4 DEF SampleInv
<1> QED
  BY <1>2, <1>3, <1>4
     DEF VP!Next, VP!ProcessVelocityMsg, VP!SendVoData, VP!Receive, VP!Measure,
         VP!KeepImu, VP!Signal, VP!StorePop, VP!WakeForNothing, VP!StoreWrite,
         VP!Deactive, VP!Kill, VP!Start, VP!vars

LEMMA FrameInvStep ==
  ASSUME PipeTypes, SampleInv, FrameInv, [VP!Next]_(VP!vars)
  PROVE  FrameInv'
<1> USE DEF VP!rcm, VP!velocity, VP!results
<1>1. /\ index \in Nat /\ chan.total \in Nat /\ frames \in Nat
      /\ chan.newest.frame \in Nat /\ vo.job.frame \in Nat
      /\ chan \in [total : 0 .. MaxMsg, notes : Nat, newest : VP!Jobs]
      /\ vo \in [pc : {"idle", "measure", "push", "signal"}, job : VP!Jobs]
  BY VoAssumption, JobFacts DEF PipeTypes, VP!PipelineAssumption
<1>2. CASE VP!Frame
  <2>1. UNCHANGED <<index, vo>>
    BY <1>2 DEF VP!Frame
  <2>2. /\ frames' = frames + 1
        /\ chan'.total \in Nat
        /\ \/ chan'.newest = chan.newest /\ chan'.total = chan.total
           \/ chan'.newest.frame = frames' /\ chan'.total <= chan.total + 1
    BY <1>2, FrameSteps
  <2> QED
    BY <1>1, <2>1, <2>2 DEF FrameInv, Measuring
<1>3. CASE VP!Receive
  <2> USE <1>3 DEF VP!Receive
  <2>1. CASE chan.total > 0
    <3>1. /\ chan'.total = chan.total - 1 /\ chan'.newest = chan.newest
          /\ vo'.pc = "measure" /\ vo'.job = chan.newest
          /\ vo.pc = "idle"
      <4>1. /\ chan' = [chan EXCEPT !.total = chan.total - 1, !.notes = chan.notes - 1]
            /\ vo' = [pc |-> "measure", job |-> chan.newest] /\ vo.pc = "idle"
        BY <2>1
      <4> HIDE <1>3 DEF VP!Receive
      <4> QED
        BY <1>1, <4>1
    <3> QED
      BY <1>1, <3>1 DEF FrameInv, Measuring
  <2>2. CASE ~(chan.total > 0)
    <3>1. chan'.total = chan.total /\ chan'.newest = chan.newest /\ vo' = vo
      BY <1>1, <2>2
    <3> QED
      BY <1>1, <3>1 DEF FrameInv, Measuring
  <2> QED
    BY <2>1, <2>2
<1>4. CASE VP!Measure
  <2>1. CASE down \in {"freed", "closed"}
    BY <1>4, <2>1 DEF VP!Measure, FrameInv, Measuring
  <2>2. CASE down \notin {"freed", "closed"}
    <3>1. /\ vo.pc = "measure" /\ vo'.pc = "push" /\ index' = index + 1
          /\ chan' = chan
      BY <1>4, <2>2, MeasureSteps
    <3>2. frames' = frames
      BY <1>4 DEF VP!Measure
    <3> QED
      BY <1>1, <3>1, <3>2 DEF FrameInv, Measuring
  <2> QED
    BY <2>1, <2>2
<1>5. CASE VP!KeepImu \/ VP!Signal
  <2>1. /\ UNCHANGED <<index, chan, frames>>
        /\ vo.pc # "measure" /\ vo'.pc # "measure"
    BY <1>1, <1>5 DEF VP!KeepImu, VP!Signal, VP!IdleVo
  <2> QED
    BY <1>1, <2>1 DEF FrameInv, Measuring
<1>6. CASE VP!Deactive
  <2>1. /\ UNCHANGED <<index, frames, vo>>
        /\ chan'.total = chan.total /\ chan'.newest = chan.newest
    BY <1>1, <1>6 DEF VP!Deactive
  <2> QED
    BY <1>1, <2>1 DEF FrameInv, Measuring
<1>7. CASE VP!Start
  <2>1. /\ UNCHANGED frames /\ index' = 0 /\ vo'.pc = "idle"
        /\ chan'.total = 0 /\ chan'.newest = chan.newest
    BY <1>1, <1>7 DEF VP!Start, VP!IdleVo
  <2> QED
    BY <1>1, <2>1 DEF FrameInv, Measuring
<1>8. CASE UNCHANGED <<index, chan, frames, vo>>
  BY <1>8 DEF FrameInv, Measuring
<1> QED
  BY <1>2, <1>3, <1>4, <1>5, <1>6, <1>7, <1>8
     DEF VP!Next, VP!Sample, VP!ProcessVelocityMsg, VP!SendVoData,
         VP!StorePop, VP!WakeForNothing, VP!StoreWrite, VP!Kill, VP!vars
-----------------------------------------------------------------------------
LEMMA ElementsAreJobs ==
  ASSUME NEW q \in Seq(VP!Jobs)
  PROVE  ElementsOf(q) \subseteq VP!Jobs
  BY DEF ElementsOf

(* What is behind stays behind, whatever dies or starts again.             *)
LEMMA PastStep ==
  ASSUME PipeTypes, SampleInv, FrameInv, [VP!Next]_(VP!vars),
         NEW r \in VP!Jobs, Past(r)
  PROVE  Past(r)'
<1> USE DEF VP!rcm, VP!velocity, VP!results
<1>1. /\ index \in Nat /\ frames \in Nat /\ life \in Nat
      /\ chan.newest.frame \in Nat /\ vo.job.frame \in Nat
      /\ r.frame \in Nat /\ r.life \in Nat /\ r.cnt \in Int
      /\ chan \in [total : 0 .. MaxMsg, notes : Nat, newest : VP!Jobs]
      /\ vo \in [pc : {"idle", "measure", "push", "signal"}, job : VP!Jobs]
  BY VoAssumption, JobFacts DEF PipeTypes, VP!PipelineAssumption
<1>2. CASE VP!Frame
  <2>1. UNCHANGED <<index, vo, life>>
    BY <1>2 DEF VP!Frame
  <2>2. /\ frames' = frames + 1
        /\ \/ chan'.newest = chan.newest
           \/ chan'.newest.frame = frames'
    BY <1>2, FrameSteps
  <2> QED
    BY <1>1, <2>1, <2>2 DEF Past, FrameInv
<1>3. CASE VP!Receive
  <2>1. UNCHANGED <<index, life>>
    BY <1>3 DEF VP!Receive
  <2>2. chan'.newest = chan.newest
    BY <1>1, <1>3 DEF VP!Receive
  <2>3. vo' = vo \/ (vo'.pc = "measure" /\ vo'.job = chan.newest)
    BY <1>3 DEF VP!Receive
  <2> QED
    BY <1>1, <2>1, <2>2, <2>3 DEF Past
<1>4. CASE VP!Measure
  <2>1. CASE down \in {"freed", "closed"}
    BY <1>4, <2>1 DEF VP!Measure, Past
  <2>2. CASE down \notin {"freed", "closed"}
    <3>1. vo'.pc = "push" /\ index' = index + 1 /\ chan' = chan /\ life' = life
      BY <1>4, <2>2, MeasureSteps
    <3> QED
      BY <1>1, <3>1 DEF Past
  <2> QED
    BY <2>1, <2>2
<1>5. CASE VP!KeepImu \/ VP!Signal
  <2>1. UNCHANGED <<index, chan, life>> /\ vo'.pc # "measure"
    BY <1>1, <1>5 DEF VP!KeepImu, VP!Signal, VP!IdleVo
  <2> QED
    BY <1>1, <2>1 DEF Past
<1>6. CASE VP!Deactive
  <2>1. UNCHANGED <<index, life, vo>> /\ chan'.newest = chan.newest
    BY <1>1, <1>6 DEF VP!Deactive
  <2> QED
    BY <1>1, <2>1 DEF Past
<1>7. CASE VP!Start
  <2>1. life' = life + 1 /\ vo'.pc = "idle" /\ chan'.newest = chan.newest
    BY <1>1, <1>7 DEF VP!Start, VP!IdleVo
  <2> QED
    BY <1>1, <2>1 DEF Past
<1>8. CASE UNCHANGED <<index, chan, life, vo>>
  BY <1>8 DEF Past
<1> QED
  BY <1>2, <1>3, <1>4, <1>5, <1>6, <1>7, <1>8
     DEF VP!Next, VP!Sample, VP!ProcessVelocityMsg, VP!SendVoData,
         VP!StorePop, VP!WakeForNothing, VP!StoreWrite, VP!Kill, VP!vars

(* What is measured now is later than all that is behind.                  *)
LEMMA ResultIsLater ==
  ASSUME PipeTypes, FrameInv, VP!Measure, down \notin {"freed", "closed"}
  PROVE  /\ \A q \in VP!Jobs : Past(q) => VP!Later(Result, q)
         /\ \A r \in VP!Jobs : r = Result => Past(r)'
<1>1. /\ index \in Nat /\ life \in Nat /\ chan.newest.frame \in Nat
      /\ vo.job.frame \in Nat
  BY VoAssumption, JobFacts DEF PipeTypes, VP!PipelineAssumption
<1>2. /\ Result.frame = vo.job.frame /\ Result.life = life /\ Result.cnt = index
      /\ vo.pc = "measure" /\ vo' = [pc |-> "push", job |-> Result]
      /\ index' = index + 1 /\ life' = life /\ chan' = chan
  BY MeasureSteps
<1>3. vo.job.frame <= chan.newest.frame
  BY <1>2 DEF FrameInv
<1>4. ASSUME NEW q \in VP!Jobs, Past(q) PROVE VP!Later(Result, q)
  BY <1>1, <1>2, <1>4, JobFacts DEF Past, VP!Later
<1>5. ASSUME NEW r \in VP!Jobs, r = Result PROVE Past(r)'
  <2>1. /\ r.frame = vo.job.frame /\ r.life = life /\ r.cnt = index
        /\ vo'.pc # "measure"
    BY <1>2, <1>5
  <2> QED
    BY <1>1, <1>2, <1>3, <2>1 DEF Past
<1> QED
  BY <1>4, <1>5

(* Nothing overtakes on the way back.                                      *)
LEMMA BackInvStep ==
  ASSUME PipeTypes, SampleInv, FrameInv, BackInv, [VP!Next]_(VP!vars)
  PROVE  BackInv'
<1> USE DEF VP!rcm, VP!velocity, VP!results
<1> DEFINE Out == {sent} \cup ElementsOf(ctrl) \cup ElementsOf(back)
<1>1. /\ back \in Seq(VP!Jobs) /\ ctrl \in Seq(VP!Jobs) /\ Len(ctrl) <= CtrlCap
      /\ sent \in VP!Jobs
      /\ ElementsOf(back) \subseteq VP!Jobs /\ ElementsOf(ctrl) \subseteq VP!Jobs
      /\ Out \subseteq VP!Jobs
  BY ElementsAreJobs DEF PipeTypes
<1>2. \A r \in Out : Past(r)'
  BY <1>1, PastStep DEF BackInv
<1>3. CASE VP!ProcessVelocityMsg
  <2>1. /\ back # <<>> /\ back' = Tail(back) /\ ctrl' = VP!Pushed(ctrl, Head(back))
        /\ sent' = sent
    BY <1>3 DEF VP!ProcessVelocityMsg
  <2>2. /\ Head(back) \in VP!Jobs
        /\ ElementsOf(back) = {Head(back)} \cup ElementsOf(back')
        /\ InOrder(back') /\ Before({Head(back)}, ElementsOf(back'))
    BY <1>1, <2>1, TakesElement DEF BackInv
  <2>3. Before(ElementsOf(ctrl), {Head(back)})
    BY <2>2 DEF BackInv, Before
  <2>4. /\ ElementsOf(ctrl') \subseteq ElementsOf(ctrl) \cup {Head(back)}
        /\ InOrder(ctrl')
    BY <1>1, <2>1, <2>2, <2>3, PushedFacts DEF BackInv
  <2>5. /\ Before({sent}, ElementsOf(ctrl')) /\ Before({sent}, ElementsOf(back'))
        /\ Before(ElementsOf(ctrl'), ElementsOf(back'))
    BY <2>2, <2>4 DEF BackInv, Before
  <2>6. {sent} \cup ElementsOf(ctrl') \cup ElementsOf(back') \subseteq Out
    BY <2>2, <2>4
  <2> HIDE DEF Out
  <2> QED
    BY <1>2, <2>1, <2>2, <2>4, <2>5, <2>6 DEF BackInv
<1>4. CASE VP!SendVoData
  <2>1. ctrl # <<>> /\ sent' = Head(ctrl) /\ ctrl' = Tail(ctrl) /\ back' = back
    BY <1>4 DEF VP!SendVoData
  <2>2. /\ ElementsOf(ctrl) = {Head(ctrl)} \cup ElementsOf(ctrl')
        /\ InOrder(ctrl') /\ Before({Head(ctrl)}, ElementsOf(ctrl'))
    BY <1>1, <2>1, TakesElement DEF BackInv
  <2>3. /\ Before({sent'}, ElementsOf(ctrl')) /\ Before({sent'}, ElementsOf(back'))
        /\ Before(ElementsOf(ctrl'), ElementsOf(back'))
    BY <2>1, <2>2 DEF BackInv, Before
  <2>4. {sent'} \cup ElementsOf(ctrl') \cup ElementsOf(back') \subseteq Out
    BY <2>1, <2>2
  <2> HIDE DEF Out
  <2> QED
    BY <1>2, <2>1, <2>2, <2>3, <2>4 DEF BackInv
<1>5. CASE VP!Measure /\ down \notin {"freed", "closed"}
  <2>1. ctrl' = ctrl /\ sent' = sent
    BY <1>5, MeasureSteps
  <2>2. CASE back' = back
    BY <1>2, <2>1, <2>2 DEF BackInv
  <2>3. CASE back' = Append(back, Result)
    <3>1. Result \in VP!Jobs
      BY <1>5, MeasureSteps
    <3>2. Before(Out, {Result})
      BY <1>1, <1>5, ResultIsLater DEF BackInv, Before
    <3>3. /\ ElementsOf(back') = ElementsOf(back) \cup {Result}
          /\ InOrder(back')
      BY <1>1, <2>3, <3>1, <3>2, AppendsElement DEF BackInv, Before
    <3>4. /\ Before({sent}, ElementsOf(back'))
          /\ Before(ElementsOf(ctrl), ElementsOf(back'))
      BY <3>2, <3>3 DEF BackInv, Before
    <3>5. \A r \in Out \cup {Result} : Past(r)'
      <4>1. \A r \in {Result} : Past(r)'
        BY <1>5, <3>1, ResultIsLater
      <4> QED
        BY <1>2, <4>1
    <3>6. {sent'} \cup ElementsOf(ctrl') \cup ElementsOf(back') = Out \cup {Result}
      BY <2>1, <3>3
    <3> HIDE DEF Out
    <3> QED
      BY <2>1, <3>3, <3>4, <3>5, <3>6 DEF BackInv
  <2> QED
    BY <1>5, <2>2, <2>3, MeasureSteps
<1>6. CASE VP!Deactive /\ down = "closed"
  <2>1. back' = <<>> /\ UNCHANGED <<ctrl, sent>>
    BY <1>6 DEF VP!Deactive
  <2>2. ElementsOf(back') = {} /\ InOrder(back')
    BY <2>1, EmptyElements
  <2>3. {sent'} \cup ElementsOf(ctrl') \cup ElementsOf(back') \subseteq Out
    BY <2>1, <2>2
  <2> HIDE DEF Out
  <2> QED
    BY <1>2, <2>1, <2>2, <2>3 DEF BackInv, Before
<1>7. CASE UNCHANGED <<back, ctrl, sent>>
  BY <1>2, <1>7 DEF BackInv, Before
<1> QED
  BY <1>3, <1>4, <1>5, <1>6, <1>7
     DEF VP!Next, VP!Sample, VP!Frame, VP!Receive, VP!Measure, VP!KeepImu,
         VP!Signal, VP!StorePop, VP!WakeForNothing, VP!StoreWrite, VP!Deactive,
         VP!Kill, VP!Start, VP!vars

(* Nothing overtakes on the way to imu.txt.                                *)
LEMMA FileInvStep ==
  ASSUME PipeTypes, SampleInv, FrameInv, FileInv, [VP!Next]_(VP!vars)
  PROVE  FileInv'
<1> USE DEF VP!rcm, VP!velocity, VP!results
<1> DEFINE Kept == ElementsOf(file) \cup Writing \cup ElementsOf(records) \cup Pushing
<1>1. /\ file \in Seq(VP!Jobs) /\ records \in Seq(VP!Jobs)
      /\ Len(records) <= CtrlCap
      /\ vo.job \in VP!Jobs /\ store.record \in VP!Jobs
  BY DEF PipeTypes
<1>2. \A r \in Kept : Past(r)'
  <2>1. Kept \subseteq VP!Jobs
    BY <1>1, ElementsAreJobs DEF Writing, Pushing
  <2> HIDE DEF Kept
  <2>2. \A r \in Kept : Past(r)
    BY DEF FileInv, Kept
  <2> QED
    BY <2>1, <2>2, PastStep
<1>3. CASE VP!Measure /\ down \notin {"freed", "closed"}
  <2>1. /\ UNCHANGED <<file, records, store>> /\ Result \in VP!Jobs
        /\ vo' = [pc |-> "push", job |-> Result]
    BY <1>3, MeasureSteps
  <2>2. Pushing' = {Result} /\ Writing' = Writing
    BY <2>1 DEF Pushing, Writing
  <2>3. Before(Kept, {Result})
    <3>1. \A r \in Kept : r \in VP!Jobs /\ Past(r)
      BY <1>1, ElementsAreJobs DEF Writing, Pushing, FileInv
    <3> HIDE DEF Kept
    <3> QED
      BY <1>3, <3>1, ResultIsLater DEF Before
  <2>4. \A r \in Kept \cup {Result} : Past(r)'
    <3>1. \A r \in {Result} : Past(r)'
      BY <1>3, <2>1, ResultIsLater
    <3> QED
      BY <1>2, <3>1
  <2>5. ElementsOf(file') = ElementsOf(file) /\ ElementsOf(records') = ElementsOf(records)
    BY <2>1
  <2> QED
    BY <2>1, <2>2, <2>3, <2>4, <2>5 DEF FileInv, Before
<1>4. CASE VP!KeepImu
  <2>1. /\ UNCHANGED <<file, store>> /\ records' = VP!Pushed(records, vo.job)
        /\ vo.pc = "push" /\ vo'.pc # "push"
    <3>1. /\ UNCHANGED <<file, store>> /\ records' = VP!Pushed(records, vo.job)
          /\ vo.pc = "push" /\ vo' = [vo EXCEPT !.pc = "signal"]
      BY <1>4 DEF VP!KeepImu
    <3>2. vo \in [pc : {"idle", "measure", "push", "signal"}, job : VP!Jobs]
      BY DEF PipeTypes
    <3> QED
      BY <3>1, <3>2
  <2>2. Pushing' = {} /\ Pushing = {vo.job} /\ Writing' = Writing
    BY <2>1 DEF Pushing, Writing
  <2>3. Before(ElementsOf(file) \cup Writing \cup ElementsOf(records), {vo.job})
    BY <2>2 DEF FileInv
  <2>4. /\ ElementsOf(records') \subseteq ElementsOf(records) \cup {vo.job}
        /\ InOrder(records')
    <3>1. InOrder(records) /\ Before(ElementsOf(records), {vo.job})
      BY <2>3 DEF FileInv, Before
    <3> QED
      BY <1>1, <2>1, <3>1, PushedFacts
  <2>5. ElementsOf(file') = ElementsOf(file) /\ InOrder(file')
    BY <2>1 DEF FileInv
  <2> QED
    BY <1>2, <2>2, <2>3, <2>4, <2>5 DEF FileInv, Before
<1>5. CASE VP!StorePop /\ records # <<>>
  <2>1. /\ UNCHANGED <<file, vo>> /\ records' = Tail(records)
        /\ store.pc = "pop" /\ store' = [pc |-> "write", record |-> Head(records)]
    BY <1>5 DEF VP!StorePop
  <2>2. /\ ElementsOf(records) = {Head(records)} \cup ElementsOf(records')
        /\ InOrder(records') /\ Before({Head(records)}, ElementsOf(records'))
    BY <1>1, <1>5, <2>1, TakesElement DEF FileInv
  <2>3. Writing = {} /\ Writing' = {Head(records)} /\ Pushing' = Pushing
    BY <2>1 DEF Writing, Pushing
  <2>4. ElementsOf(file') = ElementsOf(file) /\ InOrder(file')
    BY <2>1 DEF FileInv
  <2> QED
    BY <1>2, <2>2, <2>3, <2>4 DEF FileInv, Before
<1>6. CASE VP!StoreWrite /\ down # "closed"
  <2>1. /\ UNCHANGED <<vo, records>> /\ file' = Append(file, store.record)
        /\ store.pc = "write"
    BY <1>6 DEF VP!StoreWrite
  <2>2. store'.pc # "write"
    <3>1. \/ store' = [store EXCEPT !.pc = "pop"]
          \/ store' = [store EXCEPT !.pc = "end"]
      <4>1. CASE down = "no"
        BY <1>6, <4>1 DEF VP!StoreWrite
      <4>2. CASE down # "no"
        BY <1>6, <4>2 DEF VP!StoreWrite
      <4> QED
        BY <4>1, <4>2
    <3>2. store \in [pc : {"pop", "wait", "write", "end"}, record : VP!Jobs]
      BY DEF PipeTypes
    <3> QED
      BY <3>1, <3>2
  <2>3. Writing = {store.record} /\ Writing' = {} /\ Pushing' = Pushing
    BY <2>1, <2>2 DEF Writing, Pushing
  <2>4. /\ ElementsOf(file') = ElementsOf(file) \cup {store.record}
        /\ InOrder(file')
    BY <1>1, <2>1, <2>3, AppendsElement DEF FileInv
  <2>5. ElementsOf(records') = ElementsOf(records) /\ InOrder(records')
    BY <2>1 DEF FileInv
  <2> QED
    BY <1>2, <2>3, <2>4, <2>5 DEF FileInv, Before
<1>7. CASE VP!Start
  <2>1. records' = <<>> /\ file' = <<>> /\ vo'.pc = "idle" /\ store'.pc = "pop"
    BY <1>7 DEF VP!Start, VP!IdleVo, VP!IdleStore
  <2>2. /\ ElementsOf(records') = {} /\ InOrder(records')
        /\ ElementsOf(file') = {} /\ InOrder(file')
    BY <2>1, EmptyElements
  <2>3. Writing' = {} /\ Pushing' = {}
    BY <2>1 DEF Writing, Pushing
  <2> QED
    BY <2>2, <2>3 DEF FileInv, Before
<1>8. CASE UNCHANGED <<file, records, Writing, Pushing>>
  BY <1>2, <1>8 DEF FileInv, Before
<1>9. CASE VP!Receive
  <2>1. UNCHANGED <<file, records, store>> /\ vo.pc = "idle" /\ vo'.pc # "push"
    BY <1>9 DEF VP!Receive
  <2> QED
    BY <1>8, <2>1 DEF Writing, Pushing
<1>10. CASE VP!Signal
  <2>1. /\ UNCHANGED <<file, records>> /\ vo.pc = "signal" /\ vo'.pc = "idle"
        /\ store' = VP!Woken
    BY <1>10 DEF VP!Signal, VP!IdleVo
  <2>2. Writing' = Writing
    BY <2>1 DEF VP!Woken, Writing, PipeTypes
  <2> QED
    BY <1>8, <2>1, <2>2 DEF Pushing
<1>11. CASE VP!WakeForNothing \/ (VP!StorePop /\ records = <<>>)
  <2>1. /\ UNCHANGED <<file, records, vo>>
        /\ store.pc # "write" /\ store'.pc # "write"
    BY <1>11 DEF VP!WakeForNothing, VP!StorePop, PipeTypes
  <2> QED
    BY <1>8, <2>1 DEF Writing, Pushing
<1>12. CASE UNCHANGED <<file, records, store, vo>>
  BY <1>8, <1>12 DEF Writing, Pushing
<1> QED
  BY <1>3, <1>4, <1>5, <1>6, <1>7, <1>9, <1>10, <1>11, <1>12
     DEF VP!Next, VP!Sample, VP!Frame, VP!ProcessVelocityMsg, VP!SendVoData,
         VP!Measure, VP!StoreWrite, VP!Deactive, VP!Kill, VP!vars

(* Where a number was accounted for, it is after any step: a result goes on*)
(* or is lost.                                                             *)
LEMMA AccountedStep ==
  ASSUME PipeTypes, FrameInv, BackInv, [VP!Next]_(VP!vars),
         NEW l \in Nat, NEW c \in Nat, Accounted(l, c), sent'.life <= l
  PROVE  Accounted(l, c)'
<1> USE DEF VP!rcm, VP!velocity, VP!results
<1> DEFINE Way == lost \cup ElementsOf(ctrl) \cup ElementsOf(back)
<1>1. /\ back \in Seq(VP!Jobs) /\ ctrl \in Seq(VP!Jobs) /\ Len(ctrl) <= CtrlCap
      /\ sent \in VP!Jobs /\ CtrlCap \in Nat
  BY VoAssumption DEF PipeTypes, VP!PipelineAssumption
<1>2. ASSUME sent' = sent,
             Way \subseteq lost' \cup ElementsOf(ctrl') \cup ElementsOf(back')
      PROVE  Accounted(l, c)'
  BY <1>2 DEF Accounted
<1>3. CASE VP!ProcessVelocityMsg
  <2>1. /\ back # <<>> /\ back' = Tail(back) /\ ctrl' = VP!Pushed(ctrl, Head(back))
        /\ lost' = IF Len(ctrl) < CtrlCap THEN lost ELSE lost \cup {Head(back)}
        /\ sent' = sent
    BY <1>3 DEF VP!ProcessVelocityMsg
  <2>2. /\ Head(back) \in VP!Jobs
        /\ ElementsOf(back) = {Head(back)} \cup ElementsOf(back')
    BY <1>1, <2>1, TakesElement
  <2>3. /\ ElementsOf(ctrl) \subseteq ElementsOf(ctrl')
        /\ Len(ctrl) < CtrlCap => Head(back) \in ElementsOf(ctrl')
    BY <1>1, <2>1, <2>2, PushedFacts
  <2> QED
    BY <1>2, <2>1, <2>2, <2>3
<1>4. CASE VP!SendVoData
  <2>1. /\ ctrl # <<>> /\ sent' = Head(ctrl) /\ ctrl' = Tail(ctrl)
        /\ back' = back /\ lost' = lost
    BY <1>4 DEF VP!SendVoData
  <2>2. ElementsOf(ctrl) = {sent'} \cup ElementsOf(ctrl') /\ sent' \in VP!Jobs
    BY <1>1, <2>1, TakesElement
  <2>3. VP!Later(sent', sent)
    BY <2>2 DEF BackInv, Before
  <2>4. CASE sent.life = l /\ c <= sent.cnt
    <3>1. sent'.life = l /\ c <= sent'.cnt
      BY <1>1, <2>2, <2>3, <2>4, JobFacts DEF VP!Later
    <3> QED
      BY <3>1 DEF Accounted
  <2>5. ASSUME NEW r \in Way, r.life = l, r.cnt = c
        PROVE  Accounted(l, c)'
    <3>1. CASE r = sent'
      BY <2>5, <3>1 DEF Accounted
    <3>2. CASE r # sent'
      <4>1. r \in lost' \cup ElementsOf(ctrl') \cup ElementsOf(back')
        BY <2>1, <2>2, <2>5, <3>2
      <4> QED
        BY <2>5, <4>1 DEF Accounted
    <3> QED
      BY <3>1, <3>2
  <2> QED
    BY <2>4, <2>5 DEF Accounted
<1>5. CASE VP!Measure /\ down \notin {"freed", "closed"}
  <2>1. /\ ctrl' = ctrl /\ sent' = sent /\ Result \in VP!Jobs
        /\ \/ back' = Append(back, Result) /\ lost' = lost
           \/ back' = back /\ lost' = lost \cup {Result}
    BY <1>5, MeasureSteps
  <2>2. ElementsOf(back) \subseteq ElementsOf(back') /\ lost \subseteq lost'
    BY <1>1, <2>1, AppendsElement
  <2> QED
    BY <1>2, <2>1, <2>2
<1>6. CASE VP!Deactive /\ down = "closed"
  <2>1. /\ UNCHANGED <<ctrl, sent>>
        /\ lost' = lost \cup {back[i] : i \in DOMAIN back}
    BY <1>6 DEF VP!Deactive
  <2>2. ElementsOf(back) = {back[i] : i \in DOMAIN back}
    BY <1>1 DEF ElementsOf
  <2> QED
    BY <1>2, <2>1, <2>2
<1>7. CASE UNCHANGED <<back, ctrl, sent, lost>>
  BY <1>2, <1>7
<1> QED
  BY <1>3, <1>4, <1>5, <1>6, <1>7
     DEF VP!Next, VP!Sample, VP!Frame, VP!Receive, VP!Measure, VP!KeepImu,
         VP!Signal, VP!StorePop, VP!WakeForNothing, VP!StoreWrite, VP!Deactive,
         VP!Kill, VP!Start, VP!vars

LEMMA NumberInvStep ==
  ASSUME PipeTypes, PipeTypes', FrameInv, BackInv, BackInv', NumberInv,
         [VP!Next]_(VP!vars)
  PROVE  NumberInv'
<1> USE DEF VP!rcm, VP!velocity, VP!results
<1> DEFINE Way == ElementsOf(ctrl) \cup ElementsOf(back)
<1>1. /\ back \in Seq(VP!Jobs) /\ ctrl \in Seq(VP!Jobs) /\ Len(ctrl) <= CtrlCap
      /\ back' \in Seq(VP!Jobs) /\ ctrl' \in Seq(VP!Jobs)
      /\ sent' \in VP!Jobs /\ index \in Nat /\ life \in Nat /\ life' \in Nat
  BY VoAssumption DEF PipeTypes, VP!PipelineAssumption
<1>2. \A q \in Way' : q \in VP!Jobs /\ sent'.life <= q.life
  <2>1. Way' \subseteq VP!Jobs
    BY <1>1, ElementsAreJobs
  <2>2. \A q \in Way' : VP!Later(q, sent')
    BY DEF BackInv, Before
  <2> HIDE DEF Way
  <2> QED
    BY <1>1, <2>1, <2>2, JobFacts DEF VP!Later
<1>3. sent'.life <= life'
  <2>1. Past(sent)'
    BY DEF BackInv
  <2> QED
    BY <1>1, <2>1, JobFacts DEF Past
<1>4. \A q \in Way \cap Way' : \A c \in 0 .. q.cnt - 1 : Accounted(q.life, c)'
  <2> SUFFICES ASSUME NEW q \in Way \cap Way', NEW c \in 0 .. q.cnt - 1
               PROVE  Accounted(q.life, c)'
    OBVIOUS
  <2>1. q \in Way /\ sent'.life <= q.life /\ q.life \in Nat /\ q.cnt \in Int
    BY <1>2, JobFacts
  <2>2. Accounted(q.life, c)
    BY <2>1 DEF NumberInv
  <2>3. PICK l \in Nat : l = q.life
    BY <2>1
  <2>4. c \in Nat
    BY <2>1
  <2>5. Accounted(l, c)'
    BY <2>1, <2>2, <2>3, <2>4, AccountedStep
  <2> QED
    BY <2>3, <2>5
<1>5. life' = life => \A c \in 0 .. index - 1 : Accounted(life, c)'
  <2> SUFFICES ASSUME life' = life, NEW c \in 0 .. index - 1
               PROVE  Accounted(life, c)'
    OBVIOUS
  <2>1. Accounted(life, c)
    BY DEF NumberInv
  <2>2. PICK l \in Nat : l = life
    BY <1>1
  <2>3. c \in Nat
    BY <1>1
  <2>4. Accounted(l, c)'
    BY <1>3, <2>1, <2>2, <2>3, AccountedStep
  <2> QED
    BY <2>2, <2>4
<1>6. ASSUME Way' \subseteq Way, index' = 0 \/ (life' = life /\ index' = index)
      PROVE  NumberInv'
  <2>1. \A q \in Way' : \A c \in 0 .. q.cnt - 1 : Accounted(q.life, c)'
    BY <1>4, <1>6
  <2>2. \A c \in 0 .. index' - 1 : Accounted(life, c)'
    BY <1>5, <1>6
  <2> HIDE DEF Accounted
  <2> QED
    BY <2>1, <2>2 DEF NumberInv
<1>7. CASE VP!ProcessVelocityMsg
  <2>1. /\ back # <<>> /\ back' = Tail(back) /\ ctrl' = VP!Pushed(ctrl, Head(back))
        /\ UNCHANGED <<life, index>>
    BY <1>7 DEF VP!ProcessVelocityMsg
  <2>2. /\ Head(back) \in VP!Jobs
        /\ ElementsOf(back) = {Head(back)} \cup ElementsOf(back')
    BY <1>1, <2>1, TakesElement
  <2>3. ElementsOf(ctrl') \subseteq ElementsOf(ctrl) \cup {Head(back)}
    BY <1>1, <2>1, <2>2, PushedFacts
  <2> QED
    BY <1>6, <2>1, <2>2, <2>3
<1>8. CASE VP!SendVoData
  <2>1. /\ ctrl # <<>> /\ ctrl' = Tail(ctrl) /\ back' = back
        /\ UNCHANGED <<life, index>>
    BY <1>8 DEF VP!SendVoData
  <2>2. ElementsOf(ctrl) = {Head(ctrl)} \cup ElementsOf(ctrl')
    BY <1>1, <2>1, TakesElement
  <2> QED
    BY <1>6, <2>1, <2>2
<1>9. CASE VP!Measure /\ down \notin {"freed", "closed"}
  <2>1. /\ Result \in VP!Jobs /\ Result.life = life /\ Result.cnt = index
        /\ index' = index + 1 /\ life' = life /\ ctrl' = ctrl
        /\ \/ back' = Append(back, Result) /\ lost' = lost
           \/ back' = back /\ lost' = lost \cup {Result}
    BY <1>9, MeasureSteps
  <2>2. PICK r \in VP!Jobs : r = Result
    BY <2>1
  <2>3. /\ ElementsOf(back') \subseteq ElementsOf(back) \cup {r}
        /\ r \in lost' \cup ElementsOf(back')
    <3>1. ElementsOf(Append(back, r)) = ElementsOf(back) \cup {r}
      BY <1>1, AppendsElement
    <3> QED
      BY <2>1, <2>2, <3>1
  <2>4. r.life = life /\ r.cnt = index
    BY <2>1, <2>2
  <2>5. ASSUME NEW c \in 0 .. index' - 1 PROVE Accounted(life, c)'
    <3>1. CASE c = index
      BY <2>1, <2>3, <2>4, <3>1 DEF Accounted
    <3>2. CASE c # index
      <4>1. c \in 0 .. index - 1
        BY <1>1, <2>1, <3>2
      <4> QED
        BY <1>5, <2>1, <4>1
    <3> QED
      BY <3>1, <3>2
  <2>6. ASSUME NEW q \in Way', NEW c \in 0 .. q.cnt - 1
        PROVE  Accounted(q.life, c)'
    <3>1. CASE q \in Way
      BY <1>4, <3>1
    <3>2. CASE q = r
      <4>1. c \in 0 .. index' - 1
        BY <1>1, <2>1, <2>4, <3>2
      <4>2. Accounted(life, c)'
        BY <2>5, <4>1
      <4> QED
        BY <2>1, <2>4, <3>2, <4>2
    <3> QED
      BY <2>1, <2>3, <3>1, <3>2
  <2> HIDE DEF Accounted
  <2> QED
    BY <2>5, <2>6 DEF NumberInv
<1>10. CASE VP!Deactive /\ down = "closed"
  <2>1. back' = <<>> /\ ctrl' = ctrl /\ UNCHANGED <<life, index>>
    BY <1>10 DEF VP!Deactive
  <2>2. ElementsOf(back') = {}
    BY <2>1, EmptyElements
  <2> QED
    BY <1>6, <2>1, <2>2
<1>11. CASE VP!Start
  BY <1>6, <1>11 DEF VP!Start
<1>12. CASE UNCHANGED <<back, ctrl, life, index>>
  BY <1>6, <1>12
<1> QED
  BY <1>7, <1>8, <1>9, <1>10, <1>11, <1>12
     DEF VP!Next, VP!Sample, VP!Frame, VP!Receive, VP!Measure, VP!KeepImu,
         VP!Signal, VP!StorePop, VP!WakeForNothing, VP!StoreWrite, VP!Deactive,
         VP!Kill, VP!vars

(***************************************************************************)
(* All of it holds at the start and is kept by every step.                 *)
(***************************************************************************)
PipeInv ==
  PipeTypes /\ SampleInv /\ FrameInv /\ BackInv /\ FileInv /\ NumberInv

LEMMA PipeInvInit == VP!Init => PipeInv
<1> SUFFICES ASSUME VP!Init PROVE PipeInv
  OBVIOUS
<1>1. PipeTypes
  BY PipeTypesInit
<1>2. SampleInv
  BY DEF VP!Init, SampleInv
<1>3. FrameInv
  BY JobFacts DEF VP!Init, FrameInv, Measuring, VP!IdleVo
<1>4. /\ ElementsOf(back) = {} /\ ElementsOf(ctrl) = {} /\ ElementsOf(file) = {}
      /\ ElementsOf(records) = {} /\ Writing = {} /\ Pushing = {}
      /\ InOrder(back) /\ InOrder(ctrl) /\ InOrder(file) /\ InOrder(records)
  BY EmptyElements
     DEF VP!Init, Writing, Pushing, VP!IdleVo, VP!IdleStore
<1>5. Past(sent)
  BY JobFacts DEF VP!Init, Past, VP!IdleVo
<1>6. BackInv
  BY <1>4, <1>5 DEF BackInv, Before
<1>7. FileInv
  BY <1>4 DEF FileInv, Before
<1>8. NumberInv
  BY <1>4 DEF NumberInv, VP!Init
<1> QED
  BY <1>1, <1>2, <1>3, <1>6, <1>7, <1>8 DEF PipeInv

LEMMA PipeInvStep == PipeInv /\ [VP!Next]_(VP!vars) => PipeInv'
<1> SUFFICES ASSUME PipeInv, [VP!Next]_(VP!vars) PROVE PipeInv'
  OBVIOUS
<1> USE DEF PipeInv
<1>1. PipeTypes' /\ SampleInv' /\ FrameInv'
  BY PipeTypesStep, SampleInvStep, FrameInvStep
<1>2. BackInv' /\ FileInv'
  BY BackInvStep, FileInvStep
<1>3. NumberInv'
  BY <1>1, <1>2, NumberInvStep
<1> QED
  BY <1>1, <1>2, <1>3
-----------------------------------------------------------------------------
LEMMA PipeTypeOK == ASSUME PipeInv PROVE VP!TypeOK
<1> USE DEF PipeInv
<1>1. /\ samples \in 0 .. MaxSamples /\ imuCnt \in 0 .. ImuCap
      /\ imu \in 0 .. samples /\ frames \in 0 .. MaxFrames
      /\ seen \in 0 .. samples /\ starved \in BOOLEAN
  BY DEF PipeTypes
<1>2. chan.total \in 0 .. MaxMsg /\ chan.notes \in Nat /\ chan.newest \in VP!Jobs
  BY DEF PipeTypes
<1>3. \A q \in {back, ctrl, records, file} : \A i \in 1 .. Len(q) : q[i] \in VP!Jobs
  <2>1. \A q \in {back, ctrl, records, file} : ElementsOf(q) \subseteq VP!Jobs
    BY ElementsAreJobs DEF PipeTypes
  <2> QED
    BY <2>1 DEF ElementsOf
<1>4. /\ vo.pc \in {"idle", "measure", "push", "signal"} /\ vo.job \in VP!Jobs
      /\ store.pc \in {"pop", "wait", "write", "end"} /\ store.record \in VP!Jobs
  BY DEF PipeTypes
<1>5. /\ Len(ctrl) <= CtrlCap /\ Len(records) <= CtrlCap
      /\ lost \subseteq VP!Jobs /\ sent \in VP!Jobs
      /\ life \in 1 .. MaxLives /\ index \in Nat
      /\ down \in {"no", "stopped", "freed", "closed", "gone", "removed"}
  BY DEF PipeTypes
<1> QED
  BY <1>1, <1>2, <1>3, <1>4, <1>5, Zenon DEF VP!TypeOK

LEMMA SampleIsFresh == ASSUME PipeInv PROVE VP!FreshSample
<1>1. seen \in Nat /\ ImuDelay \in Nat
  BY VoAssumption DEF PipeInv, PipeTypes, VP!PipelineAssumption
<1> QED
  BY <1>1 DEF PipeInv, SampleInv, VP!FreshSample, VP!Undetermined

LEMMA FileIsInOrder == ASSUME PipeInv PROVE VP!FileInOrder
  BY DEF PipeInv, FileInv, InOrder, VP!FileInOrder

LEMMA SampleStepsOn ==
  ASSUME PipeInv, [VP!Next]_(VP!vars),
         seen' # seen, seen > ImuDelay, ~starved'
  PROVE  imu' > imu
<1> USE DEF VP!rcm
<1>1. /\ samples \in Nat /\ imuCnt \in Nat /\ ImuDelay \in Nat
      /\ seen \in 0 .. samples
  BY VoAssumption DEF PipeInv, PipeTypes, VP!PipelineAssumption
<1>2. VP!Frame /\ ~(frames' <= Discards)
  BY DEF VP!Next, VP!Sample, VP!Frame, VP!ProcessVelocityMsg, VP!SendVoData,
         VP!Receive, VP!Measure, VP!KeepImu, VP!Signal, VP!StorePop,
         VP!WakeForNothing, VP!StoreWrite, VP!Deactive, VP!Kill, VP!Start, VP!vars
<1>3. VP!GetContent /\ seen' = samples /\ starved' = (starved \/ samples = seen)
  BY <1>2 DEF VP!Frame
<1>4. ~starved /\ samples # seen
  BY <1>3
<1>5. imuCnt > 0 /\ imu = seen - ImuDelay
  BY <1>1, <1>4 DEF PipeInv, SampleInv
<1>6. imu' = VP!Delayed
  BY <1>3, <1>5 DEF VP!GetContent
<1> QED
  BY <1>1, <1>4, <1>5, <1>6 DEF VP!Delayed

LEMMA SendsLater ==
  ASSUME PipeInv, [VP!Next]_(VP!vars), sent' # sent
  PROVE  /\ sent' \in ElementsOf(ctrl) /\ VP!Later(sent', sent)
         /\ \A r \in ElementsOf(ctrl) \cup ElementsOf(back) :
              r = sent' \/ VP!Later(r, sent')
         /\ lost' = lost
<1> USE DEF VP!rcm, VP!results
<1>1. VP!SendVoData
  BY DEF VP!Next, VP!Sample, VP!Frame, VP!ProcessVelocityMsg, VP!SendVoData,
         VP!Receive, VP!Measure, VP!KeepImu, VP!Signal, VP!StorePop,
         VP!WakeForNothing, VP!StoreWrite, VP!Deactive, VP!Kill, VP!Start, VP!vars
<1>2. ctrl # <<>> /\ sent' = Head(ctrl) /\ lost' = lost /\ ctrl \in Seq(VP!Jobs)
  BY <1>1 DEF VP!SendVoData, PipeInv, PipeTypes
<1>3. /\ ElementsOf(ctrl) = {sent'} \cup ElementsOf(Tail(ctrl))
      /\ Before({sent'}, ElementsOf(Tail(ctrl)))
  BY <1>2, TakesElement DEF PipeInv, BackInv
<1> QED
  BY <1>2, <1>3 DEF PipeInv, BackInv, Before

LEMMA GapIsLoss ==
  ASSUME PipeInv, [VP!Next]_(VP!vars), sent' # sent,
         NEW c \in 0 .. sent'.cnt - 1, sent'.life = sent.life => c > sent.cnt
  PROVE  \E r \in lost : r.life = sent'.life /\ r.cnt = c
<1>1. /\ ElementsOf(ctrl) \subseteq VP!Jobs /\ ElementsOf(back) \subseteq VP!Jobs
      /\ sent \in VP!Jobs
  BY ElementsAreJobs DEF PipeInv, PipeTypes
<1>2. sent' \in ElementsOf(ctrl) /\ sent' \in VP!Jobs
  BY <1>1, SendsLater
<1>3. sent'.life \in Nat /\ sent'.cnt \in Int /\ sent.life \in Nat /\ sent.cnt \in Int
  BY <1>1, <1>2, JobFacts
<1>4. Accounted(sent'.life, c)
  BY <1>2 DEF PipeInv, NumberInv
<1>5. ASSUME NEW r \in ElementsOf(ctrl) \cup ElementsOf(back),
             r.life = sent'.life, r.cnt = c
      PROVE  FALSE
  <2>1. r = sent' \/ VP!Later(r, sent')
    BY SendsLater
  <2>2. ~VP!Later(r, sent')
    BY <1>1, <1>3, <1>5, JobFacts DEF VP!Later
  <2>3. r # sent'
    BY <1>3, <1>5
  <2> QED
    BY <2>1, <2>2, <2>3
<1>6. ~(sent.life = sent'.life /\ c <= sent.cnt)
  BY <1>3
<1> QED
  BY <1>4, <1>5, <1>6 DEF Accounted

(***************************************************************************)
(* visionVelocity.cpp, visionRcm.cpp, canPacket.cpp: for any number of     *)
(* frames, samples, kills, ends and restarts, and whatever is dropped on   *)
(* the way: velocities go out in the order of their frames and none twice, *)
(* the numbers left out are those of results that were dropped, imu.txt    *)
(* keeps the order, and while samples come every frame has one of its own. *)
(***************************************************************************)
THEOREM PipelineVelocitiesRight == AnySpec => VelocitiesRight
<1>1. VP!Spec => []PipeInv
  BY PipeInvInit, PipeInvStep, PTL DEF VP!Spec
<1>2. PipeInv => VP!TypeOK /\ VP!FreshSample /\ VP!FileInOrder
  BY PipeTypeOK, SampleIsFresh, FileIsInOrder
<1>3. PipeInv /\ [VP!Next]_(VP!vars) => [VP!Later(sent', sent)]_sent
  BY SendsLater
<1>4. PipeInv /\ [VP!Next]_(VP!vars) =>
        [\A c \in 0 .. sent'.cnt - 1 :
           (sent'.life = sent.life => c > sent.cnt) =>
             \E r \in lost : r.life = sent'.life /\ r.cnt = c]_sent
  BY GapIsLoss
<1>5. PipeInv /\ [VP!Next]_(VP!vars) =>
        [seen' # seen /\ seen > ImuDelay /\ ~starved' => imu' > imu]_(VP!rcm)
  BY SampleStepsOn
<1> QED
  BY <1>1, <1>2, <1>3, <1>4, <1>5, PipelineImplemented, PTL
     DEF VelocitiesRight, VP!Spec, VP!SentInOrder, VP!GapsAreLosses,
         VP!SampleMovesOn
=============================================================================
