----------------------------- MODULE QueueCtrl -----------------------------
(***************************************************************************)
(* CQueueCtrl (src/platform/queueCtrl.cpp of visionSys-V2.0): the ring     *)
(* buffer through which one thread of a process hands fixed-size records   *)
(* to another.  The receiver thread of visionRcm pushes the velocities it  *)
(* gets from visionVelocity and the SendVoData timer thread pops them.     *)
(*                                                                         *)
(* Both operations test m_cnt BEFORE they take m_lock and act on the       *)
(* result after it, so the test and the action are steps of their own      *)
(* here and any step of the other threads may fall between them.           *)
(* Positions count records: m_fetchPos is fetchPos * m_size.               *)
(***************************************************************************)
EXTENDS Naturals, Sequences

CONSTANTS
  Producers,   \* threads that call push
  Consumers,   \* threads that call pop
  Item,        \* the records, abstracted to what tells them apart
  NoItem,      \* the content of a slot nobody wrote
  MaxCnt,      \* m_maxCnt
  Lifo,        \* m_mode
  Word         \* 2^32: m_cnt is an unsigned int

ASSUME QueueAssumption ==
  /\ MaxCnt \in Nat \ {0}
  /\ Word \in Nat /\ MaxCnt < Word
  /\ Lifo \in BOOLEAN
  /\ NoItem \notin Item
  /\ Producers \cap Consumers = {}

VARIABLES
  buf,         \* m_ptr, one entry per record
  fetchPos,    \* m_fetchPos / m_size
  storePos,    \* m_storePos / m_size
  cnt,         \* m_cnt
  owner,       \* the threads that are inside m_lock
  pc,          \* where each thread is in push or pop
  local,       \* the record each thread carries: push's argument, pop's copy
  taken        \* the record handed over by the pop that returned 0 last

vars == <<buf, fetchPos, storePos, cnt, owner, pc, local, taken>>

Threads == Producers \cup Consumers
Slots == 0 .. MaxCnt - 1

(* Mutant: the wrap is tested one record too late (> for ==).              *)
AdvanceNoWrap(pos) == IF pos + 1 > MaxCnt THEN 0 ELSE pos + 1

(* m_xxxPos += m_size; if (m_totalSize == m_xxxPos) m_xxxPos = 0           *)
Advance(pos) == IF pos + 1 = MaxCnt THEN 0 ELSE pos + 1

(* The constructor and Initialize: the buffer is not cleared.              *)
Init ==
  /\ buf = [s \in Slots |-> NoItem]
  /\ fetchPos = 0
  /\ storePos = 0
  /\ cnt = 0
  /\ owner = {}
  /\ pc = [t \in Threads |-> "idle"]
  /\ local = [t \in Threads |-> NoItem]
  /\ taken = NoItem

(* push is called; it returns -1 when the unlocked test finds it full.     *)
PushCheck(p, v) ==
  /\ pc[p] = "idle"
  /\ cnt # MaxCnt
  /\ pc' = [pc EXCEPT ![p] = "lock"]
  /\ local' = [local EXCEPT ![p] = v]
  /\ UNCHANGED <<buf, fetchPos, storePos, cnt, owner, taken>>

Lock(t) ==
  /\ pc[t] = "lock"
  /\ owner = {}
  /\ owner' = {t}
  /\ pc' = [pc EXCEPT ![t] = "copy"]
  /\ UNCHANGED <<buf, fetchPos, storePos, cnt, local, taken>>

PushCopy(p) ==
  /\ pc[p] = "copy"
  /\ buf' = [buf EXCEPT ![storePos] = local[p]]
  /\ pc' = [pc EXCEPT ![p] = "advance"]
  /\ UNCHANGED <<fetchPos, storePos, cnt, owner, local, taken>>

PushAdvance(p) ==
  /\ pc[p] = "advance"
  /\ fetchPos' = IF Lifo THEN storePos ELSE fetchPos
  /\ storePos' = Advance(storePos)
  /\ cnt' = IF cnt + 1 = Word THEN 0 ELSE cnt + 1
  /\ pc' = [pc EXCEPT ![p] = "unlock"]
  /\ UNCHANGED <<buf, owner, local, taken>>

(* pop is called; it returns -1 when the unlocked test finds nothing.      *)
PopCheck(c) ==
  /\ pc[c] = "idle"
  /\ cnt # 0
  /\ pc' = [pc EXCEPT ![c] = "lock"]
  /\ UNCHANGED <<buf, fetchPos, storePos, cnt, owner, local, taken>>

PopCopy(c) ==
  /\ pc[c] = "copy"
  /\ local' = [local EXCEPT ![c] = buf[fetchPos]]
  /\ pc' = [pc EXCEPT ![c] = "advance"]
  /\ UNCHANGED <<buf, fetchPos, storePos, cnt, owner, taken>>

(* Mutant: the LIFO branch taken whatever m_mode is (the test inverted).   *)
PopAdvanceKeepsPos(c) ==
  /\ pc[c] = "advance"
  /\ fetchPos' = fetchPos
  /\ cnt' = IF cnt = 0 THEN Word - 1 ELSE cnt - 1
  /\ taken' = local[c]
  /\ pc' = [pc EXCEPT ![c] = "unlock"]
  /\ UNCHANGED <<buf, storePos, owner, local>>

PopAdvance(c) ==
  /\ pc[c] = "advance"
  /\ fetchPos' = IF Lifo THEN fetchPos ELSE Advance(fetchPos)
  /\ cnt' = IF cnt = 0 THEN Word - 1 ELSE cnt - 1
  /\ taken' = local[c]
  /\ pc' = [pc EXCEPT ![c] = "unlock"]
  /\ UNCHANGED <<buf, storePos, owner, local>>

Unlock(t) ==
  /\ pc[t] = "unlock"
  /\ owner' = owner \ {t}
  /\ pc' = [pc EXCEPT ![t] = "idle"]
  /\ UNCHANGED <<buf, fetchPos, storePos, cnt, local, taken>>

Push(p) == (\E v \in Item : PushCheck(p, v)) \/ PushCopy(p) \/ PushAdvance(p)

Pop(c) == PopCheck(c) \/ PopCopy(c) \/ PopAdvance(c)

Next ==
  \/ \E p \in Producers : Push(p)
  \/ \E c \in Consumers : Pop(c)
  \/ \E t \in Threads : Lock(t) \/ Unlock(t)

Spec == Init /\ [][Next]_vars

(* A thread that is inside push or pop goes on; the timer that pops comes  *)
(* round again and again.  Nothing obliges a producer to call push.        *)
Fairness ==
  /\ \A t \in Threads : WF_vars(Lock(t)) /\ WF_vars(Unlock(t))
  /\ \A p \in Producers : WF_vars(PushCopy(p) \/ PushAdvance(p))
  /\ \A c \in Consumers : WF_vars(Pop(c))

FairSpec == Spec /\ Fairness
-----------------------------------------------------------------------------
(***************************************************************************)
(* Properties.                                                             *)
(***************************************************************************)
(* How the program uses the class: one thread pushes, one thread pops, and *)
(* m_mode is false.                                                        *)
SingleProducerConsumer ==
  /\ \A p, q \in Producers : p = q
  /\ \A c, d \in Consumers : c = d

InLock == {"copy", "advance", "unlock"}

Committed == {"lock", "copy", "advance"}

(* The positions stay inside the buffer and m_cnt inside its capacity.     *)
TypeOK ==
  /\ buf \in [Slots -> Item \cup {NoItem}]
  /\ fetchPos \in Slots
  /\ storePos \in Slots
  /\ cnt \in 0 .. MaxCnt
  /\ owner \in SUBSET Threads
  /\ pc \in [Threads -> {"idle", "lock", "copy", "advance", "unlock"}]
  /\ local \in [Threads -> Item \cup {NoItem}]
  /\ taken \in Item \cup {NoItem}

(* The slot k records after the one that is fetched next.                  *)
Slot(k) == IF fetchPos + k < MaxCnt THEN fetchPos + k ELSE fetchPos + k - MaxCnt

(* What the unlocked tests of queueCtrl.cpp:55 and :89 saw is still true   *)
(* when the locked part acts on it: a thread on its way to a write finds a *)
(* free slot, a thread on its way to a read finds a record.                *)
CheckStillHolds ==
  /\ \A p \in Producers : pc[p] \in Committed => cnt < MaxCnt
  /\ \A c \in Consumers : pc[c] \in Committed => cnt > 0

(* The records waiting, oldest first.                                      *)
Waiting == [i \in 1 .. cnt |-> buf[Slot(i - 1)]]

Fifo == INSTANCE BoundedFifo
          WITH Capacity <- MaxCnt, queue <- Waiting, taken <- taken

(* queueCtrl.h:15, "mode 0: first in, first out": the ring and its early   *)
(* tests implement a bounded FIFO: no record is lost, repeated, reordered  *)
(* or read before it was written.                                          *)
FifoSpec == Fifo!Spec

(* A queue that is full does not stay full: a push that is refused now can *)
(* succeed later.                                                          *)
RoomAgain == []<>(cnt < MaxCnt)
=============================================================================
