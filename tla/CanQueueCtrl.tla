---------------------------- MODULE CanQueueCtrl ---------------------------
(***************************************************************************)
(* CCanQueueCtrl (src/common/can_data/queueCtrl.cpp of visionSys-V2.0):    *)
(* the ring in which the CAN poll thread keeps the records it decoded,     *)
(* for the thread that builds the next image message (m_imuQueue: 30 IMU   *)
(* samples, m_mode = 20; m_388Queue: 10 flight-control samples, m_mode =   *)
(* 0), and in which packets wait for the poll thread to send them (sndCtrl,*)
(* m_mode = 1).                                                            *)
(*                                                                         *)
(* push overwrites, always succeeds and moves m_fetchPos once more than    *)
(* m_mode records came before; pop reads at m_fetchPos and does not move   *)
(* it.  push runs under m_lock from end to end and pop after its unlocked  *)
(* test, so each locked part is one step.  A record is represented by the  *)
(* number of the push that stored it.                                      *)
(***************************************************************************)
EXTENDS Integers, Sequences

CONSTANTS
  MaxCnt,      \* m_maxCnt
  Mode,        \* m_mode
  Word,        \* 2^32: m_index is an unsigned int
  MaxPushes    \* bound: how many records are ever pushed

ASSUME CanQueueAssumption ==
  /\ MaxCnt \in Nat \ {0}
  /\ Mode \in 0 .. MaxCnt - 1
  /\ Word \in Nat /\ Mode + 1 < Word
  /\ MaxPushes \in Nat

VARIABLES
  buf,         \* m_ptr: the number of the push that wrote each slot, 0 for none
  fetchPos,    \* m_fetchPos / m_size
  storePos,    \* m_storePos / m_size
  cnt,         \* m_cnt
  index,       \* m_index
  pc,          \* the consumer: "idle", or "read" when m_cnt tested non-zero
  pushed,      \* history: records pushed so far
  taken        \* history: the record the last successful pop copied out

vars == <<buf, fetchPos, storePos, cnt, index, pc, pushed, taken>>

Slots == 0 .. MaxCnt - 1

(* m_xxxPos += m_size; if (m_totalSize == m_xxxPos) m_xxxPos = 0           *)
Advance(pos) == IF pos + 1 = MaxCnt THEN 0 ELSE pos + 1

(* The constructor and Initialize, which clears the buffer.                *)
Init ==
  /\ buf = [s \in Slots |-> 0]
  /\ fetchPos = 0
  /\ storePos = 0
  /\ cnt = 0
  /\ index = 0
  /\ pc = "idle"
  /\ pushed = 0
  /\ taken = 0

(* Mutant: >= for > in the test of m_index, so the delay is one too short. *)
FetchAfterStoringEarly == IF index >= Mode THEN Advance(fetchPos) ELSE fetchPos

(* Mutant: a counter that never wraps, as a wider m_index would be.        *)
FetchAfterStoringUnwrapped == IF pushed > Mode THEN Advance(fetchPos) ELSE fetchPos

(* if (m_index++ > m_mode) m_fetchPos advances                             *)
FetchAfterStoring == IF index > Mode THEN Advance(fetchPos) ELSE fetchPos

(* Mutant: m_cnt counts every push although the oldest record is lost.     *)
CountUncapped == cnt + 1

(* if (m_cnt < m_maxCnt) m_cnt++                                           *)
CountAfterStoring == IF cnt < MaxCnt THEN cnt + 1 ELSE cnt

Push ==
  /\ pushed < MaxPushes
  /\ pushed' = pushed + 1
  /\ buf' = [buf EXCEPT ![storePos] = pushed']
  /\ fetchPos' = FetchAfterStoring
  /\ index' = IF index + 1 = Word THEN 0 ELSE index + 1
  /\ storePos' = Advance(storePos)
  /\ cnt' = CountAfterStoring
  /\ UNCHANGED <<pc, taken>>

(* pop is called; it returns -1 when the unlocked test finds m_cnt zero.   *)
PopCheck ==
  /\ pc = "idle"
  /\ cnt # 0
  /\ pc' = "read"
  /\ UNCHANGED <<buf, fetchPos, storePos, cnt, index, pushed, taken>>

(* Mutant: pop moves m_fetchPos, as the CQueueCtrl of src/platform does.   *)
PopReadAdvances ==
  /\ pc = "read"
  /\ taken' = buf[fetchPos]
  /\ cnt' = cnt - 1
  /\ fetchPos' = Advance(fetchPos)
  /\ pc' = "idle"
  /\ UNCHANGED <<buf, storePos, index, pushed>>

(* The locked part of pop: m_fetchPos stays where it is.                   *)
PopRead ==
  /\ pc = "read"
  /\ taken' = buf[fetchPos]
  /\ cnt' = cnt - 1
  /\ pc' = "idle"
  /\ UNCHANGED <<buf, fetchPos, storePos, index, pushed>>

Next == Push \/ PopCheck \/ PopRead

Spec == Init /\ [][Next]_vars
-----------------------------------------------------------------------------
(***************************************************************************)
(* Properties.                                                             *)
(***************************************************************************)
(* m_cnt never passes the capacity and never drops below zero, although    *)
(* pop tests it outside the lock.                                          *)
TypeOK ==
  /\ buf \in [Slots -> 0 .. pushed]
  /\ fetchPos \in Slots
  /\ storePos \in Slots
  /\ cnt \in 0 .. MaxCnt
  /\ index \in 0 .. Word - 1
  /\ pc \in {"idle", "read"}
  /\ pushed \in 0 .. MaxPushes
  /\ taken \in 0 .. pushed

(* A pop that passed its test copies a record that somebody pushed, never  *)
(* the zeros of an unused slot.                                            *)
ReadsWrittenSlot == pc = "read" => cnt > 0 /\ buf[fetchPos] # 0

(* Until m_index wraps the ring is a delay line: the record at m_fetchPos  *)
(* is the one pushed m_mode records before the newest, or the oldest one   *)
(* while there are not that many.  visionRcm relies on it to pair an image *)
(* with the IMU sample taken 20 samples earlier (canPacket.cpp:26).        *)
DelayLine ==
  pushed \in 1 .. Word =>
    buf[fetchPos] = IF pushed <= Mode THEN 1 ELSE pushed - Mode

(* When m_index wraps (after 2^32 records) m_fetchPos stands still for     *)
(* m_mode + 1 pushes, so the ring is a delay line of another length from   *)
(* then on: 2 * m_mode + 1 records, less a full turn of the ring when that *)
(* does not fit (11 records instead of 20 for m_imuQueue).                 *)
LagAfterWrap ==
  pushed \in Word + Mode + 1 .. 2 * Word =>
    buf[fetchPos] = pushed - ((2 * Mode + 1) % MaxCnt)

(* What a caller is handed never gets older from one pop to the next.      *)
NeverOlder == [][taken' >= taken]_taken

(* The four together: what a pop that passed its test hands out was pushed *)
(* by somebody, and at the distance that the two delays say.               *)
HandsOutDelayed == TypeOK /\ ReadsWrittenSlot /\ DelayLine /\ LagAfterWrap

(* However often m_index wraps, and wherever the pushes fall between the   *)
(* test of pop and its locked part, the ring is the delay line of          *)
(* DelayedFeed: pop hands out the record at the delay of that turn.        *)
Feed == INSTANCE DelayedFeed WITH Length <- MaxCnt, Delay <- Mode

DelaySpec == Feed!Spec
=============================================================================
