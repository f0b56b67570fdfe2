------------------------- MODULE MsgTransportProofs ------------------------
(***************************************************************************)
(* For any set of messages, any MAX_MSG and any number of frames and of    *)
(* processes killed: as long as nobody clears a head whose lock is held,   *)
(* the two counts of a message agree and a receiver is handed the newest   *)
(* frame, whole, and never an older one than before.                       *)
(***************************************************************************)
EXTENDS MsgTransport, TLAPS

HeadType == [fetch : 0 .. 1, store : 0 .. 1, total : 0 .. Word - 1]
SndType == [pc : {"idle", "copy", "publish", "notify"},
            id : BigIds \cup {None}, at : 0 .. 1]
RcvType == [pc : {"idle", "told", "begin", "copy"},
            at : 0 .. 1, val : -1 .. MaxFrames]

Copying(i) == snd.pc \in {"copy", "publish"} /\ snd.id = i
Popping(i) == rcv[i].pc \in {"begin", "copy"}

(* The record lock belongs to the one process that is inside the section   *)
(* it protects, and a dead process is inside none.                         *)
LockInv ==
  /\ snd.pc # "idle" => snd.id \in BigIds
  /\ snd.pc = "copy" => frames < MaxFrames
  /\ ~alive[Rcm] => snd = Idle
  /\ \A i \in BigIds :
       /\ ~alive[i] => rcv[i] = IdleRcv
       /\ lock[i] \in {None, Rcm, i}
       /\ lock[i] = Rcm <=> Copying(i)
       /\ lock[i] = i <=> Popping(i)

(* What the tests under the lock established still holds under the lock.   *)
CountInv ==
  \A i \in BigIds : Clean(i) =>
    /\ head[i].total + orphans[i] = Tokens(i)
    /\ head[i].total <= MaxMsg
    /\ Copying(i) => head[i].total < MaxMsg
    /\ Popping(i) => head[i].total > 0

(* No payload anywhere is younger than the last one copied.                *)
AgeInv ==
  \A i \in BigIds :
    /\ \A s \in 0 .. 1 : slot[i][s] <= frames
    /\ got[i] <= frames
    /\ newest[i] <= frames
    /\ rcv[i].val <= frames

(* m_fetch names the slot of the newest payload while one is counted,      *)
(* m_store the other one.                                                  *)
SlotInv ==
  \A i \in BigIds : Clean(i) =>
    /\ head[i].total > 0 =>
         /\ head[i].store = 1 - head[i].fetch
         /\ slot[i][head[i].fetch] = newest[i]
         /\ newest[i] > 0
         /\ got[i] <= newest[i]
    /\ Copying(i) => snd.at = head[i].store
    /\ Copying(i) /\ snd.pc = "publish" =>
         slot[i][snd.at] = frames /\ frames > 0
    /\ rcv[i].pc = "copy" =>
         rcv[i].at = head[i].fetch /\ rcv[i].val = newest[i]

IInv == TypeOK /\ LockInv /\ CountInv /\ AgeInv /\ SlotInv

LEMMA InitInv == Init => IInv
<1> SUFFICES ASSUME Init PROVE IInv
  OBVIOUS
<1> USE TransportAssumption DEF Init, Idle, IdleRcv, Unwritten
<1>1. TypeOK
  BY DEF TypeOK, EmptyHead, Procs
<1>2. LockInv
  BY DEF LockInv, Copying, Popping, Procs
<1>3. CountInv
  BY DEF CountInv, Tokens, Notifying, Copying, Popping, EmptyHead
<1>4. AgeInv
  BY DEF AgeInv
<1>5. SlotInv
  BY DEF SlotInv, Copying, EmptyHead
<1> QED
  BY <1>1, <1>2, <1>3, <1>4, <1>5 DEF IInv

LEMMA PushBeginInv ==
  ASSUME IInv, NEW m \in BigIds, PushBegin(m)
  PROVE  IInv'
<1> USE TransportAssumption DEF PushBegin, Idle, IInv, shm, kernel, history, Procs
<1>1. TypeOK'
  <2>1. slot[m] \in [0 .. 1 -> -1 .. MaxFrames] /\ head[m].store \in 0 .. 1
    BY DEF TypeOK
  <2>2. slot' \in [BigIds -> [0 .. 1 -> -1 .. MaxFrames]]
    BY <2>1 DEF TypeOK, Torn
  <2>3. snd' \in SndType
    BY <2>1 DEF SndType
  <2>4. lock' \in [BigIds -> Procs \cup {None}]
    BY DEF TypeOK
  <2> QED
    BY <2>2, <2>3, <2>4 DEF TypeOK, SndType
<1>2. LockInv'
  BY DEF TypeOK, LockInv, Copying, Popping
<1>3. CountInv'
  <2>1. ASSUME NEW i \in BigIds
        PROVE  Tokens(i)' = Tokens(i) /\ Popping(i)' = Popping(i)
    BY DEF Tokens, Notifying, Popping
  <2>2. ASSUME NEW i \in BigIds, Clean(i), Copying(i)'
        PROVE  head[i].total < MaxMsg
    <3>1. i = m /\ head[m].total # MaxMsg
      BY <2>2 DEF Copying
    <3>2. head[m].total <= MaxMsg /\ head[m].total \in 0 .. Word - 1
      BY <2>2, <3>1 DEF TypeOK, CountInv
    <3> QED
      BY <3>1, <3>2
  <2> QED
    BY <2>1, <2>2 DEF TypeOK, CountInv, Clean
<1>4. AgeInv'
  BY DEF TypeOK, LockInv, AgeInv, Torn, Unwritten
<1>5. SlotInv'
  BY DEF TypeOK, LockInv, CountInv, AgeInv, SlotInv, Clean, Copying, Popping
<1> QED
  BY <1>1, <1>2, <1>3, <1>4, <1>5

LEMMA PushCopiedInv ==
  ASSUME IInv, PushCopied
  PROVE  IInv'
<1> USE TransportAssumption DEF PushCopied, Idle, IInv, shm, kernel, history, Procs
<1>1. TypeOK'
  <2>1. snd.id \in BigIds /\ snd.at \in 0 .. 1 /\ frames' \in 0 .. MaxFrames
    BY DEF TypeOK, LockInv
  <2>2. slot[snd.id] \in [0 .. 1 -> -1 .. MaxFrames]
    BY <2>1 DEF TypeOK
  <2>3. slot' \in [BigIds -> [0 .. 1 -> -1 .. MaxFrames]]
    BY <2>1, <2>2 DEF TypeOK
  <2>4. snd' \in SndType
    BY DEF TypeOK, SndType
  <2> QED
    BY <2>1, <2>3, <2>4 DEF TypeOK, SndType
<1>2. LockInv'
  BY DEF TypeOK, LockInv, Copying, Popping
<1>3. CountInv'
  BY DEF TypeOK, LockInv, CountInv, Clean, Tokens, Notifying, Copying, Popping
<1>4. AgeInv'
  BY DEF TypeOK, LockInv, AgeInv, Torn, Unwritten
<1>5. SlotInv'
  BY DEF TypeOK, LockInv, CountInv, AgeInv, SlotInv, Clean, Copying, Popping
<1> QED
  BY <1>1, <1>2, <1>3, <1>4, <1>5

LEMMA PushPublishInv ==
  ASSUME IInv, PushPublish
  PROVE  IInv'
<1> USE TransportAssumption DEF PushPublish, Published, Counted, Idle, IInv, shm, kernel, history, Procs
<1>1. TypeOK'
  <2>1. snd.id \in BigIds
    BY DEF LockInv
  <2>2. head[snd.id] \in HeadType
    BY <2>1 DEF TypeOK, HeadType
  <2>3. Published(head[snd.id]) \in HeadType
    BY <2>2 DEF HeadType
  <2>4. head' \in [BigIds -> HeadType]
    BY <2>1, <2>3 DEF TypeOK, HeadType
  <2>5. newest' \in [BigIds -> 0 .. MaxFrames] /\ snd' \in SndType
    BY DEF TypeOK, SndType
  <2> QED
    BY <2>4, <2>5 DEF TypeOK, HeadType, SndType
<1>2. LockInv'
  BY DEF TypeOK, LockInv, Copying, Popping
<1>3. CountInv'
  BY DEF TypeOK, LockInv, CountInv, Clean, Tokens, Notifying, Copying, Popping
<1>4. AgeInv'
  BY DEF TypeOK, LockInv, AgeInv, Torn, Unwritten
<1>5. SlotInv'
  BY DEF TypeOK, LockInv, CountInv, AgeInv, SlotInv, Clean, Copying, Popping
<1> QED
  BY <1>1, <1>2, <1>3, <1>4, <1>5

LEMMA NotifyInv ==
  ASSUME IInv, Notify
  PROVE  IInv'
<1> USE TransportAssumption DEF Notify, Idle, IInv, shm, kernel, history, Procs
<1>1. TypeOK'
  <2>1. queued' \in [BigIds -> Nat] /\ leaked' \in [BigIds -> Nat]
    BY DEF TypeOK
  <2>2. snd' \in SndType
    BY DEF SndType
  <2> QED
    BY <2>1, <2>2 DEF TypeOK, SndType
<1>2. LockInv'
  BY DEF TypeOK, LockInv, Copying, Popping
<1>3. CountInv'
  BY DEF TypeOK, LockInv, CountInv, Clean, Tokens, Notifying, Copying, Popping
<1>4. AgeInv'
  BY DEF TypeOK, LockInv, AgeInv, Torn, Unwritten
<1>5. SlotInv'
  BY DEF TypeOK, LockInv, CountInv, AgeInv, SlotInv, Clean, Copying, Popping
<1> QED
  BY <1>1, <1>2, <1>3, <1>4, <1>5

LEMMA SmallInv ==
  ASSUME IInv, SendSmall \/ RecvSmall \/ UNCHANGED vars
  PROVE  IInv'
<1> USE TransportAssumption DEF SendSmall, RecvSmall, vars, IInv, shm, kernel, history, Procs
<1>1. TypeOK'
  BY DEF TypeOK, LockInv
<1>2. LockInv'
  BY DEF TypeOK, LockInv, Copying, Popping
<1>3. CountInv'
  BY DEF TypeOK, LockInv, CountInv, Clean, Tokens, Notifying, Copying, Popping
<1>4. AgeInv'
  BY DEF TypeOK, LockInv, AgeInv, Torn, Unwritten
<1>5. SlotInv'
  BY DEF TypeOK, LockInv, CountInv, AgeInv, SlotInv, Clean, Copying, Popping
<1> QED
  BY <1>1, <1>2, <1>3, <1>4, <1>5

LEMMA TakeNotificationInv ==
  ASSUME IInv, NEW m \in BigIds, TakeNotification(m)
  PROVE  IInv'
<1> USE TransportAssumption DEF TakeNotification, IdleRcv, IInv, shm, kernel, history, Procs
<1>1. TypeOK'
  <2>1. rcv[m] \in RcvType /\ head[m] \in HeadType
    BY DEF TypeOK, RcvType, HeadType
  <2>2. rcv'[m] \in RcvType
    BY <2>1 DEF TypeOK, RcvType, HeadType
  <2>3. rcv' \in [BigIds -> RcvType]
    BY <2>2 DEF TypeOK, RcvType
  <2>4. queued' \in [BigIds -> Nat]
    BY DEF TypeOK
  <2> QED
    BY <2>3, <2>4 DEF TypeOK, RcvType
<1>2. LockInv'
  BY DEF TypeOK, LockInv, Copying, Popping
<1>3. CountInv'
  BY DEF TypeOK, LockInv, CountInv, Clean, Tokens, Notifying, Copying, Popping
<1>4. AgeInv'
  BY DEF TypeOK, LockInv, AgeInv, Torn, Unwritten
<1>5. SlotInv'
  BY DEF TypeOK, LockInv, CountInv, AgeInv, SlotInv, Clean, Copying, Popping
<1> QED
  BY <1>1, <1>2, <1>3, <1>4, <1>5

LEMMA PopNothingInv ==
  ASSUME IInv, NEW m \in BigIds, PopNothing(m)
  PROVE  IInv'
<1> USE TransportAssumption DEF PopNothing, IdleRcv, IInv, shm, kernel, history, Procs
<1>1. TypeOK'
  <2>1. rcv[m] \in RcvType /\ head[m] \in HeadType
    BY DEF TypeOK, RcvType, HeadType
  <2>2. rcv'[m] \in RcvType
    BY <2>1 DEF TypeOK, RcvType, HeadType, Unwritten
  <2>3. rcv' \in [BigIds -> RcvType]
    BY <2>2 DEF TypeOK, RcvType
  <2>4. orphans' \in [BigIds -> Nat]
    BY DEF TypeOK
  <2> QED
    BY <2>3, <2>4 DEF TypeOK, RcvType
<1>2. LockInv'
  BY DEF TypeOK, LockInv, Copying, Popping
<1>3. CountInv'
  BY DEF TypeOK, LockInv, CountInv, Clean, Tokens, Notifying, Copying, Popping
<1>4. AgeInv'
  BY DEF TypeOK, LockInv, AgeInv, Torn, Unwritten
<1>5. SlotInv'
  BY DEF TypeOK, LockInv, CountInv, AgeInv, SlotInv, Clean, Copying, Popping
<1> QED
  BY <1>1, <1>2, <1>3, <1>4, <1>5

LEMMA PopBeginInv ==
  ASSUME IInv, NEW m \in BigIds, PopBegin(m)
  PROVE  IInv'
<1> USE TransportAssumption DEF PopBegin, IdleRcv, IInv, shm, kernel, history, Procs
<1>1. TypeOK'
  <2>1. rcv[m] \in RcvType /\ head[m] \in HeadType
    BY DEF TypeOK, RcvType, HeadType
  <2>2. rcv'[m] \in RcvType
    BY <2>1 DEF TypeOK, RcvType, HeadType
  <2>3. rcv' \in [BigIds -> RcvType]
    BY <2>2 DEF TypeOK, RcvType
  <2>4. lock' \in [BigIds -> Procs \cup {None}]
    BY DEF TypeOK
  <2> QED
    BY <2>3, <2>4 DEF TypeOK, RcvType
<1>2. LockInv'
  BY DEF TypeOK, LockInv, Copying, Popping
<1>3. CountInv'
  BY DEF TypeOK, LockInv, CountInv, Clean, Tokens, Notifying, Copying, Popping
<1>4. AgeInv'
  BY DEF TypeOK, LockInv, AgeInv, Torn, Unwritten
<1>5. SlotInv'
  BY DEF TypeOK, LockInv, CountInv, AgeInv, SlotInv, Clean, Copying, Popping
<1> QED
  BY <1>1, <1>2, <1>3, <1>4, <1>5

LEMMA PopCopyInv ==
  ASSUME IInv, NEW m \in BigIds, PopCopy(m)
  PROVE  IInv'
<1> USE TransportAssumption DEF PopCopy, IdleRcv, IInv, shm, kernel, history, Procs
<1>1. TypeOK'
  <2>1. rcv[m] \in RcvType /\ head[m] \in HeadType
    BY DEF TypeOK, RcvType, HeadType
  <2>2. rcv'[m] \in RcvType
    BY <2>1 DEF TypeOK, RcvType, HeadType
  <2>3. rcv' \in [BigIds -> RcvType]
    BY <2>2 DEF TypeOK, RcvType
  <2>4. slot[m][head[m].fetch] \in -1 .. MaxFrames
    BY <2>1 DEF TypeOK, HeadType
  <2> QED
    BY <2>3, <2>4 DEF TypeOK, RcvType
<1>2. LockInv'
  BY DEF TypeOK, LockInv, Copying, Popping
<1>3. CountInv'
  BY DEF TypeOK, LockInv, CountInv, Clean, Tokens, Notifying, Copying, Popping
<1>4. AgeInv'
  <2>1. head[m].fetch \in 0 .. 1
    BY DEF TypeOK
  <2>2. rcv'[m].val = slot[m][head[m].fetch]
    BY DEF TypeOK
  <2>3. \A i \in BigIds : rcv'[i].val <= frames
    BY <2>1, <2>2 DEF TypeOK, AgeInv
  <2> QED
    BY <2>3 DEF AgeInv
<1>5. SlotInv'
  BY DEF TypeOK, LockInv, CountInv, AgeInv, SlotInv, Clean, Copying, Popping
<1> QED
  BY <1>1, <1>2, <1>3, <1>4, <1>5

LEMMA PopDoneInv ==
  ASSUME IInv, NEW m \in BigIds, PopDone(m)
  PROVE  IInv'
<1> USE TransportAssumption DEF PopDone, CopyOf, IdleRcv, IInv, shm, kernel, history, Procs
<1>1. TypeOK'
  <2>1. rcv'[m] \in RcvType /\ head[m] \in HeadType
    BY DEF TypeOK, RcvType, HeadType, Unwritten
  <2>2. rcv' \in [BigIds -> RcvType]
    BY <2>1 DEF TypeOK, RcvType
  <2>3. head'[m] = [head[m] EXCEPT !.total =
                      IF @ = 0 THEN Word - 1 ELSE @ - 1]
    BY DEF TypeOK
  <2>4. head'[m] \in HeadType
    BY <2>1, <2>3 DEF HeadType
  <2>5. head' \in [BigIds -> HeadType]
    BY <2>4 DEF TypeOK, HeadType
  <2>6. got' \in [BigIds -> -1 .. MaxFrames]
    BY DEF TypeOK, Torn
  <2> QED
    BY <2>2, <2>5, <2>6 DEF TypeOK, RcvType, HeadType
<1>2. LockInv'
  BY DEF TypeOK, LockInv, Copying, Popping
<1>3. CountInv'
  BY DEF TypeOK, LockInv, CountInv, Clean, Tokens, Notifying, Copying, Popping
<1>4. AgeInv'
  BY DEF TypeOK, LockInv, AgeInv, Torn, Unwritten
<1>5. SlotInv'
  BY DEF TypeOK, LockInv, CountInv, AgeInv, SlotInv, Clean, Copying, Popping
<1> QED
  BY <1>1, <1>2, <1>3, <1>4, <1>5

LEMMA KillInv ==
  ASSUME IInv, NEW p \in Procs, Kill(p)
  PROVE  IInv'
<1> USE TransportAssumption DEF Kill, LocksAfterDeathOf, LostBy, Idle, IdleRcv, Unwritten, IInv, shm, kernel, history, Procs
<1>1. TypeOK'
  BY DEF TypeOK, LockInv
<1>2. LockInv'
  BY DEF TypeOK, LockInv, Copying, Popping
<1>3. CountInv'
  BY DEF TypeOK, LockInv, CountInv, Clean, Tokens, Notifying, Copying, Popping
<1>4. AgeInv'
  BY DEF TypeOK, LockInv, AgeInv, Torn, Unwritten
<1>5. SlotInv'
  BY DEF TypeOK, LockInv, CountInv, AgeInv, SlotInv, Clean, Copying, Popping
<1> QED
  BY <1>1, <1>2, <1>3, <1>4, <1>5

LEMMA RegisterInv ==
  ASSUME IInv, NEW p \in Procs, Register(p)
  PROVE  IInv'
<1> USE TransportAssumption DEF Register, Cleared, EmptyHead, Idle, IdleRcv, IInv, shm, kernel, history, Procs
<1>1. TypeOK'
  <2>1. \A i \in BigIds : Tokens(i) - leaked[i] \in Nat
    BY DEF TypeOK, Tokens
  <2>2. head' \in [BigIds -> HeadType] /\ orphans' \in [BigIds -> Nat]
    BY <2>1 DEF HeadType
  <2> QED
    BY <2>2 DEF TypeOK, HeadType
<1>2. LockInv'
  BY DEF TypeOK, LockInv, Copying, Popping
<1>3. CountInv'
  BY DEF TypeOK, LockInv, CountInv, Clean, Tokens, Notifying, Copying, Popping
<1>4. AgeInv'
  BY DEF TypeOK, LockInv, AgeInv, Torn, Unwritten
<1>5. SlotInv'
  BY DEF TypeOK, LockInv, CountInv, AgeInv, SlotInv, Clean, Copying, Popping
<1> QED
  BY <1>1, <1>2, <1>3, <1>4, <1>5

LEMMA StepInv == IInv /\ [Next]_vars => IInv'
BY PushBeginInv, PushCopiedInv, PushPublishInv, NotifyInv, SmallInv,
   TakeNotificationInv, PopNothingInv, PopBeginInv, PopCopyInv, PopDoneInv,
   KillInv, RegisterInv
   DEF Next

(***************************************************************************)
(* shmTrans.cpp:45-114, mt.cpp:63-112: wherever a process is killed,       *)
(* m_fetch, m_store and the slots a process works on stay within the two   *)
(* slots, the lock is free or some process's, and no count leaves its      *)
(* range.                                                                  *)
(***************************************************************************)
THEOREM TransportTypeCorrect == Spec => []TypeOK
<1>1. IInv => TypeOK
  BY DEF IInv
<1> QED
  BY <1>1, InitInv, StepInv, PTL DEF Spec

(***************************************************************************)
(* shmTrans.cpp:45-114, msgTrans.cpp:44-80: whoever is killed where, the   *)
(* count in shared memory and the notifications in the kernel queue differ *)
(* by exactly the ones the kernel refused, the ones a dead process took    *)
(* with it and the ones a new process wiped out.                           *)
(***************************************************************************)
THEOREM TransportCountsAgree == Spec => []CountsAgree
<1>1. IInv => CountsAgree
  BY DEF IInv, CountInv, CountsAgree
<1> QED
  BY <1>1, InitInv, StepInv, PTL DEF Spec

(***************************************************************************)
(* shmTrans.cpp:53,92: the unsigned m_total stays within MAX_MSG although  *)
(* four functions of different processes write it.                         *)
(***************************************************************************)
THEOREM TransportCountBounded == Spec => []CountBounded
<1>1. IInv => CountBounded
  BY DEF IInv, CountInv, CountBounded
<1> QED
  BY <1>1, InitInv, StepInv, PTL DEF Spec

(***************************************************************************)
(* mt.cpp:63-104: a receiver that was told of a frame nobody wiped out     *)
(* finds one in shared memory.                                             *)
(***************************************************************************)
THEOREM TransportNotificationHasPayload == Spec => []NotificationHasPayload
<1>1. IInv => NotificationHasPayload
  <2> SUFFICES ASSUME IInv, NEW i \in BigIds, Clean(i), orphans[i] = 0,
                      rcv[i].pc # "idle"
               PROVE  head[i].total > 0
    BY DEF NotificationHasPayload
  <2>1. head[i].total \in Nat /\ queued[i] \in Nat /\ leaked[i] \in Nat
    BY TransportAssumption DEF IInv, TypeOK
  <2>2. head[i].total + 0 = Tokens(i)
    BY DEF IInv, CountInv
  <2>3. Tokens(i) > 0
    BY <2>1 DEF Tokens
  <2> QED
    BY <2>1, <2>2, <2>3
<1> QED
  BY <1>1, InitInv, StepInv, PTL DEF Spec

(***************************************************************************)
(* shmTrans.cpp:85-114: what a receiver copies out is the newest payload,  *)
(* and it does not change during the copy.                                 *)
(***************************************************************************)
THEOREM TransportDeliversNewest == Spec => []DeliversNewest
<1>1. IInv => DeliversNewest
  BY DEF IInv, TypeOK, LockInv, CountInv, SlotInv, Popping, CopyOf,
         DeliversNewest, Unwritten
<1> QED
  BY <1>1, InitInv, StepInv, PTL DEF Spec

(***************************************************************************)
(* A receiver never goes back to an older frame, whoever restarts.         *)
(***************************************************************************)
THEOREM TransportNeverOlder == Spec => NeverOlder
<1>1. ASSUME IInv, [Next]_vars, got' # got, NEW i \in BigIds, Clean(i)
      PROVE  got'[i] >= got[i]
  <2>1. PICK m \in BigIds : PopDone(m)
    BY <1>1 DEF Next, PushBegin, PushCopied, PushPublish, Notify, SendSmall,
       RecvSmall, TakeNotification, PopNothing, PopBegin, PopCopy, Kill,
       Register, vars, shm, kernel, history
  <2>2. CASE i = m
    <3>1. got'[i] = CopyOf(i) /\ rcv[i].pc = "copy"
      BY <2>1, <2>2, <1>1 DEF PopDone, IInv, TypeOK
    <3>2. CopyOf(i) = newest[i] /\ got[i] <= newest[i]
      BY <1>1, <3>1 DEF IInv, TypeOK, CountInv, SlotInv, Popping, CopyOf
    <3> QED
      BY <3>1, <3>2, <1>1 DEF IInv, TypeOK
  <2>3. CASE i # m
    BY <2>1, <2>3, <1>1 DEF PopDone, IInv, TypeOK
  <2> QED
    BY <2>2, <2>3
<1>2. IInv /\ [Next]_vars => [\A i \in BigIds : Clean(i) => got'[i] >= got[i]]_got
  BY <1>1
<1> QED
  BY <1>2, InitInv, StepInv, PTL DEF Spec, NeverOlder

(* m_total and the notifications in the kernel queue tell the same of a    *)
(* clean message, within MAX_MSG, who was told of a frame finds one, and   *)
(* the fields stay in their ranges.                                        *)
THEOREM TransportCountsRight == Spec => []CountsRight
  BY TransportTypeCorrect, TransportCountsAgree, TransportNotificationHasPayload,
     TransportCountBounded, PTL DEF CountsRight
-----------------------------------------------------------------------------
(* What Rcm is about to publish is younger than all that was published.    *)
FreshInv == snd.pc = "publish" => \A i \in BigIds : newest[i] < frames

LEMMA FreshStep == IInv /\ FreshInv /\ [Next]_vars => FreshInv'
<1> SUFFICES ASSUME IInv, FreshInv, [Next]_vars PROVE FreshInv'
  OBVIOUS
<1>1. CASE PushCopied
  BY <1>1 DEF PushCopied, FreshInv, IInv, TypeOK, AgeInv
<1>2. CASE PushPublish \/ Notify \/ \E i \in BigIds : PushBegin(i)
  BY <1>2 DEF PushPublish, Notify, PushBegin, FreshInv, Idle, IInv, TypeOK
<1>3. ASSUME NEW p \in Procs, Kill(p) PROVE FreshInv'
  BY <1>3 DEF Kill, FreshInv, Idle
<1>4. CASE UNCHANGED <<snd, newest, frames>>
  BY <1>4 DEF FreshInv
<1>5. CASE \/ SendSmall \/ RecvSmall \/ UNCHANGED vars
           \/ \E i \in BigIds : \/ TakeNotification(i) \/ PopNothing(i)
                                \/ PopBegin(i) \/ PopCopy(i) \/ PopDone(i)
           \/ \E p \in Procs : Register(p)
  BY <1>4, <1>5 DEF SendSmall, RecvSmall, TakeNotification, PopNothing, PopBegin, PopCopy,
     PopDone, Register, vars, shm, kernel, history
<1> QED
  BY <1>1, <1>2, <1>3, <1>5 DEF Next

LEMMA PublishMaps ==
  ASSUME IInv, FreshInv, PushPublish
  PROVE  Channel!Next
<1> DEFINE i == snd.id
           t == head[i].total
           k == Counted(t)
           owed == [j \in BigIds |-> head[j].total]
<1>1. /\ i \in BigIds /\ frames \in -1 .. MaxFrames /\ t \in 0 .. Word - 1
      /\ head \in [BigIds -> HeadType] /\ raced \in [BigIds -> BOOLEAN]
  BY DEF IInv, LockInv, TypeOK, HeadType, PushPublish
<1>2. /\ newest' = [newest EXCEPT ![i] = frames] /\ got' = got /\ raced' = raced
      /\ head' = [head EXCEPT ![i] = Published(head[i])] /\ snd.pc = "publish"
  BY DEF PushPublish
<1>3. frames > newest[i]
  BY <1>1, <1>2 DEF FreshInv, IInv, TypeOK
<1>4. ~raced[i] => t < MaxMsg /\ k = t + 1
  <2> SUFFICES ASSUME ~raced[i] PROVE t < MaxMsg /\ k = t + 1
    OBVIOUS
  <2>1. t < MaxMsg
    BY <1>1, <1>2 DEF IInv, CountInv, Clean, Copying
  <2> QED
    BY <2>1, <1>1, TransportAssumption DEF Counted
<1>5. k \in 0 .. Word - 1
  BY <1>1, TransportAssumption DEF Counted
<1> HIDE DEF k
<1>6. owed' = [owed EXCEPT ![i] = k]
  <2>1. Published(head[i]).total = k
    BY DEF Published, k
  <2>2. \A j \in BigIds : head'[j].total = IF j = i THEN k ELSE head[j].total
    BY <2>1, <1>1, <1>2
  <2> QED
    BY <2>2, <1>1
<1>7. owed[i] = t
  BY <1>1
<1> HIDE DEF owed
<1>8. /\ frames > newest[i] /\ (~raced[i] => owed[i] < MaxMsg /\ k = owed[i] + 1)
      /\ newest' = [newest EXCEPT ![i] = frames] /\ owed' = [owed EXCEPT ![i] = k]
      /\ got' = got /\ raced' = raced
  BY <1>2, <1>3, <1>4, <1>6, <1>7
<1>9. PICK j \in BigIds, n \in -1 .. MaxFrames, l \in 0 .. Word - 1 :
             j = i /\ n = frames /\ l = k
  BY <1>1, <1>5
<1>10. Channel!Publish(j, n, l)
  BY <1>8, <1>9 DEF Channel!Publish, owed
<1> QED
  BY <1>10 DEF Channel!Next

LEMMA HandOverMaps ==
  ASSUME IInv, NEW i \in BigIds, PopDone(i)
  PROVE  Channel!Next
<1> DEFINE t == head[i].total
           k == IF t = 0 THEN Word - 1 ELSE t - 1
           owed == [j \in BigIds |-> head[j].total]
           n == CopyOf(i)
<1>1. /\ t \in 0 .. Word - 1 /\ head \in [BigIds -> HeadType]
      /\ raced \in [BigIds -> BOOLEAN] /\ rcv[i].val \in -1 .. MaxFrames
  BY DEF IInv, TypeOK, HeadType
<1>2. /\ got' = [got EXCEPT ![i] = n] /\ newest' = newest /\ raced' = raced
      /\ head' = [head EXCEPT ![i].total = k] /\ rcv[i].pc = "copy"
  BY DEF PopDone
<1>3. n \in -1 .. MaxFrames /\ k \in 0 .. Word - 1
  <2>1. MaxFrames \in Nat /\ Word \in Nat /\ MaxMsg + 1 < Word /\ MaxMsg \in Nat
    BY TransportAssumption
  <2>2. k \in 0 .. Word - 1
    BY <1>1, <2>1
  <2> QED
    BY <1>1, <2>1, <2>2 DEF CopyOf, Torn
<1>4. ~raced[i] => t > 0 /\ k = t - 1 /\ n = newest[i]
  BY <1>1, <1>2, TransportAssumption
     DEF IInv, TypeOK, CountInv, SlotInv, Clean, Popping, CopyOf
<1> HIDE DEF n, k
<1>5. owed' = [owed EXCEPT ![i] = k]
  <2>1. \A j \in BigIds : head'[j].total = IF j = i THEN k ELSE head[j].total
    BY <1>1, <1>2 DEF HeadType
  <2> QED
    BY <2>1, <1>1
<1>6. owed[i] = t
  BY <1>1
<1> HIDE DEF owed
<1>7. PICK m \in -1 .. MaxFrames, l \in 0 .. Word - 1 : m = n /\ l = k
  BY <1>3
<1>8. Channel!HandOver(i, m, l)
  BY <1>2, <1>4, <1>5, <1>6, <1>7 DEF Channel!HandOver, owed
<1> QED
  BY <1>8 DEF Channel!Next

LEMMA DropMaps ==
  ASSUME IInv, NEW p \in Procs, Register(p)
  PROVE  Channel!Next
<1>1. /\ head' = [i \in BigIds |-> EmptyHead] /\ newest' = newest /\ got' = got
      /\ raced' = [i \in BigIds |-> lock[i] # None]
  BY DEF Register, Cleared
<1>2. raced' \in [BigIds -> BOOLEAN]
  BY <1>1
<1>3. [i \in BigIds |-> head[i].total]' = [i \in BigIds |-> 0]
  BY <1>1 DEF EmptyHead
<1>4. PICK d \in [BigIds -> BOOLEAN] : d = raced'
  BY <1>2
<1>5. Channel!Drop(d)
  BY <1>1, <1>3, <1>4 DEF Channel!Drop
<1> QED
  BY <1>5 DEF Channel!Next

LEMMA ChannelStep == IInv /\ FreshInv /\ [Next]_vars => [Channel!Next]_(Channel!chVars)
<1> SUFFICES ASSUME IInv, FreshInv, [Next]_vars PROVE [Channel!Next]_(Channel!chVars)
  OBVIOUS
<1>1. CASE UNCHANGED <<head, newest, got, raced>>
  BY <1>1 DEF Channel!chVars
<1>2. ASSUME NEW i \in BigIds,
             \/ PushBegin(i) \/ TakeNotification(i) \/ PopNothing(i) \/ PopBegin(i)
             \/ PopCopy(i)
      PROVE  [Channel!Next]_(Channel!chVars)
  BY <1>1, <1>2 DEF PushBegin, TakeNotification, PopNothing, PopBegin, PopCopy, shm,
     kernel, history
<1>3. CASE PushCopied \/ Notify \/ SendSmall \/ RecvSmall \/ UNCHANGED vars
  BY <1>1, <1>3 DEF PushCopied, Notify, SendSmall, RecvSmall, vars, shm, kernel, history
<1>4. ASSUME NEW p \in Procs, Kill(p) PROVE [Channel!Next]_(Channel!chVars)
  BY <1>1, <1>4 DEF Kill
<1> QED
  BY <1>2, <1>3, <1>4, PublishMaps, HandOverMaps, DropMaps DEF Next

(***************************************************************************)
(* shmTrans.cpp:20-114, msgTrans.cpp:44-80, mt.cpp:63-112: with the record *)
(* locks, the two slots and the kernel queue, and processes killed         *)
(* anywhere and replaced, the transport is the mailbox of NewestChannel.   *)
(***************************************************************************)
THEOREM TransportIsChannel == Spec => ChannelSpec
<1>1. Init => Channel!Init /\ FreshInv
  BY DEF Init, Channel!Init, FreshInv, Idle, EmptyHead, Unwritten
<1> QED
  BY <1>1, InitInv, StepInv, FreshStep, ChannelStep, PTL
     DEF Spec, ChannelSpec, Channel!Spec
=============================================================================
