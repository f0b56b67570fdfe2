---------------------------- MODULE MsgTransport ---------------------------
(***************************************************************************)
(* CMT of visionSys-V2.0 (src/common/mt): how visionRcm hands a frame to   *)
(* the processes that work on it.  The payload goes through a CShmCtrl, a  *)
(* pair of slots in shared memory with a head (m_fetch, m_store, m_total)  *)
(* under an fcntl record lock; then a notification goes through the kernel *)
(* message queue all processes share.  The receiver takes a notification   *)
(* and then reads whatever payload is the newest.                          *)
(*                                                                         *)
(* Any process may be killed at any step (visionDaemon does it with kill   *)
(* -9); the kernel then releases its record locks.  The process that takes *)
(* its place runs CShmTrans::Init, which clears EVERY head, and does so    *)
(* without a lock.                                                         *)
(*                                                                         *)
(* Rcm is the only sender of big messages and each big message has one     *)
(* receiver, so a receiver is named after its message.  A payload is the   *)
(* number of the frame it holds.                                           *)
(***************************************************************************)
EXTENDS Integers, FiniteSets, FiniteSetsExt

CONSTANTS
  BigIds,      \* messages whose payload goes through shared memory
  Rcm,         \* the process that sends them
  MaxMsg,      \* MAX_MSG of shmTrans.h
  Word,        \* 2^16: m_total is an unsigned short
  QueueCap,    \* how many messages the kernel queue takes (MSGMNB)
  MaxFrames,   \* bound: payloads ever copied
  MaxKills     \* bound: processes ever killed

None == "none"      \* nobody holds the lock, no message is being sent

ASSUME TransportAssumption ==
  /\ IsFiniteSet(BigIds)
  /\ Rcm \notin BigIds
  /\ None \notin {Rcm} \cup BigIds
  /\ MaxMsg \in Nat \ {0}
  /\ Word \in Nat /\ MaxMsg + 1 < Word
  /\ QueueCap \in Nat \ {0}
  /\ MaxFrames \in Nat /\ MaxKills \in Nat

Procs == {Rcm} \cup BigIds

Unwritten == 0      \* a slot nobody wrote; frames are numbered from 1
Torn == -1          \* a slot whose memcpy has begun and not ended

VARIABLES
  head,        \* SHM_HEAD of each big message: [fetch, store, total]
  slot,        \* its two slots
  lock,        \* the process that holds its record lock
  queued,      \* notifications of it in the kernel queue
  other,       \* small messages (heartbeats, results) in the kernel queue
  alive,       \* which processes run
  snd,         \* where Rcm is in SendMsg: [pc, id, at]
  rcv,         \* where each receiver is in RecvMsg: [pc, val]
  frames,      \* history: payloads copied so far
  newest,      \* history: the payload of each message published last
  got,         \* history: the payload each receiver was handed last
  leaked,      \* history: counted in m_total, but no notification will follow
  orphans,     \* history: notifications whose payload was cleared
  raced,       \* history: the head was last cleared while its lock was held
  kills        \* history: processes killed so far

shm == <<head, slot, lock>>
kernel == <<queued, other>>
history == <<frames, newest, got, leaked, orphans, raced, kills>>
vars == <<shm, kernel, alive, snd, rcv, history>>

Idle == [pc |-> "idle", id |-> None, at |-> 0]
IdleRcv == [pc |-> "idle", at |-> 0, val |-> Unwritten]

EmptyHead == [fetch |-> 0, store |-> 0, total |-> 0]

(* The system boots: shared memory is zero and no process has registered.  *)
Init ==
  /\ head = [i \in BigIds |-> EmptyHead]
  /\ slot = [i \in BigIds |-> [s \in 0 .. 1 |-> Unwritten]]
  /\ lock = [i \in BigIds |-> None]
  /\ queued = [i \in BigIds |-> 0]
  /\ other = 0
  /\ alive = [p \in Procs |-> FALSE]
  /\ snd = Idle
  /\ rcv = [i \in BigIds |-> IdleRcv]
  /\ frames = 0
  /\ newest = [i \in BigIds |-> Unwritten]
  /\ got = [i \in BigIds |-> Unwritten]
  /\ leaked = [i \in BigIds |-> 0]
  /\ orphans = [i \in BigIds |-> 0]
  /\ raced = [i \in BigIds |-> FALSE]
  /\ kills = 0

QueueLen == MapThenSumSet(LAMBDA i : queued[i], BigIds) + other

Notifying(i) == snd.pc = "notify" /\ snd.id = i

(* The messages i that were begun and are not finished, whoever has them.  *)
Tokens(i) ==
  queued[i] + leaked[i] + (IF Notifying(i) THEN 1 ELSE 0)
                        + (IF rcv[i].pc # "idle" THEN 1 ELSE 0)
-----------------------------------------------------------------------------
(***************************************************************************)
(* SendMsg in Rcm.                                                         *)
(***************************************************************************)
(* Mutant: m_total is not tested.                                          *)
PushBeginFull(i) ==
  /\ alive[Rcm] /\ snd.pc = "idle" /\ frames < MaxFrames
  /\ lock[i] = None
  /\ lock' = [lock EXCEPT ![i] = Rcm]
  /\ snd' = [pc |-> "copy", id |-> i, at |-> head[i].store]
  /\ slot' = [slot EXCEPT ![i][head[i].store] = Torn]
  /\ UNCHANGED <<head, kernel, alive, rcv, history>>

(* writew_lock succeeds and m_total is below MAX_MSG: the memcpy begins.   *)
(* At MAX_MSG push unlocks and returns -1, which changes nothing.          *)
PushBegin(i) ==
  /\ alive[Rcm]
  /\ snd.pc = "idle"
  /\ frames < MaxFrames
  /\ lock[i] = None
  /\ head[i].total # MaxMsg
  /\ lock' = [lock EXCEPT ![i] = Rcm]
  /\ snd' = [pc |-> "copy", id |-> i, at |-> head[i].store]
  /\ slot' = [slot EXCEPT ![i][head[i].store] = Torn]
  /\ UNCHANGED <<head, kernel, alive, rcv, history>>

(* The memcpy ends, in the slot in which it began.                         *)
PushCopied ==
  /\ alive[Rcm]
  /\ snd.pc = "copy"
  /\ frames' = frames + 1
  /\ slot' = [slot EXCEPT ![snd.id][snd.at] = frames']
  /\ snd' = [snd EXCEPT !.pc = "publish"]
  /\ UNCHANGED <<head, lock, kernel, alive, rcv, newest, got, leaked, orphans,
                 raced, kills>>

Counted(total) == IF total + 1 = Word THEN 0 ELSE total + 1

(* Mutant: m_store flips before m_fetch takes its value.                   *)
PublishedFlipFirst(h) ==
  [fetch |-> 1 - h.store, store |-> 1 - h.store, total |-> Counted(h.total)]

(* Mutant: % 2 forgotten.                                                  *)
PublishedNoModulo(h) ==
  [fetch |-> h.store, store |-> h.store + 1, total |-> Counted(h.total)]

(* m_fetch = m_store; m_store = (m_store + 1) % 2; m_total++               *)
Published(h) ==
  [fetch |-> h.store, store |-> 1 - h.store, total |-> Counted(h.total)]

PushPublish ==
  /\ alive[Rcm]
  /\ snd.pc = "publish"
  /\ head' = [head EXCEPT ![snd.id] = Published(@)]
  /\ lock' = [lock EXCEPT ![snd.id] = None]
  /\ newest' = [newest EXCEPT ![snd.id] = frames]
  /\ snd' = [snd EXCEPT !.pc = "notify"]
  /\ UNCHANGED <<slot, kernel, alive, rcv, frames, got, leaked, orphans, raced,
                 kills>>

(* msgsnd with IPC_NOWAIT: a full queue refuses the notification, and the  *)
(* payload stays counted in m_total.                                       *)
Notify ==
  /\ alive[Rcm]
  /\ snd.pc = "notify"
  /\ IF QueueLen < QueueCap
     THEN /\ queued' = [queued EXCEPT ![snd.id] = @ + 1]
          /\ UNCHANGED leaked
     ELSE /\ leaked' = [leaked EXCEPT ![snd.id] = @ + 1]
          /\ UNCHANGED queued
  /\ snd' = Idle
  /\ UNCHANGED <<shm, other, alive, rcv, frames, newest, got, orphans, raced,
                 kills>>

(* Small messages of any process share the kernel queue.                   *)
SendSmall ==
  /\ QueueLen < QueueCap
  /\ other' = other + 1
  /\ UNCHANGED <<shm, queued, alive, snd, rcv, history>>

RecvSmall ==
  /\ other > 0
  /\ other' = other - 1
  /\ UNCHANGED <<shm, queued, alive, snd, rcv, history>>
-----------------------------------------------------------------------------
(***************************************************************************)
(* RecvMsg in the receiver of message i.                                   *)
(***************************************************************************)
(* msgrcv by type: nothing there returns -1 and changes nothing.           *)
TakeNotification(i) ==
  /\ alive[i]
  /\ rcv[i].pc = "idle"
  /\ queued[i] > 0
  /\ queued' = [queued EXCEPT ![i] = @ - 1]
  /\ rcv' = [rcv EXCEPT ![i].pc = "told"]
  /\ UNCHANGED <<shm, other, alive, snd, history>>

(* With m_total at zero pop unlocks and returns -1: the notification is    *)
(* spent and the handler is not called.                                    *)
PopNothing(i) ==
  /\ alive[i]
  /\ rcv[i].pc = "told"
  /\ lock[i] = None
  /\ head[i].total = 0
  /\ rcv' = [rcv EXCEPT ![i] = IdleRcv]
  /\ orphans' = [orphans EXCEPT ![i] = IF @ = 0 THEN 0 ELSE @ - 1]
  /\ UNCHANGED <<shm, kernel, alive, snd, frames, newest, got, leaked, raced,
                 kills>>

(* writew_lock succeeds and m_total is not zero.                           *)
PopBegin(i) ==
  /\ alive[i]
  /\ rcv[i].pc = "told"
  /\ lock[i] = None
  /\ head[i].total # 0
  /\ rcv' = [rcv EXCEPT ![i].pc = "begin"]
  /\ lock' = [lock EXCEPT ![i] = i]
  /\ UNCHANGED <<head, slot, kernel, alive, snd, history>>

(* The memcpy begins, in the slot m_fetch names now.                       *)
PopCopy(i) ==
  /\ alive[i]
  /\ rcv[i].pc = "begin"
  /\ rcv' = [rcv EXCEPT ![i] = [pc |-> "copy",
                                at |-> head[i].fetch,
                                val |-> slot[i][head[i].fetch]]]
  /\ UNCHANGED <<shm, kernel, alive, snd, history>>

(* What the memcpy ends up with when the slot changed under it.            *)
CopyOf(i) == IF slot[i][rcv[i].at] = rcv[i].val THEN rcv[i].val ELSE Torn

(* Mutant: m_total-- forgotten.                                            *)
PopDoneUncounted(i) ==
  /\ alive[i] /\ rcv[i].pc = "copy"
  /\ lock' = [lock EXCEPT ![i] = None]
  /\ got' = [got EXCEPT ![i] = CopyOf(i)]
  /\ rcv' = [rcv EXCEPT ![i] = IdleRcv]
  /\ UNCHANGED <<head, slot, kernel, alive, snd, frames, newest, leaked,
                 orphans, raced, kills>>

(* The memcpy ends, m_total--, unlock, and the handler gets the payload.   *)
PopDone(i) ==
  /\ alive[i]
  /\ rcv[i].pc = "copy"
  /\ head' = [head EXCEPT ![i].total = IF @ = 0 THEN Word - 1 ELSE @ - 1]
  /\ lock' = [lock EXCEPT ![i] = None]
  /\ got' = [got EXCEPT ![i] = CopyOf(i)]
  /\ rcv' = [rcv EXCEPT ![i] = IdleRcv]
  /\ UNCHANGED <<slot, kernel, alive, snd, frames, newest, leaked, orphans,
                 raced, kills>>
-----------------------------------------------------------------------------
(***************************************************************************)
(* Processes die and are replaced.                                         *)
(***************************************************************************)
(* The count a process takes with it: a payload published or a             *)
(* notification taken whose other half it will not do any more.            *)
LostBy(p, i) ==
  IF (p = Rcm /\ Notifying(i)) \/ (p = i /\ rcv[i].pc # "idle") THEN 1 ELSE 0

(* Mutant: the lock outlives its owner, as a System V semaphore taken      *)
(* without SEM_UNDO would (vSem.cpp, the transport of the first version).  *)
LocksAfterDeathOfKept(p) == lock

(* The kernel drops the record locks of a process that dies.               *)
LocksAfterDeathOf(p) ==
  [i \in BigIds |-> IF lock[i] = p THEN None ELSE lock[i]]

Kill(p) ==
  /\ alive[p]
  /\ kills < MaxKills
  /\ kills' = kills + 1
  /\ alive' = [alive EXCEPT ![p] = FALSE]
  /\ lock' = LocksAfterDeathOf(p)
  /\ leaked' = [i \in BigIds |-> leaked[i] + LostBy(p, i)]
  /\ snd' = IF p = Rcm THEN Idle ELSE snd
  /\ rcv' = [i \in BigIds |-> IF p = i THEN IdleRcv ELSE rcv[i]]
  /\ UNCHANGED <<head, slot, kernel, frames, newest, got, orphans, raced>>

(* Mutant: m_total = 0 forgotten.                                          *)
ClearedKeepsTotal(h) == [fetch |-> 0, store |-> 0, total |-> h.total]

(* CShmCtrl::Init                                                          *)
Cleared(h) == EmptyHead

(* CMT::Register in a new process: the head of every message is cleared,   *)
(* the kernel queue keeps its messages.                                    *)
Register(p) ==
  /\ ~alive[p]
  /\ alive' = [alive EXCEPT ![p] = TRUE]
  /\ head' = [i \in BigIds |-> Cleared(head[i])]
  /\ leaked' = [i \in BigIds |-> 0]
  /\ orphans' = [i \in BigIds |-> Tokens(i) - leaked[i]]
  /\ raced' = [i \in BigIds |-> lock[i] # None]
  /\ UNCHANGED <<slot, lock, kernel, snd, rcv, frames, newest, got, kills>>

Next ==
  \/ \E i \in BigIds : PushBegin(i)
  \/ PushCopied
  \/ PushPublish
  \/ Notify
  \/ SendSmall
  \/ RecvSmall
  \/ \E i \in BigIds : \/ TakeNotification(i)
                       \/ PopNothing(i)
                       \/ PopBegin(i)
                       \/ PopCopy(i)
                       \/ PopDone(i)
  \/ \E p \in Procs : Kill(p) \/ Register(p)

Spec == Init /\ [][Next]_vars

(* A process that runs goes on; F_SETLKW returns when the lock is free.    *)
(* Nothing obliges a process to send, nor visionDaemon to replace one.     *)
Fairness ==
  /\ WF_vars(PushCopied \/ PushPublish \/ Notify)
  /\ \A i \in BigIds :
       WF_vars(\/ TakeNotification(i)
               \/ PopNothing(i) \/ PopBegin(i) \/ PopCopy(i) \/ PopDone(i))

FairSpec == Spec /\ Fairness
-----------------------------------------------------------------------------
(***************************************************************************)
(* Properties.  "Clean" says that no process cleared the head of message i *)
(* while another was inside its lock: shmTrans.cpp:35-37 writes the head   *)
(* without taking the lock, so only a clean head keeps these promises.     *)
(***************************************************************************)
Clean(i) == ~raced[i]

TypeOK ==
  /\ head \in [BigIds -> [fetch : 0 .. 1, store : 0 .. 1,
                          total : 0 .. Word - 1]]
  /\ slot \in [BigIds -> [0 .. 1 -> -1 .. MaxFrames]]
  /\ lock \in [BigIds -> Procs \cup {None}]
  /\ queued \in [BigIds -> Nat]
  /\ other \in Nat
  /\ alive \in [Procs -> BOOLEAN]
  /\ snd \in [pc : {"idle", "copy", "publish", "notify"},
              id : BigIds \cup {None}, at : 0 .. 1]
  /\ rcv \in [BigIds -> [pc : {"idle", "told", "begin", "copy"},
                         at : 0 .. 1, val : -1 .. MaxFrames]]
  /\ frames \in 0 .. MaxFrames
  /\ newest \in [BigIds -> 0 .. MaxFrames]
  /\ got \in [BigIds -> -1 .. MaxFrames]
  /\ leaked \in [BigIds -> Nat]
  /\ orphans \in [BigIds -> Nat]
  /\ raced \in [BigIds -> BOOLEAN]
  /\ kills \in 0 .. MaxKills

(* m_total in shared memory and the notifications in the kernel queue are  *)
(* two counts of the same messages, kept by different system calls of      *)
(* different processes.  They agree up to the notifications the kernel     *)
(* refused (they stay in m_total for good) and the payloads a process that *)
(* registered wiped out.                                                   *)
CountsAgree ==
  \A i \in BigIds : Clean(i) => head[i].total + orphans[i] = Tokens(i)

(* A process that was told of a frame finds one, unless a process that     *)
(* registered meanwhile wiped it out.                                      *)
NotificationHasPayload ==
  \A i \in BigIds :
    Clean(i) /\ orphans[i] = 0 /\ rcv[i].pc # "idle" => head[i].total > 0

(* m_total stops at MAX_MSG, and taking a payload never wraps it.          *)
CountBounded == \A i \in BigIds : Clean(i) => head[i].total <= MaxMsg

(* The two counts tell the same, nobody acts on one that the other does    *)
(* not bear out, and every field stays in its range.                       *)
CountsRight == TypeOK /\ CountsAgree /\ NotificationHasPayload /\ CountBounded

(* The payload that is handed over is whole, and it is the newest one when *)
(* it is handed over, even if its sender died in the middle of a memcpy.   *)
DeliversNewest ==
  \A i \in BigIds :
    Clean(i) /\ rcv[i].pc = "copy" =>
      CopyOf(i) = newest[i] /\ newest[i] # Unwritten

(* A receiver never goes back to an older frame, restarts included.        *)
NeverOlder ==
  [][\A i \in BigIds : Clean(i) => got'[i] >= got[i]]_got

(* Locks, slots, system calls and deaths leave nothing to see but a        *)
(* NewestChannel: each payload published is counted once, within MAX_MSG,  *)
(* each one handed over is the newest and takes one off the count, and     *)
(* only a process that registers drops any.                                *)
Channel == INSTANCE NewestChannel WITH
             Ids <- BigIds, Payloads <- -1 .. MaxFrames, Counts <- 0 .. Word - 1,
             MaxOwed <- MaxMsg, owed <- [i \in BigIds |-> head[i].total],
             dirty <- raced

ChannelSpec == Channel!Spec

(* A receiver that waits for a record lock gets it, whoever dies.          *)
LockGranted == \A i \in BigIds : rcv[i].pc = "told" ~> rcv[i].pc # "told"
=============================================================================
