----------------------------- MODULE VoPipeline -----------------------------
(***************************************************************************)
(* From a frame of the FPGA to a velocity on the CAN bus (visionSys-V2.0): *)
(* visionRcm joins every second frame with an IMU sample and hands it to   *)
(* visionVelocity, which measures, numbers the result, sends it back and   *)
(* keeps the sample for a file.  visionDaemon may kill visionVelocity and  *)
(* start another; SIGINT takes it down by way of Deactive.                 *)
(*                                                                         *)
(* The parts with modules of their own appear by what those modules show:  *)
(* the CAN ring is a delay line that counts (CanQueueCtrl), big messages   *)
(* go through a channel that hands over the newest (MsgTransport, clean    *)
(* heads), CQueueCtrl is a bounded FIFO (BoundedFifo).  A frame and an IMU *)
(* sample are represented by their numbers, in the order they came.        *)
(***************************************************************************)
EXTENDS Integers, Sequences, FiniteSets

CONSTANTS
  ImuCap,      \* records m_imuQueue holds
  ImuDelay,    \* its m_mode
  MaxMsg,      \* MAX_MSG of the shared memory
  CtrlCap,     \* records m_qCtrl and m_queueCtrl hold
  Discards,    \* m_discards: frames dropped after the start
  MaxFrames,   \* bound: frames that come
  MaxSamples,  \* bound: IMU samples that come
  MaxLives     \* bound: times visionVelocity is started

PipelineAssumption ==
  /\ ImuCap \in Nat \ {0} /\ ImuDelay \in 0 .. ImuCap - 1
  /\ MaxMsg \in Nat \ {0} /\ CtrlCap \in Nat \ {0}
  /\ Discards \in Nat /\ MaxFrames \in Nat /\ MaxSamples \in Nat
  /\ MaxLives \in Nat \ {0}

Undetermined == 0   \* what an uninitialised IMU_DATA holds

VARIABLES
  samples,     \* 0x092 packets decoded so far
  imuCnt,      \* m_cnt of m_imuQueue
  imu,         \* m_imu of visionRcm
  frames,      \* frames so far
  chan,        \* the VELOCITY_ID channel: [total, notes, newest]
  back,        \* the VELOCITY_BACK messages in the kernel queue
  ctrl,        \* m_qCtrl
  life,        \* which visionVelocity runs: 1, 2, ...
  vo,          \* its message thread: [pc, job]
  index,       \* m_index
  records,     \* m_queueCtrl
  store,       \* StoreImu: [pc, record]
  down,        \* how far Deactive or a death took it
  sent,        \* the result sent on the CAN bus last
  lost,        \* history: results dropped on the way
  file,        \* history: the records of this life's imu.txt
  seen,        \* history: samples decoded when the last frame came
  starved      \* history: a frame came and no sample since the one before

rcm == <<samples, imuCnt, imu, frames, seen, starved>>
velocity == <<life, vo, index, records, store, down, file>>
results == <<back, ctrl, sent, lost>>
vars == <<rcm, chan, velocity, results>>

NoJob == [frame |-> 0, imu |-> Undetermined, life |-> 0, cnt |-> -1]
IdleVo == [pc |-> "idle", job |-> NoJob]
IdleStore == [pc |-> "pop", record |-> NoJob]

Init ==
  /\ samples = 0 /\ imuCnt = 0 /\ imu = Undetermined /\ frames = 0
  /\ seen = 0 /\ starved = FALSE
  /\ chan = [total |-> 0, notes |-> 0, newest |-> NoJob]
  /\ back = <<>> /\ ctrl = <<>> /\ sent = NoJob /\ lost = {}
  /\ life = 1 /\ vo = IdleVo /\ index = 0
  /\ records = <<>> /\ store = IdleStore /\ down = "no" /\ file = <<>>
-----------------------------------------------------------------------------
(***************************************************************************)
(* visionRcm.                                                              *)
(***************************************************************************)
(* Process092 pushes the sample it decoded into m_imuQueue.                *)
Sample ==
  /\ samples < MaxSamples
  /\ samples' = samples + 1
  /\ imuCnt' = IF imuCnt < ImuCap THEN imuCnt + 1 ELSE imuCnt
  /\ UNCHANGED <<imu, frames, seen, starved, chan, velocity, results>>

(* The record m_mode pushes before the newest.                             *)
Delayed == IF samples <= ImuDelay THEN 1 ELSE samples - ImuDelay

(* The pop that fails leaves the local as it is: undetermined, or what the *)
(* call before left on the stack.                                          *)
GetContent ==
  IF imuCnt > 0 THEN imu' = Delayed /\ imuCnt' = imuCnt - 1
  ELSE imu' \in {imu, Undetermined} /\ UNCHANGED imuCnt

(* m_index4Vo++ % 2, from the first frame that is not discarded on.        *)
ForVo(n) == (n - Discards) % 2 = 1

(* CMT::SendMsg of a big message, into a kernel queue that has room.       *)
HandedOver(c, job) ==
  IF c.total < MaxMsg
  THEN [total |-> c.total + 1, notes |-> c.notes + 1, newest |-> job]
  ELSE c

(* The same when the kernel queue is full: the payload stays counted.      *)
HandedUntold(c, job) ==
  IF c.total < MaxMsg THEN [c EXCEPT !.total = @ + 1, !.newest = job] ELSE c

(* TransData: process_poll, then GenerateMsg.                              *)
Frame ==
  /\ frames < MaxFrames
  /\ frames' = frames + 1
  /\ IF frames' <= Discards THEN UNCHANGED <<imu, imuCnt, chan, seen, starved>>
     ELSE /\ GetContent
          /\ seen' = samples
          /\ starved' = (starved \/ samples = seen)
          /\ LET job == [NoJob EXCEPT !.frame = frames', !.imu = imu']
             IN  IF ForVo(frames')
                 THEN \/ down # "removed" /\ chan' = HandedOver(chan, job)
                      \/ chan' = HandedUntold(chan, job)
                 ELSE UNCHANGED chan
  /\ UNCHANGED <<samples, velocity, results>>

(* CQueueCtrl::push; nobody looks at its result.                           *)
Pushed(q, r) == IF Len(q) < CtrlCap THEN Append(q, r) ELSE q

(* Mutant: msgrcv is asked for the newest message.                         *)
ProcessNewestMsg ==
  /\ back # <<>>
  /\ back' = SubSeq(back, 1, Len(back) - 1)
  /\ ctrl' = Pushed(ctrl, back[Len(back)])
  /\ lost' = IF Len(ctrl) < CtrlCap THEN lost ELSE lost \cup {back[Len(back)]}
  /\ UNCHANGED <<rcm, chan, velocity, sent>>

ProcessVelocityMsg ==
  /\ back # <<>>
  /\ back' = Tail(back)
  /\ ctrl' = Pushed(ctrl, Head(back))
  /\ lost' = IF Len(ctrl) < CtrlCap THEN lost ELSE lost \cup {Head(back)}
  /\ UNCHANGED <<rcm, chan, velocity, sent>>

(* Mutant: NoticeTimer is called with the second frame.                    *)
SendVoDataLate ==
  /\ frames > Discards + 1
  /\ ctrl # <<>>
  /\ sent' = Head(ctrl)
  /\ ctrl' = Tail(ctrl)
  /\ UNCHANGED <<rcm, chan, velocity, back, lost>>

(* Every 100 ms once the first frame came (NoticeTimer).                   *)
SendVoData ==
  /\ frames > Discards
  /\ ctrl # <<>>
  /\ sent' = Head(ctrl)
  /\ ctrl' = Tail(ctrl)
  /\ UNCHANGED <<rcm, chan, velocity, back, lost>>
-----------------------------------------------------------------------------
(***************************************************************************)
(* visionVelocity: the message thread in ProcessMsg.                       *)
(***************************************************************************)
Up == down \notin {"gone", "removed"}

(* RecvMsg: a notification whose payload was cleared is spent for nothing. *)
Receive ==
  /\ Up /\ vo.pc = "idle" /\ chan.notes > 0
  /\ IF chan.total > 0
     THEN /\ chan' = [chan EXCEPT !.total = @ - 1, !.notes = @ - 1]
          /\ vo' = [pc |-> "measure", job |-> chan.newest]
     ELSE /\ chan' = [chan EXCEPT !.notes = @ - 1]
          /\ UNCHANGED vo
  /\ UNCHANGED <<rcm, results, life, index, records, store, down, file>>

(* m_index++ whether SendSmallMsg succeeds or not.                         *)
Numbered(told) == index + 1

(* run_vo, the number, and SendSmallMsg; once DeactiveImp freed it, the    *)
(* write to m_pFeedBack hits NULL and the process dies.                    *)
Measure ==
  /\ Up /\ vo.pc = "measure"
  /\ IF down \in {"freed", "closed"}
     THEN down' = "gone" /\ UNCHANGED <<vo, index, back, lost>>
     ELSE LET r == [vo.job EXCEPT !.life = life, !.cnt = index]
          IN  \E told \in BOOLEAN :
                /\ vo' = [pc |-> "push", job |-> r]
                /\ index' = Numbered(told)
                /\ back' = IF told THEN Append(back, r) ELSE back
                /\ lost' = IF told THEN lost ELSE lost \cup {r}
                /\ UNCHANGED down
  /\ UNCHANGED <<rcm, chan, life, records, store, file, ctrl, sent>>

(* push under m_lock; StoreImu's test and wait are under it too.           *)
KeepImu ==
  /\ Up /\ vo.pc = "push"
  /\ records' = Pushed(records, vo.job)
  /\ vo' = [vo EXCEPT !.pc = "signal"]
  /\ UNCHANGED <<rcm, chan, results, life, index, store, down, file>>

(* pthread_cond_signal after the unlock.                                   *)
Woken == IF store.pc = "wait" THEN [store EXCEPT !.pc = "pop"] ELSE store

Signal ==
  /\ Up /\ vo.pc = "signal"
  /\ store' = Woken
  /\ vo' = IdleVo
  /\ UNCHANGED <<rcm, chan, results, life, index, records, down, file>>
-----------------------------------------------------------------------------
(***************************************************************************)
(* visionVelocity: StoreImu.                                               *)
(***************************************************************************)
StorePop ==
  /\ Up /\ store.pc = "pop"
  /\ IF records = <<>>
     THEN store' = [store EXCEPT !.pc = "wait"] /\ UNCHANGED records
     ELSE /\ store' = [pc |-> "write", record |-> Head(records)]
          /\ records' = Tail(records)
  /\ UNCHANGED <<rcm, chan, results, life, vo, index, down, file>>

(* pthread_cond_wait may return for no reason; the loop tests again.       *)
WakeForNothing ==
  /\ Up /\ store.pc = "wait"
  /\ store' = [store EXCEPT !.pc = "pop"]
  /\ UNCHANGED <<rcm, chan, results, life, vo, index, records, down, file>>

(* fprintf, and the test of the run flag; m_pfImu NULL ends the process.   *)
StoreWrite ==
  /\ Up /\ store.pc = "write"
  /\ IF down = "closed"
     THEN down' = "gone" /\ UNCHANGED <<store, file>>
     ELSE /\ file' = Append(file, store.record)
          /\ store' = [store EXCEPT !.pc = IF down = "no" THEN "pop" ELSE "end"]
          /\ UNCHANGED down
  /\ UNCHANGED <<rcm, chan, results, life, vo, index, records>>
-----------------------------------------------------------------------------
(***************************************************************************)
(* Deactive, kill -9 and the successor.                                    *)
(***************************************************************************)
After == [no |-> "stopped", stopped |-> "freed", freed |-> "closed",
          closed |-> "removed"]

(* StopRun; DeactiveImp frees m_pFeedBack and then closes the file;        *)
(* CMT::Destory removes the kernel queue that all processes use, with what *)
(* is in it; main returns from its monitor and the process ends.           *)
Deactive ==
  /\ Up
  /\ down' = After[down]
  /\ IF down = "closed"
     THEN /\ chan' = [chan EXCEPT !.notes = 0]
          /\ back' = <<>> /\ lost' = lost \cup {back[i] : i \in DOMAIN back}
     ELSE UNCHANGED <<chan, back, lost>>
  /\ UNCHANGED <<rcm, ctrl, sent, life, vo, index, records, store, file>>

Kill ==
  /\ Up
  /\ down' = "gone"
  /\ UNCHANGED <<rcm, chan, results, life, vo, index, records, store, file>>

(* Register clears the head, the kernel queue keeps what it has; imu.txt   *)
(* is opened with "wb+".  Once the queue was removed a successor has one of*)
(* its own, which visionRcm does not use: nothing goes between them.       *)
Start ==
  /\ down = "gone" /\ life < MaxLives
  /\ life' = life + 1
  /\ chan' = [chan EXCEPT !.total = 0]
  /\ vo' = IdleVo /\ index' = 0
  /\ records' = <<>> /\ store' = IdleStore /\ down' = "no" /\ file' = <<>>
  /\ UNCHANGED <<rcm, results>>

Next ==
  \/ Sample \/ Frame \/ ProcessVelocityMsg \/ SendVoData
  \/ Receive \/ Measure \/ KeepImu \/ Signal
  \/ StorePop \/ WakeForNothing \/ StoreWrite
  \/ Deactive \/ Kill \/ Start

Spec == Init /\ [][Next]_vars

(* The threads of visionRcm and of visionVelocity go on.  Frames, samples, *)
(* interrupts and restarts need not come.                                  *)
Fairness ==
  /\ WF_vars(ProcessVelocityMsg) /\ WF_vars(SendVoData)
  /\ WF_vars(Receive \/ Measure \/ KeepImu \/ Signal)
  /\ WF_vars(StorePop \/ StoreWrite)

FairSpec == Spec /\ Fairness
-----------------------------------------------------------------------------
(***************************************************************************)
(* Properties.                                                             *)
(***************************************************************************)
Jobs == [frame : 0 .. MaxFrames, imu : 0 .. MaxSamples,
         life : 0 .. MaxLives, cnt : -1 .. MaxFrames]

TypeOK ==
  /\ samples \in 0 .. MaxSamples /\ imuCnt \in 0 .. ImuCap
  /\ imu \in 0 .. samples /\ frames \in 0 .. MaxFrames
  /\ seen \in 0 .. samples /\ starved \in BOOLEAN
  /\ chan.total \in 0 .. MaxMsg /\ chan.notes \in Nat /\ chan.newest \in Jobs
  /\ Len(ctrl) <= CtrlCap /\ Len(records) <= CtrlCap
  /\ \A q \in {back, ctrl, records, file} :
       \A i \in 1 .. Len(q) : q[i] \in Jobs
  /\ lost \subseteq Jobs /\ sent \in Jobs
  /\ life \in 1 .. MaxLives /\ index \in Nat
  /\ vo.pc \in {"idle", "measure", "push", "signal"} /\ vo.job \in Jobs
  /\ store.pc \in {"pop", "wait", "write", "end"} /\ store.record \in Jobs
  /\ down \in {"no", "stopped", "freed", "closed", "gone", "removed"}

(* GetContent looks at no result of its pops.  As long as a sample comes   *)
(* between any two frames, every frame all the same gets one that was on   *)
(* the bus.                                                                *)
FreshSample == ~starved /\ seen > 0 => imu # Undetermined

(* Then the sample also moves on: once the delay line is full, no two      *)
(* frames are joined with the same one.                                    *)
SampleMovesOn ==
  [][seen' # seen /\ seen > ImuDelay /\ ~starved' => imu' > imu]_rcm

(* r is a later result than q: of a later process, or of the same with a   *)
(* higher number.  A notification that is left over may hand a frame over  *)
(* twice.                                                                  *)
Later(r, q) ==
  /\ r.frame >= q.frame
  /\ r.life > q.life \/ (r.life = q.life /\ r.cnt > q.cnt)

(* The flight controller gets velocities in the order of their frames, and *)
(* none twice, restarts of visionVelocity included.                        *)
SentInOrder == [][Later(sent', sent)]_sent

(* The flight controller can tell from cnt what it missed: the numbers of  *)
(* a process that are left out are those of results that were dropped.     *)
GapsAreLosses ==
  [][\A c \in 0 .. sent'.cnt - 1 :
       (sent'.life = sent.life => c > sent.cnt) =>
         \E r \in lost : r.life = sent'.life /\ r.cnt = c]_sent

(* imu.txt holds the samples in the order of the results, none twice.      *)
FileInOrder ==
  \A i, j \in 1 .. Len(file) : i < j => Later(file[j], file[i])

(* StoreImu sleeps on a record only while its wake-up is on the way.       *)
SleepsOnlyEmpty ==
  Up /\ store.pc = "wait" /\ records # <<>> => vo.pc = "signal"

(* A result that reached the kernel queue is sent or dropped.              *)
ResultsLeave == []<>(back = <<>> /\ ctrl = <<>>)

(* Every notification is used, so the channel does not stay full, as long  *)
(* as visionVelocity runs.                                                 *)
FramesAreTaken == []<>(chan.notes = 0 \/ ~Up)

(* The record of a frame is written, or its process ends or is stopped.    *)
RecordsAreStored == []<>(records = <<>> \/ down # "no")
=============================================================================
