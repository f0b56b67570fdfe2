------------------------------ MODULE Pipeline ------------------------------
(***************************************************************************)
(* The record queue (QueueCtrl, its own variables) and the pipeline that   *)
(* is built with it, from a frame to a velocity on the bus (VoPipeline,    *)
(* where the queue is the bounded FIFO that QueueCtrl implements).  They   *)
(* share a run and no state: a behaviour is one of the module in "about",  *)
(* and the other stays in its initial state.                               *)
(***************************************************************************)
EXTENDS QueueCtrl

(* VoPipeline explains them.                                               *)
CONSTANTS
  ImuCap, ImuDelay, MaxMsg, CtrlCap, Discards,
  MaxFrames, MaxSamples, MaxLives

VARIABLES
  about,
  samples, imuCnt, imu, frames, chan, back, ctrl, life, vo, index, records,
  store, down, sent, lost, file, seen, starved

VP == INSTANCE VoPipeline

ASSUME VoAssumption == VP!PipelineAssumption

vpVars == <<samples, imuCnt, imu, frames, chan, back, ctrl, life, vo, index,
            records, store, down, sent, lost, file, seen, starved>>
AnyVars == <<about, vars, vpVars>>

AnyInit == about \in {"queue", "pipeline"} /\ Init /\ VP!Init

AnyNext ==
  /\ UNCHANGED about
  /\ \/ about = "queue" /\ Next /\ UNCHANGED vpVars
     \/ about = "pipeline" /\ VP!Next /\ UNCHANGED vars

(* The modules say why their steps are fair.                               *)
AnySpec ==
  /\ AnyInit /\ [][AnyNext]_AnyVars
  /\ \A t \in Threads :
       WF_vars(about = "queue" /\ Lock(t)) /\ WF_vars(about = "queue" /\ Unlock(t))
  /\ \A p \in Producers : WF_vars(about = "queue" /\ (PushCopy(p) \/ PushAdvance(p)))
  /\ \A c \in Consumers : WF_vars(about = "queue" /\ Pop(c))
  /\ WF_vpVars(about = "pipeline" /\ VP!ProcessVelocityMsg)
  /\ WF_vpVars(about = "pipeline" /\ VP!SendVoData)
  /\ WF_vpVars(/\ about = "pipeline"
               /\ VP!Receive \/ VP!Measure \/ VP!KeepImu \/ VP!Signal)
  /\ WF_vpVars(about = "pipeline" /\ (VP!StorePop \/ VP!StoreWrite))
-----------------------------------------------------------------------------
(* VoPipeline: velocities leave in the order of their frames, none twice,  *)
(* and a number that is left out was dropped; imu.txt keeps that order.    *)
(* While samples come, every frame gets one that was on the bus, and no    *)
(* two frames the same one.                                                *)
VelocitiesRight ==
  /\ [](VP!TypeOK /\ VP!FreshSample /\ VP!FileInOrder)
  /\ VP!SentInOrder /\ VP!GapsAreLosses /\ VP!SampleMovesOn

(* No record stays: the queue gets room again, StoreImu sleeps on a record *)
(* only while its wake-up comes, and what reached a thread of the pipeline *)
(* is sent, used or written, or dropped, as long as its process runs.      *)
WorkIsDone ==
  /\ RoomAgain
  /\ []VP!SleepsOnlyEmpty
  /\ VP!ResultsLeave /\ VP!FramesAreTaken /\ VP!RecordsAreStored
=============================================================================
