----------------------------- MODULE StatusCode -----------------------------
(***************************************************************************)
(* What visionDaemon learns of the state of a child (visionSys-V2.0): the  *)
(* errors a process sets and recovers (SetErr, RecoverErr and m_code of    *)
(* src/platform/base_vision.cpp), the heartbeat that reads m_code without  *)
(* the lock, and the supervisor's own m_code (visionDaemon.cpp:51-129).    *)
(*                                                                         *)
(* The child is visionRcm: its main thread goes through Active and the     *)
(* preparation of the FPGA, its data thread tests the IMU sample of each   *)
(* frame.  The heartbeat starts before the preparation (SetTimer comes     *)
(* before ActiveImp).  A beat of a process that was replaced changes       *)
(* nothing here; module Daemon says what it does to the map.               *)
(***************************************************************************)
EXTENDS Integers, Sequences, FiniteSets

CONSTANTS
  Garbage,     \* the values PROC_INFO.code may have before the first beat
  MaxUnrecv,   \* MAX_UNRECV_TIMES
  MaxRestart,  \* MAX_RESTART_TIMES
  QueueCap,    \* how many beats the kernel queue takes
  MaxProcs     \* bound: fork fails after this many processes

StatusAssumption ==
  /\ Garbage \subseteq Int /\ Garbage # {}
  /\ MaxUnrecv \in Nat /\ MaxRestart \in Nat /\ QueueCap \in Nat
  /\ MaxProcs \in Nat \ {0}

ERR_SYSTIME_OK == 0
ERR_FPGA_UNINITED == -2
ERR_IMU_UNRECEIVE == -10
ERR_PROC_UNINTIED == -20
Codes ==
  {ERR_SYSTIME_OK, ERR_FPGA_UNINITED, ERR_IMU_UNRECEIVE, ERR_PROC_UNINTIED}

VARIABLES
  main,        \* how far the child is
  beating,     \* its heartbeat timer runs
  setErr,      \* m_setErr
  code,        \* m_code
  inSetErr,    \* SetErr inserted and did not store m_code yet
  imuErr,      \* m_bImuErr
  proc,        \* which process the child is: 1, 2, ...
  beats,       \* the HEART_BITs in the kernel queue
  cut,         \* the kernel queue visionDaemon reads was removed
  info,        \* its PROC_INFO: [code, times, restarts]
  alarm        \* visionDaemon's own m_code, what SendAlarm would send

child == <<main, beating, setErr, code, inSetErr, imuErr>>
daemon == <<info, alarm>>
vars == <<child, proc, beats, cut, daemon>>

Largest(S) == CHOOSE x \in S : \A y \in S : y <= x
Smaller(x, y) == IF x < y THEN x ELSE y

Errors == setErr \ {ERR_SYSTIME_OK}

(* The constructor: CBaseVision sets m_code to 0.                          *)
Fresh ==
  /\ main' = "start"
  /\ beating' = FALSE
  /\ setErr' = {}
  /\ code' = 0
  /\ inSetErr' = FALSE
  /\ imuErr' = FALSE

(* AddProcInfo sets all of a PROC_INFO but its code.                       *)
Init ==
  /\ main = "start" /\ beating = FALSE
  /\ setErr = {} /\ code = 0 /\ inSetErr = FALSE /\ imuErr = FALSE
  /\ proc = 1
  /\ beats = <<>> /\ cut = FALSE
  /\ info \in [code : Garbage, times : {0}, restarts : {0}]
  /\ alarm = 0
-----------------------------------------------------------------------------
(***************************************************************************)
(* SetStatusCode.                                                          *)
(***************************************************************************)
(* The first half of SetErr; StoreCode is the second.                      *)
SetErr(err) == setErr' = setErr \cup {err} /\ inSetErr' = TRUE

(* Mutant: the code kept is the smallest, the first of the set.            *)
StoredSmallest(S) == CHOOSE x \in S : \A y \in S : x <= y

(* --its from the end of the set.                                          *)
Stored(S) == Largest(S)

StoreCode ==
  /\ inSetErr
  /\ code' = Stored(setErr)
  /\ inSetErr' = FALSE
  /\ UNCHANGED <<main, beating, setErr, imuErr, proc, beats, cut, daemon>>

RecoverErr(err) == setErr' = setErr \ {err} /\ UNCHANGED inSetErr

AtWork(pc) == main = pc /\ ~inSetErr
-----------------------------------------------------------------------------
(***************************************************************************)
(* The child: Active, ActiveImp, then TransData.                           *)
(***************************************************************************)
Active ==
  /\ AtWork("start")
  /\ SetErr(ERR_SYSTIME_OK)
  /\ main' = "register"
  /\ UNCHANGED <<beating, code, imuErr, proc, beats, cut, daemon>>

(* CMT::Register, then SetTimer; the failure of Register sets no code.     *)
Register ==
  /\ AtWork("register")
  /\ \/ main' = "devices" /\ beating' = TRUE
     \/ main' = "leaving" /\ UNCHANGED beating
  /\ UNCHANGED <<setErr, code, inSetErr, imuErr, proc, beats, cut, daemon>>

(* Preprocess4Fpga sets the error before it loads the FPGA.                *)
Preprocess4Fpga ==
  /\ AtWork("devices")
  /\ SetErr(ERR_FPGA_UNINITED)
  /\ main' = "load"
  /\ UNCHANGED <<beating, code, imuErr, proc, beats, cut, daemon>>

(* A device, a file or the FPGA is missing: ActiveImp returns -1.          *)
ActiveImpFails ==
  /\ AtWork("devices") \/ AtWork("load")
  /\ SetErr(ERR_PROC_UNINTIED)
  /\ main' = "leaving"
  /\ UNCHANGED <<beating, code, imuErr, proc, beats, cut, daemon>>

FpgaReady ==
  /\ AtWork("load")
  /\ RecoverErr(ERR_FPGA_UNINITED)
  /\ main' = "frames"
  /\ UNCHANGED <<beating, code, imuErr, proc, beats, cut, daemon>>

(* The norm of the quaternion is tested for every frame.                   *)
GetImuFromCan(good) ==
  /\ AtWork("frames")
  /\ imuErr' = ~good
  /\ IF imuErr' /\ ~imuErr THEN SetErr(ERR_IMU_UNRECEIVE)
     ELSE IF imuErr /\ ~imuErr' THEN RecoverErr(ERR_IMU_UNRECEIVE)
     ELSE UNCHANGED <<setErr, inSetErr>>
  /\ UNCHANGED <<main, beating, code, proc, beats, cut, daemon>>

(* main leaves its do block, or the process is killed by something.        *)
End ==
  /\ main # "ended"
  /\ main' = "ended"
  /\ beating' = FALSE
  /\ UNCHANGED <<setErr, code, inSetErr, imuErr, proc, beats, cut, daemon>>

(* Deactive of the child, or of another process, after a SIGINT to it      *)
(* alone: CMT::Destory removes the kernel queue of all of them             *)
(* (msgTrans.cpp:36).  Who runs keeps the number of the one removed, who is*)
(* started makes one that visionDaemon does not read.                      *)
Destory(mine) ==
  /\ mine => main # "ended"
  /\ beats' = <<>> /\ cut' = TRUE
  /\ IF mine THEN main' = "ended" /\ beating' = FALSE
     ELSE UNCHANGED <<main, beating>>
  /\ UNCHANGED <<setErr, code, inSetErr, imuErr, proc, daemon>>

(* SendHeartMsg in the timer thread, at any moment; a full queue loses it. *)
SendHeartMsg ==
  /\ beating /\ ~cut
  /\ Len(beats) < QueueCap
  /\ beats' = Append(beats, [proc |-> proc, code |-> code])
  /\ UNCHANGED <<child, proc, cut, daemon>>
-----------------------------------------------------------------------------
(***************************************************************************)
(* visionDaemon.                                                           *)
(***************************************************************************)
ProcessHeartMsg ==
  /\ beats # <<>>
  /\ beats' = Tail(beats)
  /\ info' = IF Head(beats).proc = proc
             THEN [code |-> Head(beats).code, times |-> 0, restarts |-> 0]
             ELSE info
  /\ UNCHANGED <<child, proc, cut, alarm>>

Lost(i) == i.times > MaxUnrecv /\ i.restarts < MaxRestart

GivenUp(i) == i.restarts = MaxRestart

(* times++, capped at the first value that means lost.                     *)
OneMore(n) == IF n > MaxUnrecv THEN n ELSE n + 1

(* Daemon: one pass of the supervisor.  Restart keeps code.                *)
Pass ==
  LET i == [info EXCEPT !.times = OneMore(@)]
      here == IF ~Lost(i) /\ GivenUp(i) THEN ERR_PROC_UNINTIED ELSE alarm IN
  /\ alarm' = Smaller(here, i.code)
  /\ IF Lost(i) /\ proc < MaxProcs
     THEN /\ proc' = proc + 1
          /\ info' = [i EXCEPT !.times = 0, !.restarts = @ + 1]
          /\ Fresh
     ELSE /\ info' = i
          /\ IF Lost(i)    \* fork fails after the kill
             THEN /\ main' = "ended" /\ beating' = FALSE
                  /\ UNCHANGED <<setErr, code, inSetErr, imuErr>>
             ELSE UNCHANGED child
          /\ UNCHANGED proc
  /\ UNCHANGED <<beats, cut>>

Next ==
  \/ StoreCode
  \/ Active
  \/ Register
  \/ Preprocess4Fpga
  \/ ActiveImpFails
  \/ FpgaReady
  \/ \E good \in BOOLEAN : GetImuFromCan(good)
  \/ End
  \/ \E mine \in BOOLEAN : Destory(mine)
  \/ SendHeartMsg
  \/ ProcessHeartMsg
  \/ Pass

Spec == Init /\ [][Next]_vars

(* The supervisor's timer and its message thread go on.                    *)
FairSpec == Spec /\ WF_vars(Pass) /\ WF_vars(ProcessHeartMsg)
-----------------------------------------------------------------------------
(***************************************************************************)
(* Properties.                                                             *)
(***************************************************************************)
Stages == {"start", "register", "devices", "load", "frames", "leaving", "ended"}

TypeOK ==
  /\ main \in Stages
  /\ beating \in BOOLEAN /\ cut \in BOOLEAN /\ inSetErr \in BOOLEAN /\ imuErr \in BOOLEAN
  /\ setErr \subseteq Codes /\ code \in Codes
  /\ proc \in 1 .. MaxProcs
  /\ beats \in Seq([proc : 1 .. MaxProcs, code : Codes]) /\ Len(beats) <= QueueCap
  /\ info \in [code : Garbage \cup Codes, times : 0 .. MaxUnrecv + 1,
               restarts : 0 .. MaxRestart]
  /\ alarm \in Garbage \cup Codes

(* RecoverErr leaves m_code alone, and still no heartbeat reports an error *)
(* that was recovered: m_code is a code of the set.  It holds only because *)
(* Active put 0 into the set, nothing removes it and the largest is kept.  *)
CodeIsSet == setErr # {} /\ ~inSetErr => code \in setErr

(* While frames come, the set holds just what is wrong now: the FPGA's     *)
(* error is gone, and the IMU's is there when the last sample was bad.     *)
SetTellsState ==
  main = "frames" => Errors = IF imuErr THEN {ERR_IMU_UNRECEIVE} ELSE {}

(* A child that is gone, or that the supervisor cannot hear any more, is   *)
(* replaced, or the supervisor raises the alarm, although beats of the dead*)
(* are still handled and reset the count (visionDaemon.cpp:89).  When the  *)
(* queue was removed it kills and replaces children that are well, until   *)
(* its budget is spent.                                                    *)
GoneIsNoticed ==
  []<>(\/ main # "ended" /\ ~cut
       \/ alarm <= ERR_PROC_UNINTIED \/ proc = MaxProcs)

(* No heartbeat ever reports an error: visionRcm.cpp:575 and :796 set one  *)
(* for it, but the 0 that Active put into the set is larger than all of    *)
(* them, and stays there whatever is set and recovered after it.           *)
NoErrorIsReported == \A k \in DOMAIN beats : beats[k].code = ERR_SYSTIME_OK
=============================================================================
