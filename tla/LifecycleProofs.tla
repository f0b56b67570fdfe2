--------------------------- MODULE LifecycleProofs --------------------------
(***************************************************************************)
(* Proofs about Lifecycle, for any number of timers and of SIGINTs.        *)
(*                                                                         *)
(* LateCallOnce is not inductive: a thread in sigwait may have passed the  *)
(* test of m_bTimerRunning before StopTimer.  LateInv adds that such a     *)
(* thread made no late call yet.  LeavesAfterDeactive rests on what iCond  *)
(* says of the handlers (ExitInv).                                         *)
(***************************************************************************)
EXTENDS Lifecycle, TLAPS

LateInv ==
  \A t \in Timers :
    /\ late[t] <= 1
    /\ timerRunning \/ res[t] = "sigwait" => late[t] = 0

Notified == \E i \in Interrupts : hdl[i].pc \in {"signal", "done"}

ExitInv ==
  /\ iCond = "none" => main = "init"
  /\ main = "init" => \A i \in Interrupts : hdl[i].pc = "idle"
  /\ iCond = "exit" => Notified
  /\ main = "exit" => iCond = "exit"

IInv == TypeOK /\ LateInv /\ ExitInv

(* The initial states satisfy the invariant.                               *)
LEMMA InitInv == Init => IInv
  <1> SUFFICES ASSUME Init PROVE IInv
  OBVIOUS
<1> USE DEF Init
<1>1. MonitorOK /\ FlagsOK
  BY DEF MonitorOK, FlagsOK
<1>2. TimersOK
  BY DEF TimersOK
<1>3. HandlersOK
  BY DEF HandlersOK, Dormant, Carriers
<1>4. LateInv /\ ExitInv
  BY DEF LateInv, ExitInv, Dormant
<1> QED
  BY <1>1, <1>2, <1>3, <1>4 DEF IInv, TypeOK

(* A handler that notified the main thread stays notified.                 *)
LEMMA NotifiedStays ==
  ASSUME TypeOK, Notified, [Next]_vars
  PROVE  Notified'
<1> PICK i \in Interrupts : hdl[i].pc \in {"signal", "done"} BY DEF Notified
<1> SUFFICES hdl'[i].pc \in {"signal", "done"} BY DEF Notified
<1> USE DEF TypeOK, HandlersOK
<1>1. CASE UNCHANGED hdl
  BY <1>1
<1>2. ASSUME NEW j \in Interrupts, Deactive(j)
      PROVE  hdl'[i].pc \in {"signal", "done"}
  BY <1>2 DEF Deactive, StopTimer, KillTimer, StopRun, DeactiveImp, SetExit, Signal, Goto
<1>3. ASSUME NEW j \in Interrupts, NEW c \in Carriers, Interrupt(j, c)
      PROVE  hdl'[i].pc \in {"signal", "done"}
  BY <1>3 DEF Interrupt, Dormant
<1>4. CASE Main \/ MonitorWake
  BY <1>4, <1>1 DEF Main, MonitorWake, InitMonitor, SetTimer, ActiveImp, Action,
     MonitorWait, MonitorLeave, Return
<1>5. ASSUME NEW t \in Timers, Req(t) \/ Res(t)
      PROVE  hdl'[i].pc \in {"signal", "done"}
  BY <1>5, <1>1 DEF Req, Res, GateWait, ReqTest, Tick, ResTest, Sigwait
<1>6. CASE Frame \/ Worked \/ Discarded
  BY <1>6, <1>1 DEF Frame, Worked, Discarded
<1> QED
  BY <1>1, <1>2, <1>3, <1>4, <1>5, <1>6 DEF Next, vars

(* Each part of the type invariant is kept by every step.                  *)
LEMMA StepMonitor ==
  ASSUME TypeOK, [Next]_vars
  PROVE  MonitorOK'
<1> USE DEF TypeOK, MonitorOK
<1>1. CASE UNCHANGED <<main, monitor>>
  BY <1>1 DEF monitor
<1>2. CASE Main \/ MonitorWake
  BY <1>2, <1>1 DEF Main, MonitorWake, InitMonitor, SetTimer, ActiveImp, Action,
     MonitorWait, MonitorLeave, Return, monitor
<1>3. ASSUME NEW t \in Timers, Req(t) \/ Res(t) PROVE MonitorOK'
  BY <1>3, <1>1 DEF Req, Res, GateWait, ReqTest, Tick, ResTest, Sigwait
<1>4. CASE Frame \/ Worked \/ Discarded
  BY <1>4, <1>1 DEF Frame, Worked, Discarded
<1>5. ASSUME NEW i \in Interrupts, Deactive(i) PROVE MonitorOK'
  BY <1>5, <1>1 DEF Deactive, StopTimer, KillTimer, StopRun, DeactiveImp, SetExit, Signal,
     monitor
<1>6. ASSUME NEW i \in Interrupts, NEW c \in Carriers, Interrupt(i, c) PROVE MonitorOK'
  BY <1>6, <1>1 DEF Interrupt
<1> QED
  BY <1>1, <1>2, <1>3, <1>4, <1>5, <1>6 DEF Next, vars

LEMMA StepFlags ==
  ASSUME TypeOK, [Next]_vars
  PROVE  FlagsOK'
<1> USE DEF TypeOK, FlagsOK
<1>1. CASE UNCHANGED <<flags, frames, ended, faults>>
  BY <1>1 DEF flags, frames
<1>2. CASE Main \/ MonitorWake
  BY <1>2, <1>1 DEF Main, MonitorWake, InitMonitor, SetTimer, ActiveImp, Action,
     MonitorWait, MonitorLeave, Return, flags, frames, history
<1>3. ASSUME NEW t \in Timers, Req(t) \/ Res(t) PROVE FlagsOK'
  BY <1>3, <1>1 DEF Req, Res, GateWait, ReqTest, Tick, ResTest, Sigwait, Fault, NoFault,
     flags, frames, history
<1>4. CASE Frame \/ Worked \/ Discarded
  BY <1>4, <1>1 DEF Frame, Worked, Discarded, Fault, NoFault, flags, history
<1>5. ASSUME NEW i \in Interrupts, Deactive(i) PROVE FlagsOK'
  BY <1>5, <1>1 DEF Deactive, StopTimer, KillTimer, StopRun, DeactiveImp, SetExit, Signal,
     Fault, NoFault, flags, frames, history
<1>6. ASSUME NEW i \in Interrupts, NEW c \in Carriers, Interrupt(i, c) PROVE FlagsOK'
  BY <1>6, <1>1 DEF Interrupt, history
<1> QED
  BY <1>1, <1>2, <1>3, <1>4, <1>5, <1>6 DEF Next, vars, history

LEMMA StepTimers ==
  ASSUME TypeOK, [Next]_vars
  PROVE  TimersOK'
<1> USE DEF TypeOK, TimersOK
<1>1. CASE UNCHANGED <<timers, late>>
  BY <1>1 DEF timers
<1>2. CASE Main \/ MonitorWake
  BY <1>2, <1>1 DEF Main, MonitorWake, InitMonitor, SetTimer, ActiveImp, Action,
     MonitorWait, MonitorLeave, Return, timers, history
<1>3. ASSUME NEW t \in Timers, Req(t) \/ Res(t) PROVE TimersOK'
  <2>1. CASE GateWait(t) \/ ReqTest(t)
    BY <2>1 DEF GateWait, ReqTest, history
  <2>2. CASE Tick(t)
    BY <2>2 DEF Tick
  <2>3. CASE ResTest(t)
    BY <2>3 DEF ResTest, history
  <2>4. CASE Sigwait(t)
    BY <2>4 DEF Sigwait
  <2> QED
    BY <1>3, <2>1, <2>2, <2>3, <2>4 DEF Req, Res
<1>4. CASE Frame \/ Worked \/ Discarded
  BY <1>4, <1>1 DEF Frame, Worked, Discarded, timers, history
<1>5. ASSUME NEW i \in Interrupts, Deactive(i) PROVE TimersOK'
  <2>1. ASSUME NEW t \in Timers, KillTimer(i, t) PROVE TimersOK'
    BY <2>1 DEF KillTimer
  <2> QED
    BY <1>5, <1>1, <2>1 DEF Deactive, StopTimer, StopRun, DeactiveImp, SetExit, Signal,
       history
<1>6. ASSUME NEW i \in Interrupts, NEW c \in Carriers, Interrupt(i, c) PROVE TimersOK'
  BY <1>6, <1>1 DEF Interrupt, history
<1> QED
  BY <1>1, <1>2, <1>3, <1>4, <1>5, <1>6 DEF Next, vars, history

LEMMA StepHandlers ==
  ASSUME TypeOK, [Next]_vars
  PROVE  HandlersOK'
<1> USE DEF TypeOK, HandlersOK
<1>1. CASE UNCHANGED hdl
  BY <1>1
<1>2. CASE Main \/ MonitorWake
  BY <1>2, <1>1 DEF Main, MonitorWake, InitMonitor, SetTimer, ActiveImp, Action,
     MonitorWait, MonitorLeave, Return
<1>3. ASSUME NEW t \in Timers, Req(t) \/ Res(t) PROVE HandlersOK'
  BY <1>3, <1>1 DEF Req, Res, GateWait, ReqTest, Tick, ResTest, Sigwait
<1>4. CASE Frame \/ Worked \/ Discarded
  BY <1>4, <1>1 DEF Frame, Worked, Discarded
<1>5. ASSUME NEW i \in Interrupts, Deactive(i) PROVE HandlersOK'
  BY <1>5 DEF Deactive, StopTimer, KillTimer, StopRun, DeactiveImp, SetExit, Signal, Goto
<1>6. ASSUME NEW i \in Interrupts, NEW c \in Carriers, Interrupt(i, c) PROVE HandlersOK'
  BY <1>6 DEF Interrupt, Dormant
<1> QED
  BY <1>1, <1>2, <1>3, <1>4, <1>5, <1>6 DEF Next, vars

(* A thread in sigwait made no late call, and makes one there at most.     *)
LEMMA StepLate ==
  ASSUME IInv, [Next]_vars
  PROVE  LateInv'
<1> USE DEF IInv, TypeOK, TimersOK, LateInv
<1>1. CASE UNCHANGED <<late, res, timerRunning>>
  BY <1>1
<1>2. ASSUME NEW t \in Timers, SetTimer(t) PROVE LateInv'
  BY <1>2 DEF SetTimer, flags, history
<1>3. ASSUME NEW t \in Timers, Res(t) PROVE LateInv'
  <2>1. CASE ResTest(t)
    BY <2>1 DEF ResTest, flags, history
  <2>2. CASE Sigwait(t)
    BY <2>2 DEF Sigwait, flags
  <2> QED
    BY <1>3, <2>1, <2>2 DEF Res
<1>4. ASSUME NEW i \in Interrupts, Deactive(i) PROVE LateInv'
  BY <1>4 DEF Deactive, StopTimer, KillTimer, StopRun, DeactiveImp, SetExit, Signal,
     flags, timers, history
<1>5. CASE \/ Main /\ \A t \in Timers : ~SetTimer(t)
           \/ MonitorWake \/ Frame \/ Worked \/ Discarded
  BY <1>5, <1>1 DEF Main, MonitorWake, InitMonitor, ActiveImp, Action, MonitorWait,
     MonitorLeave, Return, Frame, Worked, Discarded, flags, timers, history
<1>6. ASSUME NEW t \in Timers, Req(t) PROVE LateInv'
  BY <1>6, <1>1 DEF Req, GateWait, ReqTest, Tick, flags, history
<1>7. ASSUME NEW i \in Interrupts, NEW c \in Carriers, Interrupt(i, c) PROVE LateInv'
  BY <1>7, <1>1 DEF Interrupt, flags, timers, history
<1>8. CASE UNCHANGED vars
  BY <1>8, <1>1 DEF vars, flags, timers, history
<1> QED
  BY <1>2, <1>3, <1>4, <1>5, <1>6, <1>7, <1>8 DEF Next

(* No SIGINT is handled before the monitor is set up.                      *)
LEMMA InitQuiet ==
  ASSUME IInv, [Next]_vars, main = "init"
  PROVE  UNCHANGED hdl
<1> USE DEF IInv, ExitInv
<1>1. CASE Main \/ MonitorWake
  BY <1>1 DEF Main, MonitorWake, InitMonitor, SetTimer, ActiveImp, Action,
     MonitorWait, MonitorLeave, Return
<1>2. ASSUME NEW t \in Timers, Req(t) \/ Res(t) PROVE UNCHANGED hdl
  BY <1>2 DEF Req, Res, GateWait, ReqTest, Tick, ResTest, Sigwait
<1>3. CASE Frame \/ Worked \/ Discarded
  BY <1>3 DEF Frame, Worked, Discarded
<1>4. ASSUME NEW i \in Interrupts, Deactive(i) PROVE UNCHANGED hdl
  BY <1>4 DEF Deactive, StopTimer, KillTimer, StopRun, DeactiveImp, SetExit, Signal
<1>5. ASSUME NEW i \in Interrupts, NEW c \in Carriers, Interrupt(i, c) PROVE UNCHANGED hdl
  BY <1>5 DEF Interrupt
<1> QED
  BY <1>1, <1>2, <1>3, <1>4, <1>5 DEF Next, vars

(* iCond says "exit" only when a Deactive put it there.                    *)
LEMMA StepExit ==
  ASSUME IInv, [Next]_vars
  PROVE  ExitInv'
<1> USE DEF IInv, TypeOK, MonitorOK, HandlersOK, ExitInv
<1>1. CASE UNCHANGED <<main, iCond>>
  BY <1>1, NotifiedStays, InitQuiet
<1>2. CASE Main \/ MonitorWake
  <2>1. CASE InitMonitor
    BY <2>1 DEF InitMonitor
  <2>2. ASSUME NEW t \in Timers, SetTimer(t) PROVE ExitInv'
    BY <2>2, <1>1 DEF SetTimer, monitor
  <2>3. CASE ActiveImp \/ Action \/ MonitorWait \/ MonitorWake \/ MonitorLeave \/ Return
    BY <2>3, NotifiedStays, InitQuiet DEF ActiveImp, Action, MonitorWait, MonitorWake, MonitorLeave,
       Return, monitor
  <2> QED
    BY <1>2, <2>1, <2>2, <2>3 DEF Main
<1>3. ASSUME NEW t \in Timers, Req(t) \/ Res(t) PROVE ExitInv'
  BY <1>3, <1>1 DEF Req, Res, GateWait, ReqTest, Tick, ResTest, Sigwait, monitor
<1>4. CASE Frame \/ Worked \/ Discarded
  BY <1>4, <1>1 DEF Frame, Worked, Discarded, monitor
<1>5. ASSUME NEW i \in Interrupts, Deactive(i) PROVE ExitInv'
  <2>1. CASE SetExit(i)
    <3>1. Notified'
      BY <2>1 DEF SetExit, Goto, Notified
    <3>2. main # "init"
      BY <2>1 DEF SetExit
    <3> QED
      BY <2>1, <3>1, <3>2 DEF SetExit
  <2>2. CASE ~SetExit(i)
    BY <1>5, <2>2, <1>1 DEF Deactive, StopTimer, KillTimer, StopRun, DeactiveImp, Signal,
       monitor
  <2> QED
    BY <2>1, <2>2
<1>6. ASSUME NEW i \in Interrupts, NEW c \in Carriers, Interrupt(i, c) PROVE ExitInv'
  BY <1>6, <1>1 DEF Interrupt, monitor
<1>7. CASE UNCHANGED vars
  BY <1>7, <1>1 DEF vars, monitor
<1> QED
  BY <1>2, <1>3, <1>4, <1>5, <1>6, <1>7 DEF Next

(* Every reachable state satisfies the invariant.                          *)
LEMMA Invariance == Spec => []IInv
<1>1. IInv /\ [Next]_vars => IInv'
  BY StepMonitor, StepFlags, StepTimers, StepHandlers, StepLate, StepExit DEF IInv, TypeOK
<1> QED
  BY InitInv, <1>1, PTL DEF Spec

(***************************************************************************)
(* monitor.cpp:16-43, base_vision.cpp:432-487: the monitor's lock is the   *)
(* main thread's just between Lock and the wait or the unlock, a timer's   *)
(* threads run only once it exists, and a stopped timer makes a bounded    *)
(* number of late calls.                                                   *)
(***************************************************************************)
THEOREM LifecycleTypeCorrect == Spec => []TypeOK
<1>1. IInv => TypeOK
  BY DEF IInv
<1> QED
  BY Invariance, <1>1, PTL

(* A timer calls its handler once at most after StopTimer, however many    *)
(* timers and SIGINTs there are.                                           *)
THEOREM LifecycleLateCallOnce == Spec => []LateCallOnce
<1>1. IInv => LateCallOnce
  BY DEF IInv, LateInv, LateCallOnce
<1> QED
  BY Invariance, <1>1, PTL

(* The main thread leaves only after some Deactive did all its work.       *)
THEOREM LifecycleLeavesAfterDeactive == Spec => []LeavesAfterDeactive
<1>1. IInv => LeavesAfterDeactive
  BY DEF IInv, ExitInv, Notified, LeavesAfterDeactive
<1> QED
  BY Invariance, <1>1, PTL

(* A timer calls its handler once at most after Deactive began, and the    *)
(* main thread leaves only after some Deactive did all its work.           *)
THEOREM LifecycleShutsDownInOrder == Spec => []ShutsDownInOrder
  BY LifecycleLateCallOnce, LifecycleLeavesAfterDeactive, PTL
     DEF ShutsDownInOrder
=============================================================================
