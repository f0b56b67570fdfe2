------------------------------ MODULE Lifecycle -----------------------------
(***************************************************************************)
(* One process of visionSys-V2.0, from main to its end: CBaseVision's      *)
(* timers (src/platform/base_vision.cpp), the monitor the main thread      *)
(* sleeps in (monitor.cpp) and the SIGINT handler that takes the process   *)
(* down (platform.cpp).                                                    *)
(*                                                                         *)
(* Each timer has two threads: ReqTimer sleeps and sends a signal,         *)
(* ResTimer takes it with sigwait and calls the handler.  A timer with     *)
(* bWait starts at the first frame TransData sees (visionRcm.cpp:153).     *)
(* SIGINT runs ALL of Deactive in signal context, on whichever thread the  *)
(* kernel picks and which stands still meanwhile: the main thread, or any  *)
(* other, which is only delayed by it, for it holds nothing Deactive needs.*)
(*                                                                         *)
(* Memory that is used after it was freed or unmapped is recorded in       *)
(* faults; the access then either has no effect or ends the process        *)
(* (fun_dump calls exit).                                                  *)
(***************************************************************************)
EXTENDS Naturals, FiniteSets

CONSTANTS
  Timers,      \* the entries of the process's timer map
  Waits,       \* those with bWait
  Interrupts   \* the SIGINTs the process gets (Ctrl-C, visionDaemon's kill -2)

ASSUME LifecycleAssumption == Waits \subseteq Timers

VARIABLES
  main,        \* where the main thread is
  monLock,     \* the threads that hold m_lock of monitor.cpp
  iCond,       \* iCond of monitor.cpp: "wait" or "exit"
  woken,       \* m_exit was signalled while the main thread waited
  running,     \* m_bRunning
  timerRunning,\* m_bTimerRunning
  timer,       \* the VISION_TIMER of each timer: "none", "live" or "freed"
  req,         \* where each ReqTimer thread is
  res,         \* where each ResTimer thread is
  pend,        \* the signals pending for each ResTimer thread
  data,        \* where TransData is
  first,       \* m_bFirst
  mapped,      \* the frame memory TransData reads (m_ptr) is mapped
  hdl,         \* each SIGINT: [pc, on, todo]
  ended,       \* the process ended
  faults,      \* history: what was used after it was released
  late         \* history: handler calls begun after StopTimer, up to 2

monitor == <<monLock, iCond, woken>>
flags == <<running, timerRunning>>
timers == <<timer, req, res, pend>>
frames == <<data, first, mapped>>
history == <<faults, late>>
vars == <<main, monitor, flags, timers, frames, hdl, ended, history>>

Carriers == {"main", "other"}

Dormant == [pc |-> "idle", on |-> "other", todo |-> {}]

(* The process is at the top of main's do block.                           *)
Init ==
  /\ main = "init"
  /\ monLock = {}
  /\ iCond = "none"
  /\ woken = FALSE
  /\ running = TRUE
  /\ timerRunning = TRUE
  /\ timer = [t \in Timers |-> "none"]
  /\ req = [t \in Timers |-> "none"]
  /\ res = [t \in Timers |-> "none"]
  /\ pend = [t \in Timers |-> {}]
  /\ data = "none"
  /\ first = TRUE
  /\ mapped = FALSE
  /\ hdl = [i \in Interrupts |-> Dormant]
  /\ ended = FALSE
  /\ faults = {}
  /\ late = [t \in Timers |-> 0]

Handling(i) == hdl[i].pc \notin {"idle", "done"}

(* A thread on which a signal handler runs does nothing else.              *)
MainFree == ~ended /\ \A i \in Interrupts : Handling(i) => hdl[i].on # "main"

(* x was released before it was used: no effect, or the end.               *)
Fault(x) ==
  /\ faults' = faults \cup {x}
  /\ ended' \in BOOLEAN

NoFault == UNCHANGED <<faults, ended>>
-----------------------------------------------------------------------------
(***************************************************************************)
(* The main thread.                                                        *)
(***************************************************************************)
(* InitMonitor returns with m_lock held; CreateInstance follows.           *)
InitMonitor ==
  /\ MainFree
  /\ main = "init"
  /\ monLock = {}
  /\ monLock' = {"main"}
  /\ iCond' = "wait"
  /\ main' = "active"
  /\ UNCHANGED <<woken, flags, timers, frames, hdl, ended, history>>

(* SetTimer starts the two threads of the next timer.                      *)
SetTimer(t) ==
  /\ MainFree
  /\ main = "active"
  /\ timer[t] = "none"
  /\ timer' = [timer EXCEPT ![t] = "live"]
  /\ res' = [res EXCEPT ![t] = "test"]
  /\ req' = [req EXCEPT ![t] = IF t \in Waits THEN "gate" ELSE "test"]
  /\ UNCHANGED <<main, monitor, flags, pend, frames, hdl, ended, history>>

(* ActiveImp maps the frame memory.                                        *)
ActiveImp ==
  /\ MainFree
  /\ main = "active"
  /\ \A t \in Timers : timer[t] # "none"
  /\ mapped' = TRUE
  /\ main' = "action"
  /\ UNCHANGED <<monitor, flags, timers, data, first, hdl, ended, history>>

Action ==
  /\ MainFree
  /\ main = "action"
  /\ data' = "poll"
  /\ main' = "monitor"
  /\ UNCHANGED <<monitor, flags, timers, first, mapped, hdl, ended, history>>

(* while (iCond == MONITOR_WAIT) pthread_cond_wait: the wait gives up      *)
(* m_lock.                                                                 *)
MonitorWait ==
  /\ MainFree
  /\ main = "monitor"
  /\ iCond = "wait"
  /\ monLock' = monLock \ {"main"}
  /\ woken' = FALSE
  /\ main' = "asleep"
  /\ UNCHANGED <<iCond, flags, timers, frames, hdl, ended, history>>

(* Mutant: an if for the while, so that the wait's end is not questioned.  *)
MonitorWakeLeaves ==
  /\ MainFree /\ main = "asleep" /\ monLock = {}
  /\ main' = "exit"
  /\ UNCHANGED <<monitor, flags, timers, frames, hdl, ended, history>>

(* The wait may also end for no reason: pthread_cond_wait allows it.       *)
MonitorWake ==
  /\ MainFree
  /\ main = "asleep"
  /\ monLock = {}
  /\ monLock' = {"main"}
  /\ main' = "monitor"
  /\ UNCHANGED <<iCond, woken, flags, timers, frames, hdl, ended, history>>

(* Mutant: pthread_mutex_unlock after the loop forgotten.                  *)
MonitorLeaveLocked ==
  /\ MainFree /\ main = "monitor" /\ iCond # "wait"
  /\ main' = "exit"
  /\ UNCHANGED <<monitor, flags, timers, frames, hdl, ended, history>>

MonitorLeave ==
  /\ MainFree
  /\ main = "monitor"
  /\ iCond # "wait"
  /\ monLock' = monLock \ {"main"}
  /\ main' = "exit"
  /\ UNCHANGED <<iCond, woken, flags, timers, frames, hdl, ended, history>>

(* main deletes the component and returns.                                 *)
Return ==
  /\ MainFree
  /\ main = "exit"
  /\ ended' = TRUE
  /\ UNCHANGED <<main, monitor, flags, timers, frames, hdl, history>>
-----------------------------------------------------------------------------
(***************************************************************************)
(* The timer threads.                                                      *)
(***************************************************************************)
(* pthread_cond_wait in ReqTimer, which tests nothing: only a NoticeTimer  *)
(* that comes later ends it.                                               *)
GateWait(t) ==
  /\ ~ended
  /\ req[t] = "gate"
  /\ req' = [req EXCEPT ![t] = "waiting"]
  /\ UNCHANGED <<main, monitor, flags, timer, res, pend, frames, hdl, ended,
                 history>>

ReqTest(t) ==
  /\ ~ended
  /\ req[t] = "test"
  /\ req' = [req EXCEPT ![t] = IF timerRunning THEN "sleep" ELSE "done"]
  /\ UNCHANGED <<main, monitor, flags, timer, res, pend, frames, hdl, ended,
                 history>>

(* USleep ends: pthread_kill(pTimer->res_tid, pTimer->signo).              *)
Tick(t) ==
  /\ ~ended
  /\ req[t] = "sleep"
  /\ req' = [req EXCEPT ![t] = "test"]
  /\ IF timer[t] = "freed"
     THEN Fault("timer") /\ pend' \in {pend, [pend EXCEPT ![t] = @ \cup {"tick"}]}
     ELSE NoFault /\ pend' = [pend EXCEPT ![t] = @ \cup {"tick"}]
  /\ UNCHANGED <<main, monitor, flags, timer, res, frames, hdl, late>>

ResTest(t) ==
  /\ ~ended
  /\ res[t] = "test"
  /\ res' = [res EXCEPT ![t] = IF timerRunning THEN "sigwait" ELSE "done"]
  /\ UNCHANGED <<main, monitor, flags, timer, req, pend, frames, hdl, ended,
                 history>>

(* sigwait takes a signal; a tick makes the thread call the handler.       *)
Sigwait(t) ==
  /\ ~ended
  /\ res[t] = "sigwait"
  /\ res' = [res EXCEPT ![t] = "test"]
  /\ \E s \in pend[t] :
       /\ pend' = [pend EXCEPT ![t] = @ \ {s}]
       /\ late' = [late EXCEPT ![t] = IF s = "tick" /\ ~timerRunning /\ @ < 2
                                      THEN @ + 1 ELSE @]
  /\ IF timer[t] = "freed"
     THEN Fault("timer")
     ELSE NoFault
  /\ UNCHANGED <<main, monitor, flags, timer, req, frames, hdl>>
-----------------------------------------------------------------------------
(***************************************************************************)
(* TransData of visionRcm.                                                 *)
(***************************************************************************)
(* A frame arrives; the first one calls NoticeTimer.                       *)
Frame ==
  /\ ~ended
  /\ data = "poll"
  /\ data' = "work"
  /\ first' = FALSE
  /\ req' = IF first
            THEN [t \in Timers |-> IF req[t] = "waiting" THEN "test" ELSE req[t]]
            ELSE req
  /\ UNCHANGED <<main, monitor, flags, timer, res, pend, mapped, hdl, ended,
                 history>>

(* GenerateMsg copies from m_ptr; then the loop tests IsRunning.           *)
Worked ==
  /\ ~ended
  /\ data = "work"
  /\ data' = IF running THEN "poll" ELSE "done"
  /\ IF mapped THEN NoFault ELSE Fault("mapping")
  /\ UNCHANGED <<main, monitor, flags, timers, first, mapped, hdl, late>>

(* process_poll discards the frame (m_discards); the loop tests IsRunning. *)
Discarded ==
  /\ ~ended
  /\ data = "poll"
  /\ ~running
  /\ data' = "done"
  /\ UNCHANGED <<main, monitor, flags, timers, first, mapped, hdl, ended,
                 history>>
-----------------------------------------------------------------------------
(***************************************************************************)
(* SIGINT: sig_handle and Deactive.                                        *)
(***************************************************************************)
Goto(i, p) == hdl' = [hdl EXCEPT ![i].pc = p]

(* pCompoentI is set once InitMonitor was called.  The kernel picks a      *)
(* thread that exists and has SIGINT unblocked.                            *)
Interrupt(i, c) ==
  /\ hdl[i].pc = "idle"
  /\ main # "init"
  /\ c = "other" => \E t \in Timers : timer[t] # "none"
  /\ ~ended
  /\ c = "main" => MainFree
  /\ hdl' = [hdl EXCEPT ![i] = [Dormant EXCEPT !.pc = "stop", !.on = c]]
  /\ UNCHANGED <<main, monitor, flags, timers, frames, ended, history>>

StopTimer(i) ==
  /\ ~ended
  /\ hdl[i].pc = "stop"
  /\ timerRunning' = FALSE
  /\ hdl' = [hdl EXCEPT ![i].pc = "kill",
                        ![i].todo = {t \in Timers : timer[t] # "none"}]
  /\ UNCHANGED <<main, monitor, running, timers, frames, ended, history>>

(* Mutant: the response thread is not told to stop.                        *)
KillTimerSilently(i, t) ==
  /\ ~ended /\ hdl[i].pc = "kill" /\ t \in hdl[i].todo
  /\ hdl' = [hdl EXCEPT ![i].todo = @ \ {t}]
  /\ timer' = [timer EXCEPT ![t] = "freed"]
  /\ UNCHANGED <<main, monitor, flags, req, res, pend, frames, ended, history>>

(* pthread_kill(res_tid, SIGQUIT) and delete, for the next timer t.  (A    *)
(* thread that wakes between the two sees what Fault's "no effect" shows.) *)
KillTimer(i, t) ==
  /\ ~ended
  /\ hdl[i].pc = "kill"
  /\ t \in hdl[i].todo
  /\ hdl' = [hdl EXCEPT ![i].todo = @ \ {t}]
  /\ timer' = [timer EXCEPT ![t] = "freed"]
  /\ IF timer[t] = "freed"
     THEN Fault("timer") /\ pend' \in {pend, [pend EXCEPT ![t] = @ \cup {"quit"}]}
     ELSE NoFault /\ pend' = [pend EXCEPT ![t] = @ \cup {"quit"}]
  /\ UNCHANGED <<main, monitor, flags, req, res, frames, late>>

(* m_vTimer is empty; StopRun.                                             *)
StopRun(i) ==
  /\ ~ended
  /\ hdl[i].pc = "kill"
  /\ hdl[i].todo = {}
  /\ running' = FALSE
  /\ Goto(i, "imp")
  /\ UNCHANGED <<main, monitor, timerRunning, timers, frames, ended, history>>

(* DeactiveImp unmaps the frame memory.  (Deactive then sends the children *)
(* their SIGINT and removes the transport: other modules' state.)          *)
DeactiveImp(i) ==
  /\ ~ended
  /\ hdl[i].pc = "imp"
  /\ mapped' = FALSE
  /\ Goto(i, "notify")
  /\ UNCHANGED <<main, monitor, flags, timers, data, first, ended, history>>

(* NotifyExit: m_lock, iCond, and m_lock given back ...                    *)
SetExit(i) ==
  /\ ~ended
  /\ hdl[i].pc = "notify"
  /\ monLock = {}
  /\ iCond' = "exit"
  /\ Goto(i, "signal")
  /\ UNCHANGED <<main, monLock, woken, flags, timers, frames, ended, history>>

(* ... then pthread_cond_signal.                                           *)
Signal(i) ==
  /\ ~ended
  /\ hdl[i].pc = "signal"
  /\ woken' = (woken \/ main = "asleep")
  /\ Goto(i, "done")
  /\ UNCHANGED <<main, monLock, iCond, flags, timers, frames, ended, history>>

Main ==
  \/ InitMonitor \/ (\E t \in Timers : SetTimer(t)) \/ ActiveImp \/ Action
  \/ MonitorWait \/ MonitorLeave \/ Return

Req(t) == GateWait(t) \/ ReqTest(t) \/ Tick(t)
Res(t) == ResTest(t) \/ Sigwait(t)

Deactive(i) ==
  \/ StopTimer(i) \/ StopRun(i) \/ DeactiveImp(i) \/ SetExit(i) \/ Signal(i)
  \/ \E t \in Timers : KillTimer(i, t)

Next ==
  \/ Main \/ MonitorWake
  \/ \E t \in Timers : Req(t) \/ Res(t)
  \/ Frame \/ Worked \/ Discarded
  \/ \E i \in Interrupts : Deactive(i) \/ \E c \in Carriers : Interrupt(i, c)

Spec == Init /\ [][Next]_vars

(* Threads that can run do, sleeps end, a signalled wait ends, and a       *)
(* thread gets a mutex that is free again and again.  Nothing obliges a    *)
(* frame or a SIGINT to come, so TransData may stay in its poll for ever.  *)
Fairness ==
  /\ WF_vars(Main)
  /\ WF_vars(woken /\ MonitorWake)
  /\ WF_vars(Worked)
  /\ \A t \in Timers : WF_vars(Req(t)) /\ WF_vars(Res(t))
  /\ \A i \in Interrupts : WF_vars(Deactive(i)) /\ SF_vars(SetExit(i))

FairSpec == Spec /\ Fairness
-----------------------------------------------------------------------------
(***************************************************************************)
(* Properties.                                                             *)
(***************************************************************************)
MonitorOK ==
  /\ main \in {"init", "active", "action", "monitor", "asleep", "exit"}
  /\ monLock = IF main \in {"active", "action", "monitor"} THEN {"main"} ELSE {}
  /\ iCond \in {"none", "wait", "exit"}
  /\ woken \in BOOLEAN

FlagsOK ==
  /\ running \in BOOLEAN /\ timerRunning \in BOOLEAN
  /\ first \in BOOLEAN /\ mapped \in BOOLEAN /\ ended \in BOOLEAN
  /\ data \in {"none", "poll", "work", "done"}
  /\ faults \subseteq {"timer", "mapping"}

TimersOK ==
  /\ timer \in [Timers -> {"none", "live", "freed"}]
  /\ req \in [Timers -> {"none", "gate", "waiting", "test", "sleep", "done"}]
  /\ res \in [Timers -> {"none", "test", "sigwait", "done"}]
  /\ pend \in [Timers -> SUBSET {"tick", "quit"}]
  /\ late \in [Timers -> 0 .. 2]
  /\ \A t \in Timers : timer[t] = "none" => req[t] = "none" /\ res[t] = "none"

HandlersOK ==
  hdl \in [Interrupts ->
             [pc : {"idle", "stop", "kill", "imp", "notify", "signal", "done"},
              on : Carriers, todo : SUBSET Timers]]

(* m_lock of the monitor is the main thread's whenever it tests iCond, and *)
(* a timer exists exactly when its threads do.                             *)
TypeOK == MonitorOK /\ FlagsOK /\ TimersOK /\ HandlersOK

(* A timer calls its handler once at most after StopTimer: the tick that   *)
(* was under way when Deactive began (base_vision.cpp:476-487).            *)
LateCallOnce == \A t \in Timers : late[t] <= 1

(* The main thread goes on to delete the component only when some Deactive *)
(* has done all its work, however often pthread_cond_wait returns.         *)
LeavesAfterDeactive ==
  main = "exit" => \E i \in Interrupts : hdl[i].pc \in {"signal", "done"}

(* Deactive's order reaches every thread: what it stopped comes at most    *)
(* once more, and the main thread leaves after it.                         *)
ShutsDownInOrder == LateCallOnce /\ LeavesAfterDeactive

(* The handler of a SIGINT waits for the m_lock that the thread it runs on *)
(* holds.                                                                  *)
SelfLocked ==
  \E i \in Interrupts :
    hdl[i].pc = "notify" /\ hdl[i].on = "main" /\ "main" \in monLock

(* A SIGINT ends the process; m_lock is the only thing that can stop it.   *)
InterruptedEnds ==
  (\E i \in Interrupts : hdl[i].pc = "stop") ~> ended \/ SelfLocked

(* Once StopTimer was called every ResTimer thread comes to its end, even  *)
(* that of a timer that never ticked.                                      *)
RespondersStop ==
  \A t \in Timers :
    ~timerRunning /\ res[t] # "none" ~> res[t] = "done" \/ ended

(* What Deactive is for: the process and each of its timers end.           *)
EverythingStops == InterruptedEnds /\ RespondersStop

(* base_vision.cpp:151, "stop the timers": no thread of a timer uses its   *)
(* VISION_TIMER after KillTimer freed it.                                  *)
TimersStopped == "timer" \notin faults

(* visionRcm.cpp:155, "tell the Timer that its wait is over": once a frame *)
(* came no timer waits for one.                                            *)
TimerTold == ~first => \A t \in Timers : req[t] # "waiting"
=============================================================================
