------------------------------ MODULE ProtoExit ------------------------------
(***************************************************************************)
(* The end of the prototype (visionProc: main.cpp, visionMonitor.cpp,      *)
(* read_vision): main holds the monitor's lock from InitMonitor on and     *)
(* gives it back only by waiting in Monitor; the handler of SIGINT clears  *)
(* the flags of the threads, sleeps two seconds and takes that lock in     *)
(* whatever thread it was run in; then main unmaps the FPGA's memory.      *)
(*                                                                         *)
(* The kernel gives SIGINT to the main thread unless it is in the handler. *)
(* A thread that is not blocked passes its loop in the two seconds.        *)
(***************************************************************************)
EXTENDS Integers

CONSTANTS
  MaxSignals,  \* bound: SIGINTs
  MaxFrames    \* bound: frames read

ProtoExitAssumption == {MaxSignals, MaxFrames} \subseteq Nat

Threads == {"main", "reader", "other"}

VARIABLES
  main,       \* "start", "sleep", "monitor", "waiting", "woken", "unmap", "exit"
  reader,     \* "none", "open", "notify", "signal", "top", "poll", "img", "gone"
  handler,    \* what VisionSignal does in a thread: "none", "sleep", "lock", "signal"
  owner,      \* who holds m_lock: a thread or "nobody"
  iCond,      \* "wait", "read", "all"
  running,    \* the flags of the threads
  cancelled,  \* StopAllThread has been called
  mapped,     \* the FPGA's memory is mapped
  ended,      \* "no", "yes", or "fault"
  signals, frames,  \* counters of the bounds
  early,      \* history: SIGINT came to main while it held m_lock
  late        \* history: the reader was blocked or in the handler after the sleep

vars == <<main, reader, handler, owner, iCond, running, cancelled, mapped, ended,
          signals, frames, early, late>>

(* Since signal() in Initialize; InitMonitor has taken the lock.           *)
Init ==
  /\ main = "start" /\ reader = "none"
  /\ handler = [t \in Threads |-> "none"]
  /\ owner = "main" /\ iCond = "wait"
  /\ running = TRUE /\ cancelled = FALSE /\ mapped = TRUE /\ ended = "no"
  /\ signals = 0 /\ frames = 0 /\ early = FALSE /\ late = FALSE

Runs(t) == ended = "no" /\ handler[t] = "none"
Started == main # "start"
-----------------------------------------------------------------------------
MainGoes(from, to) == Runs("main") /\ main = from /\ main' = to

(* StartAllThread, sleep(3) and EnableFpga.                                *)
StartAllThread ==
  /\ MainGoes("start", "sleep") /\ reader' = "open"
  /\ UNCHANGED <<handler, owner, iCond, running, cancelled, mapped, ended,
                 signals, frames, early, late>>

EnableFpga ==
  /\ MainGoes("sleep", "monitor")
  /\ UNCHANGED <<reader, handler, owner, iCond, running, cancelled, mapped, ended,
                 signals, frames, early, late>>

(* Mutant: the wait does not look at what was notified before.             *)
MonitorAny ==
  /\ MainGoes("monitor", "waiting") /\ owner' = "nobody"
  /\ UNCHANGED <<reader, handler, iCond, running, cancelled, mapped, ended,
                 signals, frames, early, late>>

(* Monitor: waits, or stops the threads that were not told, and goes on.   *)
Monitor ==
  /\ IF iCond = "wait" THEN MainGoes("monitor", "waiting") ELSE MainGoes("monitor", "unmap")
  /\ owner' = "nobody"
  /\ cancelled' = (cancelled \/ iCond \notin {"wait", "all"})
  /\ UNCHANGED <<reader, handler, iCond, running, mapped, ended,
                 signals, frames, early, late>>

Woken ==
  /\ MainGoes("woken", "monitor")
  /\ owner = "nobody" /\ owner' = "main"
  /\ UNCHANGED <<reader, handler, iCond, running, cancelled, mapped, ended,
                 signals, frames, early, late>>

DestoryMMap ==
  /\ MainGoes("unmap", "exit") /\ mapped' = FALSE
  /\ UNCHANGED <<reader, handler, owner, iCond, running, cancelled, ended,
                 signals, frames, early, late>>

Exit ==
  /\ Runs("main") /\ main = "exit" /\ ended' = "yes"
  /\ UNCHANGED <<main, reader, handler, owner, iCond, running, cancelled, mapped,
                 signals, frames, early, late>>
-----------------------------------------------------------------------------
(* NotifyExit is two steps: the condition under the lock, then the signal. *)
Notify(c) == owner = "nobody" /\ iCond' = c
Wake == main' = IF main = "waiting" THEN "woken" ELSE main

Sigint(t) ==
  /\ ended = "no" /\ signals < MaxSignals /\ signals' = signals + 1
  /\ handler[t] = "none" /\ (t = "main" \/ (handler["main"] # "none" /\ Started))
  /\ t = "reader" => reader \notin {"none", "gone"}
  /\ handler' = [handler EXCEPT ![t] = "sleep"]
  /\ running' = (running /\ ~Started)
  /\ early' = (early \/ owner = t)
  /\ UNCHANGED <<main, reader, owner, iCond, cancelled, mapped, ended, frames, late>>

WakesUp(t, settled) ==
  /\ ended = "no" /\ handler[t] = "sleep" /\ settled
  /\ handler' = [handler EXCEPT ![t] = "lock"]
  /\ late' = (late \/ reader = "poll" \/ handler["reader"] # "none")
  /\ UNCHANGED <<main, reader, owner, iCond, running, cancelled, mapped, ended,
                 signals, frames, early>>

(* sleep(2): the reader has come to a place where it waits, or is gone.    *)
Slept(t) ==
  WakesUp(t, reader \in {"none", "notify", "poll", "gone"} \/ handler["reader"] # "none")

HandlerNotifies(t) ==
  /\ ended = "no" /\ handler[t] = "lock" /\ Notify("all")
  /\ handler' = [handler EXCEPT ![t] = "signal"]
  /\ UNCHANGED <<main, reader, owner, running, cancelled, mapped, ended,
                 signals, frames, early, late>>

HandlerSignals(t) ==
  /\ ended = "no" /\ handler[t] = "signal" /\ Wake
  /\ handler' = [handler EXCEPT ![t] = "none"]
  /\ UNCHANGED <<reader, owner, iCond, running, cancelled, mapped, ended,
                 signals, frames, early, late>>
-----------------------------------------------------------------------------
(* read_vision: its preparations may fail.                                 *)
Open ==
  /\ Runs("reader") /\ reader = "open" /\ reader' \in {"top", "notify"}
  /\ UNCHANGED <<main, handler, owner, iCond, running, cancelled, mapped, ended,
                 signals, frames, early, late>>

ReaderNotifies ==
  /\ Runs("reader") /\ reader = "notify" /\ Notify("read")
  /\ reader' = "signal"
  /\ UNCHANGED <<main, handler, owner, running, cancelled, mapped, ended,
                 signals, frames, early, late>>

ReaderSignals ==
  /\ Runs("reader") /\ reader = "signal" /\ reader' = "gone" /\ Wake
  /\ UNCHANGED <<handler, owner, iCond, running, cancelled, mapped, ended,
                 signals, frames, early, late>>

Loop ==
  /\ Runs("reader") /\ reader = "top"
  /\ reader' = IF running THEN "poll" ELSE "gone"
  /\ UNCHANGED <<main, handler, owner, iCond, running, cancelled, mapped, ended,
                 signals, frames, early, late>>

(* A frame comes, after EnableFpga.                                        *)
Polled ==
  /\ Runs("reader") /\ reader = "poll" /\ frames < MaxFrames /\ main \notin {"start", "sleep"}
  /\ reader' = "img" /\ frames' = frames + 1
  /\ UNCHANGED <<main, handler, owner, iCond, running, cancelled, mapped, ended,
                 signals, early, late>>

(* ReadImg copies from the mapped memory.                                  *)
ReadImg ==
  /\ Runs("reader") /\ reader = "img" /\ reader' = "top"
  /\ ended' = IF mapped THEN "no" ELSE "fault"
  /\ UNCHANGED <<main, handler, owner, iCond, running, cancelled, mapped,
                 signals, frames, early, late>>

HandlerStep(t) == Slept(t) \/ HandlerNotifies(t) \/ HandlerSignals(t)
MainStep == StartAllThread \/ EnableFpga \/ Monitor \/ Woken \/ DestoryMMap \/ Exit
ReaderStep == Open \/ ReaderNotifies \/ ReaderSignals \/ Loop \/ ReadImg

Next ==
  \/ MainStep \/ ReaderStep \/ Polled
  \/ \E t \in Threads : Sigint(t) \/ HandlerStep(t)

(* Every thread runs, and a lock that is free is got; frames need not come.*)
Spec ==
  /\ Init /\ [][Next]_vars
  /\ WF_vars(MainStep) /\ WF_vars(ReaderStep)
  /\ \A t \in Threads : WF_vars(HandlerStep(t))
-----------------------------------------------------------------------------
TypeOK ==
  /\ main \in {"start", "sleep", "monitor", "waiting", "woken", "unmap", "exit"}
  /\ reader \in {"none", "open", "notify", "signal", "top", "poll", "img", "gone"}
  /\ handler \in [Threads -> {"none", "sleep", "lock", "signal"}]
  /\ owner = (IF main \in {"start", "sleep", "monitor"} THEN "main" ELSE "nobody")
  /\ iCond \in {"wait", "read", "all"} /\ ended \in {"no", "yes", "fault"}
  /\ {running, cancelled, mapped, early, late} \subseteq BOOLEAN
  /\ signals \in 0 .. MaxSignals /\ frames \in 0 .. MaxFrames

(***************************************************************************)
(* Main goes past Monitor only when the threads were told to end or are    *)
(* cancelled, also when a failure of the reader and a SIGINT overwrite each*)
(* other's condition (visionMonitor.cpp:44, :55).                          *)
(***************************************************************************)
NobodyForgotten == main \in {"unmap", "exit"} => ~running \/ cancelled

(***************************************************************************)
(* The reader copies from memory that is not mapped only if the two seconds*)
(* found it blocked in poll or in the handler itself (main.cpp:65,         *)
(* visionProcess.cpp:266).                                                 *)
(***************************************************************************)
FaultsOnlyLate == ended = "fault" => late

(***************************************************************************)
(* The system ends after a SIGINT or a failure of the reader, unless the   *)
(* SIGINT came while main held the monitor's lock (visionMonitor.cpp:39,   *)
(* :54).                                                                   *)
(***************************************************************************)
EndsWhenTold ==
  []<>((iCond = "wait" /\ signals = 0) \/ ended # "no" \/ early)
=============================================================================
