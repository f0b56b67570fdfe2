------------------------------- MODULE Family -------------------------------
(***************************************************************************)
(* How the processes of the first version (visionSys/src/platform) watch   *)
(* and end each other.  A child sends a heartbeat into the parent's queue  *)
(* every five seconds and ends itself when five in a row fail; the parent  *)
(* takes one beat of each child in the same period, and forgets a child of *)
(* which five are missing: it is not started again.                        *)
(*                                                                         *)
(* SIGINT makes the parent remove its queue and send each child a SIGINT   *)
(* with popen and pclose.  Its handler of SIGCHLD calls wait, which blocks *)
(* as long as a child is alive; the handler runs for the shell of popen,   *)
(* too, whose exit pclose may have collected.                              *)
(*                                                                         *)
(* main holds the monitor's lock from InitMonitor until it sleeps in       *)
(* Monitor: a SIGINT before that waits for the lock it holds itself.       *)
(***************************************************************************)
EXTENDS Integers, FiniteSets

CONSTANTS
  Children,   \* the child processes of the configuration
  Times,      \* m_times and PROC_INFO.times, 5
  Capacity,   \* messages the kernel queue holds
  MaxThreads  \* threads of the parent besides main

FamilyAssumption ==
  /\ IsFiniteSet(Children) /\ Times \in Nat \ {0} /\ MaxThreads \in Nat
  /\ Capacity \in Nat /\ Cardinality(Children) < Capacity

VARIABLES
  pm,        \* the parent's main thread
  early,     \* its SIGINT came before Monitor
  vec,       \* m_vProcInfo
  times,     \* PROC_INFO.times of each child
  todo,      \* the children Deactive has not told
  shell,     \* the shell of popen has exited and was not waited for
  chld,      \* a SIGCHLD is pending
  inWait,    \* main is in wait, in the handler
  waiters,   \* how many other threads are
  child,     \* each child: "starting", "up", "stuck", "zombie" or "reaped"
  left,      \* m_times of each child
  leaving,   \* the children that end themselves
  queue,     \* the messages of each child in the queue
  there      \* the queue exists

parent == <<pm, early, vec, times, todo>>
waits == <<shell, inWait, waiters>>
kids == <<child, left, leaving>>
vars == <<parent, waits, chld, kids, queue, there>>

Alive(c) == child[c] \in {"starting", "up", "stuck"}
Running == pm \notin {"gone", "crashed"}

(* What the kernel holds: the beats of all children, each child's counted  *)
(* from 1.                                                                 *)
Beats == UNION {{c} \X (1 .. queue[c]) : c \in Children}
Full == Cardinality(Beats) >= Capacity

Init ==
  /\ pm = "active" /\ early = FALSE /\ vec = Children
  /\ times = [c \in Children |-> Times] /\ todo = {}
  /\ shell = FALSE /\ chld = FALSE /\ inWait = FALSE /\ waiters = 0
  /\ child = [c \in Children |-> "starting"]
  /\ left = [c \in Children |-> Times] /\ leaving = {}
  /\ queue = [c \in Children |-> 0] /\ there = TRUE
-----------------------------------------------------------------------------
(***************************************************************************)
(* The children.                                                           *)
(***************************************************************************)
(* A child that ends: a zombie of the parent, or taken over by init.       *)
Ends(c) ==
  /\ child' = [child EXCEPT ![c] = IF Running THEN "zombie" ELSE "reaped"]
  /\ chld' = (chld \/ Running)

(* main reaches Monitor, and ends there if NotifyExit was waiting for it.  *)
ChildReady(c) ==
  /\ child[c] = "starting"
  /\ IF c \in leaving THEN Ends(c)
     ELSE child' = [child EXCEPT ![c] = "up"] /\ UNCHANGED chld
  /\ UNCHANGED <<parent, waits, left, leaving, queue, there>>

(* Mutant: the timer of the children is the faster one.                    *)
InTimeNever(c) == TRUE

(* While the parent takes beats both timers have the same period.          *)
InTime(c) == pm \in {"active", "monitor"} /\ c \in vec => queue[c] = 0

(* Mutant: only a full queue counts as a failure, not a removed one.       *)
SndOnlyFullFails(c) ==
  /\ child[c] \in {"starting", "up"} /\ c \notin leaving /\ InTime(c)
  /\ IF ~Full
     THEN /\ queue' = [queue EXCEPT ![c] = IF there THEN @ + 1 ELSE @]
          /\ left' = [left EXCEPT ![c] = Times]
          /\ UNCHANGED <<child, leaving, chld>>
     ELSE /\ left' = [left EXCEPT ![c] = @ - 1]
          /\ UNCHANGED queue
          /\ IF left[c] > 1 THEN UNCHANGED <<child, leaving, chld>>
             ELSE /\ leaving' = leaving \cup {c}
                  /\ IF child[c] = "up" THEN Ends(c) ELSE UNCHANGED <<child, chld>>
  /\ UNCHANGED <<parent, waits, there>>

(* SndHeartBeat: the queue may be gone or full.  Deactive in the timer's   *)
(* thread waits in NotifyExit until main is in Monitor.                    *)
SndHeartBeat(c) ==
  /\ child[c] \in {"starting", "up"} /\ c \notin leaving /\ InTime(c)
  /\ IF there /\ ~Full
     THEN /\ queue' = [queue EXCEPT ![c] = @ + 1]
          /\ left' = [left EXCEPT ![c] = Times]
          /\ UNCHANGED <<child, leaving, chld>>
     ELSE /\ left' = [left EXCEPT ![c] = @ - 1]
          /\ UNCHANGED queue
          /\ IF left[c] > 1 THEN UNCHANGED <<child, leaving, chld>>
             ELSE /\ leaving' = leaving \cup {c}
                  /\ IF child[c] = "up" THEN Ends(c) ELSE UNCHANGED <<child, chld>>
  /\ UNCHANGED <<parent, waits, there>>

ChildCrashes(c) ==
  /\ Alive(c) /\ Ends(c)
  /\ UNCHANGED <<parent, waits, left, leaving, queue, there>>
-----------------------------------------------------------------------------
(***************************************************************************)
(* The parent, visionRcm.                                                  *)
(***************************************************************************)
ParentReady ==
  /\ pm = "active" /\ ~inWait /\ pm' = "monitor"
  /\ UNCHANGED <<early, vec, times, todo, waits, chld, kids, queue, there>>

(* RcvHeartBeat, in the timer's thread.                                    *)
RcvHeartBeat ==
  /\ pm \in {"active", "monitor"}
  /\ times' = [c \in Children |->
                 IF c \notin vec THEN times[c]
                 ELSE IF queue[c] > 0 THEN Times ELSE times[c] - 1]
  /\ queue' = [c \in Children |-> IF c \in vec /\ queue[c] > 0 THEN queue[c] - 1
                                  ELSE queue[c]]
  /\ vec' = {c \in vec : times'[c] > 0}
  /\ UNCHANGED <<pm, early, todo, waits, chld, kids, there>>

(* SIGINT: Deactive in the handler, up to its loop.                        *)
SigInt ==
  /\ pm \in {"active", "monitor"} /\ ~inWait
  /\ pm' = "tell" /\ early' = (pm = "active") /\ todo' = vec
  /\ there' = FALSE /\ queue' = [c \in Children |-> 0]
  /\ UNCHANGED <<vec, times, waits, chld, kids>>

(* What a SIGINT does to a child: before its handler is installed it ends, *)
(* before Monitor it waits for its own lock.                               *)
Told(c) ==
  \/ ~Alive(c) /\ UNCHANGED child
  \/ Alive(c) /\ child[c] # "stuck"
     /\ child' = [child EXCEPT ![c] = "zombie"]
  \/ child[c] \in {"starting", "stuck"} /\ child' = [child EXCEPT ![c] = "stuck"]

(* popen: the shell sends the SIGINT and exits.                            *)
Popen(c) ==
  /\ pm = "tell" /\ ~inWait /\ c \in todo
  /\ todo' = todo \ {c} /\ pm' = "pclose"
  /\ Told(c)
  /\ shell' = TRUE /\ chld' = TRUE
  /\ UNCHANGED <<early, vec, times, inWait, waiters, left, leaving, queue, there>>

(* pclose: collects the shell, unless a handler has.                       *)
Pclose ==
  /\ pm = "pclose" /\ ~inWait
  /\ shell' = FALSE /\ pm' = "tell"
  /\ UNCHANGED <<early, vec, times, todo, inWait, waiters, chld, kids, queue, there>>

(* NotifyExit, the end of Monitor and of main.                             *)
NotifyExit ==
  /\ pm = "tell" /\ todo = {} /\ ~inWait
  /\ pm' = IF early THEN "stuck" ELSE "gone"
  /\ UNCHANGED <<early, vec, times, todo, waits, chld, kids, queue, there>>

(* SIGCHLD: the handler in main, or in another thread.                     *)
SigChld ==
  /\ Running /\ chld /\ chld' = FALSE
  /\ \/ ~inWait /\ inWait' = TRUE /\ UNCHANGED waiters
     \/ waiters < MaxThreads /\ waiters' = waiters + 1 /\ UNCHANGED inWait
  /\ UNCHANGED <<parent, shell, kids, queue, there>>

Zombies == {c \in Children : child[c] = "zombie"}

(* What wait returns with: one that has ended, or no child at all.         *)
Collected ==
  \/ shell /\ shell' = FALSE /\ UNCHANGED child
  \/ \E c \in Zombies : child' = [child EXCEPT ![c] = "reaped"] /\ UNCHANGED shell
  \/ ~shell /\ (\A c \in Children : child[c] = "reaped") /\ UNCHANGED <<shell, child>>

WaitReturns ==
  /\ Running /\ Collected
  /\ \/ inWait /\ inWait' = FALSE /\ UNCHANGED waiters
     \/ waiters > 0 /\ waiters' = waiters - 1 /\ UNCHANGED inWait
  /\ UNCHANGED <<parent, chld, left, leaving, queue, there>>

ParentCrashes ==
  /\ Running /\ pm' = "crashed"
  /\ UNCHANGED <<early, vec, times, todo, waits, chld, kids, queue, there>>

Deactive == (\E c \in Children : Popen(c)) \/ Pclose \/ NotifyExit

Next ==
  \/ \E c \in Children : ChildReady(c) \/ SndHeartBeat(c) \/ ChildCrashes(c)
  \/ ParentReady \/ RcvHeartBeat \/ SigInt \/ Deactive
  \/ SigChld \/ WaitReturns \/ ParentCrashes

Spec == Init /\ [][Next]_vars

(* Timers go on, signals are delivered and wait returns when it can.  The  *)
(* parent may wait for its key for ever before Monitor.                    *)
FairSpec ==
  /\ Spec
  /\ \A c \in Children : WF_vars(ChildReady(c)) /\ WF_vars(SndHeartBeat(c))
  /\ WF_vars(RcvHeartBeat) /\ WF_vars(Deactive)
  /\ WF_vars(SigChld) /\ WF_vars(WaitReturns)
-----------------------------------------------------------------------------
TypeOK ==
  /\ pm \in {"active", "monitor", "tell", "pclose", "gone", "stuck", "crashed"}
  /\ vec \subseteq Children /\ todo \subseteq Children
  /\ times \in [Children -> 0 .. Times] /\ left \in [Children -> 0 .. Times]
  /\ child \in [Children -> {"starting", "up", "stuck", "zombie", "reaped"}]
  /\ leaving \subseteq Children /\ waiters \in 0 .. MaxThreads
  /\ queue \in [Children -> 0 .. Capacity] /\ Cardinality(Beats) <= Capacity
  /\ {early, shell, chld, inWait, there} \subseteq BOOLEAN

Ended(c) == ~Alive(c) \/ child[c] = "stuck"

(***************************************************************************)
(* After a SIGINT or a crash of the parent the whole family ends, unless   *)
(* the SIGINT came before Monitor to one of them.  The handler of SIGCHLD  *)
(* stops main between two children; the child it has not told finds the    *)
(* queue removed and ends itself, and that wakes main.  After a crash the  *)
(* queue is still there: nobody reads it, and it fills up                  *)
(* (base_vision.cpp:10, :208, :219, :275, :284).                           *)
(***************************************************************************)
EveryoneEnds ==
  []<>(\/ pm \in {"active", "monitor"}
       \/ /\ \A c \in Children : Ended(c)
          /\ ~Running \/ early \/ \E c \in Children : child[c] = "stuck")

(***************************************************************************)
(* While the parent works a child gives up only if the parent has forgotten*)
(* one: the beats of a forgotten child that still runs are never taken and *)
(* fill the queue for all of them (base_vision.cpp:275, :312).             *)
(***************************************************************************)
GivesUpOnlyIfForgotten ==
  pm \in {"active", "monitor"} /\ leaving # {} => vec # Children
=============================================================================
