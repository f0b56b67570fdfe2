------------------------------- MODULE Daemon ------------------------------
(***************************************************************************)
(* CVisionDaemon (src/proc/visionDaemon/visionDaemon.cpp of                *)
(* visionSys-V2.0): the supervisor.  Every 200 ms its timer thread makes a *)
(* pass over m_mapProcInfo and replaces each child that was silent for     *)
(* more than MAX_UNRECV_TIMES passes, MAX_RESTART_TIMES times at most      *)
(* without a heartbeat.  Its message thread takes the heartbeats from the  *)
(* kernel queue.  m_lock makes a pass and the handling of a beat exclude   *)
(* each other; the children exclude nothing.                               *)
(*                                                                         *)
(* The map is keyed by pid, and operator[] inserts a NULL PROC_INFO when   *)
(* the beat of an unknown pid is handled.  A pass inserts while it         *)
(* iterates, so a child started by a pass is visited again by that pass.   *)
(*                                                                         *)
(* m_code and PROC_INFO.code are left out: SendAlarm, which alone reads    *)
(* them, is commented out.  execl is taken to succeed, and pids to grow.   *)
(***************************************************************************)
EXTENDS Integers, Sequences, FiniteSets

CONSTANTS
  Programs,    \* the children of visionDaemon in the configuration
  Null,        \* the NULL PROC_INFO*
  MaxUnrecv,   \* MAX_UNRECV_TIMES
  MaxRestart,  \* MAX_RESTART_TIMES
  QueueCap,    \* how many beats the kernel queue takes
  MaxPid,      \* bound: fork fails after this many processes
  MaxFails     \* bound: how many popens and forks fail

ASSUME DaemonAssumption ==
  /\ IsFiniteSet(Programs)
  /\ Null \notin Programs
  /\ MaxUnrecv \in Nat /\ MaxRestart \in Nat
  /\ QueueCap \in Nat
  /\ MaxPid \in Nat /\ Cardinality(Programs) <= MaxPid
  /\ MaxFails \in Nat

VARIABLES
  procMap,     \* m_mapProcInfo: pid -> the program whose PROC_INFO it is, or Null
  info,        \* the PROC_INFO of each program: [pid, times, restarts]
  pass,        \* the timer thread: [pc, at], at the key its iterator is on
  crashed,     \* a NULL PROC_INFO was dereferenced
  progOf,      \* the program of every process started so far; the index is its pid
  living,      \* the pids of the children that run
  beats,       \* the pids whose HEART_BIT is in the kernel queue, in order
  fails,       \* history: popens and forks that failed
  silent,      \* history: passes begun since a beat of the program, or its start
  spent        \* history: starts of the program since a beat of it

daemon == <<procMap, info, pass, crashed>>
children == <<progOf, living>>
history == <<fails, silent, spent>>
vars == <<daemon, children, beats, history>>

Pids == 1 .. MaxPid
NoKey == 0     \* the past-the-end iterator

Idle == [pc |-> "idle", at |-> NoKey]

(* ++itm: on to the next pid of the map, or pthread_mutex_unlock at its    *)
(* end.                                                                    *)
MoveOn(m, k) ==
  \/ /\ \A j \in DOMAIN m : j <= k
     /\ pass' = Idle
  \/ \E j \in DOMAIN m :
       /\ j > k
       /\ \A l \in DOMAIN m : l > k => j <= l
       /\ pass' = [pc |-> "visit", at |-> j]

(* times only matters up to the first value above MAX_UNRECV_TIMES.        *)
OneMore(n) == IF n > MaxUnrecv THEN n ELSE n + 1

(* main in platform.cpp forked every child and AddProcInfo entered it.     *)
Init ==
  /\ progOf \in [1 .. Cardinality(Programs) -> Programs]
  /\ \A p, q \in DOMAIN progOf : progOf[p] = progOf[q] => p = q
  /\ info \in [Programs -> [pid : DOMAIN progOf, times : {0}, restarts : {0}]]
  /\ \A g \in Programs : progOf[info[g].pid] = g
  /\ procMap = progOf
  /\ living = DOMAIN progOf
  /\ pass = Idle
  /\ crashed = FALSE
  /\ beats = <<>>
  /\ fails = 0
  /\ silent = [g \in Programs |-> 0]
  /\ spent = [g \in Programs |-> 0]
-----------------------------------------------------------------------------
(***************************************************************************)
(* The children.                                                           *)
(***************************************************************************)
(* SendHeartMsg: a full queue loses the beat (IPC_NOWAIT).                 *)
Beat(p) ==
  /\ p \in living
  /\ Len(beats) < QueueCap
  /\ beats' = Append(beats, p)
  /\ UNCHANGED <<daemon, children, history>>

Die(p) ==
  /\ p \in living
  /\ living' = living \ {p}
  /\ UNCHANGED <<daemon, progOf, beats, history>>
-----------------------------------------------------------------------------
(***************************************************************************)
(* ProcessHeartMsg in the message thread.                                  *)
(***************************************************************************)
Answered(i) == [pid |-> i.pid, times |-> 0, restarts |-> 0]

HandleBeat ==
  /\ ~crashed
  /\ pass.pc = "idle"
  /\ beats # <<>>
  /\ beats' = Tail(beats)
  /\ LET p == Head(beats) IN
       IF p \in DOMAIN procMap
       THEN LET g == procMap[p] IN
              /\ info' = IF g = Null THEN info
                         ELSE [info EXCEPT ![g] = Answered(@)]
              /\ silent' = IF g = Null THEN silent ELSE [silent EXCEPT ![g] = 0]
              /\ spent' = IF g = Null THEN spent ELSE [spent EXCEPT ![g] = 0]
              /\ UNCHANGED procMap
       ELSE /\ procMap' = [k \in DOMAIN procMap \cup {p} |->
                             IF k = p THEN Null ELSE procMap[k]]
            /\ UNCHANGED <<info, silent, spent>>
  /\ UNCHANGED <<pass, crashed, children, fails>>
-----------------------------------------------------------------------------
(***************************************************************************)
(* Daemon in the timer thread.                                             *)
(***************************************************************************)
(* The timer fires; Daemon takes m_lock.                                   *)
PassBegin ==
  /\ ~crashed
  /\ pass.pc = "idle"
  /\ MoveOn(procMap, NoKey)
  /\ silent' = [g \in Programs |-> OneMore(silent[g])]
  /\ UNCHANGED <<procMap, info, crashed, children, beats, fails, spent>>

Visiting(g) == ~crashed /\ pass.pc = "visit" /\ procMap[pass.at] = g

(* Mutant: <= for < in the test of restart_times.                          *)
LostOffByOne(i) == i.times > MaxUnrecv /\ i.restarts <= MaxRestart

(* times > MAX_UNRECV_TIMES && restart_times < MAX_RESTART_TIMES           *)
Lost(i) == i.times > MaxUnrecv /\ i.restarts < MaxRestart

(* The test for NULL covers times++ only: the next line dereferences.      *)
VisitNull ==
  /\ Visiting(Null)
  /\ crashed' = TRUE
  /\ UNCHANGED <<procMap, info, pass, children, beats, history>>

(* times++, and the child is not lost.                                     *)
VisitKeep(g) ==
  /\ Visiting(g)
  /\ info' = [info EXCEPT ![g].times = OneMore(@)]
  /\ ~Lost(info'[g])
  /\ MoveOn(procMap, pass.at)
  /\ UNCHANGED <<procMap, crashed, children, beats, history>>

(* times++, the child is lost, and KillProc's "kill -9" ends it.           *)
VisitKill(g) ==
  /\ Visiting(g)
  /\ info' = [info EXCEPT ![g].times = OneMore(@)]
  /\ Lost(info'[g])
  /\ living' = living \ {info[g].pid}
  /\ pass' = [pass EXCEPT !.pc = "wait"]
  /\ UNCHANGED <<procMap, crashed, progOf, beats, history>>

(* The same when popen fails: nobody is killed.                            *)
VisitKillFails(g) ==
  /\ Visiting(g)
  /\ fails < MaxFails
  /\ info' = [info EXCEPT ![g].times = OneMore(@)]
  /\ Lost(info'[g])
  /\ pass' = [pass EXCEPT !.pc = "wait"]
  /\ fails' = fails + 1
  /\ UNCHANGED <<procMap, crashed, children, beats, silent, spent>>

(* Mutant: KillProc does not wait for the child to be dead.                *)
WaitSkipped(g) ==
  /\ ~crashed /\ pass.pc = "wait" /\ procMap[pass.at] = g
  /\ pass' = [pass EXCEPT !.pc = "fork"]
  /\ UNCHANGED <<procMap, info, crashed, children, beats, history>>

(* waitpid in KillProc returns only when the child is dead.                *)
Wait(g) ==
  /\ ~crashed
  /\ pass.pc = "wait"
  /\ procMap[pass.at] = g
  /\ info[g].pid \notin living
  /\ pass' = [pass EXCEPT !.pc = "fork"]
  /\ UNCHANGED <<procMap, info, crashed, children, beats, history>>

(* Mutant: times = 0 forgotten.                                            *)
RestartedKeepsTimes(i, p) ==
  [pid |-> p, times |-> i.times, restarts |-> i.restarts + 1]

(* Restart sets pid and times and counts; the rest of PROC_INFO stays.     *)
Restarted(i, p) == [pid |-> p, times |-> 0, restarts |-> i.restarts + 1]

(* Mutant: the old entry is not erased.                                    *)
RekeyedKeepsOld(m, old, new) ==
  [k \in DOMAIN m \cup {new} |-> IF k = new THEN m[old] ELSE m[k]]

(* m_mapProcInfo[new pid] = pProcInfo; erase(itm++)                        *)
Rekeyed(m, old, new) ==
  [k \in (DOMAIN m \cup {new}) \ {old} |-> IF k = new THEN m[old] ELSE m[k]]

Fork(g) ==
  /\ ~crashed
  /\ pass.pc = "fork"
  /\ procMap[pass.at] = g
  /\ LET p == Len(progOf) + 1 IN
       /\ p \in Pids
       /\ info' = [info EXCEPT ![g] = Restarted(@, p)]
       /\ procMap' = Rekeyed(procMap, pass.at, p)
       /\ progOf' = Append(progOf, g)
       /\ living' = living \cup {p}
  /\ MoveOn(procMap', pass.at)
  /\ silent' = [silent EXCEPT ![g] = 0]
  /\ spent' = [spent EXCEPT ![g] = @ + 1]
  /\ UNCHANGED <<crashed, beats, fails>>

(* Mutant: the entry is erased although Restart failed.                    *)
ForkFailsErases(g) ==
  /\ ~crashed /\ pass.pc = "fork" /\ procMap[pass.at] = g
  /\ IF Len(progOf) = MaxPid
     THEN UNCHANGED fails
     ELSE fails < MaxFails /\ fails' = fails + 1
  /\ MoveOn(procMap, pass.at)
  /\ procMap' = [k \in DOMAIN procMap \ {pass.at} |-> procMap[k]]
  /\ UNCHANGED <<info, crashed, children, beats, silent, spent>>

(* Restart returns -1: the entry keeps the pid of the dead child.          *)
ForkFails(g) ==
  /\ ~crashed
  /\ pass.pc = "fork"
  /\ procMap[pass.at] = g
  /\ IF Len(progOf) = MaxPid
     THEN UNCHANGED fails
     ELSE fails < MaxFails /\ fails' = fails + 1
  /\ MoveOn(procMap, pass.at)
  /\ UNCHANGED <<procMap, info, crashed, children, beats, silent, spent>>

DaemonStep(g) ==
  VisitKeep(g) \/ VisitKill(g) \/ VisitKillFails(g)
  \/ Wait(g) \/ Fork(g) \/ ForkFails(g)

Next ==
  \/ \E p \in Pids : Beat(p) \/ Die(p)
  \/ HandleBeat
  \/ PassBegin
  \/ VisitNull
  \/ \E g \in Programs : DaemonStep(g)

Spec == Init /\ [][Next]_vars

(* The timer thread goes on, and the timer fires again.                    *)
Fairness == WF_vars(PassBegin \/ VisitNull \/ \E g \in Programs : DaemonStep(g))

FairSpec == Spec /\ Fairness
-----------------------------------------------------------------------------
(***************************************************************************)
(* Properties.                                                             *)
(***************************************************************************)
TypeOK ==
  /\ DOMAIN procMap \in SUBSET Pids
  /\ \A k \in DOMAIN procMap : procMap[k] \in Programs \cup {Null}
  /\ info \in [Programs -> [pid : Pids, times : 0 .. MaxUnrecv + 1,
                            restarts : 0 .. MaxRestart]]
  /\ pass \in [pc : {"idle", "visit", "wait", "fork"}, at : 0 .. MaxPid]
  /\ crashed \in BOOLEAN
  /\ progOf \in Seq(Programs) /\ Len(progOf) <= MaxPid
  /\ living \in SUBSET Pids
  /\ beats \in Seq(Pids)
  /\ fails \in 0 .. MaxFails
  /\ silent \in [Programs -> 0 .. MaxUnrecv + 1]
  /\ spent \in [Programs -> Nat]

(* Two instances of a program never run together: the second one would     *)
(* clear the shared memory the first one works in.  It holds although kill *)
(* may fail, because waitpid then holds the pass back.                     *)
OneInstance ==
  \A p, q \in living : progOf[p] = progOf[q] => p = q

(* Every program keeps exactly one entry, under the pid of the process     *)
(* started last, whatever beats insert and passes rekey meanwhile.         *)
Supervised ==
  \A g \in Programs :
    /\ {k \in DOMAIN procMap : procMap[k] = g} = {info[g].pid}
    /\ progOf[info[g].pid] = g
    /\ \A p \in DOMAIN progOf : progOf[p] = g => p <= info[g].pid

(* A NULL entry stands for a process that was killed: a beat sent before.  *)
NullOnlyForDead ==
  \A k \in DOMAIN procMap : procMap[k] = Null => k \notin living

(* The map names every process started last, and no other that lives; the  *)
(* counts kept of them stay within their limits.                           *)
MapIsRight == TypeOK /\ Supervised /\ NullOnlyForDead

(* No child is given up before MAX_UNRECV_TIMES passes began without a     *)
(* beat, counted from its start: a child started by a pass is visited      *)
(* twice by that pass at once and still gets them.                         *)
SilentBeforeKill ==
  pass.pc \in {"wait", "fork"} => silent[procMap[pass.at]] >= MaxUnrecv

(* A program is started at most MAX_RESTART_TIMES times without a beat.    *)
BudgetRespected == \A g \in Programs : spent[g] <= MaxRestart

(* A child is killed only when it was silent for long enough, and not more *)
(* often than it may.                                                      *)
KillsOnlySilent == SilentBeforeKill /\ BudgetRespected

(* A child that died is replaced, unless its budget is spent, the daemon   *)
(* crashed, or it waits for a child it failed to kill.                     *)
DeadIsReplaced ==
  \A p \in Pids, g \in Programs :
    []<>(\/ info[g].pid # p \/ p \in living
         \/ info[g].restarts = MaxRestart
         \/ crashed
         \/ pass.pc = "wait" /\ info[procMap[pass.at]].pid \in living
         \/ Len(progOf) = MaxPid)

(* The guard of visionDaemon.cpp:59 says that a NULL entry is harmless.    *)
NullIsHarmless == ~crashed
=============================================================================
