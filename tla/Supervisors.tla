---------------------------- MODULE Supervisors ----------------------------
(***************************************************************************)
(* What module Daemon leaves out of CVisionDaemon (visionSys-V2.0): a pass *)
(* in which execl fails, and a pass that is interrupted by SIGINT.         *)
(*                                                                         *)
(* When execl fails Restart returns 0 in the forked child too.  The child  *)
(* is then a second supervisor: it has a copy of the map and goes on with  *)
(* the rest of the pass.  fork copied no other thread, so no second pass   *)
(* follows, and nobody reads its heartbeats.                               *)
(*                                                                         *)
(* Deactive (base_vision.cpp:149-190) walks the same map without m_lock,   *)
(* sends each child a SIGINT and frees its PROC_INFO.  A beat is handled   *)
(* when it is sent here; Daemon has the queue, and failing popen and fork. *)
(***************************************************************************)
EXTENDS Integers, Sequences, FiniteSets

CONSTANTS
  Programs,    \* the children of visionDaemon in the configuration
  Null,        \* the NULL PROC_INFO*
  MaxUnrecv,   \* MAX_UNRECV_TIMES
  MaxRestart,  \* MAX_RESTART_TIMES
  MaxPid,      \* bound: fork fails after this many processes
  MaxFails     \* bound: how many execls fail

SupervisorsAssumption ==
  /\ IsFiniteSet(Programs) /\ Null \notin Programs
  /\ MaxUnrecv \in Nat /\ MaxRestart \in Nat /\ MaxFails \in Nat
  /\ MaxPid \in Nat /\ Cardinality(Programs) <= MaxPid

VARIABLES
  procs,       \* every process forked: [prog, state, by]; the index is its pid
  sup,         \* each supervisor: [map, info, pc, at]; the original is 0
  fails,       \* history: execls that failed
  deact,       \* Deactive in the original: [pc, at]
  known,       \* history: processes forked when Deactive began
  told,        \* the processes it sent a SIGINT
  freed,       \* the programs whose PROC_INFO it freed
  gone         \* the original ended

vars == <<procs, sup, fails, deact, known, told, freed, gone>>

Original == 0
NoKey == 0           \* the past-the-end iterator
Pids == DOMAIN procs

Instance(g, by) == [prog |-> g, state |-> "runs", by |-> by]

(* What kill -9 and waitpid leave.                                         *)
Dead(p) == [procs EXCEPT ![p].state = "dead"]

(* main in platform.cpp forked every child and AddProcInfo entered it.     *)
Init ==
  /\ procs \in [1 .. Cardinality(Programs) ->
                  {Instance(g, Original) : g \in Programs}]
  /\ \A p, q \in DOMAIN procs : procs[p] = procs[q] => p = q
  /\ LET pidOf(g) == CHOOSE p \in DOMAIN procs : procs[p].prog = g
     IN  sup = [s \in {Original} |->
                 [map |-> [p \in DOMAIN procs |-> procs[p].prog],
                  info |-> [g \in Programs |->
                              [pid |-> pidOf(g), times |-> 0, restarts |-> 0]],
                  pc |-> "idle", at |-> NoKey]]
  /\ fails = 0
  /\ deact = [pc |-> "no", at |-> NoKey] /\ known = 0
  /\ told = {} /\ freed = {} /\ gone = FALSE

(* The key of the map after k.                                             *)
NextKey(m, k) ==
  IF \A j \in DOMAIN m : j <= k THEN NoKey
  ELSE CHOOSE j \in DOMAIN m : j > k /\ \A l \in DOMAIN m : l > k => j <= l

(* ++itm, and the end of the pass behind the last entry.                   *)
MovedOn(S) ==
  LET k == NextKey(S.map, S.at)
  IN  [S EXCEPT !.at = k, !.pc = IF k = NoKey THEN "idle" ELSE "visit"]

OneMore(n) == IF n > MaxUnrecv THEN n ELSE n + 1
-----------------------------------------------------------------------------
(***************************************************************************)
(* The children.                                                           *)
(***************************************************************************)
Die(p) ==
  /\ procs[p].state = "runs"
  /\ procs' = Dead(p)
  /\ UNCHANGED <<sup, fails, deact, known, told, freed, gone>>

(* SendHeartMsg and ProcessHeartMsg, which m_lock keeps out of a pass.     *)
Beat(p) ==
  /\ procs[p].state = "runs"
  /\ ~gone /\ deact.pc = "no" /\ sup[Original].pc = "idle"
  /\ LET S == sup[Original]
         g == IF p \in DOMAIN S.map THEN S.map[p] ELSE Null
     IN  sup' = [sup EXCEPT ![Original] =
           IF g = Null
           THEN [S EXCEPT !.map = [k \in DOMAIN S.map \cup {p} |->
                                     IF k = p THEN Null ELSE S.map[k]]]
           ELSE [S EXCEPT !.info[g] = [pid |-> @.pid, times |-> 0, restarts |-> 0]]]
  /\ UNCHANGED <<procs, fails, deact, known, told, freed, gone>>
-----------------------------------------------------------------------------
(***************************************************************************)
(* A pass, in the original or in what is left of it in a copy.             *)
(***************************************************************************)
Alive(s) == IF s = Original THEN ~gone ELSE procs[s].state = "copy"

PassBegin ==
  /\ ~gone /\ deact.pc = "no" /\ sup[Original].pc = "idle"
  /\ sup' = [sup EXCEPT ![Original] = MovedOn(@)]
  /\ UNCHANGED <<procs, fails, deact, known, told, freed, gone>>

(* A NULL entry is dereferenced: SIGSEGV, and the handler exits.           *)
VisitNull(s) ==
  /\ Alive(s) /\ sup[s].pc = "visit" /\ sup[s].map[sup[s].at] = Null
  /\ IF s = Original THEN gone' = TRUE /\ UNCHANGED procs
     ELSE procs' = Dead(s) /\ UNCHANGED gone
  /\ UNCHANGED <<sup, fails, deact, known, told, freed>>

Lost(i) == i.times > MaxUnrecv /\ i.restarts < MaxRestart

(* times++, and KillProc when the child is lost.  waitpid of a copy, whose *)
(* child it is not, returns at once.                                       *)
Visit(s, g) ==
  /\ Alive(s) /\ sup[s].pc = "visit" /\ sup[s].map[sup[s].at] = g
  /\ LET S == [sup[s] EXCEPT !.info[g].times = OneMore(@)]
     IN  IF Lost(S.info[g])
         THEN /\ sup' = [sup EXCEPT ![s] = [S EXCEPT !.pc = "fork"]]
              /\ procs' = Dead(S.info[g].pid)
         ELSE /\ sup' = [sup EXCEPT ![s] = MovedOn(S)]
              /\ UNCHANGED procs
  /\ UNCHANGED <<fails, deact, known, told, freed, gone>>

(* Mutant: the new pid is not entered.                                     *)
ReplacedForgetsNew(S, g, p) ==
  MovedOn([S EXCEPT
    !.info[g] = [pid |-> p, times |-> 0, restarts |-> @.restarts + 1],
    !.map = [k \in DOMAIN S.map \ {S.at} |-> S.map[k]]])

(* What fork leaves in the parent: the entry moves to the new pid, and the *)
(* iterator on, to that pid in the end.                                    *)
Replaced(S, g, p) ==
  MovedOn([S EXCEPT
    !.info[g] = [pid |-> p, times |-> 0, restarts |-> @.restarts + 1],
    !.map = [k \in (DOMAIN S.map \cup {p}) \ {S.at} |->
               IF k = p THEN g ELSE S.map[k]]])

(* What a failed execl leaves in the child: the entry is entered again     *)
(* under the old pid, which only the parent has changed, and erased.       *)
Copied(S) ==
  MovedOn([S EXCEPT !.map = [k \in DOMAIN S.map \ {S.at} |-> S.map[k]]])

(* fork, and execl in the child.  A PROC_INFO that Deactive freed may      *)
(* still read as before.                                                   *)
Fork(s, g, execed) ==
  /\ Alive(s) /\ sup[s].pc = "fork"
  /\ g = procs[sup[s].at].prog
  /\ Len(procs) < MaxPid
  /\ execed \/ fails < MaxFails
  /\ LET p == Len(procs) + 1
         after == [sup EXCEPT ![s] = Replaced(@, g, p)]
     IN  IF execed
         THEN /\ procs' = Append(procs, Instance(g, s))
              /\ sup' = after
              /\ UNCHANGED fails
         ELSE /\ procs' = Append(procs, [Instance(g, s) EXCEPT !.state = "copy"])
              /\ sup' = [t \in DOMAIN sup \cup {p} |->
                           IF t = p THEN Copied(sup[s]) ELSE after[t]]
              /\ fails' = fails + 1
  /\ UNCHANGED <<deact, known, told, freed, gone>>

(* fork fails: Restart returns -1 and the entry stays.                     *)
ForkFails(s) ==
  /\ Alive(s) /\ sup[s].pc = "fork"
  /\ Len(procs) = MaxPid
  /\ sup' = [sup EXCEPT ![s] = MovedOn(@)]
  /\ UNCHANGED <<procs, fails, deact, known, told, freed, gone>>

(* The pass reads a PROC_INFO that is freed.                               *)
FaultInPass ==
  /\ ~gone /\ sup[Original].pc = "fork" /\ freed # {}
  /\ gone' = TRUE
  /\ UNCHANGED <<procs, sup, fails, deact, known, told, freed>>
-----------------------------------------------------------------------------
(***************************************************************************)
(* Deactive in the original.                                               *)
(***************************************************************************)
(* KillTimer: a pass under way goes on.                                    *)
Interrupt ==
  /\ ~gone /\ deact.pc = "no"
  /\ deact' = [pc |-> "walk", at |-> NoKey]
  /\ known' = Len(procs)
  /\ UNCHANGED <<procs, sup, fails, told, freed, gone>>

Walked(m, k) == NextKey(m, k)

(* kill -2, delete, NULL.  The pass may have erased the entry the walk is  *)
(* on, or put a freed PROC_INFO under a new pid: then the walk may also    *)
(* fault.                                                                  *)
Walk ==
  /\ ~gone /\ deact.pc = "walk"
  /\ LET S == sup[Original]
         k == Walked(S.map, deact.at)
         lost == deact.at # NoKey /\ deact.at \notin DOMAIN S.map
     IN  /\ deact' = [pc |-> IF k = NoKey THEN "walked" ELSE "walk", at |-> k]
         /\ told' = IF k = NoKey THEN told ELSE told \cup {k}
         /\ freed' = IF k = NoKey \/ S.map[k] = Null THEN freed
                     ELSE freed \cup {S.map[k]}
         /\ sup' = IF k = NoKey THEN sup
                   ELSE [sup EXCEPT ![Original].map[k] = Null]
         /\ gone' \in {FALSE} \cup
              (IF lost \/ (k # NoKey /\ S.map[k] \in freed)
               THEN {TRUE} ELSE {})
  /\ UNCHANGED <<procs, fails, known>>

(* CMT::Destory, NotifyExit, and main returns.                             *)
Exit ==
  /\ ~gone /\ deact.pc = "walked"
  /\ deact' = [deact EXCEPT !.pc = "left"]
  /\ gone' = TRUE
  /\ UNCHANGED <<procs, sup, fails, known, told, freed>>

PassStep(s) ==
  \/ VisitNull(s)
  \/ \E g \in Programs : Visit(s, g) \/ \E execed \in BOOLEAN : Fork(s, g, execed)
  \/ ForkFails(s)

Next ==
  \/ \E p \in Pids : Die(p) \/ Beat(p)
  \/ PassBegin
  \/ \E s \in DOMAIN sup : PassStep(s)
  \/ FaultInPass
  \/ Interrupt \/ Walk \/ Exit

Spec == Init /\ [][Next]_vars

(* The timer of the original fires again, supervisors go on, and an        *)
(* interrupted original comes to its end.                                  *)
Fairness ==
  /\ WF_vars(PassBegin \/ PassStep(Original))
  /\ \A s \in 1 .. MaxPid : WF_vars(s \in DOMAIN sup /\ PassStep(s))
  /\ WF_vars(Walk \/ Exit)

FairSpec == Spec /\ Fairness
-----------------------------------------------------------------------------
(***************************************************************************)
(* Properties.                                                             *)
(***************************************************************************)
TypeOK ==
  /\ \A p \in Pids : procs[p] \in
       [prog : Programs, state : {"runs", "copy", "dead"}, by : 0 .. MaxPid]
  /\ Len(procs) <= MaxPid
  /\ \A s \in DOMAIN sup :
       /\ sup[s].pc \in {"idle", "visit", "fork"}
       /\ sup[s].at \in DOMAIN sup[s].map \cup {NoKey}
       /\ \A k \in DOMAIN sup[s].map : sup[s].map[k] \in Programs \cup {Null}
       /\ sup[s].info \in [Programs -> [pid : Pids, times : 0 .. MaxUnrecv + 1,
                                        restarts : 0 .. MaxRestart]]
  /\ fails \in 0 .. MaxFails
  /\ deact.pc \in {"no", "walk", "walked", "left"} /\ deact.at \in 0 .. MaxPid
  /\ known \in 0 .. MaxPid /\ told \subseteq Pids /\ freed \subseteq Programs
  /\ gone \in BOOLEAN

(* What a copy does to its map and to its children leaves the original     *)
(* with one entry of every program, under the pid it started last.         *)
OriginalKeepsAll ==
  deact.pc = "no" =>
    \A g \in Programs :
      {k \in DOMAIN sup[Original].map : sup[Original].map[k] = g}
        = {sup[Original].info[g].pid}

Running(g) == {p \in Pids : procs[p].prog = g /\ procs[p].state = "runs"}

(* The original never starts a program that runs already: of two instances *)
(* one was started by a copy.                                              *)
TwiceOnlyByCopies ==
  \A g \in Programs : \A p, q \in Running(g) :
    p # q => procs[p].by # Original \/ procs[q].by # Original

(* A beat of a process the map does not know makes the NULL entry that     *)
(* ends the original at its next pass.  With a queue that holds no late    *)
(* beats only a copy's child sends one.                                    *)
UnknownOnlyByCopies ==
  deact.pc = "no" =>
    \A k \in DOMAIN sup[Original].map :
      sup[Original].map[k] = Null => procs[k].by # Original

IsCopy(p) ==
  p \in Pids /\ procs[p].state = "copy" /\ procs[p].by = Original

(* A copy is a child that never beats: the original kills it and starts    *)
(* the program again, unless its budget is spent.                          *)
CopiesAreReplaced ==
  \A p \in 1 .. MaxPid :
    []<>(\/ ~IsCopy(p) \/ gone \/ Len(procs) = MaxPid
         \/ sup[Original].info[procs[p].prog].restarts = MaxRestart)

(* Deactive without m_lock still tells every child that was there when it  *)
(* began, copies' children excepted.                                       *)
TellsTheKnown ==
  deact.pc = "left" =>
    \A p \in 1 .. known :
      procs[p].state = "runs" /\ procs[p].by = Original => p \in told
=============================================================================
