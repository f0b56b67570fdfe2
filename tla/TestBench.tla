----------------------------- MODULE TestBench -----------------------------
(***************************************************************************)
(* The Windows test bench (AutoTest/src): a dialog starts the algorithms   *)
(* of a set of DLLs over an input file.  CFlowCtrl decides which results   *)
(* of earlier tests still count, the guard thread of CTestDllBox runs one  *)
(* stage of DLLs after the other, each DLL in a thread of its own          *)
(* (CTestDllThread), and a timer of the dialog asks for the progress.      *)
(*                                                                         *)
(* A DLL of stage k > 1 works on every result of stage k - 1; a result is  *)
(* named by its path, the sequence of the DLLs that made it.  What the     *)
(* creation times tell is kept with each result: whether it is newer than  *)
(* its DLL (own) and than the input file (input).                          *)
(***************************************************************************)
EXTENDS Integers, Sequences, FiniteSets, SequencesExt

CONSTANTS
  Stages,     \* the sequence of the stages, each a sequence of the tags of its DLLs
  MaxFailed   \* bound: threads that could not be created

ASSUME TestBenchAssumption ==
  /\ Stages \in Seq(Seq(STRING) \ {<<>>}) \ {<<>>}
  /\ \A j, k \in DOMAIN Stages : j # k => ToSet(Stages[j]) \cap ToSet(Stages[k]) = {}
  /\ MaxFailed \in Nat

Dlls == UNION {ToSet(Stages[k]) : k \in DOMAIN Stages}
Id(d) == CHOOSE k \in DOMAIN Stages : d \in ToSet(Stages[k])
Paths == UNION {{p \in [1 .. n -> Dlls] : \A i \in 1 .. n : Id(p[i]) = i} :
                  n \in DOMAIN Stages}
PathsOf(d) == {p \in Paths : Last(p) = d}

VARIABLES
  file,    \* the results on the disk
  nRun,    \* of each DLL's tag: 1 runs, 0 does not, -1 could not be loaded
  result,  \* nTestResult of each path: "todo" 0, "ok", "zero" (0 ms), "bad" -1
  reused,  \* history: the paths ExecutionJudge took for done, until something is replaced
  bRunning, guard, oldId,  \* m_bRunning; the guard: "off", "reap", "add"; its oldId
  vThread, at, on,  \* m_pVThread; where the thread of a DLL is, and in which test
  shown,   \* the button: "execute" or "stop", under "stop" the timer runs
  said,    \* m_ProgressDesc: "", "done", "stopped"
  failed,  \* how many threads could not be created
  hurt     \* history: a test was stopped, or something in it failed

vars == <<file, nRun, result, reused, bRunning, guard, oldId, vThread, at, on, shown, said,
          failed, hurt>>
box == <<bRunning, guard, oldId>>
dialog == <<shown, said>>
history == <<reused, hurt>>

NoFile == [there |-> FALSE, whole |-> FALSE, fresh |-> FALSE, own |-> FALSE, input |-> FALSE]
None == <<>>

Init ==
  /\ file = [p \in Paths |-> NoFile] /\ nRun = [d \in Dlls |-> 0]
  /\ result = [p \in Paths |-> "todo"] /\ reused = {}
  /\ bRunning = FALSE /\ guard = "off" /\ oldId = 0 /\ vThread = {}
  /\ at = [d \in Dlls |-> "none"] /\ on = [d \in Dlls |-> None]
  /\ shown = "execute" /\ said = "" /\ failed = 0 /\ hurt = FALSE
-----------------------------------------------------------------------------
(* ExecutionJudge: the first tag looks at the input file's time, the       *)
(* others only at their DLL's and whether their input is there.  Tags are  *)
(* judged in order, and a result that does not count is deleted.           *)
IsFirst(p) == p = <<Stages[1][1]>>
Newer(p) == file[p].own /\ (IsFirst(p) => file[p].input)

StaysFrom(deletes) ==
  LET stays[p \in Paths] ==
        /\ file[p].there
        /\ Newer(p) \/ ~deletes \/ (Len(p) > 1 /\ ~stays[Front(p)])
  IN {p \in Paths : stays[p]}

(* Mutant: results that do not count are left where they are.              *)
StaysAll == StaysFrom(FALSE)

Stays == StaysFrom(TRUE)

Counts == {p \in Stays : Newer(p) /\ (Len(p) > 1 => Front(p) \in Stays)}

(* OnBnClickedBtnExecute, StartTest of CFlowCtrl and of CTestDllBox, by a  *)
(* user who waits for the threads to end: the tags are cleared before the  *)
(* box refuses to start, while the threads still work on them.             *)
Execute ==
  /\ shown = "execute" /\ guard = "off" /\ \A d \in Dlls : at[d] = "none"
  /\ file' = [p \in Paths |-> IF p \in Stays THEN file[p] ELSE NoFile]
  /\ reused' = Counts
  /\ result' = [p \in Paths |-> IF p \in Counts THEN "ok" ELSE "todo"]
  /\ nRun' = [d \in Dlls |-> 0]
  /\ bRunning' = TRUE /\ guard' = "reap" /\ oldId' = 0 /\ vThread' = {}
  /\ shown' = "stop" /\ said' = ""
  /\ UNCHANGED <<at, on, failed, hurt>>

(* OnBnClickedBtnStop, EndTest.                                            *)
StopTest ==
  /\ shown = "stop"
  /\ bRunning' = FALSE /\ shown' = "execute" /\ said' = "stopped"
  /\ hurt' = (hurt \/ guard # "off")
  /\ UNCHANGED <<file, nRun, result, guard, oldId, vThread, at, on, failed, reused>>

(* GetProgressImp, where 0 stands for a test that is not over.             *)
ProgressFrom(looks, d) ==
  IF nRun[d] = 1 /\ looks THEN 0
  ELSE IF nRun[d] = -1 THEN -1
  ELSE IF \E p \in PathsOf(d) : result[p] \in {"todo", "zero"} THEN 0
  ELSE 1

Progress(d) == ProgressFrom(TRUE, d)

OnTimer ==
  /\ shown = "stop" /\ \A d \in Dlls : Progress(d) # 0
  /\ shown' = "execute" /\ said' = "done"
  /\ UNCHANGED <<file, nRun, result, box, vThread, at, on, failed, history>>
-----------------------------------------------------------------------------
(* The guard thread, Run of CTestDllBox.                                   *)

(* Mutant: a stage is over when one of its threads is.                     *)
EmptySoon == vThread = {} \/ \E d \in Dlls : Id(d) = oldId /\ nRun[d] # 1

Empty == vThread = {}

(* Mutant: the results are looked at instead.                              *)
EndedSoon(d) == nRun[d] # 1 \/ \E p \in PathsOf(d) : result[p] # "todo"

Ended(d) == nRun[d] # 1

Reap ==
  /\ guard = "reap" /\ bRunning
  /\ vThread' = {d \in vThread : ~Ended(d)}
  /\ oldId' = IF vThread = {} THEN oldId ELSE Id(CHOOSE d \in vThread : TRUE)
  /\ guard' = "add"
  /\ UNCHANGED <<file, nRun, result, bRunning, at, on, dialog, failed, history>>

(* A thread that could not be created keeps nRun 1.                        *)
Add ==
  /\ guard = "add" /\ guard' = "reap"
  /\ IF ~Empty THEN UNCHANGED <<nRun, bRunning, vThread, at, failed, hurt>>
     ELSE IF oldId = Len(Stages)
     THEN bRunning' = FALSE /\ UNCHANGED <<nRun, vThread, at, failed, hurt>>
     ELSE LET new == {d \in Dlls : Id(d) = oldId + 1} IN
          \E ok \in SUBSET new :
            /\ failed + Cardinality(new \ ok) <= MaxFailed
            /\ failed' = failed + Cardinality(new \ ok) /\ hurt' = (hurt \/ ok # new)
            /\ nRun' = [d \in Dlls |-> IF d \in new THEN 1 ELSE nRun[d]]
            /\ vThread' = vThread \cup ok
            /\ at' = [d \in Dlls |-> IF d \in ok THEN "load" ELSE at[d]]
            /\ UNCHANGED bRunning
  /\ UNCHANGED <<file, result, oldId, on, dialog, reused>>

Left == [d \in Dlls |-> IF d \in vThread THEN None ELSE on[d]]

(* The end of Run: Destory terminates what still runs.                     *)
Destory ==
  /\ guard = "reap" /\ ~bRunning
  /\ guard' = "off" /\ vThread' = {}
  /\ at' = [d \in Dlls |-> IF d \in vThread THEN "none" ELSE at[d]]
  /\ on' = Left
  /\ UNCHANGED <<file, nRun, result, bRunning, oldId, dialog, failed, history>>

Guard == Reap \/ Add \/ Destory
-----------------------------------------------------------------------------
(* A thread of a DLL, Run of CTestDllThread.                               *)

(* loadLibrary: the library is missing, or has no CreateInstance, which is *)
(* told before the library is given back.                                  *)
Load(d) ==
  /\ at[d] = "load"
  /\ \/ at' = [at EXCEPT ![d] = "next"] /\ UNCHANGED <<nRun, hurt>>
     \/ /\ \E then \in {"none", "drop"} : at' = [at EXCEPT ![d] = then]
        /\ nRun' = [nRun EXCEPT ![d] = -1] /\ hurt' = TRUE
  /\ UNCHANGED <<file, result, on>>

Drop(d) ==
  at[d] = "drop" /\ at' = [at EXCEPT ![d] = "none"] /\ UNCHANGED <<file, nRun, result, on, hurt>>

(* StartTest opens its input, but for the first stage before it creates    *)
(* its result.  Writing over a result keeps its creation time.             *)
Begin(d) ==
  \E p \in PathsOf(d) :
    /\ at[d] = "next" /\ result[p] = "todo"
    /\ IF Len(p) > 1 /\ ~file[Front(p)].there
       THEN result' = [result EXCEPT ![p] = "bad"] /\ UNCHANGED <<file, at, on>>
       ELSE /\ file' = [file EXCEPT ![p] =
                 [there |-> TRUE, whole |-> FALSE, fresh |-> FALSE,
                  own |-> @.there => @.own,
                  input |-> IsFirst(p) /\ (@.there => @.input)]]
            /\ at' = [at EXCEPT ![d] = "test"] /\ on' = [on EXCEPT ![d] = p]
            /\ UNCHANGED result
    /\ UNCHANGED <<nRun, hurt>>

(* A first stage returns the average of its times, which can be 0 ms, the  *)
(* next one their sum.                                                     *)
Finish(d) ==
  /\ at[d] = "test"
  /\ \E r \in {"ok"} \cup (IF Id(d) = 1 THEN {"zero"} ELSE {}) :
       result' = [result EXCEPT ![on[d]] = r]
  /\ LET p == on[d]
         from == IF Len(p) = 1 THEN [whole |-> TRUE, fresh |-> TRUE] ELSE file[Front(p)]
     IN file' = [file EXCEPT ![p].whole = from.whole, ![p].fresh = from.fresh]
  /\ at' = [at EXCEPT ![d] = "next"] /\ on' = [on EXCEPT ![d] = None]
  /\ UNCHANGED <<nRun, hurt>>

(* ProcessVideo cannot open the input file; its result is there, empty.    *)
FailTest(d) ==
  /\ at[d] = "test" /\ Id(d) = 1
  /\ result' = [result EXCEPT ![on[d]] = "bad"] /\ hurt' = TRUE
  /\ at' = [at EXCEPT ![d] = "next"] /\ on' = [on EXCEPT ![d] = None]
  /\ UNCHANGED <<file, nRun>>

AllTested(d) == \A p \in PathsOf(d) : result[p] # "todo"

EndRun(d) ==
  /\ at[d] = "next" /\ AllTested(d)
  /\ at' = [at EXCEPT ![d] = "none"] /\ nRun' = [nRun EXCEPT ![d] = 0]
  /\ UNCHANGED <<file, result, on, hurt>>

Thread(d) ==
  /\ Load(d) \/ Drop(d) \/ Begin(d) \/ Finish(d) \/ FailTest(d) \/ EndRun(d)
  /\ UNCHANGED <<box, vThread, dialog, failed, reused>>
-----------------------------------------------------------------------------
(* Between two tests the user replaces the input file or a DLL.            *)
ReplaceInput ==
  /\ guard = "off" /\ shown = "execute"
  /\ reused' = {}
  /\ file' = [p \in Paths |-> [file[p] EXCEPT !.fresh = FALSE, !.input = FALSE]]
  /\ UNCHANGED <<nRun, result, box, vThread, at, on, dialog, failed, hurt>>

ReplaceDll(d) ==
  /\ guard = "off" /\ shown = "execute"
  /\ reused' = {}
  /\ file' = [p \in Paths |->
       [file[p] EXCEPT !.fresh = @ /\ d \notin ToSet(p), !.own = @ /\ Last(p) # d]]
  /\ UNCHANGED <<nRun, result, box, vThread, at, on, dialog, failed, hurt>>

Next ==
  \/ Execute \/ StopTest \/ OnTimer \/ Guard \/ ReplaceInput
  \/ \E d \in Dlls : Thread(d) \/ ReplaceDll(d)

Spec == Init /\ [][Next]_vars
-----------------------------------------------------------------------------
Files == [there : BOOLEAN, whole : BOOLEAN, fresh : BOOLEAN, own : BOOLEAN, input : BOOLEAN]

TypeOK ==
  /\ file \in [Paths -> Files] /\ nRun \in [Dlls -> {-1, 0, 1}]
  /\ result \in [Paths -> {"todo", "ok", "zero", "bad"}] /\ reused \subseteq Paths
  /\ oldId \in 0 .. Len(Stages) /\ vThread \subseteq Dlls /\ failed \in 0 .. MaxFailed
  /\ at \in [Dlls -> {"none", "load", "drop", "next", "test"}] /\ on \in [Dlls -> Paths \cup {None}]
  /\ \A d \in Dlls : IF at[d] = "test" THEN on[d] \in PathsOf(d) ELSE on[d] = None
  /\ bRunning \in BOOLEAN /\ guard \in {"off", "reap", "add"}
  /\ shown \in {"execute", "stop"} /\ said \in {"", "done", "stopped"} /\ hurt \in BOOLEAN

(***************************************************************************)
(* A DLL tests only when those of the stages before it are over, so that   *)
(* its inputs are not written any more (TestDllBox.cpp:97).                *)
(***************************************************************************)
StagesInOrder ==
  \A d, e \in Dlls :
    at[d] \in {"next", "test"} /\ Id(e) < Id(d) => at[e] \in {"none", "drop"}

(***************************************************************************)
(* The guard deletes the object of a thread that goes on only when the     *)
(* library it gives back had no CreateInstance (TestDllBox.cpp:80,         *)
(* TestDllThread.cpp:98).                                                  *)
(***************************************************************************)
DeletedWhenOver == \A d \in Dlls \ vThread : at[d] \in {"none", "drop"}

(***************************************************************************)
(* As long as nothing failed and nobody stopped a test, what counts as     *)
(* done is whole, and made from the present input and DLLs but for two     *)
(* exceptions: results of other DLLs than the first of the first stage,    *)
(* whose age is not compared with the input's, and results two stages      *)
(* behind one that was deleted (FlowCtrl.cpp:297-357), which an instance   *)
(* of two stages does not have.                                            *)
(***************************************************************************)
ReusedIsGood ==
  ~hurt => \A p \in reused :
    file[p].whole /\ (file[p].fresh \/ p[1] # Stages[1][1] \/ Len(p) > 2)

(***************************************************************************)
(* When the dialog says that the test is over, none goes on                *)
(* (AutoBinDlg.cpp:515).                                                   *)
(***************************************************************************)
DoneMeansDone == said = "done" => \A d \in Dlls : at[d] # "test"

(***************************************************************************)
(* When the guard has ended by itself, every DLL was tested on all its     *)
(* inputs, but for those that could not be loaded or started               *)
(* (TestDllBox.cpp:99-141).                                                *)
(***************************************************************************)
EndedIsComplete ==
  guard = "off" /\ shown = "stop" => \A d \in Dlls :
    (nRun[d] = 0 => \A p \in PathsOf(d) : result[p] # "todo") /\ (nRun[d] = 1 => failed > 0)

(***************************************************************************)
(* The guard waits only for threads that run or tell that they have ended, *)
(* so that it comes to its end, whatever fails (TestDllBox.cpp:72, :80).   *)
(***************************************************************************)
WaitsForTheLiving == \A d \in vThread : at[d] # "none" \/ Ended(d)

(***************************************************************************)
(* The course of a test: stage after stage, to the end, which the dialog   *)
(* tells neither too early nor wrongly.                                    *)
(***************************************************************************)
StagesRight == TypeOK /\ StagesInOrder /\ DoneMeansDone /\ EndedIsComplete

(***************************************************************************)
(* The guard and the thread objects: none is deleted too early, and the    *)
(* guard waits for none in vain.                                           *)
(***************************************************************************)
ThreadsLeave == DeletedWhenOver /\ WaitsForTheLiving
=============================================================================
