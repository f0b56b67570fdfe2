---------------------------- MODULE Supervision ----------------------------
(***************************************************************************)
(* The supervisor of module Daemon (its own variables) and what surrounds  *)
(* it: StatusCode (what it is told), Supervisors (a second one after a     *)
(* failing execl, and its end) and ImageStore (what a process that it      *)
(* kills and starts again finds on the disks).  They share a run and no    *)
(* state: a behaviour is one of the module in "about", and the others stay *)
(* in one of their initial states.                                         *)
(***************************************************************************)
EXTENDS Daemon

CONSTANTS
  Garbage,      \* StatusCode: what PROC_INFO.code may be before the first beat
  ScQueueCap, ScMaxProcs,                     \* StatusCode: its bounds
  Options, Recordings,                        \* ImageStore
  StMaxFrames, StMaxStarts, StMaxErrs         \* ImageStore: its bounds

VARIABLES
  about,
  scMain, scBeating, scSetErr, scCode, scInSetErr, scImuErr, scProc, scBeats,
  scCut, scInfo, scAlarm,
  svProcs, svSup, svFails, svDeact, svKnown, svTold, svFreed, svGone,
  option, disk, pc, path, dIndex, fIndex, frames, starts, errs, kept

SC == INSTANCE StatusCode WITH
        QueueCap <- ScQueueCap, MaxProcs <- ScMaxProcs,
        main <- scMain, beating <- scBeating, setErr <- scSetErr, code <- scCode,
        inSetErr <- scInSetErr, imuErr <- scImuErr, proc <- scProc,
        beats <- scBeats, cut <- scCut, info <- scInfo, alarm <- scAlarm

SV == INSTANCE Supervisors WITH
        procs <- svProcs, sup <- svSup, fails <- svFails, deact <- svDeact,
        known <- svKnown, told <- svTold, freed <- svFreed, gone <- svGone

ST == INSTANCE ImageStore WITH
        MaxFrames <- StMaxFrames, MaxStarts <- StMaxStarts, MaxErrs <- StMaxErrs

ASSUME SurroundingsAssumption ==
  SC!StatusAssumption /\ SV!SupervisorsAssumption /\ ST!ImageStoreAssumption

scVars == <<scMain, scBeating, scSetErr, scCode, scInSetErr, scImuErr, scProc,
            scBeats, scCut, scInfo, scAlarm>>
svVars == <<svProcs, svSup, svFails, svDeact, svKnown, svTold, svFreed, svGone>>
stVars == <<option, disk, pc, path, dIndex, fIndex, frames, starts, errs, kept>>
AnyVars == <<about, vars, scVars, svVars, stVars>>

(* One of the orders in which main forks the children.                     *)
AnyOrder ==
  CHOOSE f \in [1 .. Cardinality(Programs) -> Programs] :
    \A i, j \in DOMAIN f : f[i] = f[j] => i = j

AnyInit ==
  /\ about \in {"map", "status", "supervisors", "store"}
  /\ Init /\ (about # "map" => progOf = AnyOrder)
  /\ SC!Init /\ (about # "status" => scInfo.code = CHOOSE c \in Garbage : TRUE)
  /\ SV!Init
  /\ about # "supervisors" => \A p \in DOMAIN svProcs : svProcs[p].prog = AnyOrder[p]
  /\ ST!Init
  /\ about # "store" => option = (CHOOSE o \in Options : TRUE) /\ disk = <<>>

AnyNext ==
  /\ UNCHANGED about
  /\ \/ about = "map" /\ Next /\ UNCHANGED <<scVars, svVars, stVars>>
     \/ about = "status" /\ SC!Next /\ UNCHANGED <<vars, svVars, stVars>>
     \/ about = "supervisors" /\ SV!Next /\ UNCHANGED <<vars, scVars, stVars>>
     \/ about = "store" /\ ST!Next /\ UNCHANGED <<vars, scVars, svVars>>

(* The modules say why their steps are fair.                               *)
AnySpec ==
  /\ AnyInit /\ [][AnyNext]_AnyVars
  /\ WF_vars(/\ about = "map"
             /\ PassBegin \/ VisitNull \/ \E g \in Programs : DaemonStep(g))
  /\ WF_scVars(about = "status" /\ SC!Pass)
  /\ WF_scVars(about = "status" /\ SC!ProcessHeartMsg)
  /\ WF_svVars(about = "supervisors" /\ (SV!PassBegin \/ SV!PassStep(SV!Original)))
  /\ \A s \in 1 .. MaxPid :
       WF_svVars(/\ about = "supervisors" /\ s \in DOMAIN svSup /\ SV!PassStep(s))
  /\ WF_svVars(about = "supervisors" /\ (SV!Walk \/ SV!Exit))
-----------------------------------------------------------------------------
(* StatusCode: a process reports a code of its set, which holds just what  *)
(* is wrong while frames come, and still no heartbeat reports an error.    *)
StatusTold ==
  SC!TypeOK /\ SC!CodeIsSet /\ SC!SetTellsState /\ SC!NoErrorIsReported

(* Supervisors: whatever copies of the original do, its own map keeps one  *)
(* entry of every program, a program runs twice only by a copy, and only a *)
(* copy's child can end the original; Deactive tells every child that was  *)
(* there when it began.                                                    *)
OriginalKeepsOrder ==
  /\ SV!TypeOK /\ SV!OriginalKeepsAll /\ SV!TwiceOnlyByCopies
  /\ SV!UnknownOnlyByCopies /\ SV!TellsTheKnown

(* ImageStore: folders and files stay within the options, names follow the *)
(* order of the messages, and only folder 0 of a full card and the next    *)
(* folder of the flash lose images.                                        *)
ImagesKept ==
  /\ [](ST!TypeOK /\ ST!SpaceBounded /\ ST!NamesTellTheOrder)
  /\ ST!LosesOnlyTheNext

(* A dead child of Daemon, the child of StatusCode (or the alarm is up)    *)
(* and a dead copy of Supervisors are replaced.                            *)
DeadAreReplaced ==
  DeadIsReplaced /\ SC!GoneIsNoticed /\ SV!CopiesAreReplaced
=============================================================================
