----------------------------- MODULE ImageStore -----------------------------
(***************************************************************************)
(* CVisionStore (visionSys-V2.0/src/proc/visionStore): every STORE_FRONT   *)
(* message becomes a set of image files; a folder with m_files of them is  *)
(* full and the next one, counted round, is emptied for reuse.             *)
(*                                                                         *)
(* A start looks for a free folder under /mnt/disk ("card"); a full folder *)
(* is followed by one under VELOCITY_PATH, /data/v ("flash").  The files   *)
(* outlive the process, which is killed and started again at any moment.   *)
(*                                                                         *)
(* The m_num files of one message get the same bytes and differ in their   *)
(* name only: they are one entry here, under m_fIndex.  The thread         *)
(* function Store is registered in a comment only and never runs.          *)
(***************************************************************************)
EXTENDS Integers

CONSTANTS
  Options,     \* configurations [folder, file, num]; 0 is a missing option
  Recordings,  \* bound: folders of the card that hold an earlier recording,
               \* which was made with the same options
  MaxFrames,   \* bound: messages received
  MaxStarts,   \* bound: starts of the process
  MaxErrs      \* bound: popens that fail

ImageStoreAssumption ==
  /\ Options \subseteq [folder : Nat, file : Nat, num : Nat]
  /\ {Recordings, MaxFrames, MaxStarts, MaxErrs} \subseteq Nat
  /\ \A o \in Options : o.folder > 0 => Recordings <= o.folder

VARIABLES
  option,      \* m_folders, m_files and m_num
  disk,        \* the folders that exist: <<root, index>> -> their files, a
               \* function from m_fIndex to the number of the message
  pc,          \* "down", "up", or the step of ResetStore that is next
  path,        \* m_strPath
  dIndex,      \* m_dIndex
  fIndex,      \* m_fIndex
  frames,      \* history: messages received
  starts,      \* history: starts
  errs,        \* history: popens that failed
  kept         \* history: folders whose RemoveDir failed

vars == <<option, disk, pc, path, dIndex, fIndex, frames, starts, errs, kept>>

Card(i) == <<"card", i>>
Flash(i) == <<"flash", i>>
Empty == [f \in {} |-> 0]

(* What rm -r -f and mkdir -p leave of the folders d.                      *)
Removed(d, q) == [r \in DOMAIN d \ {q} |-> d[r]]
Created(d, q) ==
  [r \in DOMAIN d \cup {q} |-> IF r \in DOMAIN d THEN d[r] ELSE Empty]

(* ExecCmd fails when popen does, and tells nothing of the command itself. *)
Failed(ok) == IF ok THEN 0 ELSE 1
Fails(n) == errs + n <= MaxErrs /\ errs' = errs + n
ExecCmd(ok) == Fails(Failed(ok))

Init ==
  /\ option \in Options
  /\ \E n \in 0 .. Recordings :
       disk = [q \in {Card(i) : i \in 0 .. n - 1} |-> [f \in {0} |-> 0]]
  /\ pc = "down" /\ path = Card(0) /\ dIndex = 0 /\ fIndex = 0
  /\ frames = 0 /\ starts = 0 /\ errs = 0 /\ kept = {}
-----------------------------------------------------------------------------
(* The folders InitStore looks for: those of the card that do not exist.   *)
Free == {i \in 0 .. option.folder - 1 : Card(i) \notin DOMAIN disk}

(* Mutant: the search ends at folder 0.                                    *)
TakenFirst == 0

Taken == IF Free = {} THEN 0 ELSE CHOOSE i \in Free : \A j \in Free : i <= j

(* InitMem: MEM_CNT % m_num is undefined when the option is missing: on    *)
(* one machine the process dies here, on another it goes on.               *)
InitMem == IF option.num > 0 THEN {"up"} ELSE {"up", "down"}

(* ActiveImp: InitOption, InitStore and InitMem.  A folder that does not   *)
(* exist is created; without one folder 0 is removed first.  When CreateDir*)
(* fails Active does, and main ends.                                       *)
Start(removes, creates) ==
  /\ pc = "down" /\ starts < MaxStarts
  /\ Free # {} => removes                       \* RemoveDir is not called
  /\ Fails(Failed(removes) + Failed(creates))
  /\ LET q == Card(Taken)
         d == IF Free = {} /\ removes THEN Removed(disk, q) ELSE disk
     IN  /\ disk' = IF creates THEN Created(d, q) ELSE d
         /\ path' = q
         /\ kept' = IF removes THEN kept \ {q} ELSE kept \cup {q}
  /\ dIndex' = Taken /\ fIndex' = 0
  /\ IF creates THEN pc' \in InitMem ELSE pc' = "down"
  /\ starts' = starts + 1
  /\ UNCHANGED <<option, frames>>

(* OutFile: the files of the message, with a folder to put them in.        *)
Written(q) ==
  [disk EXCEPT ![q] = [f \in DOMAIN @ \cup {fIndex} |->
                         IF f = fIndex THEN frames + 1 ELSE @[f]]]

(* ProcessMsg up to the test for a full folder.                            *)
ProcessMsg ==
  /\ pc = "up" /\ frames < MaxFrames
  /\ disk' = IF path \in DOMAIN disk /\ option.num > 0 THEN Written(path)
             ELSE disk
  /\ frames' = frames + 1
  /\ fIndex' = fIndex + 1
  /\ pc' = IF fIndex + 1 = option.file THEN "remove" ELSE "up"
  /\ UNCHANGED <<option, path, dIndex, starts, errs, kept>>

NextIndex == IF dIndex + 1 = option.folder THEN 0 ELSE dIndex + 1

(* ResetStore: the next folder, counted round, is removed ...              *)
ResetRemoves(removes) ==
  /\ pc = "remove" /\ ExecCmd(removes)
  /\ dIndex' = NextIndex
  /\ LET q == Flash(NextIndex)
     IN  /\ disk' = IF removes THEN Removed(disk, q) ELSE disk
         /\ kept' = IF removes THEN kept \ {q} ELSE kept \cup {q}
  /\ pc' = "create"
  /\ UNCHANGED <<option, path, fIndex, frames, starts>>

(* ... and created, and is in use whether that worked or not.              *)
ResetCreates(creates) ==
  /\ pc = "create" /\ ExecCmd(creates)
  /\ path' = Flash(dIndex)
  /\ disk' = IF creates THEN Created(disk, path') ELSE disk
  /\ fIndex' = 0
  /\ pc' = "up"
  /\ UNCHANGED <<option, dIndex, frames, starts, kept>>

(* The supervisor's kill, or a crash.                                      *)
Killed ==
  /\ pc # "down" /\ pc' = "down"
  /\ UNCHANGED <<option, disk, path, dIndex, fIndex, frames, starts, errs, kept>>

Next ==
  \/ \E r, c \in BOOLEAN : Start(r, c)
  \/ ProcessMsg
  \/ \E ok \in BOOLEAN : ResetRemoves(ok) \/ ResetCreates(ok)
  \/ Killed

Spec == Init /\ [][Next]_vars
-----------------------------------------------------------------------------
Images(q) == {disk[q][f] : f \in DOMAIN disk[q]}

TypeOK ==
  /\ option \in Options
  /\ pc \in {"down", "up", "remove", "create"}
  /\ \A q \in DOMAIN disk \cup {path} : q \in {"card", "flash"} \X Nat
  /\ \A q \in DOMAIN disk : \A f \in DOMAIN disk[q] :
       f \in Nat /\ disk[q][f] \in 0 .. frames
  /\ dIndex \in Nat /\ fIndex \in 0 .. MaxFrames
  /\ frames \in 0 .. MaxFrames /\ starts \in 0 .. MaxStarts
  /\ errs \in 0 .. MaxErrs

(***************************************************************************)
(* Whatever the restarts and whichever commands fail, the store takes no   *)
(* more than option "folder" folders of each root and "file" messages in   *)
(* each, when both options are given (visionStore.cpp:94, :228, :173).     *)
(***************************************************************************)
SpaceBounded ==
  option.file > 0 /\ option.folder > 0 =>
    \A q \in DOMAIN disk :
      /\ q[2] < option.folder
      /\ DOMAIN disk[q] \subseteq 0 .. option.file - 1

(***************************************************************************)
(* In a folder the names follow the order of the messages, and the folder  *)
(* in use holds newer images than every other, unless its removal failed:  *)
(* a reader can put a recording together from the names                    *)
(* (visionStore.cpp:87, :236).                                             *)
(***************************************************************************)
NamesTellTheOrder ==
  /\ \A q \in DOMAIN disk \ kept : \A f, g \in DOMAIN disk[q] :
       f < g => disk[q][f] < disk[q][g]
  /\ path \in DOMAIN disk \ kept /\ starts > 0 =>
       \A q \in DOMAIN disk \ {path} :
         \A m \in Images(path), n \in Images(q) : n < m

(***************************************************************************)
(* An image is lost in two cases: a start found no free folder on the card *)
(* and empties folder 0, or a full folder is followed by the one of the    *)
(* flash that is next; a later start never touches the flash, nor the      *)
(* other folders of the card (visionStore.cpp:186, :228).                  *)
(***************************************************************************)
LosesOnlyTheNext ==
  [][\A q \in DOMAIN disk \ kept :
       \/ q \in DOMAIN disk' /\ \A f \in DOMAIN disk[q] :
                                  f \in DOMAIN disk'[q] /\ disk'[q][f] = disk[q][f]
       \/ pc = "down" /\ Free = {} /\ q = Card(0)
       \/ pc = "remove" /\ q = Flash(NextIndex) /\ fIndex = option.file]_vars
=============================================================================
