------------------------------ MODULE ProtoPoll ------------------------------
(***************************************************************************)
(* How the prototype waits for a frame (visionProc/visionProcess.cpp:      *)
(* read_vision, process_poll, isReady, writeFlg): the file of the FPGA's   *)
(* flag is polled, closed, opened again and read, and "0" is written to    *)
(* acknowledge the frame, after a bad one to the number the file had       *)
(* before it was closed.  The storing thread opens files in the same table *)
(* (visionStore.cpp, OutImg).                                              *)
(*                                                                         *)
(* The kernel gives the lowest free number; a poll of the flag's file ends *)
(* when the flag was raised since the last read of it, one of an image     *)
(* never, one of no file at once.  The FPGA raises the flag when it is 0.  *)
(***************************************************************************)
EXTENDS Naturals, FiniteSets

CONSTANT Fds  \* the numbers of the table

ProtoPollAssumption ==
  /\ Fds \subseteq Nat /\ IsFiniteSet(Fds) /\ Cardinality(Fds) >= 4

VARIABLES
  reader,     \* read_vision: "top", "poll", "close", "open", "read", "img", "good", "bad"
  stFd, pFd,  \* st_fd, p_fd.fd
  file,       \* what is open: "flag", "image", or "none"
  imgFd,      \* the file the storing thread writes, a member of Fds, or none
  flag,       \* the FPGA has a frame that is not acknowledged
  fresh,      \* the flag was raised since the last read
  raced,      \* history: an image was opened while st_fd was closed
  spoiled     \* history: "0" was written into an image

vars == <<reader, stFd, pFd, file, imgFd, flag, fresh, raced, spoiled>>

Free == {k \in Fds : file[k] = "none"}
Lowest == CHOOSE k \in Free : \A l \in Free : k <= l

Init ==
  /\ reader = "top"
  /\ stFd = CHOOSE k \in Fds : \A l \in Fds : k <= l
  /\ pFd = stFd
  /\ file = [k \in Fds |-> IF k = stFd THEN "flag" ELSE "none"]
  /\ imgFd = {} /\ flag = FALSE /\ fresh \in BOOLEAN
  /\ raced = FALSE /\ spoiled = FALSE

Goes(from, to) == reader = from /\ reader' = to
-----------------------------------------------------------------------------
Top ==
  /\ Goes("top", "poll") /\ pFd' = stFd
  /\ UNCHANGED <<stFd, file, imgFd, flag, fresh, raced, spoiled>>

Poll ==
  /\ Goes("poll", "close")
  /\ file[pFd] = "none" \/ (file[pFd] = "flag" /\ fresh)
  /\ UNCHANGED <<stFd, pFd, file, imgFd, flag, fresh, raced, spoiled>>

Close ==
  /\ Goes("close", "open") /\ file' = [file EXCEPT ![stFd] = "none"]
  /\ UNCHANGED <<stFd, pFd, imgFd, flag, fresh, raced, spoiled>>

(* isReady.                                                                *)
Reopen ==
  /\ Goes("open", "read")
  /\ stFd' = Lowest /\ file' = [file EXCEPT ![Lowest] = "flag"]
  /\ UNCHANGED <<pFd, imgFd, flag, fresh, raced, spoiled>>

ReadFlg ==
  /\ IF flag THEN Goes("read", "img") ELSE Goes("read", "poll")
  /\ fresh' = FALSE
  /\ UNCHANGED <<stFd, pFd, file, imgFd, flag, raced, spoiled>>

ReadImg ==
  /\ Goes("img", "good") \/ Goes("img", "bad")
  /\ UNCHANGED <<stFd, pFd, file, imgFd, flag, fresh, raced, spoiled>>

(* writeFlg to what is open under the number.                              *)
WriteFlg(fd) ==
  /\ flag' = (flag /\ file[fd] # "flag")
  /\ spoiled' = (spoiled \/ file[fd] = "image")
  /\ UNCHANGED <<stFd, pFd, file, imgFd, fresh, raced>>

Good == Goes("good", "top") /\ WriteFlg(stFd)

Bad == Goes("bad", "top") /\ WriteFlg(pFd)
-----------------------------------------------------------------------------
OpensImg(k) ==
  /\ imgFd' = imgFd \cup {k} /\ file' = [file EXCEPT ![k] = "image"]
  /\ raced' = (raced \/ reader = "open")
  /\ UNCHANGED <<reader, stFd, pFd, flag, fresh, spoiled>>

(* OutImg opens an image, writes it and closes it.                         *)
OpenImg == imgFd = {} /\ OpensImg(Lowest)

CloseImg ==
  /\ imgFd # {} /\ imgFd' = {}
  /\ file' = [k \in Fds |-> IF k \in imgFd THEN "none" ELSE file[k]]
  /\ UNCHANGED <<reader, stFd, pFd, flag, fresh, raced, spoiled>>

(* The FPGA puts a frame into its memory and raises the flag.              *)
Frame ==
  /\ ~flag /\ flag' = TRUE /\ fresh' = TRUE
  /\ UNCHANGED <<reader, stFd, pFd, file, imgFd, raced, spoiled>>

ReaderStep == Top \/ Poll \/ Close \/ Reopen \/ ReadFlg \/ ReadImg \/ Good \/ Bad

Next == ReaderStep \/ OpenImg \/ CloseImg \/ Frame

Spec == Init /\ [][Next]_vars /\ WF_vars(ReaderStep) /\ WF_vars(Frame)
-----------------------------------------------------------------------------
TypeOK ==
  /\ reader \in {"top", "poll", "close", "open", "read", "img", "good", "bad"}
  /\ {stFd, pFd} \subseteq Fds /\ imgFd \subseteq Fds /\ Cardinality(imgFd) <= 1
  /\ file \in [Fds -> {"flag", "image", "none"}]
  /\ {flag, fresh, raced, spoiled} \subseteq BOOLEAN

(***************************************************************************)
(* st_fd is the only number of the flag's file, and no image stays open:   *)
(* closing and opening it for every frame uses up no numbers, whatever     *)
(* number it gets (visionProcess.cpp:207, :219, visionStore.cpp:184).      *)
(***************************************************************************)
NoFileLeft ==
  /\ {k \in Fds : file[k] = "flag"} = IF reader = "open" THEN {} ELSE {stFd}
  /\ {k \in Fds : file[k] = "image"} = imgFd

(***************************************************************************)
(* An image is written to by the reading thread, or a frame that is there  *)
(* waits for one that cannot come, only if the storing thread opened a file*)
(* while the flag's was closed (visionProcess.cpp:160, :207).              *)
(***************************************************************************)
HarmOnlyByRace ==
  spoiled \/ (reader = "poll" /\ flag /\ (~fresh \/ file[pFd] = "image")) => raced

(***************************************************************************)
(* Frames are read for ever, []<>GoesOn, unless that race happens          *)
(* (visionProcess.cpp:198-213).                                            *)
(***************************************************************************)
GoesOn == reader = "img" \/ raced
=============================================================================
