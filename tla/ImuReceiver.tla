----------------------------- MODULE ImuReceiver -----------------------------
(***************************************************************************)
(* The IMU of the prototype (visionProc/visionImu.cpp): IMUCanRecv puts the*)
(* frames of a packet of 0x090 one after the other into a ring of records; *)
(* GetIMU, in the thread that reads images, takes one out.  The lock is    *)
(* taken by the head of a packet and given back by its end, over all the   *)
(* reads of the socket between them.                                       *)
(*                                                                         *)
(* Positions count frames of eight bytes.  Packets other than the IMU's are*)
(* a head and a frame that ends in a tail.  The bus loses frames and keeps *)
(* their order.                                                            *)
(***************************************************************************)
EXTENDS Integers, FiniteSets

CONSTANTS
  Size,        \* frames of a record (sizeof(imu_body) / 8)
  Num,         \* MAX_IMU_NUM
  MaxPackets,  \* bound: the number of this packet stands for all later ones
  MaxLost      \* bound: frames lost

ImuReceiverAssumption ==
  /\ {Size, MaxPackets} \subseteq Nat \ {0} /\ Num \in Nat \ {0, 1} /\ MaxLost \in Nat

VARIABLES
  pkt, kind, place,  \* the packet on the bus, "atti" or "other", its next frame
  lost,              \* history: the frames lost
  gone,              \* IMUCanRecv has returned
  bIsAtti,           \* a packet has begun
  lock,              \* the owner of imu_lock: "none", "recv"
  fetch, store,      \* fetch_pos, store_pos
  buf,               \* P_IMU_DATA: the frame at each position
  bReady,            \* the ring has been filled
  want,              \* GetIMU waits for the lock
  got                \* history: the record GetIMU returned last

busVars == <<pkt, kind, place>>
recvVars == <<gone, bIsAtti, lock, fetch, store, buf, bReady>>
getVars == <<want, got>>
vars == <<busVars, lost, recvVars, getVars>>

End == Num * Size
NoFrame == [p |-> 0, at |-> 0]
None == <<>>

Init ==
  /\ pkt = 1 /\ kind = "atti" /\ place = 0 /\ lost = {}
  /\ gone = FALSE
  /\ bIsAtti = FALSE /\ lock = "none" /\ fetch = -1 /\ store = 0
  /\ buf = [i \in 0 .. End - 1 |-> NoFrame] /\ bReady = FALSE
  /\ want = FALSE /\ got = None
-----------------------------------------------------------------------------
(* The frames of a packet: its head, Size frames of data or none, its tail.*)
Last == IF kind = "atti" THEN Size + 1 ELSE 1
IsHead == place = 0
IsTail == place = Last

Sent ==
  IF place < Last THEN place' = place + 1 /\ UNCHANGED <<pkt, kind>>
  ELSE /\ place' = 0 /\ kind' \in {"atti", "other"}
       /\ pkt' = IF pkt < MaxPackets THEN pkt + 1 ELSE pkt

Record(pos) == [i \in 1 .. Size |-> buf[pos + i - 1]]
Whole(r) == \A i \in 1 .. Size : r[i] = [p |-> r[1].p, at |-> i]

(* Check4Q: what was sent passes, memory never written does not, and what  *)
(* was mixed may.                                                          *)
Check4Q(pos) ==
  IF Whole(Record(pos)) /\ buf[pos] # NoFrame THEN {TRUE}
  ELSE IF Record(pos) = [i \in 1 .. Size |-> NoFrame] THEN {FALSE} ELSE BOOLEAN

(* At the end of the ring store_pos goes back, in a packet too.            *)
Wrapped(pos) ==
  IF pos >= End THEN store' = 0 /\ bReady' = TRUE
  ELSE store' = pos /\ UNCHANGED bReady

Begin ==
  /\ ~bIsAtti /\ IsHead /\ kind = "atti" /\ lock = "none"
  /\ bIsAtti' = TRUE /\ lock' = "recv" /\ fetch' = store
  /\ UNCHANGED <<store, bReady, buf>>

Ignore ==
  /\ ~bIsAtti /\ ~(IsHead /\ kind = "atti")
  /\ UNCHANGED <<bIsAtti, lock, fetch, store, bReady, buf>>

(* Mutant: store_pos is not put back where the packet began.               *)
GiveUpKeeps ==
  /\ bIsAtti /\ (IsHead \/ kind = "other")
  /\ bIsAtti' = FALSE /\ lock' = "none"
  /\ UNCHANGED <<fetch, store, bReady, buf>>

(* A head, or a tail in a frame of eight bytes: the packet is given up.    *)
GiveUp ==
  /\ bIsAtti /\ (IsHead \/ kind = "other")
  /\ bIsAtti' = FALSE /\ lock' = "none" /\ Wrapped(fetch)
  /\ UNCHANGED <<fetch, buf>>

Data ==
  /\ bIsAtti /\ kind = "atti" /\ ~IsHead /\ ~IsTail
  /\ buf' = [buf EXCEPT ![store] = [p |-> pkt, at |-> place]]
  /\ Wrapped(store + 1)
  /\ UNCHANGED <<bIsAtti, lock, fetch>>

Aligned == store % Size = 0

(* A frame of four bytes: the tail.                                        *)
Finish ==
  /\ bIsAtti /\ kind = "atti" /\ IsTail
  /\ bIsAtti' = FALSE /\ lock' = "none"
  /\ \E ok \in Check4Q(fetch) : Wrapped(IF Aligned /\ ok THEN store ELSE fetch)
  /\ UNCHANGED <<fetch, buf>>

Recv ==
  /\ ~gone /\ Sent
  /\ Begin \/ Ignore \/ GiveUp \/ Data \/ Finish
  /\ UNCHANGED <<lost, gone, getVars>>

Lose ==
  /\ ~gone /\ Cardinality(lost) < MaxLost /\ Sent
  /\ [p |-> pkt, at |-> place] \notin lost
  /\ lost' = lost \cup {[p |-> pkt, at |-> place]}
  /\ UNCHANGED <<recvVars, getVars>>

(* exit_imu_receive has been called: the loop ends after any frame, also   *)
(* one in the middle of a packet.                                          *)
Return ==
  /\ ~gone /\ gone' = TRUE
  /\ UNCHANGED <<busVars, lost, bIsAtti, lock, fetch, store, buf, bReady, getVars>>
-----------------------------------------------------------------------------
CallGet ==
  /\ ~want /\ want' = TRUE
  /\ UNCHANGED <<busVars, lost, recvVars, got>>

(* The record before fetch_pos, which is where the last packet begins.     *)
GetPos == IF fetch = 0 THEN (Num - 1) * Size ELSE fetch - Size

(* Mutant: GetIMU waits until the ring has been filled.                    *)
GetWaits ==
  /\ want /\ lock = "none" /\ bReady
  /\ want' = FALSE
  /\ got' = Record(GetPos)
  /\ UNCHANGED <<busVars, lost, recvVars>>

Get ==
  /\ want /\ lock = "none"
  /\ want' = FALSE
  /\ got' = IF bReady THEN Record(GetPos) ELSE got
  /\ UNCHANGED <<busVars, lost, recvVars>>

Next == Recv \/ Lose \/ Return \/ CallGet \/ Get

(* The flight controller goes on sending; the lock is free for the time    *)
(* between two packets again and again, so a thread that waits gets it.    *)
Spec == Init /\ [][Next]_vars /\ WF_vars(Recv) /\ SF_vars(Get)
-----------------------------------------------------------------------------
Frames == [p : 0 .. MaxPackets, at : 0 .. Size + 1]

TypeOK ==
  /\ pkt \in 1 .. MaxPackets /\ kind \in {"atti", "other"} /\ place \in 0 .. Last
  /\ lost \subseteq Frames /\ Cardinality(lost) <= MaxLost
  /\ {gone, bIsAtti, bReady, want} \subseteq BOOLEAN
  /\ lock = (IF bIsAtti THEN "recv" ELSE "none")
  /\ fetch \in -1 .. End - 1 /\ store \in 0 .. End - 1
  /\ buf \in [0 .. End - 1 -> Frames]
  /\ got = None \/ got \in [1 .. Size -> Frames]

(***************************************************************************)
(* Between packets the next record begins where a record does, and while   *)
(* one comes fetch_pos is such a place (visionImu.cpp:162, :190).          *)
(***************************************************************************)
AtRecords ==
  /\ fetch # -1 => fetch % Size = 0
  /\ ~bIsAtti => store % Size = 0

(***************************************************************************)
(* GetIMU returns no memory that was never filled: bReady is set by the    *)
(* first wrap, be it in a packet that is given up (visionImu.cpp:209).     *)
(***************************************************************************)
NeverUnfilled == got # None => \A i \in 1 .. Size : got[i] # NoFrame

(***************************************************************************)
(* It returns nothing older than it returned before, whatever is given up  *)
(* or begun over (visionImu.cpp:162, :195, :229).                          *)
(***************************************************************************)
NeverBack == [][got # None => got'[Size].p >= got[Size].p]_got

(***************************************************************************)
(* Frames of two packets are in one record returned only if the tail of an *)
(* earlier packet and the head of a later one were lost                    *)
(* (visionImu.cpp:172, :190).                                              *)
(***************************************************************************)
MixedOnlyWithoutEnds ==
  got # None /\ ~Whole(got) =>
    /\ \E l \in lost : l.at = 0
    /\ \E l \in lost : l.at = Size + 1

(***************************************************************************)
(* GetIMU returns, as long as frames come: the lock is given back by the   *)
(* end of a packet, by the next head if the end is lost, and never if the  *)
(* thread ends with it (visionImu.cpp:161, :225).                          *)
(***************************************************************************)
GetReturns == []<>(~want \/ gone)
=============================================================================
