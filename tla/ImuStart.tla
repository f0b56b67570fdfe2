------------------------------ MODULE ImuStart ------------------------------
(***************************************************************************)
(* What IMUCanRecv of the prototype waits for before it receives           *)
(* (visionProc/visionImu.cpp): GetKey collects the frames of a mode packet *)
(* and takes the key of the IMU data out of it, WaitImuReady counts the    *)
(* bytes of an IMU packet.                                                 *)
(*                                                                         *)
(* A packet is Size frames, the first with its head and the last with its  *)
(* tail; other packets, of two frames, come on the same filter.  Setting   *)
(* the filter begins with a new packet.  The bus loses frames.             *)
(***************************************************************************)
EXTENDS Integers, Sequences, FiniteSets

CONSTANTS
  Size,        \* frames of a packet
  KeyAt,       \* the frame of a mode packet, from 0, that has the key
  MaxPackets,  \* bound: packets sent
  MaxLost      \* bound: frames lost

ImuStartAssumption ==
  /\ Size \in Nat /\ Size > 1 /\ KeyAt \in 1 .. Size - 1
  /\ {MaxPackets, MaxLost} \subseteq Nat

VARIABLES
  phase,             \* "key", "wait", "run"
  pkt, whole, place, \* the packet, is it of the kind that is waited for, its next frame
  lost,              \* history: the frames lost
  since,             \* history: packets of the kind sent whole, one after the other
  begun,             \* bIs, bIsAtti
  took,              \* the frames of tMode; in WaitImuReady only their number counts
  key                \* the frame the key was taken from

vars == <<phase, pkt, whole, place, lost, since, begun, took, key>>

NoFrame == [whole |-> FALSE, at |-> -1]

Init ==
  /\ phase = "key" /\ pkt = 1 /\ whole \in BOOLEAN /\ place = 0 /\ lost = {}
  /\ since = 0 /\ begun = FALSE /\ took = <<>> /\ key = NoFrame
-----------------------------------------------------------------------------
Last == (IF whole THEN Size ELSE 2) - 1

(* The next frame; how many packets came whole is known at their ends.     *)
Sent(got) ==
  IF place < Last
  THEN place' = place + 1 /\ since' = (IF got THEN since ELSE -1) /\ UNCHANGED <<pkt, whole>>
  ELSE /\ place' = 0 /\ pkt' = pkt + 1 /\ whole' \in BOOLEAN
       /\ since' = IF got /\ whole THEN since + 1 ELSE 0

(* CheckIsMcMode, CheckIsAtti; CheckIsTail.                                *)
IsHead == whole /\ place = 0
IsTail == place = Last
Taken == Append(IF begun THEN took ELSE <<>>, [whole |-> whole, at |-> place])

Restart == begun' = FALSE /\ took' = <<>> /\ UNCHANGED <<phase, key>>

Collects(full, tail) ==
  /\ phase = "key"
  /\ IF ~begun /\ ~IsHead THEN UNCHANGED <<phase, begun, took, key>>
     ELSE IF ~full THEN begun' = TRUE /\ took' = Taken /\ UNCHANGED <<phase, key>>
     ELSE IF tail
     THEN phase' = "wait" /\ key' = Taken[KeyAt + 1] /\ begun' = FALSE /\ took' = <<>>
     ELSE Restart

GetKey == Collects(Len(Taken) = Size, IsTail)

(* Only the four bytes of an IMU packet's tail end it: other packets have  *)
(* theirs in a frame of eight.                                             *)
WaitImuReady ==
  /\ phase = "wait"
  /\ IF ~begun /\ ~IsHead THEN UNCHANGED <<phase, begun, took, key>>
     ELSE IF ~(whole /\ IsTail) THEN begun' = TRUE /\ took' = Taken /\ UNCHANGED <<phase, key>>
     ELSE IF Len(Taken) = Size
     THEN phase' = "run" /\ begun' = FALSE /\ took' = <<>> /\ UNCHANGED key
     ELSE Restart

(* SetFilter throws away what was begun on the bus.                        *)
Arrive ==
  /\ phase # "run" /\ pkt <= MaxPackets
  /\ GetKey \/ WaitImuReady
  /\ IF phase' = phase THEN Sent(TRUE)
     ELSE pkt' = pkt + 1 /\ whole' \in BOOLEAN /\ place' = 0 /\ since' = 0
  /\ UNCHANGED lost

Lose ==
  /\ phase # "run" /\ pkt <= MaxPackets /\ Cardinality(lost) < MaxLost
  /\ Sent(FALSE)
  /\ lost' = lost \cup {[p |-> pkt, whole |-> whole, at |-> place]}
  /\ UNCHANGED <<phase, begun, took, key>>

Next == Arrive \/ Lose

Spec == Init /\ [][Next]_vars
-----------------------------------------------------------------------------
TypeOK ==
  /\ phase \in {"key", "wait", "run"} /\ pkt \in 1 .. MaxPackets + 1
  /\ whole \in BOOLEAN /\ place \in 0 .. Last /\ begun \in BOOLEAN
  /\ phase = "key" => Len(took) < Size

(***************************************************************************)
(* The key is taken from elsewhere than its frame only if a mode packet    *)
(* lost a frame up to the key's and one more frame was lost, so that a     *)
(* tail stands where the packet would end: one lost frame is noticed       *)
(* (visionImu.cpp:346-348, :361).                                          *)
(***************************************************************************)
WrongKeyNeedsLosses ==
  phase # "key" /\ key # [whole |-> TRUE, at |-> KeyAt] =>
    /\ \E l \in lost : l.whole /\ l.at \in 1 .. KeyAt
    /\ Cardinality(lost) >= 2

(***************************************************************************)
(* Two packets in a row that come whole end each of the two waits, however *)
(* the frames before them were lost (visionImu.cpp:354, :400).             *)
(***************************************************************************)
TwoAreEnough == phase # "run" => since < 2
=============================================================================
