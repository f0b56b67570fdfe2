----------------------------- MODULE OldPackets -----------------------------
(***************************************************************************)
(* The packets of the first version on the CAN bus (visionSys/src/common/  *)
(* can_data): Write puts a head of eight bytes before the data and a tail  *)
(* of four behind it and cuts the bytes into frames of eight; Packet::Push *)
(* puts them together again.  There is no checksum and no number: head,    *)
(* length and tail are all there is to find a packet by.                   *)
(*                                                                         *)
(* The bus loses frames and keeps their order.  A byte is the number of its*)
(* packet and its place in it; no data looks like a head or a tail.        *)
(***************************************************************************)
EXTENDS Integers, Sequences

CONSTANTS
  Lens,        \* lengths of the data of a packet
  MaxPackets,  \* bound: packets sent
  MaxLost      \* bound: frames lost

OldPacketsAssumption ==
  Lens \subseteq Nat /\ MaxPackets \in Nat /\ MaxLost \in Nat

VARIABLES
  len,         \* the length of the packets on this filter
  pkt,         \* the packet being sent
  next,        \* the place of its next byte
  empty,       \* m_bEmpty
  buf,         \* m_pBuffer up to m_nPos
  out,         \* the data of each packet Push returned true for
  lost         \* history: the first bytes of the frames lost

vars == <<len, pkt, next, empty, buf, out, lost>>

HeadSize == 8
TailSize == 4
Total == HeadSize + len + TailSize

Lesser(a, b) == IF a < b THEN a ELSE b

Init ==
  /\ len \in Lens
  /\ pkt = 1 /\ next = 0
  /\ empty = TRUE /\ buf = <<>> /\ out = <<>>
  /\ lost = <<>>
-----------------------------------------------------------------------------
(* Write: the next frame.                                                  *)
Frame == [i \in 1 .. Lesser(8, Total - next) |-> [p |-> pkt, at |-> next + i - 1]]

Advanced ==
  IF next + 8 < Total THEN pkt' = pkt /\ next' = next + 8
  ELSE pkt' = pkt + 1 /\ next' = 0

IsHead(f) == Len(f) = 8 /\ f[1].at = 0

(* IsTail(frame, pos): four bytes are left, and the last four are the tail.*)
IsTail(f, i) ==
  /\ Len(f) - i >= TailSize
  /\ \A k \in 0 .. TailSize - 1 : f[Len(f) - k].at >= HeadSize + len

(* What a frame adds to the data of a packet that has begun.               *)
Room(f) == Lesser(Len(f), len - Len(buf))

Filled(f) == buf \o SubSeq(f, 1, Room(f))

Whole(d) == \A k \in DOMAIN d : d[k] = [p |-> d[1].p, at |-> HeadSize + k - 1]

(* IsValid looks at the quaternion of CAN_ID_ATTI: what was sent passes,   *)
(* and what was mixed may.                                                 *)
IsValid(d) == IF Whole(d) THEN {TRUE} ELSE BOOLEAN

(* Mutant: the place in the buffer is not reset by a head.                 *)
TakeKeeps ==
  IF IsHead(Frame) THEN empty' = FALSE /\ buf' = buf ELSE UNCHANGED <<empty, buf>>

Take ==
  IF IsHead(Frame) THEN empty' = FALSE /\ buf' = <<>> ELSE UNCHANGED <<empty, buf>>

(* All the data is there, and bytes after it.                              *)
AtEnd == Len(Filled(Frame)) = len /\ Room(Frame) < Len(Frame)

Fill ==
  /\ buf' = Filled(Frame)
  /\ empty' = AtEnd
  /\ IF AtEnd /\ IsTail(Frame, Room(Frame))
     THEN \E ok \in IsValid(buf') : out' = IF ok THEN Append(out, buf') ELSE out
     ELSE UNCHANGED out

(* Packet::Push of a frame that arrives.                                   *)
Push ==
  /\ pkt <= MaxPackets /\ Advanced
  /\ IF empty THEN Take /\ UNCHANGED out ELSE Fill
  /\ UNCHANGED <<len, lost>>

(* A frame is lost on the bus.                                             *)
Lose ==
  /\ pkt <= MaxPackets /\ Len(lost) < MaxLost /\ Advanced
  /\ lost' = Append(lost, Frame[1])
  /\ UNCHANGED <<len, empty, buf, out>>

Next == Push \/ Lose

Spec == Init /\ [][Next]_vars
-----------------------------------------------------------------------------
TypeOK ==
  /\ len \in Lens /\ pkt \in 1 .. MaxPackets + 1 /\ next \in 0 .. Total - 1
  /\ empty \in BOOLEAN /\ Len(buf) <= len
  /\ \A k \in DOMAIN out : Len(out[k]) = len
  /\ Len(lost) <= MaxLost

LostOf(p) == {l \in DOMAIN lost : lost[l].p = p}
Ours(p) == \E k \in DOMAIN out : out[k] # <<>> /\ out[k][1].p = p /\ Whole(out[k])

(***************************************************************************)
(* Data of two packets is put together only if frames of both were lost:   *)
(* without the tail of the earlier one and a frame of the later one the    *)
(* bytes do not end at a tail (packet.cpp:86, :93).                        *)
(***************************************************************************)
MixedOnlyByTwoLosses ==
  \A k \in DOMAIN out : \A i \in DOMAIN out[k] :
    out[k][i].p # out[k][1].p =>
      \A p \in {out[k][1].p, out[k][i].p} : LostOf(p) # {}

(***************************************************************************)
(* Losses do not spread: of two packets in a row of which no frame was lost*)
(* the second arrives, when its tail is in one frame (packet.cpp:91, :156).*)
(***************************************************************************)
SecondArrives ==
  len > 0 /\ len % 8 <= 4 =>
    \A p \in 2 .. pkt - 1 :
      LostOf(p) = {} /\ LostOf(p - 1) = {} => Ours(p)

(***************************************************************************)
(* A tail that is cut by the frames is not found: packets of such lengths  *)
(* never arrive, lost frames or not (packet.cpp:156).                      *)
(***************************************************************************)
CutTailNeverArrives == len % 8 > 4 => out = <<>>

(***************************************************************************)
(* The data of a packet is in order, and no packet is handed out twice or  *)
(* after a later one (packet.cpp:88).                                      *)
(***************************************************************************)
OutInOrder ==
  /\ \A k \in DOMAIN out : \A i, j \in DOMAIN out[k] :
       i < j => \/ out[k][i].p < out[k][j].p
                \/ out[k][i].p = out[k][j].p /\ out[k][i].at < out[k][j].at
  /\ \A k, l \in DOMAIN out : k < l /\ len > 0 =>
       out[k][len].p < out[l][1].p
=============================================================================
