------------------------------ MODULE CanWire -------------------------------
(***************************************************************************)
(* A packet on the CAN bus, byte by byte (src/common/can_data of           *)
(* visionSys-V2.0): CSndCanCtrl builds it and cuts it into frames of 8     *)
(* bytes, CNewProtocolCanCtrl or C388CanCtrl puts the frames together,     *)
(* tests the checksums and hands out the content.                          *)
(*                                                                         *)
(* The readers of a vision process read what the flight controller sends;  *)
(* its packets have the layout that CSndCanCtrl gives the packets for it,  *)
(* so SetContent and SndProcess stand for either side.  Frames are lost    *)
(* (a full socket) or changed in one bit.  CanPump has the queues, the     *)
(* threads and several packets at once; here the bytes are real.  The sums *)
(* are constants: the tables of Checksums in the run, any sums in a proof. *)
(***************************************************************************)
EXTENDS Integers, Sequences

CONSTANTS
  Crc8(_),     \* Get_CRC8_Check_Sum from CRC8_INIT: a byte
  Crc16(_),    \* Get_CRC16_Check_Sum from CRC_INIT: two bytes
  XorByte(_, _),   \* ^ of two bytes
  Contents,    \* the contents sent, sequences of bytes
  Ids,         \* the CAN ids: a subset of {0x092, 0x388}
  Cmd,         \* m_cmdCode
  Key,         \* m_key
  BufSize,     \* sizeof(m_buf), 256 in the code
  Stale,       \* what the bytes of a frame after its can_dlc may hold
  Bits,        \* bound: the bits of a byte that may be changed
  MaxPackets,  \* bound: packets sent
  MaxLost,     \* bound: frames lost
  MaxFlips     \* bound: frames changed

Byte == 0 .. 255

But(m, n) == SubSeq(m, 1, Len(m) - n)

Verify_CRC8_Check_Sum(m) == Len(m) > 2 /\ Crc8(But(m, 1)) = m[Len(m)]

(* The low byte comes first.                                               *)
LowHigh(n) == <<n % 256, n \div 256>>

Verify_CRC16_Check_Sum(m) ==
  Len(m) > 2 /\ LowHigh(Crc16(But(m, 2))) = SubSeq(m, Len(m) - 1, Len(m))

Append_CRC8_Check_Sum(m) ==
  IF Len(m) > 2 THEN Append(But(m, 1), Crc8(But(m, 1))) ELSE m

Append_CRC16_Check_Sum(m) ==
  IF Len(m) > 2 THEN But(m, 2) \o LowHigh(Crc16(But(m, 2))) ELSE m

(* 0x55, length, CRC8 of these, command, content, CRC16 of all before.     *)
Packet(c) ==
  LET n == Len(c) + 8 IN
    Append_CRC16_Check_Sum(
      Append_CRC8_Check_Sum(<<\h55, n % 256, n \div 256, 0>>)
        \o LowHigh(Cmd) \o c \o <<0, 0>>)

CanWireAssumption ==
  /\ Ids \subseteq {\h092, \h388}
  /\ Key \in Byte
  /\ Cmd \in Nat /\ Cmd < 65536
  /\ BufSize \in Nat /\ BufSize >= 8 /\ BufSize < 65536
  /\ \A c \in Contents : /\ c \in Seq(Byte) /\ Len(c) + 8 <= BufSize
                         /\ Packet(c) \in Seq(Byte)
  /\ Stale \subseteq Byte /\ Stale # {}
  /\ \A b \in Byte, bit \in Bits : XorByte(b, 2^bit) \in Byte

VARIABLES
  id,          \* the CAN id of the packet under way
  content,     \* its content
  sndData,     \* szData of CSndCanCtrl, m_size its length
  sndPos,      \* its m_pos
  wire,        \* the frame between sender and reader, <<>> if there is none
  rd,          \* each reader: [buf, size, pos, begin]
  packets, lost, flips,  \* how much of each bound is used
  hurt,        \* history: a frame of the packet was lost or changed
  sent,        \* history: the contents sent so far
  handed       \* history: what the readers handed out for this packet

sender == <<id, content, sndData, sndPos>>
vars == <<sender, wire, rd, packets, lost, flips, hurt, sent, handed>>

FRAME_LEN == 8

Init ==
  /\ id \in Ids
  /\ content = <<>> /\ sndData = <<>> /\ sndPos = 0
  /\ wire = <<>>
  /\ rd = [i \in Ids |-> [buf |-> [k \in 1 .. BufSize |-> 0],
                          size |-> 0, pos |-> 0, begin |-> FALSE]]
  /\ packets = 0 /\ lost = 0 /\ flips = 0
  /\ hurt = FALSE
  /\ sent = {}
  /\ handed = <<>>
-----------------------------------------------------------------------------
(***************************************************************************)
(* The sender.                                                             *)
(***************************************************************************)
(* SetContent; the queue between it and Process is left out.               *)
SetContent(i, c) ==
  /\ sndData = <<>>
  /\ wire = <<>>
  /\ packets < MaxPackets
  /\ packets' = packets + 1
  /\ id' = i
  /\ content' = c
  /\ sndData' = Packet(c)
  /\ sndPos' = 0
  /\ hurt' = FALSE
  /\ sent' = sent \cup {c}
  /\ handed' = <<>>
  /\ UNCHANGED <<wire, rd, lost, flips>>

(* Process fills a frame with what is left, and resets m_size at the end.  *)
SndProcess ==
  /\ sndData # <<>>
  /\ wire = <<>>
  /\ LET upTo == IF sndPos + FRAME_LEN < Len(sndData) THEN sndPos + FRAME_LEN ELSE Len(sndData) IN
       /\ wire' = SubSeq(sndData, sndPos + 1, upTo)
       /\ IF upTo = Len(sndData)
          THEN sndData' = <<>> /\ sndPos' = 0
          ELSE sndPos' = upTo /\ UNCHANGED sndData
  /\ UNCHANGED <<id, content, rd, packets, lost, flips, hurt, sent, handed>>
-----------------------------------------------------------------------------
(***************************************************************************)
(* The bus (external).                                                     *)
(***************************************************************************)
Lose ==
  /\ wire # <<>>
  /\ lost < MaxLost
  /\ lost' = lost + 1
  /\ wire' = <<>>
  /\ hurt' = TRUE
  /\ UNCHANGED <<sender, rd, packets, flips, sent, handed>>

Flip(k, bit) ==
  /\ k \in DOMAIN wire
  /\ flips < MaxFlips
  /\ flips' = flips + 1
  /\ wire' = [wire EXCEPT ![k] = XorByte(@, 2^bit)]
  /\ hurt' = TRUE
  /\ UNCHANGED <<sender, rd, packets, lost, sent, handed>>
-----------------------------------------------------------------------------
(***************************************************************************)
(* The reader.                                                             *)
(***************************************************************************)
(* Byte 7 tells C388CanCtrl the kind of its packet, A2 or C2.              *)
IsStick(i, byte7) == i = \h388 => byte7 \in {\hA2, \hC2}

(* The bytes of data after can_dlc are what the frame held before.         *)
CheckHead(i, f, stale) ==
  /\ Len(f) >= 4
  /\ f[1] = \h55
  /\ Verify_CRC8_Check_Sum(SubSeq(f, 1, 4))
  /\ IsStick(i, IF Len(f) = 8 THEN f[8] ELSE stale)

(* Mutant: the checksum is not tested.                                     *)
CheckTotalNot(i, c) == IsStick(i, c.buf[8])

CheckTotal(i, c) ==
  Verify_CRC16_Check_Sum(SubSeq(c.buf, 1, c.size)) /\ IsStick(i, c.buf[8])

SizeOf(f) == f[2] + 256 * f[3]

TooLong(f) == SizeOf(f) > BufSize

(* Mutant: m_pos = 0 forgotten, so what a lost tail left stays.            *)
BegunKeepsPos(r, f) == [r EXCEPT !.size = SizeOf(f), !.begin = TRUE]

(* A head begins a packet, whatever was under way.                         *)
Begun(r, f) == [r EXCEPT !.size = SizeOf(f), !.pos = 0, !.begin = TRUE]

(* The for loop: no further than m_size.                                   *)
Copied(r, f) ==
  LET n == IF r.pos + Len(f) < r.size THEN Len(f) ELSE r.size - r.pos IN
  [r EXCEPT !.buf = [k \in DOMAIN @ |->
                       IF k \in r.pos + 1 .. r.pos + n THEN f[k - r.pos] ELSE @[k]],
            !.pos = @ + n]

Xored(m) == [k \in DOMAIN m |-> XorByte(m[k], Key)]

(* GetContent: CNewProtocolCanCtrl decodes from byte 6 to the last but     *)
(* one, C388CanCtrl hands out from byte 4 to the last but two.             *)
GetContent(i, m) ==
  IF i = \h388 THEN SubSeq(m, 5, Len(m) - 2) ELSE Xored(SubSeq(m, 7, Len(m) - 1))

(* Process of the reader, and GetContent of CCanPacket::Process after it.  *)
RdProcess(stale) ==
  /\ wire # <<>>
  /\ wire' = <<>>
  /\ LET head == CheckHead(id, wire, stale)
         r == IF head THEN Begun(rd[id], wire) ELSE rd[id] IN
       IF (head /\ TooLong(wire)) \/ ~r.begin
       THEN UNCHANGED <<rd, handed>>
       ELSE LET c == Copied(r, wire) IN
            /\ rd' = [rd EXCEPT ![id] = IF c.pos = c.size THEN [c EXCEPT !.begin = FALSE] ELSE c]
            /\ handed' = IF c.pos = c.size /\ CheckTotal(id, c)
                         THEN Append(handed, GetContent(id, SubSeq(c.buf, 1, c.size)))
                         ELSE handed
  /\ UNCHANGED <<sender, packets, lost, flips, hurt, sent>>

Next ==
  \/ \E i \in Ids, c \in Contents : SetContent(i, c)
  \/ SndProcess
  \/ Lose
  \/ \E k \in 1 .. FRAME_LEN, bit \in Bits : Flip(k, bit)
  \/ \E stale \in Stale : RdProcess(stale)

Spec == Init /\ [][Next]_vars
-----------------------------------------------------------------------------
(***************************************************************************)
(* Properties.                                                             *)
(***************************************************************************)
TypeOK ==
  /\ id \in Ids
  /\ sndPos \in 0 .. Len(sndData)
  /\ Len(wire) <= FRAME_LEN
  /\ \A i \in Ids : /\ rd[i].buf \in [1 .. BufSize -> Byte]
                    /\ rd[i].pos <= rd[i].size /\ rd[i].size <= BufSize

(* A later frame of the packet that a reader takes for a head: it begins   *)
(* with 0x55 and its fourth byte happens to be the CRC8.                   *)
MistakenHead(i, m) ==
  \E k \in 1 .. (Len(m) - 4) \div FRAME_LEN, stale \in Stale :
    CheckHead(i, SubSeq(m, FRAME_LEN * k + 1,
                        IF FRAME_LEN * (k + 1) < Len(m) THEN FRAME_LEN * (k + 1) ELSE Len(m)),
              stale)

(* What a reader hands out begins with the content, as its kind decodes it.*)
Carries(i, h, c) ==
  IF i = \h388 THEN h = LowHigh(Cmd) \o c ELSE SubSeq(h, 1, Len(h) - 1) = Xored(c)

(* All frames of the last packet arrived, and nothing is under way.        *)
ArrivedWhole ==
  /\ packets > 0 /\ sndData = <<>> /\ wire = <<>>
  /\ ~hurt
  /\ IsStick(id, Packet(content)[8])

(* A packet whose frames all arrive is handed out once, whatever its       *)
(* length is, whatever was left of the packet before it, and although its  *)
(* last frame may be short, if none of its frames looks like a head.       *)
WholeIsHanded ==
  ArrivedWhole /\ ~MistakenHead(id, Packet(content)) =>
    Len(handed) = 1 /\ Carries(id, handed[1], content)

(* One with a frame that looks like a head never gets through.             *)
MistakenIsLost == ArrivedWhole /\ MistakenHead(id, Packet(content)) => handed = <<>>

(* With frames lost and a bit changed, what is handed out is still a       *)
(* content that was sent: the checksums refuse every other mixture.        *)
NothingForged ==
  \A k \in DOMAIN handed : \E c \in sent : Carries(id, handed[k], c)
=============================================================================
