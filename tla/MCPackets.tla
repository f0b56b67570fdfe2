----------------------------- MODULE MCPackets ------------------------------
(***************************************************************************)
(* Packets with the checksums of V2.0, and what can be said of the wire    *)
(* only with them: a proof takes any sums, these are the ones of the code. *)
(***************************************************************************)
EXTENDS Checksums, Packets

MCCrc8(m) == Get_CRC8_Check_Sum(m, CRC8_INIT)
MCCrc16(m) == Get_CRC16_Check_Sum(m, CRC_INIT)
MCXorByte(a, b) == a ^^ b

(* Contents for CanWire: 3 bytes (the last frame is short), 8 bytes (the   *)
(* frames are full), one whose second frame looks like the head of a       *)
(* packet of 12 bytes, and one that looks like the head of 300.            *)
Head3(low, high) == Append(<<\h55, low, high>>, MCCrc8(<<\h55, low, high>>))

MCContents ==
  { <<1, \hA2, 3>>,
    <<9, \hC2, \h55, 4, 5, 6, 7, 8>>,
    <<1, \hA2>> \o Head3(12, 0) \o <<0, 0, 0, \hC2>>,
    <<1, \hA2>> \o Head3(300 % 256, 1) \o <<0, 0, 0, \hA2>> }

MCIds == {\h092, \h388}
MCStale == {0, \hA2}
-----------------------------------------------------------------------------
(* The tables are the division by G(x) (MF_CRC8.cpp:16).                   *)
TablesDivide ==
  \A b \in Byte :
    /\ Get_CRC8_Check_Sum(<<b>>, 0) = Remainder(<<b>>, 0, Poly8)
    /\ Get_CRC16_Check_Sum(<<b>>, 0) = Remainder(<<b>>, 0, Poly16)

(* The checksums of every packet are remainders; and a stream with its     *)
(* checksum appended has the checksum 0, the other way to verify that      *)
(* MF_CRC8.cpp:58 and crc16.cpp:78 name.                                   *)
ChecksumsDivide ==
  /\ TablesDivide
  /\ cwSndData # <<>> /\ cwSndPos = 0 =>
       /\ cwSndData[4] = Remainder(SubSeq(cwSndData, 1, 3), CRC8_INIT, Poly8)
       /\ MCCrc8(SubSeq(cwSndData, 1, 4)) = 0
       /\ MCCrc16(cwSndData) = 0

(* What depends on the checksums of the code and on the contents sent: a   *)
(* content with a frame like a head gets lost, the checksums refuse every  *)
(* mixture of packets, and they are the remainders they abbreviate.        *)
WireIsTrue == CW!MistakenIsLost /\ CW!NothingForged /\ ChecksumsDivide
=============================================================================
