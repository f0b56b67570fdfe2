----------------------------- MODULE Checksums ------------------------------
(***************************************************************************)
(* The two checksums of a CAN packet (src/common/can_data/MF_CRC8.cpp and  *)
(* crc16.cpp of visionSys-V2.0), with their tables as they stand there,    *)
(* and the polynomial division the tables abbreviate.  A message is a      *)
(* sequence of bytes.                                                      *)
(***************************************************************************)
EXTENDS Integers, Sequences, SequencesExt, Bitwise

Byte == 0 .. 255

CRC8_INIT == \h77
CRC_INIT == \h3692

CRC8_TAB == <<
  \h00, \h5e, \hbc, \he2, \h61, \h3f, \hdd, \h83, \hc2, \h9c, \h7e, \h20, \ha3, \hfd, \h1f, \h41,
  \h9d, \hc3, \h21, \h7f, \hfc, \ha2, \h40, \h1e, \h5f, \h01, \he3, \hbd, \h3e, \h60, \h82, \hdc,
  \h23, \h7d, \h9f, \hc1, \h42, \h1c, \hfe, \ha0, \he1, \hbf, \h5d, \h03, \h80, \hde, \h3c, \h62,
  \hbe, \he0, \h02, \h5c, \hdf, \h81, \h63, \h3d, \h7c, \h22, \hc0, \h9e, \h1d, \h43, \ha1, \hff,
  \h46, \h18, \hfa, \ha4, \h27, \h79, \h9b, \hc5, \h84, \hda, \h38, \h66, \he5, \hbb, \h59, \h07,
  \hdb, \h85, \h67, \h39, \hba, \he4, \h06, \h58, \h19, \h47, \ha5, \hfb, \h78, \h26, \hc4, \h9a,
  \h65, \h3b, \hd9, \h87, \h04, \h5a, \hb8, \he6, \ha7, \hf9, \h1b, \h45, \hc6, \h98, \h7a, \h24,
  \hf8, \ha6, \h44, \h1a, \h99, \hc7, \h25, \h7b, \h3a, \h64, \h86, \hd8, \h5b, \h05, \he7, \hb9,
  \h8c, \hd2, \h30, \h6e, \hed, \hb3, \h51, \h0f, \h4e, \h10, \hf2, \hac, \h2f, \h71, \h93, \hcd,
  \h11, \h4f, \had, \hf3, \h70, \h2e, \hcc, \h92, \hd3, \h8d, \h6f, \h31, \hb2, \hec, \h0e, \h50,
  \haf, \hf1, \h13, \h4d, \hce, \h90, \h72, \h2c, \h6d, \h33, \hd1, \h8f, \h0c, \h52, \hb0, \hee,
  \h32, \h6c, \h8e, \hd0, \h53, \h0d, \hef, \hb1, \hf0, \hae, \h4c, \h12, \h91, \hcf, \h2d, \h73,
  \hca, \h94, \h76, \h28, \hab, \hf5, \h17, \h49, \h08, \h56, \hb4, \hea, \h69, \h37, \hd5, \h8b,
  \h57, \h09, \heb, \hb5, \h36, \h68, \h8a, \hd4, \h95, \hcb, \h29, \h77, \hf4, \haa, \h48, \h16,
  \he9, \hb7, \h55, \h0b, \h88, \hd6, \h34, \h6a, \h2b, \h75, \h97, \hc9, \h4a, \h14, \hf6, \ha8,
  \h74, \h2a, \hc8, \h96, \h15, \h4b, \ha9, \hf7, \hb6, \he8, \h0a, \h54, \hd7, \h89, \h6b, \h35>>

wCRC_Table == <<
  \h0000, \h1189, \h2312, \h329b, \h4624, \h57ad, \h6536, \h74bf,
  \h8c48, \h9dc1, \haf5a, \hbed3, \hca6c, \hdbe5, \he97e, \hf8f7,
  \h1081, \h0108, \h3393, \h221a, \h56a5, \h472c, \h75b7, \h643e,
  \h9cc9, \h8d40, \hbfdb, \hae52, \hdaed, \hcb64, \hf9ff, \he876,
  \h2102, \h308b, \h0210, \h1399, \h6726, \h76af, \h4434, \h55bd,
  \had4a, \hbcc3, \h8e58, \h9fd1, \heb6e, \hfae7, \hc87c, \hd9f5,
  \h3183, \h200a, \h1291, \h0318, \h77a7, \h662e, \h54b5, \h453c,
  \hbdcb, \hac42, \h9ed9, \h8f50, \hfbef, \hea66, \hd8fd, \hc974,
  \h4204, \h538d, \h6116, \h709f, \h0420, \h15a9, \h2732, \h36bb,
  \hce4c, \hdfc5, \hed5e, \hfcd7, \h8868, \h99e1, \hab7a, \hbaf3,
  \h5285, \h430c, \h7197, \h601e, \h14a1, \h0528, \h37b3, \h263a,
  \hdecd, \hcf44, \hfddf, \hec56, \h98e9, \h8960, \hbbfb, \haa72,
  \h6306, \h728f, \h4014, \h519d, \h2522, \h34ab, \h0630, \h17b9,
  \hef4e, \hfec7, \hcc5c, \hddd5, \ha96a, \hb8e3, \h8a78, \h9bf1,
  \h7387, \h620e, \h5095, \h411c, \h35a3, \h242a, \h16b1, \h0738,
  \hffcf, \hee46, \hdcdd, \hcd54, \hb9eb, \ha862, \h9af9, \h8b70,
  \h8408, \h9581, \ha71a, \hb693, \hc22c, \hd3a5, \he13e, \hf0b7,
  \h0840, \h19c9, \h2b52, \h3adb, \h4e64, \h5fed, \h6d76, \h7cff,
  \h9489, \h8500, \hb79b, \ha612, \hd2ad, \hc324, \hf1bf, \he036,
  \h18c1, \h0948, \h3bd3, \h2a5a, \h5ee5, \h4f6c, \h7df7, \h6c7e,
  \ha50a, \hb483, \h8618, \h9791, \he32e, \hf2a7, \hc03c, \hd1b5,
  \h2942, \h38cb, \h0a50, \h1bd9, \h6f66, \h7eef, \h4c74, \h5dfd,
  \hb58b, \ha402, \h9699, \h8710, \hf3af, \he226, \hd0bd, \hc134,
  \h39c3, \h284a, \h1ad1, \h0b58, \h7fe7, \h6e6e, \h5cf5, \h4d7c,
  \hc60c, \hd785, \he51e, \hf497, \h8028, \h91a1, \ha33a, \hb2b3,
  \h4a44, \h5bcd, \h6956, \h78df, \h0c60, \h1de9, \h2f72, \h3efb,
  \hd68d, \hc704, \hf59f, \he416, \h90a9, \h8120, \hb3bb, \ha232,
  \h5ac5, \h4b4c, \h79d7, \h685e, \h1ce1, \h0d68, \h3ff3, \h2e7a,
  \he70e, \hf687, \hc41c, \hd595, \ha12a, \hb0a3, \h8238, \h93b1,
  \h6b46, \h7acf, \h4854, \h59dd, \h2d62, \h3ceb, \h0e70, \h1ff9,
  \hf78f, \he606, \hd49d, \hc514, \hb1ab, \ha022, \h92b9, \h8330,
  \h7bc7, \h6a4e, \h58d5, \h495c, \h3de3, \h2c6a, \h1ef1, \h0f78>>

Get_CRC8_Check_Sum(m, init) ==
  FoldLeft(LAMBDA c, b : CRC8_TAB[(c ^^ b) + 1], init, m)

Get_CRC16_Check_Sum(m, init) ==
  FoldLeft(LAMBDA c, b : (c \div 256) ^^ wCRC_Table[((c ^^ b) % 256) + 1], init, m)
-----------------------------------------------------------------------------
(***************************************************************************)
(* Reference: the remainder of the division by a polynomial, bit by bit,   *)
(* the lowest bit first.                                                   *)
(***************************************************************************)
(* G(x) = x^8 + x^5 + x^4 + 1 and x^16 + x^12 + x^5 + 1, reflected.        *)
Poly8 == \h8C
Poly16 == \h8408

DivideBit(c, poly) == IF c % 2 = 1 THEN (c \div 2) ^^ poly ELSE c \div 2

DivideByte(c, b, poly) ==
  FoldLeft(LAMBDA r, i : DivideBit(r, poly), c ^^ b, [i \in 1 .. 8 |-> i])

Remainder(m, init, poly) == FoldLeft(LAMBDA c, b : DivideByte(c, b, poly), init, m)
=============================================================================
