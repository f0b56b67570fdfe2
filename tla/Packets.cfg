\* CanWire: two packets of four kinds under two ids, two frames lost, one bit
\* changed; Sbus: packets of five bytes; OldPackets: four packets of every kind
\* of length, five frames lost; ImuStart: six packets of four frames, four lost;
\* ImuReceiver: three packets, two records of two frames, four frames lost
SPECIFICATION ReadersSpec
CHECK_DEADLOCK FALSE
CONSTANTS
  Crc8 <- MCCrc8
  Crc16 <- MCCrc16
  XorByte <- MCXorByte
  CwContents <- MCContents
  CwIds <- MCIds
  CwCmd = 4098
  CwKey = 90
  CwBufSize = 24
  CwStale <- MCStale
  CwBits = {0, 6}
  CwMaxPackets = 2
  CwMaxLost = 2
  CwMaxFlips = 1
  SbSize = 5
  OpLens = {0, 3, 4, 8, 10, 12, 13, 16, 20, 21}
  OpMaxPackets = 4
  OpMaxLost = 5
  IsSize = 4
  IsKeyAt = 2
  IsMaxPackets = 6
  IsMaxLost = 4
  IrSize = 2
  IrNum = 2
  IrMaxPackets = 3
  IrMaxLost = 4
INVARIANTS
  WireDelivers
  WireIsTrue
  
  OldReadersRecover
PROPERTIES
  ImuReaderRight
  GetReturns
