SPECIFICATION FairSpec
CONSTANTS
  NFds = 2
  KeyId = k109
  DataIds = {d092}
  Routes <- RcmRoutes
  PktLen = 2
  SndCap = 1
  RxCap = 2
  MaxPkts <- Packets
  MaxPushes <- Pushes
  MaxOdd = 1
CHECK_DEADLOCK FALSE
INVARIANTS
  HandledRight
PROPERTIES
  WholePacketsSent
  PumpGoesOn
