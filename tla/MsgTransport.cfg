SPECIFICATION FairSpec
CONSTANTS
  BigIds = {velocity}
  Rcm = Rcm
  MaxMsg = 2
  Word = 8
  QueueCap = 3
  MaxFrames = 4
  MaxKills = 2
CHECK_DEADLOCK FALSE
INVARIANTS
  CountsRight
  DeliversNewest
PROPERTIES
  ChannelSpec
  NeverOlder
  LockGranted
