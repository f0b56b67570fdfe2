SPECIFICATION Spec
CONSTANTS
  MaxCnt = 4
  Mode = 2
  Word = 7
  MaxPushes = 30
CHECK_DEADLOCK FALSE
INVARIANTS
  HandsOutDelayed
PROPERTIES
  DelaySpec
  NeverOlder
