\* Daemon: two children, at most one silent pass, two replacements, five
\* processes; the store's configurations are in MCSupervision
SPECIFICATION AnySpec
CHECK_DEADLOCK FALSE
CONSTANTS
  Programs = {rcm, velocity}
  Null = Null
  MaxUnrecv = 1
  MaxRestart = 2
  QueueCap = 1
  MaxPid = 5
  MaxFails = 1
  Garbage = {0, 7}
  ScQueueCap = 2
  ScMaxProcs = 4
  Options <- MCOptions
  Recordings = 2
  StMaxFrames = 5
  StMaxStarts = 3
  StMaxErrs = 2
INVARIANTS
  OneInstance
  MapIsRight
  KillsOnlySilent
  StatusTold
  OriginalKeepsOrder
PROPERTIES
  ImagesKept
  DeadAreReplaced
