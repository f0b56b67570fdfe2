SPECIFICATION Spec
CONSTANTS
  Programs = {rcm}
  Null = Null
  MaxUnrecv = 1
  MaxRestart = 1
  QueueCap = 2
  MaxPid = 2
  MaxFails = 0
INVARIANT NullIsHarmless
CHECK_DEADLOCK FALSE
