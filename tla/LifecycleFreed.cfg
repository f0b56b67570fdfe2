SPECIFICATION FairSpec
CONSTANTS
  Timers = {vo}
  Waits = {vo}
  Interrupts = {i1}
INVARIANT TimersStopped
CHECK_DEADLOCK FALSE
