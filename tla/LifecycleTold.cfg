SPECIFICATION FairSpec
CONSTANTS
  Timers = {vo}
  Waits = {vo}
  Interrupts = {i1}
INVARIANT TimerTold
CHECK_DEADLOCK FALSE
