SPECIFICATION FairSpec
CONSTANTS
  Timers = {vo}
  Waits = {vo}
  Interrupts = {i1, i2}
CHECK_DEADLOCK FALSE
INVARIANTS
  TypeOK
  

  
