\* Two DLLs and one on their results, at most one thread that cannot be created
SPECIFICATION Spec
CONSTANTS
  Stages <- Wide
  MaxFailed = 1
INVARIANTS
  
  ThreadsLeave
  ReusedIsGood
