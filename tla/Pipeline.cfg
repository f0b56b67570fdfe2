\* QueueCtrl: the receiver thread pushes, the sending timer pops, three records;
\* VoPipeline: four frames, which come to an end, of which the first is dropped,
\* three samples, two processes
SPECIFICATION AnySpec
CHECK_DEADLOCK FALSE
CONSTANTS
  Producers = {receiver}
  Consumers = {sender}
  Item = {a, b, c}
  NoItem = NoItem
  MaxCnt = 3
  Lifo = FALSE
  Word = 8
  ImuCap = 3
  ImuDelay = 1
  MaxMsg = 2
  CtrlCap = 1
  Discards = 1
  MaxFrames = 4
  MaxSamples = 3
  MaxLives = 2
INVARIANTS
  TypeOK
PROPERTIES
  FifoSpec
  
  
