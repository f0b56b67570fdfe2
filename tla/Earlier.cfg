SPECIFICATION AnySpec
CHECK_DEADLOCK FALSE
CONSTANTS
\* SemRing: two slots, three items, three starts of the two processes
  Num = 2
  MaxItems = 3
  MaxStarts = 3
\* FlightLoop: four results in a ring of two, a counter of three values
  FlChildren = {"visionVelocity"}
  FlNum = 1
  FlQueueSize = 2
  FlPeriod = 3
  FlMaxResults = 4
\* StoreQueue
  SqSize = 2
  SqMaxNodes = 6
\* Family: two silent beats, a kernel queue of three
  FaChildren = {"visionVelocity", "visionBm"}
  FaTimes = 2
  FaCapacity = 3
  FaMaxThreads = 1
\* ProtoFrames: five reads go round the pool of three
  Pool = 3
  Ring = 3
  MaxReads = 5
\* ProtoExit
  MaxSignals = 3
  MaxFrames = 3
\* ProtoPoll
  Fds = {3, 4, 5, 6}
INVARIANTS
  PrototypeHolds
  
  FamilyKeepsOn
PROPERTIES
  ResultsGoOut
  ImagesAreStored
  
