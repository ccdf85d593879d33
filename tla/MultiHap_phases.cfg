\* No, one or two accelerators, the first calls.
SPECIFICATION FairSpec
CONSTANTS
  t1 = t1
  t2 = t2
  t3 = t3
  Threads <- ThreeThreads
  GPUCounts = {0, 1, 2}
  First = 0
  Last = 9
  CHUNKALIGN = 2
  InitialChunk = 1
  NumberPoints = 0
  FitChunks = {2, 4}
  SpeedUps <- SpeedSet
  BeforeX = {0, 3}
  MAXPOINTS = 19
  MaxCalls = 2
INVARIANTS
  TypeOK
  ActiveCounted
  PointsApart
  PointsIncrease
  BlocksAligned
PROPERTIES
  Implements
  CallReturns
  CallShortens
CHECK_DEADLOCK FALSE
