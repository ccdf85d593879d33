\* Without an accelerator or with one, all phases of the measuring.
SPECIFICATION FairSpec
CONSTANTS
  t1 = t1
  t2 = t2
  t3 = t3
  NoThread = NoThread
  Threads <- ThreeThreads
  GPUCounts = {0, 1}
  First = 0
  Last = 17
  InitialChunk = 0
  minChunkCPU = 5
  numberPoints = 2
  FitChunks = {3, 9}
  Speeds = {1}
  MAXPOINTS = 18
  MaxCalls = 2
INVARIANTS
  TypeOK
  TokensConserved
  RunOnce
  PointsIncrease
PROPERTIES
  CallReturns
  CallShortens
CHECK_DEADLOCK FALSE
