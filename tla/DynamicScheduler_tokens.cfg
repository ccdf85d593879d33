\* Two cores and the accelerator, both builds, two calls.
SPECIFICATION FairSpec
CONSTANTS
  main = main
  w1 = w1
  w2 = w2
  NoThread = NoThread
  Main = main
  Threads <- AllThreads
  Builds <- BothBuilds
  numCPUs = 2
  numGPUs = 1
  ChunkGPU = 2
  First = 0
  Last = 4
  InitialFG = 2
  Speeds <- SpeedSet
  MaxCalls = 2
INVARIANTS
  TypeOK
  TokensConserved
  OneChunkOnAccelerator
  TotalsByDevice
PROPERTIES
  Implements
  CallReturns
  CallShortens
CHECK_DEADLOCK FALSE
