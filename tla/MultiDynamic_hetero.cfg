\* One core, two accelerators, two calls over seven iterations.
SPECIFICATION FairSpec
CONSTANTS
  main = main
  w1 = w1
  w2 = w2
  w3 = w3
  Main = main
  Threads <- ThreeThreads
  nCPUs = 1
  nGPUs = 2
  Kernels = 4
  ChunkGPU = 2
  First = 0
  Last = 7
  InitialFG = 2
  InitialPart = 2
  Speeds <- SpeedSet
  MaxCalls = 2
INVARIANTS
  TypeOK
  RunOnce
  AcceleratorOwner
  DevicesNotOversubscribed
PROPERTIES
  Implements
  CallReturns
  CallShortens
CHECK_DEADLOCK FALSE
