\* One accelerator and an accelerator chunk of zero.
SPECIFICATION FairSpec
CONSTANTS
  main = main
  w1 = w1
  w2 = w2
  w3 = w3
  Main = main
  Threads <- OneThread
  nCPUs = 0
  nGPUs = 1
  Kernels = 4
  ChunkGPU = 0
  First = 0
  Last = 4
  InitialFG = 2
  InitialPart = 2
  Speeds <- SpeedSet
  MaxCalls = 1
PROPERTIES
  CallReturns
CHECK_DEADLOCK FALSE
