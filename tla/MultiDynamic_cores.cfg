\* Three cores and no accelerator: guided self-scheduling.
SPECIFICATION Spec
CONSTANTS
  main = main
  w1 = w1
  w2 = w2
  w3 = w3
  Main = main
  Threads <- ThreeThreads
  nCPUs = 3
  nGPUs = 0
  Kernels = 4
  ChunkGPU = 2
  First = 0
  Last = 9
  InitialFG = 2
  InitialPart = 2
  Speeds <- SpeedSet
  MaxCalls = 2
INVARIANTS
  GuidedShrinks
CHECK_DEADLOCK FALSE
