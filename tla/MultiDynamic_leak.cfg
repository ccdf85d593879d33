\* One core and one accelerator: Bundles after the call.
SPECIFICATION Spec
CONSTANTS
  main = main
  w1 = w1
  w2 = w2
  w3 = w3
  Main = main
  Threads <- TwoThreads
  nCPUs = 1
  nGPUs = 1
  Kernels = 4
  ChunkGPU = 2
  First = 0
  Last = 4
  InitialFG = 2
  InitialPart = 2
  Speeds <- SpeedSet
  MaxCalls = 1
INVARIANTS
  NoBundleLeft
CHECK_DEADLOCK FALSE
