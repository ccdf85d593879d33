\* One accelerator that sleeps on its driver and may be disturbed, and one that
\* is given the descriptor of the first driver; polled or not, each driver with
\* or without a timeout, two calls each.
SPECIFICATION FairSpec
CONSTANTS
  Acc <- TwoAcc
  FileDesc <- FirstDriver
  IoctlFlags <- SleepOrPoll
  Timeouts <- NoneOr15
  Disturbances <- FirstDisturbed
  MaxJobs = 2
INVARIANTS
  TypeOK
  NoLostWakeUp
  SleepUntilOwnInterrupt
  NoInterruptLeftOver
PROPERTIES
  Implements
  CallsReturn
CHECK_DEADLOCK FALSE
