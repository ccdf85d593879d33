\* A timeout races a late interrupt.
SPECIFICATION Spec
CONSTANTS
  Acc <- OneAcc
  FileDesc <- OwnDriver
  IoctlFlags = {TRUE}
  Timeouts = {15}
  Disturbances <- Quiet
  MaxJobs = 3
INVARIANTS
  SleepUntilInterrupt
CHECK_DEADLOCK FALSE
