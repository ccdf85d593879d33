\* Every kernel is given the descriptor of the first driver.
SPECIFICATION Spec
CONSTANTS
  Acc <- TwoAcc
  FileDesc <- FirstDriver
  IoctlFlags = {TRUE}
  Timeouts = {0}
  Disturbances <- Quiet
  MaxJobs = 2
INVARIANTS
  SleepUntilInterrupt
CHECK_DEADLOCK FALSE
