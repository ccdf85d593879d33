\* Any program; two turns of a second of three ticks.
SPECIFICATION FairSpec
CONSTANTS
  SECOND = 3
  MaxGap = 2
  MaxClock = 6
INVARIANTS
  TypeOK
  AccountedOnce
  DiffIsBetween
PROPERTIES
  FrozenAfterStop
  DestroyReturns
CHECK_DEADLOCK FALSE
