\* A reading right after start.
SPECIFICATION Spec
CONSTANTS
  SECOND = 3
  MaxGap = 2
  MaxClock = 5
INVARIANTS
  ReadingsAreTaken
CHECK_DEADLOCK FALSE
