SPECIFICATION Spec
CONSTANTS
  MaxAttempts = 2
  MaxLeases = 2
  MaxDeliveries = 2
  MaxFaults = 3
INVARIANTS
  TypeOK
  ReadyHasItsObject
  FailureIsCurrent
PROPERTIES
  ReadyInTimeForGood
CHECK_DEADLOCK FALSE
