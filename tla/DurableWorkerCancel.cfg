CONSTANTS
  MaxMade = 3
  MaxFaults = 0
SPECIFICATION Spec
INVARIANTS
  CancellationSaid
CHECK_DEADLOCK FALSE
