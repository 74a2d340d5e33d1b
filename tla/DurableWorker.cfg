CONSTANTS
  MaxMade = 3
  MaxFaults = 2
SPECIFICATION Spec
INVARIANTS
  TypeOK
  NoSilentGap
  EndsAsSaved
  CancelledOnRequest
PROPERTIES
  RunEnds
  KeepsContract
CHECK_DEADLOCK FALSE
