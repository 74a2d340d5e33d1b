SPECIFICATION Spec
CONSTANTS
  Workers = {a, b}
  Nobody = nobody
  MaxCalls = 2
  MaxSteps = 2
  LoopSteps = 1
  MaxSearches = 1
  MaxAttempts = 2
  Budget = 3
  MaxLeases = 2
  MaxBefore = 1
  Replies <- SomeReplies
INVARIANTS
  TypeOK
  NothingRepeated
  PaidFirst
  EndsSettled
  ReceiptsTrue
SYMMETRY WorkerSymmetry
CHECK_DEADLOCK FALSE
