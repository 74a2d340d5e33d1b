CONSTANTS
  w1 = w1
  w2 = w2
  Workers <- MCWorkers
  Lease = 2
  Grace = 1
  MaxLag = 1
  BatchLimit = 2
  Kinds = {"text", "progress", "complete", "failed", "cancelled"}
  MaxClock = 5
  MaxGrants = 2
  MaxWorkerEvents = 2
  MaxSaves = 2
SYMMETRY Symmetry
SPECIFICATION Spec
INVARIANTS
  TypeOK
  JournalExactlyOnce
  FencedHolders
  EndsOnce
  CancellationWins
  ReplayWindow
  MessageShowsOutcome
  CheckpointedNotAbandoned
  NoDispatchAfterCancel
PROPERTIES
  LiveLeaseKept
  KeepsContract
CHECK_DEADLOCK FALSE
