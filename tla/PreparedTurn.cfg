CONSTANTS
  s1 = s1
  s2 = s2
  r1 = r1
  r2 = r2
  d1 = d1
  browser = browser
  Senders <- MCSenders
  Resumers <- MCResumers
  Discarders = {d1}
  ClientKeys = {browser}
  DuplicateWindow = 1
  TakeoverAge = 3
  ClaimTTL = 3
  Skew = 1
  MaxClock = 7
  MaxRuns = 2
SYMMETRY Symmetry
SPECIFICATION Spec
INVARIANTS
  TypeOK
  OneActiveRun
  PreparedAnsweredOnce
PROPERTIES
  SupersededNeverCommits
CHECK_DEADLOCK FALSE
