CONSTANTS
  Limit = 2
  BatchLimit = 2
  MaxEvents = 4
  MaxDrops = 1
SPECIFICATION Spec
INVARIANTS
  CardsShown
CHECK_DEADLOCK FALSE
