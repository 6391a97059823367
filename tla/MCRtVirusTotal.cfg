SPECIFICATION FairSpec
CONSTANTS
  MaxRuns = 2
  MaxRows = 2
  PerSlot = 2
  NbSlots = 2
INVARIANTS
  SlotsHeld
  EachRowOnce

PROPERTY RunEnds
CHECK_DEADLOCK FALSE
CONSTRAINT Settled
ACTION_CONSTRAINT ListsWatched
