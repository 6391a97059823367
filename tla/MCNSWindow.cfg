SPECIFICATION Spec
CONSTANTS
  MaxRuns = 1
  NbIp = 3
  Limit = 2
CONSTRAINT
  WhileCalm
INVARIANTS
  RowsStay
  LimitKept
  HandlesHeld
PROPERTIES
  RunsApart
