SPECIFICATION SessionsSpec
CONSTANTS
  MaxWriters = 2
  Cap = 2
  MaxDate = 2
  DayParts = 1
  MonthDays = 2
  CountedDays = 1
  Files <- MCFiles
INVARIANTS
  ScanOwnsSession
  ScanRowsListed
  EntryIsSession
CHECK_DEADLOCK FALSE
CONSTRAINT OneRowEach
ACTION_CONSTRAINT Quiet
