SPECIFICATION SessionsSpec
CONSTANTS
  MaxWriters = 2
  Cap = 2
  MaxDate = 3
  DayParts = 1
  MonthDays = 2
  CountedDays = 1
  Files <- MCFiles
INVARIANTS
  StateLabels
CHECK_DEADLOCK FALSE
