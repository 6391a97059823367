SPECIFICATION Spec
CONSTANTS
  Top = 2
  MaxAccounts = 3
  MaxLoads = 2
  NoAccount = NoAccount
  a1 = a1
  a2 = a2
  a3 = a3
  Files <- MCBothFiles
  AccountFiles <- MCAccountFiles
CONSTRAINT IntervalsAlone
INVARIANT TidyDescribed
INVARIANT OwnAccountAtFirst
INVARIANT OnlyMeant
INVARIANT SmallRangesComplete
CHECK_DEADLOCK FALSE
