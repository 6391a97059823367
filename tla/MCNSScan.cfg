SPECIFICATION FairSpec
CONSTANTS
  NbIp = 2
  Limit <- MCLimit
  Configs <- MCConfigs
INVARIANTS
  TypeOK
  PermitsConserved
  CloseSafe
  DrainedMeansTested
  CountExact
  NeverOverCounted
  FoundHostHasRow
PROPERTIES
  KeepsContract
  ScanEnds
  WorkersEnd
