SPECIFICATION FairSpec
CONSTANTS
  NbIp = 2
  Limit <- MCLimit
  Configs <- MCConfigs
  Years = {2015, 2016}
  Intervals = {5, 7, 30}
INVARIANTS
  PermitsAccounted
  VerdictsTold
PROPERTIES
  KeepsContract
  AutoEnds
  AutoSaves
