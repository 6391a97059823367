SPECIFICATION FairSpec
CONSTANTS
  MaxRuns = 1
  NbIp = 1
  Limit = 1
CONSTRAINT
  WhileUnspoilt
PROPERTIES
  Usable
