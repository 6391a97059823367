SPECIFICATION FairSpec
CONSTANTS
  NbTests = 2
  MaxScans = 2
  MaxStops = 1
CONSTRAINT StillApart
INVARIANTS
  EndCommits
  KillsAll
  ResultsSaved
PROPERTIES
  ScansApart
  ScanEnds
CHECK_DEADLOCK FALSE
