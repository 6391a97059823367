SPECIFICATION Spec
CONSTANTS
  w1 = w1
  w2 = w2
  w3 = w3
  m1 = m1
  m2 = m2
  Workers <- MCWorkers
  Machines <- MCMachines
  NbAccounts = 2
SYMMETRY Symmetry
INVARIANTS
  ServiceRestored
  NothingLeft
CHECK_DEADLOCK FALSE
