SPECIFICATION Spec
CONSTANTS
  Intervals = {0, 1, 2, 4}
  Ncpus = 2
  Memory = {1}
  Device = {g1}
  MaxTurn = 2
  MaxTime = 6
  MaxFaults = 1
CHECK_DEADLOCK FALSE
INVARIANTS   ReportsOnTime
