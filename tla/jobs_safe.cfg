SPECIFICATION FairSpec
CONSTANTS
  JobIds = {a, b}
  Nodes = {h, n}
  Manager = h
  Prompt = TRUE
  Ordered = TRUE
  LaterRows = FALSE
  RequeueFrom = {"F", "E"}
  MaxStarts = 2
  MaxPending = 1
  MaxRequeues = 1
  MaxFaults = 1
CHECK_DEADLOCK FALSE
INVARIANTS TypeOK NodeExclusive IdleMeansFree  
 
