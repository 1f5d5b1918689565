SPECIFICATION CancelSpec
CONSTANTS
  JobIds = {a, b}
  Nodes = {h, n}
  Manager = h
  Prompt = TRUE
  Ordered = TRUE
  LaterRows = FALSE
  RequeueFrom = {}
  MaxStarts = 2
  MaxPending = 1
  MaxRequeues = 0
  MaxFaults = 0
CHECK_DEADLOCK FALSE
INVARIANT EndMeansStopped
