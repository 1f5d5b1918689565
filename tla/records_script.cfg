SPECIFICATION Spec
CONSTANTS
  Entity = {"job"}
  MaxRuns = 1
  MaxList = 2
  MaxDepth = 3
  MaxChanged = 1
CHECK_DEADLOCK FALSE
INVARIANT ScriptArrives
