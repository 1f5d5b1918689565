SPECIFICATION LiveSpec
CONSTANTS
  N = 2
  MaxTasks = 2
  MaxFences = 2
  Allowed = {"helper", "container", "timeout", "slow", "loss", "death", "crash", "cancel"}
  GoesOn = FALSE
  MaxFaults = 2
CHECK_DEADLOCK FALSE
INVARIANTS TypeOK RoundsDoNotMix NoUnknownFence
PROPERTIES ImplementsFence TaskEnds
