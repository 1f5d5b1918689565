SPECIFICATION Spec
CONSTANTS
  Entity = {"account", "boot_info", "cluster", "executable", "global", "grid", "hook", "image",
            "job", "metric", "node", "partition", "process", "queue", "relocation", "remote",
            "resource", "role", "scheduler", "scheduler_result", "timetable", "user"}
  MaxRuns = 2
  MaxList = 2
  MaxDepth = 3
  MaxChanged = 1
CHECK_DEADLOCK FALSE
INVARIANTS InStep CutOnlyAfterFailure 
