SPECIFICATION Spec
CONSTANTS
  Tasks = {a, b}
  First = a
  None = None
  KeepOptions = {TRUE, FALSE}
  OutputOptions = {FALSE}
  SlotsFull = TRUE
  MaxCancels = 1
  MaxFaults = 2
CHECK_DEADLOCK FALSE
INVARIANTS TypeOK KeptUnlessFailed StartsWithData DownloadsBeforeDelete RowRecoverable
