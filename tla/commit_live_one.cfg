SPECIFICATION FairSpec
CONSTANTS
  Coord = c
  Participants = {p}
  None = None
  MaxRecoveries = 8
  MaxLosses = 1
  MaxCrashes = 1
  Patient = TRUE
CHECK_DEADLOCK FALSE
PROPERTIES AppliedOnce OutcomeAnnounced CommitCompletes
