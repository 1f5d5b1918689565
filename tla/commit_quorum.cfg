SPECIFICATION FairSpec
CONSTANTS
  Coord = c
  Participants = {p, q}
  None = None
  MaxRecoveries = 1
  MaxLosses = 0
  MaxCrashes = 0
  Patient = TRUE
CHECK_DEADLOCK FALSE
PROPERTIES PreCommitQuorumCommits
