SPECIFICATION Spec
CONSTANTS
  Coord = c
  Participants = {p, q}
  None = None
  MaxRecoveries = 1
  MaxLosses = 1
  MaxCrashes = 0
  Patient = FALSE
CHECK_DEADLOCK FALSE
INVARIANTS TypeOK   RecoveryOnlyAborts DecisionsComeFromCoord
PROPERTY ImplementsTransaction
