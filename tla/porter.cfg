SPECIFICATION LiveSpec
CONSTANTS
  Client = {c1, c2}
  None = None
  MaxKills = 1
  MaxFaults = 1
CHECK_DEADLOCK FALSE
INVARIANTS TypeOK AnswerIsOwnUnlessKilled RequestsAreWhole ScriptStartsUnlessPrivate
PROPERTIES ClientsEnd FinalSeen
