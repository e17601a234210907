SPECIFICATION Spec
CONSTANTS
  MaxPrompts = 3
  MaxGens = 2
  MaxTurns = 3
  MaxDrops = 1
  MaxRestarts = 1
  MaxCalls = 2
  MaxAttempts = 1
  ChainLength = 1
  AutoContinue = 1
  ErrorResume = 1
  Prefix = TRUE
  NoId = NoId
INVARIANTS TypeOK WellFormedRequest StoredIsTruthful   IdNamesItsTurnUnshifted
CHECK_DEADLOCK FALSE
