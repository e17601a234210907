SPECIFICATION Spec
CONSTANTS
  MaxPrompts = 2
  MaxGens = 2
  MaxTurns = 2
  MaxDrops = 0
  MaxRestarts = 0
  MaxCalls = 2
  MaxAttempts = 1
  ChainLength = 1
  AutoContinue = 1
  ErrorResume = 1
  Prefix = TRUE
  NoId = NoId
INVARIANTS IdNamesItsTurn
CHECK_DEADLOCK FALSE
