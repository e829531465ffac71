CONSTANTS
  Callers = {c1, c2}
  MaxCalls = 1
  EarlyCalls = TRUE
  MayStop = FALSE
SPECIFICATION FairSpec
PROPERTY EveryCallGetsItsTurn
CHECK_DEADLOCK FALSE
