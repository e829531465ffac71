CONSTANTS
  Callers = {c1, c2, c3}
  MaxCalls = 1
  EarlyCalls = FALSE
  MayStop = TRUE
SPECIFICATION FairSpec
INVARIANTS
  LockTypeOK
  MutualExclusion
  PermitIsHeld
PROPERTY CallReturns
CHECK_DEADLOCK FALSE
