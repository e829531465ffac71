CONSTANTS
  Callers = {c1}
  MaxCalls = 2
  EarlyCalls = FALSE
  MayStop = FALSE
SPECIFICATION Spec
INVARIANT NeverTwoInside
CHECK_DEADLOCK FALSE
