CONSTANTS
  AutoReconnect = TRUE
  MaxAttempts = 2
  Forwardings = 1
  MaxAdditional = 0
  MaxTicks = 4
  MaxBatch = 2
SPECIFICATION Spec
PROPERTY StopIsFinal
CHECK_DEADLOCK FALSE
