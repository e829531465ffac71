CONSTANTS
  WindowSize = 8
  MaxPacket = 2
  FastConnect = TRUE
  CloseTimeout = TRUE
  ChunkSizes = {1, 3}
  ReadSizes = {1, 2}
  SendLimit <- FlowLimit
SPECIFICATION Spec
INVARIANTS
  TypeOK
  NeverAborts
  CreditCovered
  NoCreditLeak
  StreamInOrder
  EofIsComplete
  RegistryMatchesState
PROPERTY ImplementsPipe
CHECK_DEADLOCK FALSE
