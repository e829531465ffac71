CONSTANTS
  WindowSize = 6
  MaxPacket = 1
  FastConnect = TRUE
  CloseTimeout = FALSE
  ChunkSizes = {1, 2}
  ReadSizes = {1}
  SendLimit <- StarvingLimit
SPECIFICATION FairSpec
INVARIANT NoHalfOpen
PROPERTIES
  ConnectIsAnswered
  SenderNeverStarves
  DataIsDelivered
  CloseIsAnswered
CHECK_DEADLOCK FALSE
