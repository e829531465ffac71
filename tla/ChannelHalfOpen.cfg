CONSTANTS
  WindowSize = 6
  MaxPacket = 1
  FastConnect = TRUE
  CloseTimeout = TRUE
  ChunkSizes = {2}
  ReadSizes = {1}
  SendLimit <- StarvingLimit
SPECIFICATION FairSpec
PROPERTY NoLastingHalfOpen
CHECK_DEADLOCK FALSE
