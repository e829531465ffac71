SPECIFICATION VisitorSpec
CONSTANTS
  WindowSize = 2
  MaxPacket = 1
  FastConnect = TRUE
  CloseTimeout = FALSE
  ChunkSizes = {1}
  ReadSizes = {1}
  SendLimit <- MCSendLimit
  NumAddresses = 2
  OutCapacity = 1
  Chunk = 1
INVARIANTS NoLostWakeup CloseIsComplete AnswerFitsConnect
PROPERTY VisitorIsAnswered
CHECK_DEADLOCK FALSE
