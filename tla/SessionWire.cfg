SPECIFICATION Spec
CONSTANTS
  Capacity = 12
  LengthBase = 16
  ServerVersions <- MCServerVersions
  Serialize <- MCSerialize
  Deserialize <- MCDeserialize
  Definitions <- MCDefinitions
  Notices = {"Error"}
  MaxCalls = 1
  MaxEndings = 2
INVARIANTS
  SessionTypeOK
  NeverUnexpected
  FeaturesAgree
  EndFlushes
CHECK_DEADLOCK FALSE
PROPERTIES
  CrashWindow
  ImplementsMessagePipe
  MessagesArrive
