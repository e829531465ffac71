CONSTANTS
  AutoReconnect = TRUE
  MaxAttempts = 2
  Forwardings = 2
  MaxAdditional = 2
  MaxTicks = 5
  MaxBatch = 3
SPECIFICATION FairSpec
INVARIANTS
  LifecycleTypeOK
  NeverStuck
  NoProbeWithoutSession
  KeepAliveMatchesState
  AnswersAreExpected
  EstablishedMeansAll
PROPERTIES
  LostTunnelRecovers
  StoppedTunnelEnds
CHECK_DEADLOCK FALSE
