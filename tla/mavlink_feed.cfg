SPECIFICATION FeedSpec
CONSTANTS
  Configs <- FeedConfigs
  Inputs <- NoInputs
  Steps = {1, 2}
  GpsStaleTimeout = 1
  KalmanTimeout = 0
  MsMod = 4
  MaxInterval = 0
  CountMod = 1
  StatMod = 1
  NanMod = 1
  Frames <- FeedFrames
  SysIdFilter = 1
  GpsFresh = 2
  IdentityFresh = 2
  OperatorFresh = 2
INVARIANTS FeedTypeOK LinkLossIsNoticed IdentityIsRecent OperatorIsRecent
