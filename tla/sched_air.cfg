CONSTANTS
  Configs <- TxConfigs
  Inputs <- TxInputs
  Steps = {0, 1}
  GpsStaleTimeout = 2
  KalmanTimeout = 1
  MsMod = 5
  MaxInterval = 2
  CountMod = 1
  StatMod = 1
  NanMod = 1
SPECIFICATION FairSpec
PROPERTY NoTransportStarves
PROPERTY StaleOnce
PROPERTY LossIsNoticed
