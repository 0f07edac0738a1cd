SPECIFICATION SnapshotSpec
CONSTANTS
  Configs <- SnapshotConfigs
  Inputs <- NoInputs
  Steps = {1, 2}
  GpsStaleTimeout = 2
  KalmanTimeout = 0
  MsMod = 6
  MaxInterval = 0
  CountMod = 1
  StatMod = 1
  NanMod = 1
  Reports <- Receivers
INVARIANT SilenceIsNoticed
