CONSTANTS
  Configs <- GateConfigs
  Inputs <- GateInputs
  Steps = {1, 2}
  GpsStaleTimeout = 2
  KalmanTimeout = 1
  MsMod = 5
  MaxInterval = 0
  CountMod = 1
  StatMod = 1
  NanMod = 1
SPECIFICATION Spec
INVARIANT NothingOnAirUnearned
