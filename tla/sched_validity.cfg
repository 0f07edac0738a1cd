CONSTANTS
  Configs <- ValidityConfigs
  Inputs <- ValidityInputs
  Steps = {1, 2}
  GpsStaleTimeout = 3
  KalmanTimeout = 1
  MsMod = 7
  MaxInterval = 1
  CountMod = 4
  StatMod = 1
  NanMod = 2
SPECIFICATION Spec
INVARIANT TypeOK
INVARIANT FreshPosition
INVARIANT CountersAgree
