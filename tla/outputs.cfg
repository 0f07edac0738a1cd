SPECIFICATION OutputsSpec
CONSTANTS
  ClockSpan = 1296
  Gaps = {96, 144}
  FlashMs = 80
  FlashDelays = {0, 48}
  Cycle = 70
  Watch = 9
  MaxTicks = 18
  PinConfigs <- Pins
  StxV2 = 7
  StxV1 = 6
  SignedFlag = 1
  SignatureLen = 2
  MaxPayload = 34
  MaxLen <- PayloadLengths
  BasicId = 9
  IdOffset = 1
  MaxStr = 3
  HeartbeatPeriod = 3
  SystemPeriod = 2
  HeartbeatId = 0
  SystemId = 1
  Places = {0, 7}
  LineBytes = {1, 7}
  Steps = {1, 2}
  Cuts = {4}
  TxSeqMod = 2
  MessageSize = 25
  PackLimit = 9
  PackMax = 6
  Mac <- MacAddress
  Clock <- ClockBytes
  Ssids <- Names
  Packs <- PackSet
  CounterMod = 2
  FrameRoom = 300
  RotMod = 8
  AuthMaxPages = 2
  KeepsRotation = TRUE
  RegionChoices <- TwoRegions
  RefusedChoices <- SomeRefused
INVARIANTS LightsTell TelemetryArrives ReceiverGetsPack EveryMessageInTurn PackNeverOverflows SignatureWhole
