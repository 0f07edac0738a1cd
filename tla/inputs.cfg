SPECIFICATION InputsSpec
CONSTANTS
  StxV2 = 7
  StxV1 = 6
  SignedFlag = 1
  SignatureLen = 2
  MaxPayload = 7
  MaxLen <- PayloadLengths
  BasicId = 0
  IdOffset = 1
  MaxStr = 3
  Dollar = 5
  LetterM = 7
  Arrow = 6
  RawGps = 4
  Attitude = 2
  Status = 1
  GpsLen = 3
  AttitudeLen = 1
  StatusLen = 2
  MspBuffer = 10
  Coordinates <- CoordinateWords
  Integer <- Integers
  NmeaBuffer = 24
  LineMax = 20
  MaxFields = 16
  Messages <- Frames
  Noise <- MadeUp
  MaxFaults <- Faults
  Buses <- CanBuses
  MaxPieces = 3
  FixPieces = 3
  TidMod = 4
  TidTimeout = 1
  CanFresh = 2
  ClockMod = 5
  LetterG = 3
  LetterN = 2
INVARIANTS InputsTypeOK MavlinkFindsStep MspAlwaysInStep NmeaReadsInPlace CleanTransferTaken FixIsFresh
PROPERTY OnlyWhatWasSent
