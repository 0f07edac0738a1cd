SPECIFICATION ManagementSpec
CONSTANTS
  ByteMod = 256
  WordMod = 4096
  LongMod = 65536
  KeySlots <- Slots
  Verifies <- SchemeVerifies
  KeyLen = 1
  SignatureBytes = 2
  Requests <- Writes
  Commands <- Words
  MaxFails = 3
  Window = 3
  ClockTurn = 8
  Delays = {1, 5}
  Uploads <- Files
  MaxStalls = 3
  BodyCap = 8
  MaxChunk = 3
  Lines <- LogLines
  RingMax = 3
  MsgMax = 6
  BufSize = 30
  Reserve = 8
  StringFields = {"uas_id"}
  ByteFields = {"ua_type"}
  WordFields = {"baud_rate"}
  FloatFields = {"operator_alt"}
  MaxStrLen = 3
  Regions <- RegionNames
  Values <- TypedTexts
  On <- OnText
  MaxCommands = 2
  HalfMod = 1024
  F32Max = 36000000
  StrLen = 3
  KeyChars = 4
  SecretChars = 4
  RegionTexts <- NamesOfRegions
  DefaultSsid <- SsidText
  DefaultRate = 576
  JsonValues <- DocumentValues
  MaxDocuments = 2
  PageZeroSize = 17
  PageSize = 23
  MaxPages = 16
  PemTexts <- GivenPems
  KeyOf <- PemKeyTexts
  SignedIds <- UasIds
  Sign <- SchemeSigns
  Desks = {"signed", "upload", "log", "console", "json", "signer"}
CHECK_DEADLOCK FALSE
INVARIANTS AtMostMaxFails RightlySignedPasses CommittedIsWhole GoodUploadAccepted LogInOrder NumbersAsTyped ExportRestores PagesMakeSignature
PROPERTY UploadEnds
