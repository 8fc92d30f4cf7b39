SPECIFICATION ConfigSpec
CHECK_DEADLOCK FALSE
CONSTANTS
  EcuNames = {"e"}
  Names = {"a", "b"}
  HashOf <- MCHash
  Requests <- MCRequests
  Levels = {15}
  Shapes <- MCShapes
  MaxEcus = 2
  MaxGroups = 2
  MaxFields = 2
  MaxRecords = 5
  MaxReqLen = 2
  MaxRepeatCount = 2
  MaxNumericBits = 8
  MaxBlockBits = 8
  MaxBitEnd = 24
  MaxRows = 2
  Preps <- MCPreps
  Positions = {0, 1, 2, 3}
  MaxPreps = 4
  MaxRepeat = 3
  MaxNumeric = 2
  Dumps = {"q"}
  MaxDump = 3
  IMax = 3
  Rows <- MCRows
  MaxTable = 3
  NBytes = 2
  NBits = 2
  StdBits = 1
  ExtBits = 2
  Values = {1, 2}
  Masks <- MCMasks
  SignalValues <- MCSignalValues
  MaxEntries = 2
  Variants <- MCVariants
  PortShapes <- MCPorts
  PortNames = {"p", "q", "r"}
  Sensors <- MCSensors
  MaxBytes = 2
  MinSlots = 4
  MaxParts = 4
  MaxActions = 2
  TapPorts = {"p", "q", "r"}
  LogTapped = {"p", "q"}
  Tags <- MCTags
  Labels = {"x", "C2", "U0"}
  DefaultLabel <- MCDefaultLabel
  Token <- MCToken
  DefaultSources = 1
  CountMod = 3
  MaxDeclared = 3
  HttpPorts = {"http", "alt"}
  Recoveries <- MCRecoveries
  ClockMod = 16
  MaxLag = 2
  MaxTries = 4
  None = None
  StatusMasks = {"m1", "m2"}
  Codes = {"c1"}
  States = {"on"}
  MaxAsks = 2
  MaxFrames = 3
  SnModulus = 2
INVARIANTS
  RoundTrip
  GroupIsWhole
  AcceptedConfigWorks
  HeldIsOneAnswer
