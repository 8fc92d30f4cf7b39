SPECIFICATION PartSpec
CONSTANTS
  raw = raw
  bad = bad
  Frames <- MCFrames
  Rewrite <- MCRewrite
  Filtered <- MCFiltered
  Consumers <- MCConsumers
  LogTapDepth = 1
  MaxFrames <- MCMaxFrames
  FwdSlots = {f1}
  InjectSlots = {i1}
  TxQueueDepth = 1
  NoSlot = NoSlot
  NoFrame = NoFrame
  MaxHandOffs = 2
  Records = {a, b, c}
  Depth = 4
  Wrap = 8
  MaxPerLoop = 2
  NoRecord = NoRecord
  MaxShed = 1
  SnapSize = 2
  Attempts = 3
  MaxPush = 6
  Bytes = {"byte", "id"}
  Payload = {"byte"}
  Bits = {0, 1}
  Declared <- MCDeclared
  StartPatch <- MCStartPatch
INVARIANTS
  EveryFrameHasOneFate
  SnapshotIsExact
  FrameSeesOneCommit
PROPERTIES
  RouteUsesPort
  RefinesFifo
  CommitChangesItsJob
