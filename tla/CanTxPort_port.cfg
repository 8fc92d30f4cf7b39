SPECIFICATION FairSpec
CONSTANTS
  FwdSlots = {f1, f2}
  InjectSlots = {i1}
  Frames = {a, b}
  TxQueueDepth = 2
  NoSlot = NoSlot
  NoFrame = NoFrame
  MaxHandOffs = 4
INVARIANTS
  SlotsHaveOneOwner
  WireCarriesWhatWasHanded
  DriverNeverRefuses
PROPERTIES
  OwnedFramesLeave
