SPECIFICATION FairSpec
CONSTANTS
  FwdSlots = {f1, f2, f3, f4}
  InjectSlots = {i1}
  Frames = {a}
  TxQueueDepth = 2
  NoSlot = NoSlot
  NoFrame = NoFrame
  MaxHandOffs = 3
PROPERTIES
  PortNotMute
