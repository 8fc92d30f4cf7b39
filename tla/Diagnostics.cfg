SPECIFICATION Spec
CONSTANTS
  NoMsg = "none"
  Messages = {"a", "b", "s", "big"}
  Size <- MCSize
  RxCapacity = 5
  BlockSize = 2
  SnRange = 4
  NBs = 1
  NCr = 1
  StallTicks = 2
  MaxWaits = 1
  BusBound = 1
  ReadChunks = 2
  WriteChunks = 2
  Layout = 1
  Samples = 2
  CtrRange = 4
  RespTicks = 1
  CollectTicks = 1
  EcuBound = 2
  Calls = 2
  Groups = {1, 2, 3, 4}
  Tables <- MCTables
  Unsendable = {3}
  Readable = {1, 3}
  RawRequests = {4}
  Sid <- MCSid
  Ident <- MCIdent
  Interval <- MCInterval
  Bindings = {1, 2, 3}
  BGroup <- MCBGroup
  Uncovered = {2}
  P2 = 1
  P2Ext = 2
  BackoffCap = 2
  MaxFailures = 2
  FailCap = 2
  MaxPending = 1
  QueueSize = 1
  PerLoop = 1
  AskedBound = 1
  Ops <- MCOps
INVARIANTS
  DeliveredIsWhole
  MemoryIsWhole
  SlotsAgree
PROPERTIES
  ValuesMatchTheirEcho
  ClientsGetOn
