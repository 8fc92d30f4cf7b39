SPECIFICATION FairSpec
CONSTANTS
  MaxSeq = 1
  MaxFiles = 3
  MaxChunks = 4
  QueueDepth = 1
  MaxFaults = 2
  MaxRenameFaults = 1
  DrainTimesOut = TRUE
CHECK_DEADLOCK FALSE
PROPERTY EveryChunkIsCollected
