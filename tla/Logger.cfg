SPECIFICATION LoggerSpec
CONSTANTS
  MaxSeq = 2
  MaxFiles = 4
  MaxChunks = 2
  QueueDepth = 1
  MaxFaults = 2
  MaxRenameFaults = 1
  DrainTimesOut = FALSE
  Start = 10
  Build = 10
  MinEpoch = 6
  Slack = 1
  SleepErrors <- MCSleepErrors
  TailFiles = 2
  MaxNow = 12
  MaxBoots = 3
  MaxLines = 2
  MaxLogs = 2
CHECK_DEADLOCK FALSE
INVARIANTS
  NoSilentLoss
  ServedFileStays
  IndexMatchesCard
  ClockIsHonest
PROPERTY SealKeepsFloor
