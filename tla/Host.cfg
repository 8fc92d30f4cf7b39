SPECIFICATION HostSpec
CHECK_DEADLOCK FALSE
CONSTANTS
  None = None
  a1 = a1
  b1 = b1
  a2 = a2
  b2 = b2
  u1 = u1
  u2 = u2
  u3 = u3
  u4 = u4
  Files = {a1, b1, a2, b2}
  Names = {1, 2}
  Procs = {p1}
  NameOf <- MCName
  CardOf <- MCCard
  SizeOf <- MCSize
  KindOf <- MCKind
  Retries = 2
  Runs = {r1, r2}
  Devices = {d1}
  Tokens = {"none", "t1"}
  StaleAfter = 1
  MaxTime = 2
  MaxFaults = 1
  Loggers = {d1}
  Picks <- Conditions
  Uploads = {u1, u2, u3, u4}
  Image <- MCImage
  AtOnce = 2
  MaxLines = 4
  MaxStamp = 2
  Modulus = 4
  Garbles = TRUE
INVARIANTS
  ConfirmedIsHeld
  StatusIsHonest
  NotAskedAgain
  ManifestServable
  ReadersAgree
PROPERTIES
  NeverReplaced
  UpIsEarned
  ProblemIsHonest
