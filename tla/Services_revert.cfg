SPECIFICATION ServicesSpec
CHECK_DEADLOCK FALSE
CONSTANTS
  None = None
  Loggers = {d1}
  Picks = {}
  Reqs = {q1}
  Hosts = {h1}
  Body = 1
  Files = {1}
  KeyOf <- MCKey
  KindOf <- MCKind
  Catalogs = {1, 2}
  Reverts = TRUE
  MaxDeaths = 1
INVARIANT DeathIsRedone
