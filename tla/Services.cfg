SPECIFICATION ServicesSpec
CHECK_DEADLOCK FALSE
CONSTANTS
  None = None
  Loggers = {d1}
  Picks = {}
  Reqs = {q1, q2, q3}
  Hosts = {h1}
  Body = 1
  Files = {1, 2, 3, 4}
  KeyOf <- MCKey
  KindOf <- MCKind
  Catalogs = {1, 2, 3}
  Reverts = FALSE
  MaxDeaths = 2
INVARIANTS
  AnswersAreHonest
  MarkedIsLoaded
PROPERTIES
  ServicesGetOn
