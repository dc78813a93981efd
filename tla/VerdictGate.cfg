CONSTANTS
  Orchs = {o1, o2}
  Mortal = {o1}
  p1 = p1
  Paths = {p1}
  Tasks <- TwoTasks
  AuditConfigs <- Configs
  RetryLimit = 2
  Mishaps = {}
  Meetings <- FirstRound
  MaxAtWork = 1
  MaxTree = 1
  MaxRuns = 1
SPECIFICATION FairSpec
INVARIANTS
  TypeOK
  PathIsFresh
PROPERTIES
  PassIsEarned
  FailIsEarned
  RoundEnds
CHECK_DEADLOCK FALSE
