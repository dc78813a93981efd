CONSTANTS
  Orchs = {o1, o2}
  Mortal = {o1}
  p1 = p1
  Paths = {p1}
  Tasks <- TwoTasks
  AuditConfigs <- Configs
  RetryLimit = 2
  Mishaps = {"silent"}
  Meetings <- FirstRound
  MaxAtWork = 1
  MaxTree = 1
  MaxRuns = 1
SPECIFICATION Spec
PROPERTIES
  PassIsEarned
CHECK_DEADLOCK FALSE
