CONSTANTS
  Drivers = {d1}
  Agents = {a1, a2, a3}
  None = None
  CleanupMaxAttempts = 2
  MaxEpoch = 2
  MaxStarts = 2
  Twins = FALSE
  LsWorks = TRUE
SPECIFICATION DriverSpec
INVARIANTS
  TypeOK
  OneAgentAtWork
  LaunchedIsRecorded
PROPERTIES
  ResolvedIsArchived
