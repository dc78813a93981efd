CONSTANTS
  Drivers = {d1}
  Agents = {a1}
  None = None
  CleanupMaxAttempts = 1
  MaxEpoch = 2
  MaxStarts = 2
  Twins = FALSE
  LsWorks = TRUE
SPECIFICATION DriverSpec
INVARIANTS
  LosingMeansRival
