CONSTANTS
  Drivers = {d1, d2}
  Agents = {a1, a2}
  None = None
  CleanupMaxAttempts = 0
  MaxEpoch = 2
  MaxStarts = 2
  Twins = FALSE
  LsWorks = TRUE
SYMMETRY DriverSymmetry
SPECIFICATION DriverSpec
INVARIANTS
  OneAgentUnderLease
PROPERTIES
  ImplementsLease
