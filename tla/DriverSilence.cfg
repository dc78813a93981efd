CONSTANTS
  None = None
  Orchestrators = {s1}
  Drivers = {d1}
  Steady = {s1}
  Tasks = 1
  Agents = 2
  InflightLimit = 2
  MaxOpen = 2
  Scenarios <- DriverAndMishap
SPECIFICATION FairSpec
PROPERTIES
  OrphansRecoveredUnderLease
CHECK_DEADLOCK FALSE
