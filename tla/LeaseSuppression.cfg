CONSTANTS
  Drivers = {d1, d2, d3}
  MaxEpoch = 3
  MaxStarts = 4
SPECIFICATION FairSpec
PROPERTIES
  LeaseIsFenced
  OneEpochRemains
  SilenceReturns
  SuppressionEnds
CHECK_DEADLOCK FALSE
