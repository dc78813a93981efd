CONSTANTS
  None = None
  Orchestrators = {s1, s2}
  Drivers = {d1}
  Steady = {s1}
  Tasks = 2
  Agents = 3
  InflightLimit = 2
  MaxOpen = 1
  Scenarios <- Few
SPECIFICATION FairSpec
INVARIANTS
  TypeOK
PROPERTIES
  SlotsHold
  RunsOfTheLivingAreSafe
  OrphansRecovered
  AsksAnswered
  PrsWatched
  QueueMoves
CHECK_DEADLOCK FALSE
