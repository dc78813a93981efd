CONSTANTS
  Procs = {p1, p2}
  None = None
  StaleAge = 2
  MaxHold = 1
  MaxRecover = 1
  MaxRetries = 2
SPECIFICATION Spec
INVARIANTS
  NoLockLeftBehind
