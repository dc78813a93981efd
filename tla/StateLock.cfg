CONSTANTS
  Procs = {p1, p2, p3}
  None = None
  StaleAge = 2
  MaxHold = 1
  MaxRecover = 1
  MaxRetries = 2
SYMMETRY ProcSymmetry
SPECIFICATION Spec
INVARIANTS
  TypeOK
  MutualExclusion
  NoLostUpdate
