CONSTANTS
  Ids = {t1}
  Sessions = {s1}
  Agents = {a1}
  Comments = {c1, c2}
  None = None
  FixAttemptLimit = 2
  ObserveErrorLimit = 2
  CleanupMaxAttempts = 1
  MaxAttempts = 1
  MaxErrors = 2
  MaxWithdrawn = 1
SYMMETRY CommentSymmetry
SPECIFICATION HSpec
INVARIANTS
  TypeOK
  ItemInvariants
  OwnerMatchesProgress
  HumanLatch
  FixRunWithinLimit
  FinalizeIsJudged
  FixRunsBounded
PROPERTIES
  HandledOnlyByShip
  TakenFixIsSettled
  ImplementsLifecycle
  ImplementsTaskRun
  ImplementsGateRun
