SPECIFICATION Spec
CONSTANTS
  ProductJobs = {product}
  CleanupJobs = {cleanup}
  Unsupported = {}
  Units = {unit}
  NoUnit = NoUnit
  Capacity = 2
  LeaseTime = 2
  WorkTime = 8
  QueueWait = 8
  TransferWait = 1
  RetryStep = 1
  RetryCap = 1
  Retention = 2
  MaxEffects = 2
  MaxDisturbed = 1
  AdmitHorizon = 1
  Horizon = 9
CHECK_DEADLOCK FALSE
INVARIANTS
  DeleteDispatchedOnce
  UnknownEffectIsHeld
  ProofExcludesDispatch
  PendingBelongsToOwner
  ReplayOutlivesWork
PROPERTIES
  LeaseDecidesOwner
  BudgetNeverGrows
  StoppedWorkIsInert
CONSTRAINT Alone
