SPECIFICATION FairSpec
CONSTANTS
  ProductJobs = {product, otherProduct}
  CleanupJobs = {cleanup}
  Unsupported = {otherProduct}
  Units = {unit}
  NoUnit = NoUnit
  Capacity = 2
  LeaseTime = 1
  WorkTime = 2
  QueueWait = 3
  TransferWait = 1
  RetryStep = 1
  RetryCap = 0
  Retention = 2
  MaxEffects = 1
  MaxDisturbed = 0
  AdmitHorizon = 1
  Horizon = 6
CHECK_DEADLOCK FALSE
INVARIANTS
  OpenAttemptsAreRunning
PROPERTIES
  ImplementsLifecycle
  AcceptedJobsEnd
