SPECIFICATION AllocationSpec
CONSTANTS
  Clients = {first, second}
  Reservations = {s1, s2}
  Attempts = {a1, a2}
  Obligations = {o1, o2}
  BusinessOperations = {operation}
  Unadmitted = Unadmitted
  ByteLimits = {1, 2}
  FullAllowance = 2
  OperationLimit = 2
  SpoolLimit = 3
  ProtectedLimit = 8
  Usable = 20
  Foreign = 6
  Backups = {0, 7}
  QueueCapacity = 1
SYMMETRY Interchangeable
INVARIANTS FloorKept LedgerCoversBytes BytesAreOwned OperationWithinAllowance
