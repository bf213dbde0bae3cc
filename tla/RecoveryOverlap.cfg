SPECIFICATION Spec
CONSTANTS
  MaxRecoveries = 2
  MaxAttempts = 1
  Requests = {}
INVARIANTS ReleasedIsSafe ProvedWorkIsOver
PROPERTIES ProofDecidesBlocks ImplementsRecoveryContract RunsEnd
CHECK_DEADLOCK FALSE
