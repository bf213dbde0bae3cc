SPECIFICATION Spec
CONSTANTS
  MaxRecoveries = 1
  MaxAttempts = 2
  Requests = {first}
INVARIANTS ClaimAgreesWithHistory BudgetIsAuthorized
CHECK_DEADLOCK FALSE
