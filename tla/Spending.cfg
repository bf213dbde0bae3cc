SPECIFICATION Spec
CONSTANTS
  operation = operation
  Calls = {first, second}
  Operations = {operation}
  OperationOf <- OneOperation
  Evidence = {x, y, z}
  NoEvidence = NoEvidence
  Limits = {1, 2}
  MaxAmount = 1
  MaxRevision = 6
  Months = 2
SYMMETRY Interchangeable
CONSTRAINT TogetherOrAlone
PROPERTIES ApprovalFitsTrueCost MoneyMovesOnNewEvidence
CHECK_DEADLOCK FALSE
