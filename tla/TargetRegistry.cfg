SPECIFICATION RegistrySpec
CONSTANTS
  Calls = {first, second, third}
  Labels = {dev, prod}
  Bindings = {here, there}
  Nobody = Nobody
  None = None
SYMMETRY Interchangeable
INVARIANTS SavedSurvives NoSilentChange
PROPERTIES OthersAreKept
CHECK_DEADLOCK FALSE
