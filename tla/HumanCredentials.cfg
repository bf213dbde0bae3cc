SPECIFICATION Spec
CONSTANTS
  MaxRecoveries = 2
  Surfaces = {"sessions", "grants"}
  Consents = {c1, c2}
  Calls = {k1, k2}
SYMMETRY Interchangeable
INVARIANTS NothingOldIsServed
PROPERTIES OnlyRecoverySignsOut
