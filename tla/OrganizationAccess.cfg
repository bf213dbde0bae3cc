SPECIFICATION Spec
CONSTANTS
  Humans = {a, b}
  Actions = {admit}
  AdmitUsers = admit
  Operations = {o1, o2}
  Calls = {k1, k2}
  MaxRevision = 4
  MaxVersion = 2
SYMMETRY Interchangeable
INVARIANTS DecisionsStand OneFirstAdministrator NoCircularWait
