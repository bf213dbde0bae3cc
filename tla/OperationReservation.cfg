SPECIFICATION Spec
CONSTANTS
    Clients = {c1, c2, c3}
    Meanings = {m1, m2}
    Retention = 1
    Never = Never
    NoRow = NoRow
    Idle = Idle
    MaxTime = 3
    MaxOperations = 4
SYMMETRY Symmetry
INVARIANTS
    WinnerIsFound
PROPERTIES
    ImplementsContract
