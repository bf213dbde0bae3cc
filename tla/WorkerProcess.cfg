SPECIFICATION Spec
CONSTANTS
    Slots = {slot1, slot2}
    NoCall = NoCall
    MaxLate = 2
INVARIANTS
    ResourcesOutliveUsers
    OneLateEffect
PROPERTIES
    NobodyWaitsForever
