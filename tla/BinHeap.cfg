SPECIFICATION Spec
CONSTANTS
    Heap = {"mine", "other"}
    Priority = {1, 2}
    Value = {a, b, c}
    InitialCapacity = 2
    LongMax = 99
INVARIANTS
    HeapsSound
PROPERTIES
    ImplementsFrontiers
