SPECIFICATION Spec
CONSTANTS
    Names = {A, B, C}
    Values = {v}
    HashValues = {0, 3}
    InitialCapacity = 4
SYMMETRY Symmetry
CHECK_DEADLOCK FALSE
INVARIANTS
    TableOperationsSound
    EnvpIsCurrent
PROPERTIES
    ImplementsStore
