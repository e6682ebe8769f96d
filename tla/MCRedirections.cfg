CONSTANTS
    Targets = {0, 1}
    Spares = {2}
    Backups = {10, 11}
    MaxRedirs = 2
    MaxDepth = 2
SPECIFICATION Spec
CHECK_DEADLOCK FALSE
INVARIANTS
    BackupsExact
    NothingSavedOutside
PROPERTIES
    RedirectedAsWritten
