SPECIFICATION Spec
CONSTANTS
    Lines <- MCLines
    MaxPending = 9
    IGNOREEOF_MAX = 3
    MaxExpansions = 3
INVARIANTS
    SessionSettled
    LineByLineIsAllAtOnce
PROPERTIES
    EndOfFileTold
