CONSTANTS
    MaxCmds = 3
    Fds = {0, 1, 2, 3, 4, 5}
    Capacity = 1
    Items = 2
    Codes = {0, 3}
SPECIFICATION Spec
CHECK_DEADLOCK FALSE
INVARIANTS
    OverAndSettled
    EndsAreRight
PROPERTIES
    PipelineEnds
