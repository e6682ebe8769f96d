CONSTANTS
    Pids = {11, 12}
    Statuses = {0, 7, 9, 19, 137}
    ExitCodes = {7}
    WaitOperands = {11, 12}
    MaxJobs = 3
    MaxProcs = 1
SPECIFICATION Spec
CHECK_DEADLOCK FALSE
INVARIANTS
    JobsTrackChildren
    CompletionIsKnown
PROPERTIES
    FateIsTold
    OperandsHitOwnJob
    IdsNeverReused
