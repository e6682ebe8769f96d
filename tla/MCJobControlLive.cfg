CONSTANTS
    Pids = {11, 12}
    Statuses = {0, 7, 9, 19, 137}
    ExitCodes = {7}
    WaitOperands = {11, 12}
    MaxJobs = 2
    MaxProcs = 1
SPECIFICATION FairSpec
PROPERTIES
    ZombiesAreCollected
    ReapClearsCompleted
    WaitJobEnds
CHECK_DEADLOCK FALSE
