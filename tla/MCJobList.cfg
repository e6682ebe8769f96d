CONSTANTS
    a1 = a1  a2 = a2  a3 = a3
    Addr = {a1, a2, a3}
    NULL = NULL
    Pids = {11}
    Statuses = {0}
    MaxJobs = 3
    MaxProcs = 1
SYMMETRY AddrSymmetry
SPECIFICATION Spec
CHECK_DEADLOCK FALSE
INVARIANTS
    ListSound
PROPERTIES
    ImplementsJobStore
