SPECIFICATION Spec
CONSTANTS
    MaxCalls = 10
    MaxItems = 2
    MaxLines = 1
CHECK_DEADLOCK FALSE
INVARIANTS
    StoresOwnedOnce
    FramesSettled
    FlowIsPickedUp
