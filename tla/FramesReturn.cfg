SPECIFICATION Spec
CONSTANTS
    MaxCalls = 10
    MaxItems = 2
    MaxLines = 1
PROPERTY ReturnEndsTheList
CHECK_DEADLOCK FALSE
