\* Variables, parameters and functions through nested calls.
SPECIFICATION Spec
CONSTANTS
    Names = {"x"}
    Values = {"", "a"}
    Empty = ""
    Assignments <- MCAssignments
    Arguments <- MCArguments
    Functions = {"set"}
    Specials = {"export", "readonly", "unset", "set", "shift", "eval"}
    MaxParams = 2
    MaxDepth = 3
INVARIANTS
    LevelsSound
    ParametersOfTheCall
    ChildEnvironment
PROPERTIES
    LevelsKept
