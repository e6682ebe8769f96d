SPECIFICATION Spec
CONSTANTS
    Procs = {p1, p2}
    Shell = p1
    Signals = {INT, KILL, IO}
    Uncatchable = {KILL}
    Unstored = {IO}
    Actions = {a, b}
    NoAction = NoAction
SYMMETRY Symmetry
CHECK_DEADLOCK FALSE
INVARIANTS
    TrapsSound
    ExitTrapRan
PROPERTIES
    SignalsAsTrapped
