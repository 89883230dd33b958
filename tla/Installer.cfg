SPECIFICATION Spec
CONSTANTS
    Procs = {p1, p2}
    MaxVersion = 2
    MaxCommands = 3
    Nothing = Nothing
    Own = Own
SYMMETRY Symmetry
CHECK_DEADLOCK FALSE
INVARIANTS
    NewestKept
    ShimWorks
PROPERTIES
    SuccessIsComplete
