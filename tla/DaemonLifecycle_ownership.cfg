SPECIFICATION Spec
CONSTANTS
    start = start
    auto = auto
    stop = stop
    restart = restart
    Pids = {p1, p2, p3}
    Ops = {start, stop, restart}
    Kind <- MCKind
    Version <- MCVersion
    Config <- OneConfig
    NoPid = NoPid
    Garbage = Garbage
    Foreign = Foreign
SYMMETRY PidSymmetry
CHECK_DEADLOCK FALSE
PROPERTIES
    UnlinksOnlyOwned
