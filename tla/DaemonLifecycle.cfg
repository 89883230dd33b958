SPECIFICATION FairSpec
CONSTANTS
    start = start
    auto = auto
    stop = stop
    restart = restart
    Pids = {p1, p2}
    Ops = {auto, stop, restart}
    Kind <- MCKind
    Version <- MCVersion
    Config <- AutoElsewhere
    NoPid = NoPid
    Garbage = Garbage
    Foreign = Foreign
CHECK_DEADLOCK FALSE
INVARIANTS
    StartIsTrue
    ServingIsRecorded
PROPERTIES
    StopStops
    EveryOperationEnds
