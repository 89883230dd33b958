SPECIFICATION MCSpec
CONSTANTS
    t1 = t1
    t2 = t2
    t3 = t3
    t4 = t4
    daemon = daemon
    cli = cli
    migrate = migrate
    Tasks <- MCTasks
    Procs <- MCProcs
    ProcOf <- MCProcOf
    Reservations <- MCReservations
    MaxAttempts = 2
    NoTask = NoTask
    Openers = {daemon, cli, migrate}
    Commands = {migrate}
    MaxFaults = 2
    NoFile = NoFile
CHECK_DEADLOCK FALSE
INVARIANTS
    NothingForgotten
PROPERTIES
    Atomic
    CallsReturn
    ProcessesOpen
