SPECIFICATION FairSpec
CONSTANTS
    b1 = b1
    b2 = b2
    c1 = c1
    daemon = daemon
    cli = cli
    Probes = {b1, b2, c1}
    Scheduled = {b1, b2}
    Procs = {daemon, cli}
    ProcOf <- MCProcOf
    Windows = {w5h}
    Delay <- MCDelay
    RetryAfter = {1}
    Backoff <- MCBackoff
    MaxTime = 2
    MaxCred = 1
    NoTime = NoTime
CONSTRAINT CommandEarly
INVARIANTS
    SingleFlight
PROPERTIES
    BackoffRespected
    ProbesEnd
