SPECIFICATION FairMCSpec
CONSTANTS
    o1 = o1
    o2 = o2
    o3 = o3
    Accounts = {a1, a2}
    Ops <- MCOps
    Kind <- MCKind
    MaxCred = 1
    NoAccount = NoAccount
    NoOp = NoOp
    Callers = {t1, t2}
    MaxToken = 3
    NoCaller = NoCaller
CHECK_DEADLOCK FALSE
INVARIANTS
    LatestLoginWins
    NoHerd
    HandsOutHeldTokens
    UsableUnlessLost
    SuccessAgrees
    FailureRestores
PROPERTIES
    RefreshesReturn
    OperationsEnd
