SPECIFICATION Spec
CONSTANTS
    Pages = {1, 2}
    BrainFiles = {1, 2}
    Archivers = {"a1", "a2"}
    Restorers = {"r1", "r2"}
    Verifiers = {"v1"}
    Planners = {"n1"}
    Paths = {"p", "q"}
    Roots = {1, 2}
    Scenarios <- MCScenarios
    Evidence <- MCEvidence
    Absent = Absent
    Nothing = Nothing
    Foreign = Foreign
INVARIANTS
    ArchivedIsMoment
    VerifiedIsCommitted
    RestoredIsArchived
    ResultTellsPlaced
    EligibleOnlyWithEvidence
PROPERTIES
    NothingReplaced
