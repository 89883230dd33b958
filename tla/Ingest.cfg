SPECIFICATION IngestSpec
CONSTANTS
    Convs <- MCConvs
    Ingesters = {1, 2}
    Content <- MCContent
    Projects <- MCProjects
    Scenarios <- MCScenarios
    Absent = Absent
    None = None
INVARIANTS
    RowsCountGenerations
    SkippedIsStored
    ProjectsFollowCatalog
PROPERTIES
    SuccessIsFresh
