CONSTANTS
    SyncNotes = {1, 2}
    IndexBatch = 1
    MaxVaultChanges = 2
    MaxRestarts = 1
    Repositories = {"r1", "r2"}
    SpaceOf <- TwoSpaces
    MaxFiles = 2
    MaxMoves = 2
    KernelLimit = 1
    EventLimit = 1
    MaxIncidents = 2
    MaxGenerations = 2
    Queries = {"q1"}
    IndexedNotes = {"n1", "n2"}
    MaxReleases = 2
    MaxRuns = 2
    MaxCommits = 2
    MaxFileMoves = 1
    MaxReports = 1
SPECIFICATION Spec
INVARIANTS
    StoredStateHonest
    CoverageHonest
    NamespaceKept
    OneModelPerAnswer
    ReportsHonest
PROPERTY ClosedMeansQuiet
CHECK_DEADLOCK FALSE
