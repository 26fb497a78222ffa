CONSTANTS
    r1 = r1  r2 = r2  f1 = f1  f2 = f2
    Roots <- OneRoot
    Files <- TwoFiles
    RootOf <- Together
    FirstRoots <- OneRoot
    DefaultScope <- NoScope
    ScopeChoices <- NoScope
    MaxBodies = 1
    UseJournal = TRUE
    MaxClock = 3
    MaxGeneration = 1
    MaxRevision = 5
    EventBuffer = 1
    BatchLimit = 2
    MaxBoots = 3
SPECIFICATION WarmSpec
CHECK_DEADLOCK FALSE
INVARIANTS NoLostChange MismatchIsFlagged BoundSnapshotExact
