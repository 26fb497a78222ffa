CONSTANTS
    r1 = r1  r2 = r2  r3 = r3  f1 = f1  f2 = f2
    Roots <- ThreeRoots
    Files <- OneFile
    RootOf <- There
    FirstRoots <- TwoRoots
    DefaultScope <- TwoRoots
    ScopeChoices <- OtherScope
    MaxBodies = 1
    UseJournal = TRUE
    MaxClock = 2
    MaxGeneration = 2
    MaxRevision = 1
    MaxBoots = 2
SPECIFICATION TwoStarts
CHECK_DEADLOCK FALSE
INVARIANTS OnlyAuthorized SnapshotInScope
