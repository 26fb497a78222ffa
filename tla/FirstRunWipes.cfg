CONSTANTS
    r1 = r1  r2 = r2  r3 = r3  f1 = f1  f2 = f2
    Roots <- TwoRoots
    Files <- TwoFiles
    RootOf <- Apart
    FirstRoots <- TwoRoots
    DefaultScope <- NoScope
    ScopeChoices <- AnyScope
    MaxBodies = 2
    UseJournal = FALSE
    MaxClock = 1
    MaxGeneration = 2
    MaxRevision = 0
    MaxBoots = 1
SPECIFICATION Spec
CHECK_DEADLOCK FALSE
PROPERTY OldSnapshotKept
