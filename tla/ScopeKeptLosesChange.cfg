CONSTANTS
    r1 = r1  r2 = r2  f1 = f1  f2 = f2
    Roots <- OneRoot
    Files <- TwoFiles
    RootOf <- Together
    FirstRoots <- OneRoot
    DefaultScope <- NoScope
    ScopeChoices <- Same
    MaxBodies = 2
    UseJournal = FALSE
    MaxClock = 2
    MaxGeneration = 2
    MaxRevision = 4
    EventBuffer = 1
    BatchLimit = 1
    MaxBoots = 2
SPECIFICATION WarmSpec
CHECK_DEADLOCK FALSE
INVARIANT NoLostChange
