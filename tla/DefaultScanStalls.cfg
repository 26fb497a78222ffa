CONSTANTS
    r1 = r1  r2 = r2  r3 = r3  f1 = f1  f2 = f2
    Roots <- TwoRoots
    Files <- OneFile
    RootOf <- There
    FirstRoots <- TwoRoots
    DefaultScope <- TwoRoots
    ScopeChoices <- NoScope
    MaxBodies = 1
    UseJournal = FALSE
    MaxClock = 2
    MaxGeneration = 1
    MaxRevision = 2
    MaxBoots = 1
SPECIFICATION FairSpec
CHECK_DEADLOCK FALSE
PROPERTY ScanCompletes
