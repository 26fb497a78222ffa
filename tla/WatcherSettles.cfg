CONSTANTS
    r1 = r1  r2 = r2  f1 = f1  f2 = f2
    Roots <- TwoRoots
    Files <- TwoFiles
    RootOf <- Apart
    FirstRoots <- OneRoot
    DefaultScope <- NoScope
    ScopeChoices <- Grow
    MaxBodies = 2
    UseJournal = FALSE
    MaxClock = 2
    MaxGeneration = 2
    MaxRevision = 6
    EventBuffer = 1
    BatchLimit = 1
    MaxBoots = 1
SPECIFICATION FairSystemSpec
CHECK_DEADLOCK FALSE
PROPERTIES ImplementsIndex Converges ScanCompletes ContentIsBuilt
