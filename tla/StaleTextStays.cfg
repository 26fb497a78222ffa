CONSTANTS
    r1 = r1  r2 = r2  r3 = r3  f1 = f1  f2 = f2
    Roots <- OneRoot
    Files <- OneFile
    RootOf <- There
    FirstRoots <- OneRoot
    DefaultScope <- NoScope
    ScopeChoices <- SameScope
    MaxBodies = 1
    UseJournal = FALSE
    MaxClock = 2
    MaxGeneration = 2
    MaxRevision = 6
    MaxBoots = 1
SPECIFICATION Spec
CHECK_DEADLOCK FALSE
INVARIANTS MismatchHeals
