CONSTANTS
    IconFiles = {"f1"}
    IconCallers = {"c1", "c2"}
    QueueRoom = 1
    CacheRoom = 1
    MaxIcons = 2
    MaxFileVersion = 2
SPECIFICATION IconSpec
CHECK_DEADLOCK FALSE
INVARIANT StallIsTemporary
