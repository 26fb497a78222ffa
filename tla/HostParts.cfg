CONSTANTS
    Plugins = {"p1", "p2"}
    NoPlugin = "no plugin"
    MaxVersion = 2
    MaxFaults = 1
    Stores <- AllStores
    MaxSaves = 4
    DocIds = {"d1"}
    Surfaces = {"s1", "s2"}
    NoDoc = NoDoc
    MaxRevisions = 3
    Owners = {"p1", "p2"}
    Profiles = {"c1", "c2"}
    MaxKeys = 3
    Downloads = {"d1", "d2", "d3"}
    MaxConnections = 2
    MaxShares = 2
    Chunks = 2
    LogFiles = 4
    FileRoom = 2
    MaxEntries = 9
    Domains = {"d1"}
    FirstHosts <- FirstContents
    Helpers = {"h1"}
    MaxLines = 2
    Children = {"w1"}
    Boots = {"b1", "b2"}
    Scripts = {"e1"}
    MaxParents = 2
    MaxGrants = 2
    MaxChildren = 2
    MaxPending = 1
    AiTasks = {"a1"}
    MaxRounds = 2
    MaxAiTasks = 1
    MaxAiDocs = 2
    Jobs = {"j1", "j2"}
    MaxJobDocs = 2
    HostCalls = {"c1", "c2"}
    MaxCallDocs = 2
    MaxWaiting = 1
    MaxIssued = 1
    Keys = {"kp", "kf", "k1"}
    Primary = "kp"
    Fallback = "kf"
    NoKey = "no key"
    Bindings = {"b1", "b2"}
    NoBinding = "no binding"
    MaxKeyFaults = 1
    Root = 9
    Refs <- FileRefs
    Names = {"a", "A", "b"}
    Fold <- CaseFold
    StartTrees <- FirstTrees
    MaxRecords = 3
    MaxStamp = 2
    Listeners = {"l1", "l2", "l3"}
    NoListener = "no listener"
    MaxTriggers = 2
    MaxPanelFaults = 2
    KindOf <- ClipKinds
    NoClip = "nothing"
    ImageLimit = 1
    FileLimit = 1
    ItemLimit = 1
    MaxPngs = 2
    MaxClipFaults = 1
    IconFiles = {"f1"}
    IconCallers = {"c1", "c2"}
    QueueRoom = 1
    CacheRoom = 1
    MaxIcons = 2
    MaxFileVersion = 2
    LastName = 3
    MaxFiles = 3
    MaxBatches = 1
    MaxItems = 2
    MaxPreviews = 1
    MaxMoveFaults = 2
SPECIFICATION PartsSpec
CHECK_DEADLOCK FALSE
INVARIANTS SavedIsFound NoLostEdit DatabaseLoads CipherHasItsKey ProfilesAreWhole NoSplice EndedShareIsQuiet LogKeepsNewest NoOrphanLease AbortIsFinal TablesDrain KilledPublishesNothing ClearedJobsAreSilent NobodyForgotten LauncherReachable RegistryIsNative ResumeIsExact WindowIsOneMoment OffIsOff PicturesMatchItems NothingHidden IconIsCurrent NoFileLost AnswerIsTrue
PROPERTIES ImplementsRegistry OthersLinesStay
