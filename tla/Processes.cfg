SPECIFICATION AllSpec
CONSTANTS
    MaxCommands = 2
    MaxCrashes = 1
    MaxUserFiles = 1
    Sharers = {"p", "q"}
    MaxStores = 3
    MaxDamage = 1
    Spawn = {s1, s2}
    Write = {}
    Target <- ToFirst
    Piped = {s1}
    Forking = {s1}
    MaxChunks <- OneChunk
    MaxReloads = 1
    Sizes = {1, 2}
    Default = 2
    MaxCalls = 3
    MaxSaves = 1
    MaxTestRequests = 3
    CliPaths <- PathsByUnit
    CorePaths <- PathsByByte
    UnsafePaths = {"../c"}
    MaxTrailing = 3
    MaxLinks = 2
    MaxSigns = 3
    MaxPosts = 2
    MaxChannels = 1
    MaxEnds = 1
    s1 = s1
    s2 = s2
    w1 = w1
    w2 = w2
CHECK_DEADLOCK FALSE
INVARIANTS
    OldOrNew
    ExitIsLast
    TreesAreOwn
    PictureAgrees
    StepsAreTrue
    LinkedIsFound
    PortsDeliver
PROPERTIES
    BuildsAreSafe
