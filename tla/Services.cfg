SPECIFICATION Spec
CONSTANTS
    Canvases = {canvas}
    MaxRequests = 3
    ResolvePasses = 2
    Fetches = {r1, r2}
    Urls = {u, v}
    MaxStops = 1
    MaxTimerId = 3
    NestingLimit = 2
    ShortestDelay = 2
    Delays = {0, 1}
    MaxClock = 7
    MaxTimers = 4
    Calls = {call1, call2}
    Links = {link1}
    Waits = {wait1}
    MaxRealms = 2
    MaxMessages = 2
    MaxFrames = 2
    MaxEvents = 3
    MaxTries = 3
    Backends = {"portal", "freedesktop", "windows"}
    ConsumedLimit = 1
    MaxShown = 2
    MaxDocuments = 2
    MaxOffers = 1
    MaxAsks = 3
    Pads = {pad1, pad2}
    MaxReports = 2
    MaxVibrations = 2
    MaxReloads = 1
    NoticeNames = {n1}
    MaxPosts = 3
    MaxPermits = 2
    MaxRuns = 2
    RememberedTaps = 1
    MaxMenus = 5
    MaxMenuDeeds = 3
    MaxVersion = 3
    MaxVoices = 2
    MaxLoads = 2
    MaxPlays = 2
    MaxReplayFrames = 3
    MaxReplayInputs = 2
    MaxReplayAsks = 5
    MaxListeners = 2
    MaxDispatches = 2
    MaxEdits = 1
    Tasks = {t1, t2}
    PipeSize = 1
    MaxSaid = 2
    MaxHelpers = 1
    MaxPages = 2
    canvas = canvas
    r1 = r1
    r2 = r2
    u = u
    v = v
    call1 = call1
    call2 = call2
    link1 = link1
    wait1 = wait1
    Vacant = Vacant
    pad1 = pad1
    pad2 = pad2
    n1 = n1
    t1 = t1
    t2 = t2
CHECK_DEADLOCK FALSE
INVARIANTS
    RestIsComplete
    SettledOnce
    OwedIsQueued
    FetchSettlesOnce
    StreamAgrees
    HeardOnce
    VibrationIsOwed
    NothingIsLost
    MenusAgree
    RunsItsFiles
    PlayingIsReal
    FramesFollowTrace
    EventsAreHeard
    DesktopIsAnswered
