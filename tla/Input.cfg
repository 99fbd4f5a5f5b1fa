SPECIFICATION Spec
CONSTANTS
    Fingers = {f1, f2}
    PrimaryFinger = f1
    Elements = {a, b}
    MaxInputs = 3
    MaxId = 4
    MaxScript = 1
    Targets = {page, a}
    Root = page
    MaxRequests = 2
    MaxGestures = 2
    MaxLosses = 1
    MaxWants = 1
    Zones = {a, b}
    MaxDrags = 2
    MaxMoves = 3
    MaxNodes = 3
    MaxWrappers = 3
    Letters = {a}
    Pasted = {b}
    MaxText = 2
    HistoryLimit = 2
    UsbDevices = {u1, u2}
    InterfaceIds = {1, 2}
    NoElement = NoElement
    f1 = f1
    f2 = f2
    a = a
    b = b
    NoTarget = NoTarget
    page = page
    NoZone = NoZone
    Unset = Unset
    u1 = u1
    u2 = u2
CHECK_DEADLOCK FALSE
INVARIANTS
    DragIsItsOwn
    WrapperIsItsNodes
    EditsAgree
    QuestionStands
PROPERTIES
    PointersAreTrue
    ModesAgree
