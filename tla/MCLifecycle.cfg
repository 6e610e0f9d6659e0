SPECIFICATION SyncSpec
SYMMETRY WorkerSymmetry
VIEW Relevant
CONSTANTS
    Repositories = {r1}
    NoRepository = NoRepository
    Evidence = {}
    Operators = {o1}
    Window = 1
    MaxTime = 1
    MaxStops = 0
    MaxRuns = 0
    MaxReports = 0
    Workers = {w1, w2}
    NoWorker = NoWorker
    Unreadable = {}
    MaxActivity = 2
    MaxEvents = 2
INVARIANTS
    NothingEndsUnrecorded
    MaintainerPushIsTheirs
PROPERTIES
    EndedStaysEnded
    HoldsComeFirst
CHECK_DEADLOCK FALSE
