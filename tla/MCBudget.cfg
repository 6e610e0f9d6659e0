SPECIFICATION Spec
SYMMETRY WorkerSymmetry
VIEW Relevant
CONSTANTS
    Workers = {w1, w2}
    NoWorker = NoWorker
    MaxRuns = 2
    Requests = {1, 4}
    Bills = {0, 4}
    Overbilled = {1}
    Excess = 3
    RunCap = 10
    DayCap = 11
    MaxCalls = 2
    MaxAttempts = 2
    LeaseMayLapse = TRUE
CHECK_DEADLOCK FALSE
INVARIANTS
    BilledIsCovered
    CriticKeepsItsFloor
PROPERTY
    SpendsFromOnePurse
