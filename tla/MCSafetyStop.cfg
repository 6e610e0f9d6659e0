SPECIFICATION Spec
SYMMETRY Symmetry
CONSTANTS
    Repositories = {r1, r2}
    NoRepository = NoRepository
    Evidence <- StopEvidence
    Operators = {o1, o2}
    Window = 1
    MaxTime = 2
    MaxStops = 1
    MaxRuns = 6
    MaxReports = 1
INVARIANTS
    ReviewedBeforeResume
    EvidenceIsKept
    TwoRepositoriesStop
PROPERTIES
    StopsOnItsEvidence
CHECK_DEADLOCK FALSE
