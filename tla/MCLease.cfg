SPECIFICATION Spec
SYMMETRY GuardSymmetry
CONSTANTS
    Guards = {g1, g2, g3}
    NoRow = NoRow
    TTL = 2
    MaxTime = 5
    MaxGeneration = 4
CHECK_DEADLOCK FALSE
INVARIANTS
    WorkIsExclusive
PROPERTIES
    LiveLeaseIsKept
    ImplementsFencedLock
