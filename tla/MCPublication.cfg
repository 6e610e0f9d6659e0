SPECIFICATION Spec
SYMMETRY WorkerSymmetry
CONSTANTS
    Workers = {w1, w2}
    NoWorker = NoWorker
    Ops = {"publish", "abandon", "reconcile"}
    Interruptions = 1
    LeaseMayLapse = TRUE
    Republish = TRUE
    OutsiderActs = TRUE
INVARIANTS
    
    FailedLeavesNothing
