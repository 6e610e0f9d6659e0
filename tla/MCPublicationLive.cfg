SPECIFICATION FairSpec
CONSTANTS
    Workers = {w1, w2}
    NoWorker = NoWorker
    Ops = {"publish", "abandon", "reconcile"}
    Interruptions = 1
    LeaseMayLapse = FALSE
    Republish = FALSE
    OutsiderActs = FALSE
INVARIANTS
    PublishedIsApproved
PROPERTIES
    OverIsOver
    KeepsThePromise
    CleanupFinishes
