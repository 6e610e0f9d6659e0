SPECIFICATION FairSpec
CONSTANTS
    Workers = {w1, w2}
    NoWorker = NoWorker
    Ops = {"publish", "abandon"}
    Interruptions = 1
    LeaseMayLapse = FALSE
    Republish = TRUE
    OutsiderActs = FALSE
PROPERTIES
    PrePrCleanupFinishes
