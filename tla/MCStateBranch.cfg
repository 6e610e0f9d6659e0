SPECIFICATION Spec
CONSTANTS
    Runs = {r1}
    Preps = {p1, p2}
    Approvals = {a1}
    Serial = FALSE
    Untrusted = TRUE
    Daily = FALSE
    MaxFaults = 1
    MaxReruns = 1
    MaxIssues = 3
    PushAttempts = 2
INVARIANTS ApprovedByOwner NothingSavedIsLost OneWholeIssue
PROPERTIES TrackedForGood
CHECK_DEADLOCK FALSE
