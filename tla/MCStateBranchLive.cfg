SPECIFICATION FairSpec
CONSTANTS
    Runs = {r1}
    Preps = {p1}
    Approvals = {a1}
    Serial = TRUE
    Untrusted = FALSE
    Daily = TRUE
    MaxFaults = 1
    MaxReruns = 1
    MaxIssues = 4
    PushAttempts = 2
PROPERTIES  FinishedIsClosed
CHECK_DEADLOCK FALSE
