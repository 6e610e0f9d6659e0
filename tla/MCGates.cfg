SPECIFICATION GatesSpec
CONSTANTS
    MaxBase = 3
    MaxOrg = 2
    MaxIssue = 4
    SearchesPerMinute = 2
    Latencies = {0, 15}
    Pauses = {0, 10}
    RetryAfters = {20, 31}
    MaxRequests = 3
    PageSize = 2
    MaxComments = 4
    MaxIssueEdits = 4
    Sessions = {s1, s2}
    Publishers = {w1}
    Logins = {me, other}
    Versions = {v1, v2}
    Life = 1
    MaxTime = 2
    MaxEdits = 2
    MaxStops = 1
    r1 = r1 r2 = r2 r3 = r3 a = a b = b
    Runs = {r1, r2, r3}
    Repositories = {a, b}
    RepositoryOf <- TwoRepositories
    Workers = {s1, s2}
    MaxPerDay = 1
    MaxOpen = 2
    Cooldown = 2
    Day = 2
    MaxDays = 2
    MaxFaults = 1
SYMMETRY Symmetry
INVARIANTS OneMoment CallsAreSafe ReadIsWhole PublishedWasReviewed ReservationsKeepLimits
CHECK_DEADLOCK FALSE
