SPECIFICATION PreparationSpec
CONSTANTS
    None = None
    MaxRuns = 2
    KillMayFail = FALSE
    b = b d1 = d1 d2 = d2 x = x c1 = c1
    Diffs = {b, d1, x}
    Base = b
    Leaking = {x}
    Untested = {d1}
    Commands = {c1}
    MaxTurns = 6
    MaxCalls = 2
    MaxReports = 1
    t1 = t1 t2 = t2
    Tests = {t1, t2}
    File = File
    InFile = {t2}
    MinPassPercent = 50
    Deps = {d1, d2}
    Digests = {t1, t2}
    BlockDays = 1
    MaxDays = 1
    MaxChanges = 2
    DockerMayStop = TRUE
    RegistryMayFail = TRUE
    Repos <- TwoRepos
    IssuesOf <- ThreeIssues
    Score <- Scores
    CandidateLimit = 2
    MaxElsewhere = 1
INVARIANTS
    QuietWorkspace
    ReadyWasCheckedAndReviewed
    VerdictIsRight
    EnvironmentIsItsOwn
    
CHECK_DEADLOCK FALSE
