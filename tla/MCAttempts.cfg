SPECIFICATION Spec
SYMMETRY WorkerSymmetry
VIEW Relevant
CONSTANTS
    Workers = {w1, w2}
    NoWorker = NoWorker
    Issues = {i1}
    NoIssue = NoIssue
    MaxRuns = 2
    MaxRevision = 2
    MaxMishaps = 2
    RetireLimit = 2
INVARIANTS
    OneAttemptPerIssue
    NoSilentRetry
    EvidenceVerifies
    MirrorIsCurrent
