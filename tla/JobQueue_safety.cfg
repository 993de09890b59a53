CONSTANTS
    j1 = j1
    j2 = j2
    j3 = j3
    JobId = {j1, j2, j3}
    Process = {p1, p2}
    InitJobs <- MCInitJobs
    MaxConcurrentJobs = 1
    ClaimBatch = 2
    MaxAttempts = 2
    MaxFaults = 2
SPECIFICATION Spec
INVARIANTS ClaimedOnce AttemptsAreSpent CleanupChainSurvives
PROPERTY FinishedIsFinal
