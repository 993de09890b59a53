CONSTANTS
    j1 = j1
    j2 = j2
    j3 = j3
    JobId = {j1, j2, j3}
    Process = {p1}
    InitJobs <- MCInitJobs
    MaxConcurrentJobs = 1
    ClaimBatch = 2
    MaxAttempts = 2
    MaxFaults = 1
SPECIFICATION FairSpec
PROPERTIES DueJobsAreClaimed ClaimedJobsEnd
