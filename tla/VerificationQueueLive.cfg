SPECIFICATION FairSpec
CONSTANTS
    Requests = {q1, q2}
    Workers = {w1, w2}
    Commits = {k1}
    None = None
    SlowPoll = TRUE
    Manual = TRUE
    MaxCrashes = 1
INVARIANTS
    ExclusiveJobs
    RunningIsHeld
    VerifiedAtMostOnce
PROPERTY EndsOrIsLost
