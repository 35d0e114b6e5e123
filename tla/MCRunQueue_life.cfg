SPECIFICATION FairSpec
CONSTANTS
    Run = {r1, r2}
    Drainer = {d1}
    Enqueuer = {e1}
    People = {}
    Kind = "inference"
    MaxAttempts = 2
    SlowRuns = FALSE
    MaxCrashes = 1
    MaxRetries = 1
    None = None
PROPERTIES EveryRunSettles LivesOneLife
