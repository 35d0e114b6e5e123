SPECIFICATION Spec
CONSTANTS
    Run = {r1, r2}
    Drainer = {d1, d2}
    Enqueuer = {e1}
    People = {e1}
    Kind = "sync"
    MaxAttempts = 2
    SlowRuns = FALSE
    MaxCrashes = 1
    MaxRetries = 0
    None = None
SYMMETRY Symmetry
INVARIANTS ExclusiveUntilCrash
PROPERTIES SuccessFinalUntilCrash
