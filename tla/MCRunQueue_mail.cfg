SPECIFICATION Spec
CONSTANTS
    Run = {r1, r2}
    Drainer = {d1, d2}
    Enqueuer = {e1}
    People = {}
    Kind = "email"
    MaxAttempts = 2
    SlowRuns = FALSE
    MaxCrashes = 0
    MaxRetries = 1
    None = None
SYMMETRY Symmetry
INVARIANTS HonouredUntilCrash
