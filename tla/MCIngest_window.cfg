SPECIFICATION FairWindowSpec
CONSTANTS
    Run = {r1}
    Runner = {d1, d2}
    Lookback = 3
    Overlap = 1
    DayArgs = {}
    LastDay = 3
    MaxTroubles = 1
    NoRun = NoRun
INVARIANTS NoGap
PROPERTY EventuallyHeld
