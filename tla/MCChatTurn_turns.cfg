SPECIFICATION Spec
CONSTANTS
    Thread = {t1, t2}
    Request = {q1, q2}
    Steerer = {s1}
    Cap = 1
    MaxSteps = 2
    MaxCalls = 1
    MaxActs = 3
    MaxTroubles = 1
    None = None
SYMMETRY Symmetry
INVARIANTS OneTurnEach NoOrphanClaim AnsweredOrAnswering
PROPERTIES StopHolds
CHECK_DEADLOCK FALSE
