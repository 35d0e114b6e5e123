SPECIFICATION MCSpec
CONSTANTS
  Areas = {a1,a2}
  Detected = {a1,a2}
  Unresolved = {a2}
  MaxSteps = 2
  MaxNudges = 1
  Threads = {1,2}
  None = None
  Budgets = {1,2,3,4,5}
  Items = {1,2,3,4,5,6,7}
  Gone = Gone
  Hands = {"page","chat"}
INVARIANT HeardOnce OneWriter
PROPERTY StreamOnce LogSettles
CHECK_DEADLOCK FALSE
