SPECIFICATION Spec
CONSTANTS
    People = {"ann", "bob"}
    Browsers = {"b"}
    Workspaces = {1, 2}
    Invites = {1}
    Founded <- Start
    Enrolled = {"bob"}
    RequireMfa = TRUE
    MaxChanges = 2
    None = None
CHECK_DEADLOCK FALSE
INVARIANTS Arrives KeepsAnOwner
PROPERTIES RedirectsEnd
