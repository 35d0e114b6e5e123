SPECIFICATION Spec
CONSTANTS
    Row = {"o1", "n1", "c"}
    Account = {"old", "new", "other"}
    AkahuAccount <- Home
    MigratedFrom <- From
    Predecessor <- Before
    Date <- Dates
    Amount <- Amounts
    Window = 3
    Near = 2
    Start = {"o1", "n1", "c"}
    Edited = {"o1", "n1"}
    Picks <- Linked
    Batches = {{"o1", "n1", "c"}}
    Pairs = {}
    Person = {"p"}
    MaxGroups = 2
    MaxActs = 2
    MaxMerges = 1
    MaxJobs = 1
    None = None
CHECK_DEADLOCK FALSE
INVARIANTS GroupsWhole VowsKept CountedOnce ChoicesSurvive
