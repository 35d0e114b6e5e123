SPECIFICATION FairSpec
CONSTANTS
    Tx = {t1}
    Value = {a, b}
    Syncer = {s1}
    Pass = {p1}
    Person = {u1}
    ConflictId = {i1, i2, i3}
    MaxChanges = 1
    MaxEdits = 1
    None = None
INVARIANTS ChoiceStands
PROPERTIES NeverRenagged Settles Surfaces
