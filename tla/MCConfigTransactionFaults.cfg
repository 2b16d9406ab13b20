\* Crashes, failures of the file system, and rollbacks and edits in the middle
\* of a transaction.
SPECIFICATION Spec
CONSTANTS
    Requests = {r1, r2, r3}
    a = a
    b = b
    x = x
    y = y
    Models = {a}
    Entries = {x, y}
    InitialFile <- OneModel
    Limit = 2
    MaxEdits = 1
    Env = {"timeout", "crash", "disk", "midway"}
    Kinds = {"update", "register", "rollback"}
    None = None
SYMMETRY Symmetry
INVARIANTS OriginalSaved
PROPERTIES EditsSaved
