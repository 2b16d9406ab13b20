\* A rollback after an edit by somebody else.
SPECIFICATION Spec
CONSTANTS
    Requests = {r1, r2}
    a = a
    b = b
    x = x
    y = y
    Models = {a}
    Entries = {x, y}
    InitialFile <- OneModel
    Limit = 3
    MaxEdits = 1
    Env = {}
    Kinds = {"update", "register", "rollback"}
    None = None
PROPERTIES EachWriteSaved
