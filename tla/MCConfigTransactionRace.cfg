\* An edit in the middle of a store call.
SPECIFICATION Spec
CONSTANTS
    Requests = {r1}
    a = a
    b = b
    x = x
    y = y
    Models = {a}
    Entries = {x, y}
    InitialFile <- OneModel
    Limit = 3
    MaxEdits = 1
    Env = {"midway"}
    Kinds = {"update"}
    None = None
PROPERTIES EditsNeverLost
