\* Two requests of any kind, an edit between them, and a llama-swap that may never
\* reload.
SPECIFICATION FairSpec
CONSTANTS
    Requests = {r1, r2}
    a = a
    b = b
    x = x
    y = y
    Models = {a, b}
    Entries = {x, y}
    InitialFile <- OneModel
    Limit = 3
    MaxEdits = 1
    Env = {"timeout", "cancel"}
    Kinds = {"update", "register", "rollback"}
    None = None
INVARIANTS ConfigTypeOK
PROPERTIES ImplementsAtomic SuccessIsLive RequestsEnd
