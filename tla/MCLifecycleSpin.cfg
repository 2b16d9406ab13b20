\* A load and an unload of one model; a coroutine may run between the last
\* step of a task and its callbacks.
SPECIFICATION FairSpec
CONSTANTS
    Requests = {r1, r2}
    Models = {m}
    Locks = {l1, l2}
    None = None
    Kinds = {"load", "unload"}
    Env = {"batch"}
    MayReturn = FALSE
PROPERTIES UnloadWaitsForLoad
