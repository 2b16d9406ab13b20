\* One model, three requests of any kind that race for it, unload-alls that
\* overlap, every fault of the environment.
SPECIFICATION Spec
CONSTANTS
    Requests = {r1, r2, r3}
    Models = {m}
    Locks = {l1, l2, l3}
    None = None
    Kinds = {"load", "unload", "unloadAll"}
    Env = {"probeError", "cancel", "external", "batch"}
    MayReturn = FALSE
SYMMETRY Symmetry
INVARIANTS SingleFlight NoDeadTask LocksReclaimed UnloadAllBarrier
