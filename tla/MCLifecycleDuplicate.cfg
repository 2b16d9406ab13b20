\* Three loads of one model and status probes that may fail.
SPECIFICATION Spec
CONSTANTS
    Requests = {r1, r2, r3}
    Models = {m}
    Locks = {l1, l2, l3}
    None = None
    Kinds = {"load"}
    Env = {"probeError"}
    MayReturn = FALSE
INVARIANTS NoDuplicateUpstream
