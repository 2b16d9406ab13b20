\* Two requests of any kind and an unload-all over two models; one event-loop
\* pass never holds both a task's last step and another coroutine ("batch").
SPECIFICATION FairSpec
CONSTANTS
    Requests = {r1, r2}
    Models = {m, n}
    Locks = {l1, l2}
    None = None
    Kinds = {"load", "unloadAll", "update"}
    Env = {"probeError"}
    MayReturn = FALSE
INVARIANTS LifecycleTypeOK SingleFlight NoDeadTask
PROPERTIES RequestsServed
