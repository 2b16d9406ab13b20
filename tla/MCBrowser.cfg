\* One page, two models, an edit by somebody else; and three callers of the
\* GPU monitor.
SPECIFICATION Spec
CONSTANTS
    Models = {a, b}
    Clicks = {click1}
    Saves = {save1}
    MaxPolls = 1
    MaxWrites = 2
    None = None
    Callers = {c1, c2, c3}
    CacheSeconds = 2
    Timeout = 2
    Reap = 1
    NvidiaOutputs <- Nvidia
    WindowsOutputs <- Windows
    ProtectedNames = {"dwm"}
    LastPid = 7
INVARIANTS WebTypeOK GpuTypeOK DistinctLabels MemoryAccounted
PROPERTIES OverwritesOnlyAfterReload OperationEnds
    OneCollection AnswersAreFresh SamplesEnd
