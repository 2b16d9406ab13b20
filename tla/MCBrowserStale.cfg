\* A save while the page reloads the details behind the open editor.
SPECIFICATION PageSpec
CONSTANTS
    Models = {a, b}
    Clicks = {click1}
    Saves = {save1}
    MaxPolls = 1
    MaxWrites = 2
    None = None
    Callers = {c1, c2, c3}
    CacheSeconds = 2
    Timeout = 2
    Reap = 1
    NvidiaOutputs <- Nvidia
    WindowsOutputs <- Windows
    ProtectedNames = {"dwm"}
    LastPid = 7
PROPERTIES OverwritesNothingUnseen
