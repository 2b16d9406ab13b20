\* Two scans that overlap, one registration, an editor and a deleted or spoilt
\* file; two polls of a model's decode speed; and commands of three pieces.
SPECIFICATION Spec
CONSTANTS
    Tree <- TwoRoots
    Scans = {s1, s2}
    Registrations = {r1}
    Initial <- OneEntry
    MaxGone = 1
    MaxEdits = 1
    MaxEntries = 2
    Polls = {p1, p2}
    Backends = {"vllm", "sglang", "gauged", "other"}
    MaxTokens = 2
    Launchers <- Beginnings
    Pieces <- SomePieces
    MaxPieces = 3
    NewPaths = {"p", "q", "/vllm/r"}
    Numbers <- CanonicalNumbers
    Objects <- CanonicalObjects
    Refilled <- FilledIn
    VllmWords = {"vllm", "/vllm/r"}
    SglangWords = {"sglang.launch_server", "sglang.x", "/x/sglang"}
    SglangPaths = {"/x/sglang"}
    OtherDashed = {"--foo"}
    Words <- SplitWords
SYMMETRY Symmetry
INVARIANTS DiscoveryTypeOK NotDuplicated
    SpeedTypeOK TokensCountedOnce SpeedIsSeen
    CodecStable SavedAsShown
PROPERTIES CandidateKept ScanExact
    WakesOnlyRaced
