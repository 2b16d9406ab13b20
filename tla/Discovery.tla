------------------------------ MODULE Discovery ------------------------------
(***************************************************************************)
(* Candidate discovery: ModelScanner.scan, which walks the model roots in  *)
(* a worker thread, and what ModelService keeps of it (_discovered) while  *)
(* scans overlap, registrations turn candidates into configured models,    *)
(* editors change the configuration and files disappear.                   *)
(* The walk goes through a sequence of directories, and in each through    *)
(* the GGUF files that were listed, one step each.  A directory is a       *)
(* record of what the scanner looks at in it; a path stands for the        *)
(* resolved, case-normalised path that the scanner compares.  Sizes,       *)
(* quantisation, MTP flags and candidate ids, which no check reads, are    *)
(* left out.                                                               *)
(***************************************************************************)
EXTENDS Integers, Sequences, SequencesExt, FiniteSets

CONSTANTS
    Tree,          \* the directories under the sorted roots, in the order of the walk
    Scans,         \* POST /api/scan in progress at once
    Registrations, \* POST .../register in progress at once
    Initial,       \* the entries configured at first: [path, kind, decodable]
    MaxGone,       \* bound: files that disappear or are spoilt
    MaxEdits,      \* bound: edits of the configuration by others
    MaxEntries     \* bound: entries in the configuration

ASSUME DiscoveryConstants ==
    /\ {MaxGone, MaxEdits, MaxEntries} \subseteq Nat
    /\ Tree \in Seq(ToSet(Tree)) /\ Initial \in Seq(ToSet(Initial))

\* A directory is [path, config, tokenizer, weights, downloading, index, ggufs]
\*   config:      architecture in config.json, "bad" or "none" (no such file)
\*   weights:     its .safetensors files; "mtp" alone is no model
\*   downloading: some name ends in .part, .crdownload or .tmp
\*   index:       "none", "bad", "odd" (JSON, but no object), or "ok" with the files
\*                it needs in shards
\*   ggufs:       its GGUF files by name: [path, readable, architecture, draft], where
\*                draft says that the name has a marker such as mmproj; one that is not
\*                readable has the architecture that was read before the error, or "none"
VARIABLES
    step,        \* the next directory of each scan in Tree; 0 when it has ended
    files,       \* the places of the files that its last directory had and it has yet to read
    exclude,     \* the registered paths that each scan was started with
    found,       \* its candidates so far
    discovered,  \* _discovered, as a set
    config,      \* the configured models other than those of writing
    writing,     \* the candidate that each registration has written to the file
                 \* and waits for llama-swap to reload: <<>> or <<candidate>>
    gone,        \* external: the paths that no longer exist
    odd,         \* external: the directories whose config.json is JSON, but no object
    edits,       \* the edits so far
    raced,       \* history: paths configured in a way that scans may miss
    steady       \* history: no path disappeared since the scan started

diskVars == <<gone, odd>>
scanVars == <<step, files, exclude, found, steady>>
discoveryVars == <<scanVars, diskVars, discovered, config, writing, edits, raced>>

AuxiliaryArchitectures == {"bert", "clip", "eagle3", "bge-m3"}
Idle == <<>>
Entry(c, decodable) == [path |-> c.path, kind |-> c.kind, decodable |-> decodable]
Pending == UNION {ToSet(writing[r]) : r \in Registrations}
Entries == ToSet(config) \cup {Entry(c, TRUE) : c \in Pending}
Walking(s) == step[s] # 0
Finished(s) == step[s] = Len(Tree) + 1 /\ files[s] = {}
Present(d) == {i \in DOMAIN d.ggufs : d.ggufs[i].path \notin gone}
\* The listing that the scan is in, and the place of the first file that is left.
Listing(s) == Tree[step[s] - 1].ggufs
IsNext(s, i) == \A j \in files[s] : i <= j

-----------------------------------------------------------------------------
(* The scanner. *)

\* _is_auxiliary: helper models by architecture, or, for a GGUF file that
\* cannot be read, by its name.
IsAuxiliary(candidate) ==
    \/ candidate.architecture \in AuxiliaryArchitectures
    \/ candidate.kind = "gguf" /\ ~candidate.readable /\ candidate.draft

\* _scan_gguf
ScanGguf(f) ==
    [path |-> f.path, kind |-> "gguf", complete |-> TRUE, readable |-> f.readable,
     architecture |-> f.architecture, draft |-> f.draft]

\* A directory holds a Hugging Face model when it has a configuration, a
\* tokenizer, and an index or a weight file that is not just an MTP head.
IsHf(d) == d.config # "none" /\ d.tokenizer
           /\ (d.index # "none" \/ d.weights \ {"mtp"} # {})

\* A finished download: no marker, a readable configuration, and every shard
\* that a readable index names.
IsComplete(d) ==
    /\ ~d.downloading
    /\ d.config # "bad"
    /\ d.index # "bad"
    /\ d.index = "ok" => d.shards \subseteq d.weights

\* What _scan_hf does not expect: it asks a list, a string or a number for a key.
Raises(d) ==
    IsHf(d) /\ (d.path \in odd \/ (~d.downloading /\ d.index = "odd"))

\* _scan_hf of a directory that holds such a model
ScanHf(d) ==
    [path |-> d.path, kind |-> "huggingface", complete |-> IsComplete(d),
     readable |-> TRUE,
     architecture |-> IF d.config = "bad" THEN "none" ELSE d.config,
     draft |-> FALSE]

\* seen: the paths that the scan has added.
Paths(candidates) == {c.path : c \in ToSet(candidates)}

\* What a scan looks at no more: the configured models and its own candidates.
Seen(s) == exclude[s] \cup Paths(found[s])

\* As Added, without a look at the candidates of the same scan.
AddedAgain(s, candidate) ==
    IF IsAuxiliary(candidate) \/ candidate.path \in exclude[s]
    THEN found[s] ELSE Append(found[s], candidate)

\* _add: neither helpers, nor configured models, nor a path twice.
Added(s, candidate) ==
    IF IsAuxiliary(candidate) \/ candidate.path \in Seen(s)
    THEN found[s] ELSE Append(found[s], candidate)

\* _registered_paths: an entry whose command cannot be decoded has no path.
RegisteredPaths == {e.path : e \in {x \in Entries : x.decodable}}

-----------------------------------------------------------------------------
DiscoveryInit ==
    /\ step = [s \in Scans |-> 0]
    /\ files = [s \in Scans |-> {}]
    /\ exclude = [s \in Scans |-> {}]
    /\ found = [s \in Scans |-> <<>>]
    /\ steady = [s \in Scans |-> TRUE]
    /\ discovered = {}
    /\ config = Initial
    /\ writing = [r \in Registrations |-> Idle]
    /\ gone = {}
    /\ odd = {}
    /\ edits = 0
    /\ raced = {}

\* As Reset, but the candidates stay for the next scan.
ResetStep(s) ==
    /\ step' = [step EXCEPT ![s] = 0]
    /\ UNCHANGED <<files, exclude, found, steady>>

\* The thread has ended.
Reset(s) ==
    /\ step' = [step EXCEPT ![s] = 0]
    /\ files' = [files EXCEPT ![s] = {}]
    /\ exclude' = [exclude EXCEPT ![s] = {}]
    /\ found' = [found EXCEPT ![s] = <<>>]
    /\ steady' = [steady EXCEPT ![s] = TRUE]

\* scan up to the thread: the configuration is read before the walk.
StartScan(s) ==
    /\ ~Walking(s)
    /\ step' = [step EXCEPT ![s] = 1]
    /\ exclude' = [exclude EXCEPT ![s] = RegisteredPaths]
    /\ UNCHANGED <<files, found, steady, diskVars, discovered, config, writing,
                   edits, raced>>

\* The thread enters a directory: its files are listed and, when they make it
\* one, it is added as a Hugging Face model.
WalkDirectory(s) ==
    /\ Walking(s) /\ files[s] = {} /\ step[s] <= Len(Tree)
    /\ LET d == Tree[step[s]]
       IN  /\ ~Raises(d)
           /\ found' = [found EXCEPT ![s] = IF IsHf(d) THEN Added(s, ScanHf(d)) ELSE @]
           /\ files' = [files EXCEPT ![s] = Present(d)]
    /\ step' = [step EXCEPT ![s] = @ + 1]
    /\ UNCHANGED <<exclude, steady, diskVars, discovered, config, writing, edits, raced>>

\* The next of the files that were listed; one already seen is not touched.
WalkFile(s) ==
    /\ \E i \in files[s] :
          LET f == Listing(s)[i]
          IN  /\ IsNext(s, i)
              /\ f.path \notin gone \ Seen(s)
              /\ found' = [found EXCEPT ![s] = Added(s, ScanGguf(f))]
              /\ files' = [files EXCEPT ![s] = @ \ {i}]
    /\ UNCHANGED <<step, exclude, steady, diskVars, discovered, config, writing,
                   edits, raced>>

\* A file went after it was listed and its size cannot be asked for, or a directory
\* raises: the scan fails as a whole and the previous candidates stay.
ScanFails(s) ==
    /\ \/ \E i \in files[s] :
             IsNext(s, i) /\ Listing(s)[i].path \in gone \ Seen(s)
       \/ Walking(s) /\ files[s] = {} /\ step[s] <= Len(Tree) /\ Raises(Tree[step[s]])
    /\ Reset(s)
    /\ UNCHANGED <<diskVars, discovered, config, writing, edits, raced>>

\* Back on the event loop: the candidates of this scan replace all others.
Publish(s) ==
    /\ Finished(s)
    /\ discovered' = ToSet(found[s])
    /\ Reset(s)
    /\ UNCHANGED <<diskVars, config, writing, edits, raced>>

\* A file is deleted.
Vanish ==
    /\ Cardinality(gone) + Cardinality(odd) < MaxGone
    /\ \E d \in ToSet(Tree) : \E i \in Present(d) : gone' = gone \cup {d.ggufs[i].path}
    /\ steady' = [t \in Scans |-> ~Walking(t)]
    /\ UNCHANGED <<step, files, exclude, found, odd, discovered, config, writing, edits,
                   raced>>

\* A config.json is overwritten.
Spoil ==
    /\ Cardinality(gone) + Cardinality(odd) < MaxGone
    /\ \E d \in ToSet(Tree) : d.config # "none" /\ odd' = odd \cup {d.path}
    /\ UNCHANGED <<scanVars, gone, discovered, config, writing, edits, raced>>

\* A registration is missed by the scans that read the configuration before.
Miss(c) == raced' = IF \E s \in Scans : Walking(s) THEN raced \cup {c.path} ELSE raced

\* What a registration is checked for, under the gate and the lock: a known and
\* complete candidate, whose path exists, and a configured model of its backend
\* to take the launcher from.  A request that is refused changes nothing.
MayRegister(c) ==
    /\ Pending = {} /\ Len(config) < MaxEntries
    /\ c.complete /\ c.path \notin gone
    /\ \E e \in ToSet(config) : e.decodable /\ e.kind = c.kind

\* As Register, but the candidate is used up at once.
RegisterEarly(r) ==
    /\ \E c \in discovered :
          /\ MayRegister(c)
          /\ writing' = [writing EXCEPT ![r] = <<c>>]
          /\ Miss(c)
          /\ discovered' = discovered \ {c}
    /\ UNCHANGED <<scanVars, diskVars, config, edits>>

\* register up to the wait for the reload
Register(r) ==
    /\ \E c \in discovered :
          /\ MayRegister(c)
          /\ writing' = [writing EXCEPT ![r] = <<c>>]
          /\ Miss(c)
    /\ UNCHANGED <<scanVars, diskVars, discovered, config, edits>>

Ends(r) == writing[r] # Idle /\ writing' = [writing EXCEPT ![r] = Idle]

\* As Confirm, but the candidate stays.
ConfirmOnly(r) ==
    /\ Ends(r)
    /\ config' = Append(config, Entry(writing[r][1], TRUE))
    /\ UNCHANGED <<scanVars, diskVars, discovered, edits, raced>>

\* llama-swap has reloaded: the candidate is used up.
Confirm(r) ==
    /\ Ends(r)
    /\ config' = Append(config, Entry(writing[r][1], TRUE))
    /\ discovered' = {c \in discovered : c.path # writing[r][1].path}
    /\ UNCHANGED <<scanVars, diskVars, edits, raced>>

\* It has not, or the request was cancelled: the entry is taken out again.
Restore(r) ==
    /\ Ends(r)
    /\ UNCHANGED <<scanVars, diskVars, discovered, config, edits, raced>>

\* Not even that works: the entry and the candidate both stay.
RestoreFails(r) ==
    /\ Ends(r)
    /\ config' = Append(config, Entry(writing[r][1], TRUE))
    /\ raced' = raced \cup {writing[r][1].path}
    /\ UNCHANGED <<scanVars, diskVars, discovered, edits>>

\* Somebody else adds a model, which may have a command that the codec does not
\* understand, or removes one.
Edit ==
    /\ edits < MaxEdits
    /\ edits' = edits + 1
    /\ \/ \E c \in discovered, decodable \in BOOLEAN :
             /\ config' = Append(config, Entry(c, decodable))
             /\ raced' = raced \cup {c.path}
       \/ /\ \E i \in DOMAIN config : config' = RemoveAt(config, i)
          /\ UNCHANGED raced
    /\ UNCHANGED <<scanVars, diskVars, discovered, writing>>

DiscoveryNext ==
    \/ \E s \in Scans :
          \/ StartScan(s) \/ WalkDirectory(s) \/ WalkFile(s)
          \/ ScanFails(s) \/ Publish(s)
    \/ \E r \in Registrations :
          Register(r) \/ Confirm(r) \/ Restore(r) \/ RestoreFails(r)
    \/ Vanish \/ Spoil \/ Edit

DiscoverySpec == DiscoveryInit /\ [][DiscoveryNext]_discoveryVars

-----------------------------------------------------------------------------
\* The candidates that a scan can find, the paths and the entries there can be.
Candidates ==
    LET ggufs == UNION {ToSet(d.ggufs) : d \in ToSet(Tree)}
        all == {ScanGguf(f) : f \in ggufs} \cup {ScanHf(d) : d \in ToSet(Tree)}
    IN  {c \in all : ~IsAuxiliary(c)}
KnownPaths == {e.path : e \in ToSet(Initial)} \cup {c.path : c \in Candidates}
KnownEntries ==
    ToSet(Initial) \cup {Entry(c, decodable) : c \in Candidates, decodable \in BOOLEAN}

\* What each variable holds: candidates are main models, never helpers; only a
\* complete one is ever written, and one at a time; a scan that has ended leaves
\* nothing for the next one to start with.
DiscoveryTypeOK ==
    /\ step \in [Scans -> 0 .. Len(Tree) + 1]
    /\ \A s \in Scans : files[s] # {} => step[s] >= 2 /\ files[s] \subseteq DOMAIN Listing(s)
    /\ found \in [Scans -> Seq(Candidates)]
    /\ exclude \in [Scans -> SUBSET KnownPaths]
    /\ steady \in [Scans -> BOOLEAN]
    /\ \A s \in Scans : ~Walking(s) => files[s] = {} /\ found[s] = <<>> /\ exclude[s] = {}
    /\ discovered \subseteq Candidates
    /\ config \in Seq(KnownEntries)
    /\ writing \in [Registrations -> {Idle} \cup {<<c>> : c \in {x \in Candidates : x.complete}}]
    /\ Cardinality(Pending) <= 1
    /\ raced \subseteq KnownPaths
    /\ edits \in 0 .. MaxEdits
    /\ Cardinality(gone) + Cardinality(odd) <= MaxGone

\* "Already configured models are not duplicated as candidates", but for what
\* no scan could know: a model that was configured while a scan ran, by an
\* editor after it, or by a registration that could not be undone.
NotDuplicated ==
    \A c \in discovered :
        (\E e \in ToSet(config) : e.decodable /\ e.path = c.path) => c.path \in raced

\* The same without the exceptions: what a scan publishes is not configured.
PublishesNew ==
    [][\A s \in Scans : Finished(s) /\ step'[s] = 0
        => \A c \in discovered', e \in ToSet(config') :
               e.decodable => e.path # c.path]_discoveryVars

\* A candidate is lost only to a later scan or to its own registration, and to
\* that only when llama-swap has confirmed it: a failed one can be repeated.
CandidateKept ==
    [][\A c \in discovered : c \notin discovered'
        => \/ \E s \in Scans : Finished(s) /\ step'[s] = 0
           \/ \E e \in ToSet(config') : e.path = c.path]_discoveryVars

\* The main models that the directories hold now: no helpers.
IsMain(f) == f.architecture \notin AuxiliaryArchitectures /\ (f.readable \/ ~f.draft)
HfPaths(d) ==
    IF IsHf(d) /\ d.config \notin AuxiliaryArchitectures THEN {d.path} ELSE {}
GgufPaths(d) == {d.ggufs[i].path : i \in {j \in Present(d) : IsMain(d.ggufs[j])}}
MainPaths == UNION {HfPaths(d) \cup GgufPaths(d) : d \in ToSet(Tree)}

\* Over directories that nobody changes a scan finds each main model that is
\* not configured, exactly once, however the roots overlap.
ScanExact ==
    [][\A s \in Scans : Finished(s) /\ step'[s] = 0 /\ steady[s]
        => /\ {c.path : c \in discovered'} = MainPaths \ exclude[s]
           /\ IsInjective([i \in DOMAIN found[s] |-> found[s][i].path])]_discoveryVars
=============================================================================
