----------------------------- MODULE GpuMonitor -----------------------------
(***************************************************************************)
(* GpuMonitor.sample: one cached snapshot of the GPUs, collected by two    *)
(* external programs under an asyncio.Lock that is handed over first come, *)
(* first served.  Instead of a clock the model keeps ages: of the snapshot *)
(* (from its sampled_at), of the nvidia-smi reading inside it, and of the  *)
(* program that runs.  An age stops growing where nothing tells it from a  *)
(* larger one any more, so time itself is not bounded.                     *)
(* A killed program is awaited without a limit; that it closes its pipes   *)
(* within Reap is an assumption about the operating system.                *)
(* Memory is in one unit; the two conversions to bytes are left out.       *)
(***************************************************************************)
EXTENDS Integers, Sequences, SequencesExt, FiniteSets

CONSTANTS
    Callers,        \* requests for /api/gpu, and the card of the status page
    CacheSeconds,   \* GpuMonitor(cache_seconds=10)
    Timeout,        \* the 15 seconds of run_command
    Reap,           \* external: a killed program has closed its pipes by then
    NvidiaOutputs,  \* what nvidia-smi may print: sequences of [name, used]
    WindowsOutputs, \* what the PowerShell script may print: see ParseProcesses
    ProtectedNames, \* _PROTECTED_NAMES
    LastPid         \* the largest process number, 4294967295

\* The script prints an adapter once.
ASSUME GpuConstants ==
    /\ CacheSeconds \in Nat \ {0} /\ Timeout \in Nat \ {0} /\ Reap \in Nat
    /\ \A devices \in NvidiaOutputs : devices \in Seq([name : STRING, used : Int])
    /\ \A out \in WindowsOutputs :
          /\ out.counters \in Seq([pid : Int, adapter : Nat, value : Int])
          /\ out.adapters \subseteq [id : Nat, dedicated : Nat]
          /\ IsFiniteSet(out.adapters)
          /\ \A s, t \in out.adapters : s.id = t.id => s = t \/ s.id = 0

VARIABLES
    phase,    \* what each caller does; whoever runs a program has the lock
    queue,    \* the callers that wait for _sample_lock, in order
    elapsed,  \* age of the program that runs
    gpus,     \* the devices of the collection under way, <<>> when it failed
    reasons,  \* the programs that failed in the collection under way
    readAge,  \* age of the nvidia-smi reading in gpus
    cached    \* _cached: <<>> for None, else <<snapshot>>

gpuVars == <<phase, queue, elapsed, gpus, reasons, readAge, cached>>

Programs == {"nvidia-smi", "powershell.exe"}
\* What the first one is read as; nothing when it failed.
Devices == NvidiaOutputs \cup {<<>>}

Phases == {"idle", "waiting", "nvidia", "nvidiaKilled", "windows", "windowsKilled", "done"}
Killed == {"nvidiaKilled", "windowsKilled"}
Collecting == {"nvidia", "windows"} \cup Killed
Running == {c \in Callers : phase[c] \in Collecting}
Oldest == CacheSeconds + Timeout + Reap

-----------------------------------------------------------------------------
(* The parsers. *)

\* An instance name without a process or an adapter gives 0 for it.
Counts(row) == row.pid \in 1 .. LastPid /\ row.adapter # 0 /\ row.value > 0
Key(row) == <<row.pid, row.adapter>>

\* As AddUsage, with the last row only.
SetUsage(sum, row, key) == IF Counts(row) /\ Key(row) = key THEN row.value ELSE sum

\* usage: the rows of one process on one adapter are added up.
AddUsage(sum, row, key) == IF Counts(row) /\ Key(row) = key THEN sum + row.value ELSE sum
UsageOf(counters, key) == FoldLeft(LAMBDA sum, row : AddUsage(sum, row, key), 0, counters)

\* metadata: the last row of a process counts.
NameOf(processes, pid) ==
    LET rows == SelectSeq(processes, LAMBDA row : row.pid = pid)
    IN  IF rows = <<>> THEN "" ELSE Last(rows).name

GpuProcess(out, key) ==
    LET name == NameOf(out.processes, key[1])
    IN  [pid |-> key[1], adapter |-> key[2],
         bytes |-> UsageOf(out.counters, key), name |-> name,
         services |-> {row.name : row \in {s \in out.services : s.pid = key[1]}},
         protected |-> key[1] = 4 \/ name \in ProtectedNames]

Before(p, q) ==
    \/ p.bytes > q.bytes
    \/ p.bytes = q.bytes /\ p.pid < q.pid
    \/ p.bytes = q.bytes /\ p.pid = q.pid /\ p.adapter <= q.adapter

\* sorted, by the members up to each one: what is at i has i of them.
Sorted(upTo) ==
    [i \in 1 .. Cardinality(DOMAIN upTo) |->
        CHOOSE x \in DOMAIN upTo : Cardinality(upTo[x]) = i]

Keys(counters) == {Key(row) : row \in {r \in ToSet(counters) : Counts(r)}}

\* parse_windows_gpu_json
ParseProcesses(out) ==
    LET rows == {GpuProcess(out, key) : key \in Keys(out.counters)}
    IN  Sorted([p \in rows |-> {q \in rows : Before(q, p)}])

\* parse_windows_gpu_adapters_json; a row that is no adapter has id 0
NotAfter(s, t) == s.id <= t.id
ParseAdapters(out) ==
    LET rows == {row \in out.adapters : row.id # 0}
    IN  Sorted([s \in rows |-> {t \in rows : NotAfter(t, s)}])

Distance(x, y) == IF x > y THEN x - y ELSE y - x

\* The first adapter, in order, that comes closest to the device.
Closest(remaining, gpu) ==
    CHOOSE item \in remaining :
        \A other \in remaining :
            LET d == Distance(item.dedicated, gpu.used)
                e == Distance(other.dedicated, gpu.used)
            IN  d < e \/ (d = e /\ item.id <= other.id)

\* As LabelDiscreteAdapters, but an adapter may be taken again.
LabelClosest(adapters, devices) ==
    [i \in DOMAIN adapters |->
        [id |-> adapters[i].id, dedicated |-> adapters[i].dedicated,
         names |-> {gpu.name : gpu \in {g \in ToSet(devices) :
                                         Closest(ToSet(adapters), g) = adapters[i]}}]]

\* _label_discrete_adapters: each device in turn takes the adapter closest to
\* it among those that no device took, until there is none left.
Take(acc, gpu) ==
    IF acc.remaining = {} THEN acc
    ELSE LET item == Closest(acc.remaining, gpu)
         IN  [remaining |-> acc.remaining \ {item},
              labels |-> acc.labels \cup {<<item.id, gpu.name>>}]

LabelDiscreteAdapters(adapters, devices) ==
    LET labels == FoldLeft(Take, [remaining |-> ToSet(adapters), labels |-> {}],
                           devices).labels
    IN  [i \in DOMAIN adapters |->
            [id |-> adapters[i].id, dedicated |-> adapters[i].dedicated,
             names |-> {l[2] : l \in {k \in labels : k[1] = adapters[i].id}}]]

-----------------------------------------------------------------------------
GpuInit ==
    /\ phase = [c \in Callers |-> "idle"]
    /\ queue = <<>>
    /\ elapsed = 0
    /\ gpus = <<>>
    /\ reasons = {}
    /\ readAge = 0
    /\ cached = <<>>

Fresh == cached # <<>> /\ Head(cached).age < CacheSeconds

\* _collect up to the start of nvidia-smi
Collect(c) ==
    /\ phase' = [phase EXCEPT ![c] = "nvidia"]
    /\ elapsed' = 0
    /\ UNCHANGED <<gpus, reasons, readAge, cached>>

\* As Sample, without the lock.
SampleUnlocked(c) ==
    /\ phase[c] = "idle"
    /\ IF Fresh
       THEN /\ phase' = [phase EXCEPT ![c] = "done"]
            /\ UNCHANGED <<elapsed, gpus, reasons, readAge, cached>>
       ELSE Collect(c)
    /\ UNCHANGED queue

\* sample: the cache, else the lock; a free lock is taken without a pause.
Sample(c) ==
    /\ phase[c] = "idle"
    /\ \/ /\ Fresh
          /\ phase' = [phase EXCEPT ![c] = "done"]
          /\ UNCHANGED <<queue, elapsed, gpus, reasons, readAge, cached>>
       \/ /\ ~Fresh /\ Running = {} /\ queue = <<>>
          /\ Collect(c)
          /\ UNCHANGED queue
       \/ /\ ~Fresh /\ (Running # {} \/ queue # <<>>)
          /\ phase' = [phase EXCEPT ![c] = "waiting"]
          /\ queue' = Append(queue, c)
          /\ UNCHANGED <<elapsed, gpus, reasons, readAge, cached>>

\* As Acquire, without the second look at the cache.
AcquireBlindly(c) ==
    /\ queue # <<>> /\ c = Head(queue) /\ Running = {}
    /\ queue' = Tail(queue)
    /\ Collect(c)

\* The lock reaches the caller that has waited longest, which looks again.
Acquire(c) ==
    /\ queue # <<>> /\ c = Head(queue) /\ Running = {}
    /\ queue' = Tail(queue)
    /\ IF Fresh
       THEN /\ phase' = [phase EXCEPT ![c] = "done"]
            /\ UNCHANGED <<elapsed, gpus, reasons, readAge, cached>>
       ELSE Collect(c)

\* The second program starts where the first one ended, well or badly.
StartWindows(c, devices, failed) ==
    /\ phase' = [phase EXCEPT ![c] = "windows"]
    /\ elapsed' = 0
    /\ gpus' = devices
    /\ reasons' = failed
    /\ readAge' = 0
    /\ UNCHANGED <<queue, cached>>

NvidiaAnswers(c) ==
    /\ phase[c] = "nvidia"
    /\ \E devices \in NvidiaOutputs : StartWindows(c, devices, {})

\* A missing program, an exit code, or a row that is not understood.
NvidiaFails(c) == phase[c] = "nvidia" /\ StartWindows(c, <<>>, {"nvidia-smi"})

\* As TakeSnapshot, with the time read before the second program ran.
TakeSnapshotEarly(c, processes, adapters, failed) ==
    /\ cached' = <<[processes |-> processes, adapters |-> adapters,
                    gpus |-> gpus, degraded |-> reasons \cup failed,
                    age |-> readAge, readAge |-> readAge]>>
    /\ phase' = [phase EXCEPT ![c] = "done"]
    /\ elapsed' = 0
    /\ gpus' = <<>>
    /\ reasons' = {}
    /\ readAge' = 0
    /\ UNCHANGED queue

\* The snapshot replaces the cached one; its age counts from here.
TakeSnapshot(c, processes, adapters, failed) ==
    /\ cached' = <<[processes |-> processes, adapters |-> adapters,
                    gpus |-> gpus, degraded |-> reasons \cup failed,
                    age |-> 0, readAge |-> readAge]>>
    /\ phase' = [phase EXCEPT ![c] = "done"]
    /\ elapsed' = 0
    /\ gpus' = <<>>
    /\ reasons' = {}
    /\ readAge' = 0
    /\ UNCHANGED queue

WindowsAnswers(c) ==
    /\ phase[c] = "windows"
    /\ \E out \in WindowsOutputs :
          TakeSnapshot(c, ParseProcesses(out),
                       LabelDiscreteAdapters(ParseAdapters(out), gpus), {})

WindowsFails(c) ==
    phase[c] = "windows" /\ TakeSnapshot(c, <<>>, <<>>, {"powershell.exe"})

\* run_command kills a program after its time and waits for it to be gone.
Kill(c) ==
    /\ phase' = [phase EXCEPT ![c] = IF @ = "nvidia" THEN "nvidiaKilled" ELSE "windowsKilled"]
    /\ elapsed' = 0
    /\ UNCHANGED <<queue, gpus, reasons, readAge, cached>>

\* As ProgramTimesOut, for the first program only.
NvidiaTimesOut(c) == phase[c] = "nvidia" /\ elapsed = Timeout /\ Kill(c)

ProgramTimesOut(c) == phase[c] \in {"nvidia", "windows"} /\ elapsed = Timeout /\ Kill(c)

\* The killed program is gone; run_command reports it as failed.
Reaped(c) ==
    \/ phase[c] = "nvidiaKilled" /\ StartWindows(c, <<>>, {"nvidia-smi"})
    \/ phase[c] = "windowsKilled" /\ TakeSnapshot(c, <<>>, <<>>, {"powershell.exe"})

\* The answer goes out; the caller may come back.
Return(c) ==
    /\ phase[c] = "done"
    /\ phase' = [phase EXCEPT ![c] = "idle"]
    /\ UNCHANGED <<queue, elapsed, gpus, reasons, readAge, cached>>

Older(age, limit) == IF age < limit THEN age + 1 ELSE limit

\* How long the program that runs may go on as it does.
Limit == IF \E c \in Callers : phase[c] \in Killed THEN Reap ELSE Timeout

\* Time passes; the timer of a program that runs is never late.
Tick ==
    /\ Running = {} \/ elapsed < Limit
    /\ elapsed' = IF Running = {} THEN 0 ELSE elapsed + 1
    /\ readAge' = IF \E c \in Callers : phase[c] \in {"windows", "windowsKilled"}
                  THEN readAge + 1 ELSE 0
    /\ cached' = IF cached = <<>> THEN <<>>
                 ELSE <<[cached[1] EXCEPT !.age = Older(@, CacheSeconds),
                                          !.readAge = Older(@, Oldest)]>>
    /\ UNCHANGED <<phase, queue, gpus, reasons>>

GpuNext ==
    \/ \E c \in Callers :
          \/ Sample(c) \/ Acquire(c) \/ Return(c)
          \/ NvidiaAnswers(c) \/ NvidiaFails(c)
          \/ WindowsAnswers(c) \/ WindowsFails(c)
          \/ ProgramTimesOut(c) \/ Reaped(c)
    \/ Tick

\* The event loop resumes whoever may go on and its timers fire; a program
\* need not end by itself, but it ends when it is killed.
GpuFairness ==
    /\ \A c \in Callers :
          WF_gpuVars(Acquire(c)) /\ WF_gpuVars(ProgramTimesOut(c)) /\ WF_gpuVars(Reaped(c))
    /\ WF_gpuVars(Running # {} /\ Tick)

-----------------------------------------------------------------------------
GpuTypeOK ==
    /\ phase \in [Callers -> Phases]
    /\ IsInjective(queue)
    /\ ToSet(queue) = {c \in Callers : phase[c] = "waiting"}
    /\ Cardinality(Running) <= 1
    /\ elapsed \in 0 .. Limit
    /\ gpus \in Devices
    /\ reasons \subseteq Programs
    /\ readAge \in 0 .. Timeout + Reap
    /\ Len(cached) <= 1
    /\ \A snapshot \in ToSet(cached) :
          /\ snapshot.gpus \in Devices /\ snapshot.degraded \subseteq Programs
          /\ snapshot.age \in 0 .. CacheSeconds /\ snapshot.readAge \in 0 .. Oldest

\* However many callers wait, the programs run once for a period of the cache:
\* a snapshot is never replaced before it has expired, because the caller that
\* gets the lock looks at the cache again.
OneCollection ==
    [][cached # <<>> /\ phase' # phase /\ cached' # cached
        => Head(cached).age = CacheSeconds]_gpuVars

\* What a caller is given was sampled less than the cache's period ago, and
\* its device readings are at most one run of a program (and what the system
\* takes to end it) older than that, even
\* when the caller waited for the collection of another one.
AnswersAreFresh ==
    [][\A c \in Callers : phase[c] # "done" /\ phase'[c] = "done"
        => /\ Head(cached').age < CacheSeconds
           /\ Head(cached').readAge < Oldest]_gpuVars

\* A device labels one adapter and an adapter has one label: a name is not
\* shown on more cards than nvidia-smi reports with it, and no device is left
\* out while an adapter is free.
DistinctLabels ==
    \A snapshot \in ToSet(cached) :
        LET named == {a \in ToSet(snapshot.adapters) : a.names # {}}
            fewer == IF Len(snapshot.gpus) < Len(snapshot.adapters)
                     THEN Len(snapshot.gpus) ELSE Len(snapshot.adapters)
        IN  /\ Cardinality(named) = fewer
            /\ \A a \in named : Cardinality(a.names) = 1
            /\ \A name \in UNION {a.names : a \in named} :
                  Cardinality({a \in named : name \in a.names}) <=
                    Cardinality({i \in DOMAIN snapshot.gpus : snapshot.gpus[i].name = name})

\* What the valid counters of the script measured on an adapter, and what the
\* rows that are shown say of it.
AddMeasured(sum, row, adapter) ==
    IF Counts(row) /\ row.adapter = adapter THEN sum + row.value ELSE sum
Measured(counters, adapter) ==
    FoldLeft(LAMBDA sum, row : AddMeasured(sum, row, adapter), 0, counters)
AddShown(sum, row, adapter) == IF row.adapter = adapter THEN sum + row.bytes ELSE sum
Shown(rows, adapter) == FoldLeft(LAMBDA sum, row : AddShown(sum, row, adapter), 0, rows)

\* Every valid counter of the script ends up in exactly one row of what is
\* shown: the rows have different keys and, adapter by adapter, add up to what
\* some output of the script measured.
MemoryAccounted ==
    \A snapshot \in ToSet(cached) : "powershell.exe" \notin snapshot.degraded =>
        LET rows == snapshot.processes
        IN  /\ IsInjective([i \in DOMAIN rows |-> Key(rows[i])])
            /\ \E out \in WindowsOutputs :
                  \A adapter \in {row.adapter : row \in ToSet(out.counters \o rows)} :
                     Shown(rows, adapter) = Measured(out.counters, adapter)

\* A program that hangs holds nobody up for good: each call gets its answer, as
\* far as a killed program closes its pipes (see Reap).
SamplesEnd == \A c \in Callers : []<>(phase[c] \in {"idle", "done"})
=============================================================================
