# Verification of llama-swap-console

TLA+ modules that model the console (`src/src/llama_swap_console`), TLC
configurations that check them on small instances, and theorems proved with TLAPS
for every value of the constants. Paths below are relative to
`src/src/llama_swap_console/` unless they name another directory.

## The system

A FastAPI process manages one `config.yaml` and one llama-swap server that reads it.
Everything runs in one asyncio event loop: between two `await`s nothing else runs,
and at every `await` anything may.

| Component | State | Operations | Talks to |
|---|---|---|---|
| Lifecycle coordinator, `model_service.py:267-317, 413-567` | `_lifecycle_locks`, `_lifecycle_tasks`, `_lifecycle_operations`, `_service_gate`, `_unload_all_task` | load, unload, unload_all, reload; task callbacks | llama-swap over HTTP, the store |
| Configuration store, `config_store.py` | `config.yaml`, the backup directory | read, register/remove/update a model, restore, discard_backup, rollback_latest | the file system; external editors; llama-swap reads the file |
| Transactions, `model_service.py:147-265, 326-328, 569-694` | `_service_gate`, `_config_lock`, the snapshots of each request | update, register, rollback-latest, recovery | store, llama-swap (hot reload) |
| llama-swap client, `swap_client.py` | `_decode_samples` | calls, error classes, event stream, decode speed | llama-swap |
| Discovery, `model_service.py:176-195`, `model_scanner.py` | `_discovered`, `_scan_time` | scan (in a thread), list, drop a registered candidate | file system, transactions |
| GPU monitor, `gpu_monitor.py` | cached snapshot, sample lock | sample | `nvidia-smi`, PowerShell |
| Command codec, `command_codec.py`, `schemas.py` | none | decode, encode, assert_stable | transactions |
| HTTP API, `api.py` | none | routing, error mapping, SSE | all services |
| Browser client, `web/app.js` | `state`: selection, editor, operation, log stream | click handlers, fetch callbacks, timers | HTTP API |
| Application, settings, deployment | none | wiring | |

### What is hard here, and what makes each part correct

* **Lifecycle coordinator.** Requests for one model interleave at every `await`; a
  lock is created, queued on and thrown away per model; tasks outlive the requests
  that made them; a task's result is visible one event-loop pass before its
  callbacks have run; requests are cancelled; probes fail. Correct means: one
  upstream operation per model at a time, no request coalesces with or waits for
  something that is over, the dictionaries are cleaned up, a load that arrives
  during unload-all waits for it, and every request is answered.
* **Store and transactions.** An update is two writes with a wait for llama-swap
  between and after them, and a recovery that is itself a write and a wait. Timeouts,
  cancellations (also during the recovery), crashes, external edits and
  unserialised rollbacks come between. Correct means: a change happens as a whole or
  not at all, on the version the client saw; a success is really live; whatever is
  overwritten is in a backup; the version before a transaction survives a crash.
* **Discovery.** A scan runs in a thread while registrations change what it should
  find, and files come and go under it. Correct means: what is configured is not a
  candidate, a candidate is not lost before it is registered, a scan finds what is
  there.
* **Decode speed.** Three requests per poll, several polls at once, a counter that
  restarts. Correct means: no token in two rates, a busy model has one, and looking
  at a model does not start it.
* **GPU monitor.** A cache filled under a lock by programs that may hang. Correct
  means: one collection per period, no stale answer, nobody waits for ever.
* **Codec.** A command line that was decoded, edited and encoded again means what
  the form showed.
* **Browser client.** Each fetch answers later than the clicks that follow it.
  Correct means: a save changes the model and the version that the user saw, and an
  operation ends.

All hazards, with their lines and the properties that cover them, are in
`PROJECT.json`.

## Modules

| Module | Models |
|---|---|
| `Lifecycle` | the lifecycle coordinator and, as environment, llama-swap's model states |
| `MCLifecycle` | symmetry for TLC |
| `LifecycleProofs` | theorems about `Lifecycle`: types, one task per model, tasks, barrier, locks |
| `ConfigDocument` | the `models` mapping of `config.yaml` as an ordered dictionary |
| `AtomicConfig` | abstract: a configuration changed atomically by requests that saw it, with one-step undo |
| `ConfigTransaction` | store, backups, update/register/rollback transactions; shown to implement `AtomicConfig` |
| `ConfigProofs` | theorems about `ConfigTransaction`: types, backups, successes, the refinement |
| `MCConfigTransaction` | instance values and symmetry for TLC |
| `GpuMonitor` | cache, lock, the two programs, and the parsers of their rows |
| `GpuProofs` | theorems about `GpuMonitor` |
| `WebClient` | selection, editor, saves, operations and polling of `app.js` |
| `WebProofs` | theorems about `WebClient` |
| `MCBrowser` | runs `WebClient` and `GpuMonitor`, one per behaviour, with their instances |
| `DecodeSpeed` | `decode_speed`: overlapping polls, the shared sample, the metrics |
| `SpeedProofs` | theorems about `DecodeSpeed` |
| `MCDiscovery` | directories and configured models for TLC |
| `Discovery` | `ModelScanner.scan`, the candidates of the service, registrations |
| `DiscoveryProofs` | theorems about `Discovery` |
| `CommandCodec` | `decode`, `encode` and the form between them, over token kinds |
| `MCCodec` | commands for TLC |
| `FoldLemmas` | what `FoldLeft` computes, for any operator and sequence |
| `CodecProofs` | theorems about `CommandCodec` |
| `MCServices` | runs `DecodeSpeed`, `Discovery` and `CommandCodec`, one per behaviour, with their instances |

Definitions named `...Unchecked`, `...Never` and so on, commented "Mutant" or
"As ..., but", are deliberately wrong variants of the definition they are named for. No other definition uses
them; putting one in place of the original must break the property listed for it in
`PROJECT.json`.

### Lifecycle

A *runner* is a coroutine that may execute `_run_lifecycle_operation`: an HTTP
request, or one of the coroutines an unload-all gathers (named by its model). One
action is the code between two `await`s.

| Variable | Code |
|---|---|
| `pc`, `kind`, `target`, `op`, `on`, `outcome` | the coroutine: where it waits, its endpoint, model and operation, the task it shields, its result |
| `want` | the `asyncio.Lock` object in its local `lock`, kept by the task's callback (`model_service.py:541-544`) |
| `tstate` | the asyncio task it created: not sent, sent, confirming, ended but callbacks pending |
| `tasks`, `locks` | `_lifecycle_tasks` (and `_lifecycle_operations`), `_lifecycle_locks` |
| `allTask` | `_unload_all_task` |
| `up` | external: `stopped`, `starting` or `ready` for each model in llama-swap |
| `orphaned`, `early` | history, read by properties only |

| Action | Code |
|---|---|
| `PassGate`, `UnloadAll`, `BeginUpdate`, `EndUpdate`, `Rejected` | the handlers up to their first `await` after the gate (`147-174`, `267-295`) |
| `EnterLoop` (in several actions), `Loop` | the head of the `while True` loop (`499-505`); `Await` models that `await asyncio.shield(t)` of a finished task does not yield |
| `ProbeUnlocked`, `TakeLock` | first `_model_status`, then `setdefault` and `async with lock` (`507-519`) |
| `Acquire`, `ProbeLocked`, `StartTask` | the critical section with its second probe (`516-545`) and the `finally` (`529-531`) |
| `Cancel...` | `CancelledError` at each of the awaits |
| `Send`, `AnswerLoad`, `AnswerUnload`, `Confirm`, `Gather` | the tasks: `_load_upstream`, `_unload_upstream`, `_unload_all_models` |
| `CompleteTask`, `CompleteUnloadAll` | the done-callbacks, then the wake-up of whoever awaits the task |
| `Upstream` | a start completes; with `"external"`, any change of state |

Abstractions: a status probe is one step (the answer is acted on at once; what
llama-swap does between answer and action is covered by `Upstream` and by the
answers' nondeterminism in `AnswerLoad`); queued lock waiters are served in any
order, where asyncio serves them first come, first served, so the model has more
behaviours; an update holds the gate and only its reload (`_reload`) is looked into
here, the transaction is `ConfigTransaction`'s. `Env` names what the environment may
do in a run: failing probes, cancellation, external state changes, and `"batch"`: a
coroutine scheduled for the same event-loop pass as a task's last step runs before
the task's callbacks.

Bounds: `Requests` slots (2 or 3; `MayReturn` lets a finished slot take another
request: the theorems hold for both, the runs leave it off, since returning slots
only repeat the patterns of three requests at many times the states), 1 or 2 `Models`, as many `Locks` objects as can be alive at once in the
instance. Three requests are the least with which a holder, a waiter and a newcomer
meet at one lock, the shape of all lock trouble; two models let unload-all differ
from an unload.

### ConfigTransaction

| Variable | Code |
|---|---|
| `file` | `config.yaml`; its content also stands for the SHA-256 revision |
| `backups` | the backup directory in name order; `by` says which write made a backup, as `ConfigSnapshot.backup_path` does for the transaction |
| `seen` | external: the configuration llama-swap runs with |
| `pc`, `req`, `orig`, `outcome`, `cancelled` | a request's place, body (with the revision its client saw), `snapshot.raw`, answer, pending `CancelledError` |
| `written` | `removed.revision` or `result.revision`: the revision that was read back after the last write, which the next one expects |
| `edits` | number of external edits, bounded by `MaxEdits` |
| `overtaken` | history, read by properties only: the transactions with an edit in the middle of a store call |

| Action | Code |
|---|---|
| `Arrive` | a client reads a revision and submits |
| `Reject`, `Conflict` | validation errors, `RevisionConflict` (`config_store.py:114-117`) |
| `BeginUpdate`, `PutBack`, `Succeed` | `remove_model`, wait for absence, `register_model`, wait for presence, discard the intermediate backup (`model_service.py:579-616`); the store calls up to their backup |
| `BeginRegister` | `register_model` (`model_service.py:230`) up to its backup |
| `Replace`, `ReadBack` | the rest of a store call: `os.replace` (`config_store.py:122, 192`), then the read that tells the new revision (`123-129`) |
| `Fail`, `Restore`, `Restored`, `RestoreUnconfirmed` | the exception branches and `_complete_transaction_recovery` (`583-612`, `618-676`); `Restore` is `ConfigStore.restore` up to its check, `Replace` does the rest |
| `Rollback` | `rollback_latest`, without lock, revision and backup |
| `Cancel` | cancellation at the gate, in the transaction or in its recovery |
| `SwapReload`, `Edit`, `Crash` | llama-swap's file watcher; an external editor; a kill, perhaps inside a write after (a part of) its backup |
| `DiskFails`: `BackupFails`, `MutateFails`, `RestoreFails`, `DiscardFails`, `RollbackFails` | `OSError` in the backup, in the replacement or in reading the replaced file back, in a restore, in `discard_backup`, in a rollback; `Recover` says where the exception leaves the request (`model_service.py:238-263`, `583-615`) |

A store call runs without yielding and under a file lock, which keeps out the other
requests (`LoopFree`) but not an editor. So it takes three steps, at the points where an
`Edit` (with `"midway"`) makes a difference: the check of the revision with the backup, the
`os.replace`, and the read that follows it. `Crash` and `DiskFails` may end it at each of
them. What is joined: the handler's own reads of the file (`model_service.py:156, 217, 573`)
and the one that is compared (`config_store.py:115`) are one step. An edit between them
makes a `Conflict`, unless it puts back just what the client had seen, a case that is left
out. The read at the end of `restore` is left out, too, since nobody uses what it gives. A
backup that is cut short is no YAML, or holds the first of the models: `_backup` writes it
under its final name. The reload after a successful update (`model_service.py:172-173`) is
in `Lifecycle`. Timestamps of backups are assumed to increase (a clock set back would
reorder them).

`AtomicConfig` is what the console promises: `Commit` applies a change to the version
the client saw, `Refuse` changes nothing, `Undo` puts back what the last commit
replaced. The refinement mapping shows, while a transaction runs, the version from
before it (`orig`), and as `undo` the newest backup that is not the running
transaction's own. "Configuration recovery failed" maps to `GiveUp`, which keeps the
configuration but promises nothing about `undo`: in that case the code leaves the
transaction's backups, and the newest may be the file without the model.

The mapping is right only while nobody touches the file *during* a transaction
(`"midway"` not in `Env`) and with `Limit >= 3`: a transaction makes two backups and
evicts two older ones before it discards its own. What holds beyond that is checked
separately (`config_faults`).

### GpuMonitor

| Variable | Code |
|---|---|
| `phase`, `queue` | a caller of `sample`: idle, waiting for `_sample_lock`, running a program, answered; the waiters of the lock, which asyncio serves in order |
| `elapsed` | how long the program has run, against the 15 seconds of `run_command` |
| `gpus`, `reasons`, `readAge` | the locals of `_collect`, and how old the nvidia-smi reading is |
| `cached` | `_cached`, with its age for `sampled_at` |

`Sample` and `Acquire` are the two looks at the cache (`gpu_monitor.py:223-235`),
`Nvidia...` and `Windows...` the ends of the two programs (`237-295`),
`ProgramTimesOut` the kill after the timeout (`286-289`) and `Reaped` the end of the second
`communicate()`, for which the code sets no limit (`290`): that a killed program closes
its pipes within `Reap` is assumed of the system. `Tick` lets a unit of time pass. Ages saturate, so time is unbounded.
The parsers work on the rows of the programs' output; rows that the code skips
(no process, no adapter, process number out of range, no memory) are in the instance.
What the code sorts is `Sorted`: a member's place is the number of members up to it.
The dictionary `usage` is one fold over the counters for each of its keys (`UsageOf`).

### DecodeSpeed

| Variable | Code |
|---|---|
| `stage`, `listed`, `scrape` | a poll of `decode_speed` at its second or third request, and the answer on its way |
| `sample` | `_decode_samples[model]`; `older` says that the monotonic clock has moved since |
| `backend`, `up`, `total`, `inflight` | external: the backend and its counters |
| `generated`, `reported`, `served`, `crossed`, `upDuring` | history, read by properties only |

`Start` stands for the first request when it finds no speed; `ReadRunning` and
`AnswerScrape` are the code between the awaits (`swap_client.py:94-134`). Rates are
counted in tokens: what a speed was computed from.

### Discovery

| Variable | Code |
|---|---|
| `step`, `exclude`, `found` | a scan: the directory its thread lists next, `registered`, `candidates` |
| `files` | the places of the files that its last listing had and that it has yet to read |
| `discovered` | `_discovered` |
| `config`, `writing` | the entries of `config.yaml`; a registration between its write and the end of its wait |
| `gone`, `odd` | external: files that were deleted; directories whose `config.json` was overwritten by JSON that is no object |
| `edits`, `raced`, `steady` | the bound on edits, and history |

The thread takes one step for each listing of a directory (`WalkDirectory`) and one
for each file of it (`WalkFile`), as a file may disappear (`Vanish`) after it was
listed: the scan then ends with an error (`ScanFails`) and keeps the candidates as they
were. So it does when `_scan_hf` meets a `config.json` or an index that is JSON but no
object (`Raises`, `model_scanner.py:171, 187`). A file that cannot be read keeps the
architecture that was read before the error. A path stands for its normalised form.
`Restore` and `RestoreFails` are the two ends of a registration that failed, whose
details are in `ConfigTransaction`.

### CommandCodec

No state but a command under construction: `Write` extends it piece by piece, and the
invariants ask of every command what decoding and encoding make of it. Of the flags
of a backend that differ in name only, one is kept; every kind (`str`, `int`, `json`,
`bool`, the literal of `flash_attn`) and every special case of `decode`, `encode` and
`_detect_backend` stays. `Payload` is what the page sends for a form that nobody touched:
a text field sends `""` for a setting that is not there, a selection its first choice, and
the speculative object comes back with what its inputs make of it (`Sent`). A token is its text
before and after the `=` that `_split_flag` looks for; the text after it is read as a
token without such a sign, so an inline value that is itself of the form `--x=v` is
left out. `NamesSglang` and `NamesVllm` are the tests of `_detect_backend` on one token,
`Defaults` and `Read` the beginning and one pass of the loop of `decode`.

`Representable` says of which settings the two properties speak: the others cannot be
written down as a command at all (see *Also met while modelling*). TLC refutes
`CodecStable` or `SavedAsShown` when any one of its conjuncts is taken away, and the
proofs need no other.

### WebClient

| Variable | Code |
|---|---|
| `revision` | external: `config.yaml`, by its revision |
| `selected`, `current` | `state.selectedId`, `state.currentModel` |
| `editor`, `savable` | the dialog and what it was opened with; its save buttons |
| `busy`, `polls`, `waiting` | `state.operationBusy`, `attempt` and the condition of `waitForOperationStatus` |
| `flow` | for each asynchronous function that runs, the await it is at and what it read |
| `replaced` | history: `current` changed behind the open editor |

`Goto` names the await a flow goes to; `Ask` and `ServeDetail` separate the moment a
request is made, the moment it is served and the moment its answer is read
(`DetailAnswered`). `Proceed` is what follows `loadModels` in each of its callers.

### Parts that share no state

`MCServices` and `MCBrowser` put several modules into one run. Each behaviour picks one
`part` and leaves the others as they are: the state spaces add up, and a property of
one part is checked over all behaviours of that part, as the others only stutter for it.
The parts with timers and fairness are in `MCBrowser`. `MCServices` checks safety only, so
it may treat scans and polls as symmetric.

## Runs

| Run | Instance | Shows |
|---|---|---|
| `lifecycle` | 3 requests of any kind but updates, 1 model, all environment | `SingleFlight` (except after an orphaned lock, see below), `NoDeadTask`, `LocksReclaimed`, `UnloadAllBarrier` |
| `lifecycle_live` | 2 requests, 2 models, loads, updates with reload, unload-alls; fairness | `RequestsServed`: no deadlock of gate, tasks and barrier; `LifecycleTypeOK`; `SingleFlight` with gathered unloads of two models, `NoDeadTask` |
| `lifecycle_duplicate` | 3 loads of one model, failing probes | violation of `NoDuplicateUpstream` |
| `lifecycle_spin` | a load and an unload, `"batch"`; fairness | violation of `UnloadWaitsForLoad` |
| `config_atomic` | 2 requests of any kind, 2 models, limit 3, 1 edit between transactions; fairness | `ConfigTypeOK`, `ImplementsAtomic`, `SuccessIsLive`, `RequestsEnd` |
| `config_faults` | 3 requests, 1 model, limit 2, 1 edit, crashes, failing disk, rollbacks and edits midway | `OriginalSaved`, `EditsSaved` |
| `config_race` | 1 update, 1 edit midway | violation of `EditsNeverLost` |
| `config_rollback` | 2 requests, 1 edit | violation of `EachWriteSaved` |
| `services` | Discovery: 2 scans of a directory of 4 files under 2 roots, 1 registration, 1 edit, 1 deleted file or spoilt directory, at most 2 entries. Speed: 2 polls, 4 kinds of backend, 2 tokens. Codec: 5 beginnings and up to 3 of 25 pieces | `DiscoveryTypeOK`, `NotDuplicated`, `CandidateKept`, `ScanExact`; `SpeedTypeOK`, `WakesOnlyRaced`, `TokensCountedOnce`, `SpeedIsSeen`; `CodecStable`, `SavedAsShown` |
| `discovery_race` | 2 scans, 1 registration | violation of `PublishesNew` |
| `browser` | Page: 2 models, 1 selection or refresh, 1 operation with 1 poll and 1 save at once, 2 writes. GPU: 3 callers, cache and timeout of 2 ticks, 1 tick to end a killed program. Fairness | `WebTypeOK`, `GpuTypeOK`, `OverwritesOnlyAfterReload`, `OperationEnds`; `OneCollection`, `AnswersAreFresh`, `DistinctLabels`, `MemoryAccounted`, `SamplesEnd` |
| `browser_stale_save` | the same page | violation of `OverwritesNothingUnseen` |

Three requests in `lifecycle` are a holder, a waiter and a newcomer, or two unload-alls
and a load. Two in `config_atomic` suffice for the refinement, since its mapping shows
after each transaction which backup `undo` stands for, whether a rollback follows or not;
the edit between them gives the second a file that its client has not seen. Limit 2 in
`config_faults` is the least with which the original survives the second write; the run
leaves cancellation out, which takes the way of a timeout to the recovery, and the
theorems about both properties hold with it. Two entry values tell an old entry from a
new one. The largest runs are `config_faults` (4.0 million states), `services` (1.0
million), `browser` and `lifecycle` (0.6 million each), each done in about two minutes.

In `services`, two scans of overlapping roots are the least in which a scan replaces
another's candidates and a directory is met twice; two polls are the least that
overtake each other; with two tokens a poll sees a counter grow, a restart and growth
again; a flag, its value and a third token in any order reach every branch of `decode`
and every pair of occurrences of a flag. A command of three pieces is where the
codec's part ends (`MCServices!Complete`). In `browser`, a selection, an operation and
a save are the three callers of `loadModels` with different continuations; two writes
are one from elsewhere and one from here, in both orders; three callers are the least
with which two wait for the lock behind a third.

### Disagreements found

1. **Two upstream operations of one model** (`lifecycle_duplicate`).
   `_discard_lifecycle_lock` (`model_service.py:493`) drops a lock that is unlocked
   but has waiters. A newcomer then makes a second lock and both coroutines start a
   task. `README.md:336` promises coalescing. `SingleFlight` says the rest: without
   such an orphaned lock (`orphaned`), there is one task.
2. **The event loop can stop** (`lifecycle_spin`): an unload that comes while a load is in
   flight finds its task done and is never answered. The loops at
   `model_service.py:499-505`, `268-274` and `278-284` await a task that may be done while its
   callback has not removed it; that `await` does not yield.
   `tests/test_api_models.py:1095` expects the unload to be answered.
   `RequestsServed` holds without `"batch"`.
3. **rollback-latest is neither revision-checked nor backed up** (`config_rollback`,
   `config_store.py:101-109`) although `README.md:487-488` and `618` say so of every
   write.
4. **An edit in the middle of a store call is lost** (`config_race`,
   `config_store.py:115-122, 192`). The call compares the revision and backs up what it
   has read, and then replaces whatever the file is by now; an editor takes neither of
   its locks. `README.md:487-488` promises a revision check that avoids this.
   `EditsSaved` says the rest of both: every other write keeps what it replaces.
5. **A scan brings a registered model back** (`discovery_race`,
   `model_service.py:177-182`). It reads the configuration before the walk and publishes
   after it. `README.md:580` says that configured models are no candidates.
   `NotDuplicated` says the rest.
6. **A save can overwrite a version the user never saw** (`browser_stale_save`).
   `saveEditor` (`web/app.js:833`) sends the revision of `state.currentModel`, which
   any late answer replaces behind the open editor (`web/app.js:317`). The same race
   can send the form of one model to another (`web/app.js:831`). `README.md:584-585`
   and `487-488` promise a `409`. `OverwritesOnlyAfterReload` says the rest: without
   such a replacement every save is checked as promised.

Also met while modelling:

* A registration waits for presence only, so an entry of the same name that was
  removed from the file by an editor a moment ago confirms it although llama-swap has
  not reloaded (therefore `SuccessIsLive` speaks of updates).
* An entry whose command the codec does not understand, and a registration whose recovery
  fails, leave a configured model among the candidates, too; `NotDuplicated` excepts
  these. A scan that starts while a registration waits, and that registration
  then fails, leaves its candidate out until the next scan.
* The comment at `swap_client.py:91-93` says that a stopped model is never probed. It
  is when it was stopped between the answers of `/running` and of the probe;
  `WakesOnlyRaced` says that this is the only way.
* Two polls whose answers cross may count tokens twice or in a wrong interval;
  `TokensCountedOnce` speaks of answers in order.
* The compatibility arguments are editable in the page (`web/app.js:772`) and not among the
  fields that the server protects (`model_service.py:392`), although `README.md:331-333`
  and `485-486` call them read-only. An argument with white space in it is cut when
  the form is saved untouched (`web/app.js:808`), so it comes back as several, although
  `README.md:331-333` and the design of 2026-08-11 (`docs/superpowers/specs/`, line 44)
  promise unknown arguments unchanged; and a second `--port` among them
  changes the port template. `SavedAsShown` excepts arguments with white space.
* A switch given as `--flag=false` is read as set; a blank value is dropped; saving an
  untouched form writes a context length of 4096 and `--flash-attn auto` into a command
  that had neither, and gives a speculative object without a model `"model":""`
  (`web/app.js:802`, `command_codec.py:241-246`).
* Some settings cannot be written as a command: the backend is guessed from every token
  (`command_codec.py:271-289`), and what was an inline value becomes a token of its own,
  so `--mmproj=sglang.x` or `--mmproj=--dtype` makes the encoded command one of another
  backend, as does a new model path with `vllm` in it for llama.cpp. A value or an
  unknown argument `serve` makes the token after it the model, and a positional model
  that was replaced by `--model --x` is written where it is read as a flag. The code has
  a check for this, `assert_stable` (`command_codec.py:351`), whose error says "Command
  cannot be represented without loss", but only its test calls it. `Representable`
  excepts these settings.
* When a write has replaced the file and then fails to read it back, the caller is told
  of an error and recovers from a state that is not there: an update that fails so at
  its first write leaves the file without the model, one at its second write leaves the
  new entry, since the restore expects the old revision. The previous version is in a
  backup (`OriginalSaved` for the transaction, `EditsSaved` for the write), which is
  what holds with a failing disk; `ImplementsAtomic` is stated without one.
* A save that ends closes whichever editor is open by then (`web/app.js:836`).

## Fairness

`Lifecycle!Fairness`: asyncio resumes every coroutine that is ready (`Handler`,
`Coroutine`, `Callback`), and every HTTP call ends because httpx has a timeout
(`swap_client.py:195`, default request timeout), so tasks proceed (`Task`). Nothing is
assumed of llama-swap's state (`Upstream`), of arrivals or cancellations.
`ConfigTransaction!FairSpec`: requests proceed; `_confirm_hot_reload` has a deadline,
so a transaction proceeds also if llama-swap never reloads (`TimesOut`).
`GpuFairness`: whoever reaches the head of the lock's queue goes on, time passes while a
program runs, and the timer of `run_command` fires; no program needs to end by itself. A
program that was killed closes its pipes (`Reaped`), which is the system's to do: the code
sets no timeout there, and `SamplesEnd` rests on it.
`WebFairness`: each request of an operation is answered or fails, and timers fire. The
page sets no timeout of its own, so this rests on the server's answers, which
`RequestsServed` and `RequestsEnd` show; polling may not rely on the model to start.

## Proofs

`LifecycleProofs` proves, for any sets of requests, models and locks and any `Env`:

* `LifecycleTypeCorrect`: `Spec => []LifecycleTypeOK`: the types of all variables (`Typed`),
  and that no two coroutines are inside with one lock object (`Exclusion`), orphaned or not.
* `SingleFlightHolds`: `Spec => []SingleFlight`.

`SingleFlight` alone is not inductive: nothing in it prevents two coroutines from
being in the critical section of one model. The strengthening has two parts
besides `Typed`. `StructureInv`: a coroutine that awaits its own task created it,
and gathered coroutines are idle outside an unload-all. `SingleFlightInv`, for every
model whose lock was never orphaned: all who hold, queue for or handed on a lock of
the model name the one in `_lifecycle_locks` (`SameLock`), one of them at most is
inside (`OneHolder`), while one is inside there is no task (`HolderAlone`), and a
running task is the one the dictionary names (`TaskKnown`). The step lemmas follow
the actions: those that only move coroutines (`MoveKeeps` and its instances), the
ones that take, release or discard a lock, the start and the completion of a task.
The assumption used is `ConstantsAssumption`.

The second half goes on from these, under the same assumption:

* `NoDeadTaskHolds`: `Spec => []NoDeadTask`, and `UnloadAllBarrierHolds`:
  `Spec => []UnloadAllBarrier`, from `TasksInv`: an operation keeps its kind
  (`KindsKept`), the dictionary and `_unload_all_task` name only tasks whose
  callbacks are still to come (`TasksNamed`, `AllTaskNamed`), one unload-all gathers
  (`OneGathers`), whoever waits waits for such a task (`WaitersAnswered`), and a load
  that is past the gate while an unload-all gathers was so before it began
  (`LateLoadsWait`).
* `LocksReclaimedHolds`: `Spec => []LocksReclaimed`, from `LocksInv` on top of
  `SingleFlightInv`: locks of different models differ and a coroutine uses a lock of its own
  model (`LocksDistinct`, `LockOwner`, `WantUse`), and a lock that was not orphaned is
  in the dictionary only while somebody waits for it, holds it or runs the task that
  will discard it (`TaskLock`, `LockInUse`).

`ConfigProofs` proves, for any requests, models and entries, every backup limit and
number of edits and any `Env`:

* `ConfigTypeCorrect`: `Spec => []ConfigTypeOK`, with the limit on backups.
* `OriginalSavedHolds`: `Spec => []OriginalSaved`.
* `EditsSavedHolds`: `Spec => EditsSaved`, an action property.

`OriginalSaved` is not inductive: that the original is in *some* backup says nothing
of what the next write evicts. `IInv` adds that at most one transaction is in
progress (`OneTransaction`) and where the original is (`OriginalKept`): it is the
newest backup after the first write, and at worst the one before the newest after the
second, so a limit of two suffices. `BackupKeeps` states what a write does to the
newest two backups; the step lemmas follow the actions. `EditsSavedHolds` adds `EditsKept`:
between the check of a store call and its `os.replace`, the file is the newest backup, or in
a recovery what the transaction wrote, unless it was overtaken by an edit.
The assumption is this module's `ConstantsAssumption`.

Its second half goes on from these:

* `SuccessIsLiveHolds`: `Spec => SuccessIsLive`, if nobody writes in the middle of a
  transaction. `AddedIsLive`: an update puts the model back when neither the file nor
  llama-swap has it, and has its new entry in the file from then on.
* `ImplementsAtomicHolds`: `Spec => ImplementsAtomic`, the refinement of
  `AtomicConfig`, step by step, if `Undisturbed`: no crash, no failing disk, no write
  in the middle of a transaction, and at least three backups (the code's default is
  20). The runs and the section on disagreements tell what happens otherwise: a crash
  leaves half a transaction, a backup limit of two pushes out what `undo` would put
  back. `AtomInv` says what the file is at each place of a transaction (`FileKnown`), which
  backups lie on top of the one that `undo` stands for (`BackupsKnown`; none of a request
  that has not begun, `NotYet`), what a transaction works on (`AskedFor`), and that its
  answer comes last (`Pending`). Each action of the
  implementation is then one of `Commit`, `Refuse`, `Undo`, `GiveUp`, a client's or an
  editor's step, or a stutter.

The other parts, each under its own module's assumption on its constants and for its
specification without fairness:

* `WebProofs`: `WebTypeCorrect`, `OverwritesOnlyAfterReloadHolds`. `FormIsCurrent`:
  while no answer has replaced `current` behind it, it is what the editor was opened
  with, and what a save under way has sent is what its editor was opened with.
* `GpuProofs`: `GpuTypeCorrect`, `OneCollectionHolds`, `AnswersAreFreshHolds`,
  `DistinctLabelsHolds`, `MemoryAccountedHolds`. The first three follow from `GpuInv`: one caller runs a program (`OneRuns`), whoever waits is in the queue once
  (`Queued`), while a program runs the cache has expired (`Expired`), and the reading of
  nvidia-smi is as old as the program after it (`ReadingAge`), so the readings in a
  snapshot are older than itself by one program at most, with the time to end a killed one
  (`Cached`). The last two add
  `Collected`: the cached snapshot is made of one output of each program, or of nothing
  from the one that failed. What the parsers make of an output holds for outputs of any
  length: sorting gives each member a place of its own (`Ranked`, `Placed`), so there is
  one row for each key (`RowsShown`); a counter makes the row of its key grow and no other
  (`WeightsGrow`), so the rows add up to what was measured (`ShownIsMeasured`); and the
  loop of `_label_discrete_adapters` gives the devices different adapters until either
  runs out (`TakeAll`, `LabelsAre`). `GpuConstants` assumes that the script prints an
  adapter once: performance counters have one instance of a name.
* `DiscoveryProofs`: `DiscoveryTypeCorrect`, `NotDuplicatedHolds`,
  `CandidateKeptHolds`, `ScanExactHolds`. The first adds to `DiscoveryInv` what each
  variable holds (`Held`); the next two follow from `DiscoveryInv`, in which what a scan was started with and has found is related
  to what is configured by now (`Known`, `NewFound`); the last from `ExactInv`: a scan
  under which no path disappeared has found each path once, and exactly what the
  directories behind it hold but for the files it has yet to read (`Progress`). It
  holds for every tree of directories.
* `SpeedProofs`: `SpeedTypeCorrect`, `WakesOnlyRacedHolds`, `TokensCountedOnceHolds`,
  `SpeedIsSeenHolds`. `Bounded`: what bounds the numbers of the first, each reading by what
  was generated at its time; `Woken`: a poll that goes on to scrape knows of a time at which
  the model ran; `Readable`: a backend with metrics gives a reading in every scrape, one
  without in none; between two readings a counter grows by at most what was generated
  (`Ordered`), and by just that within one run of the backend (`SameRun`).
  `MetricsRead` and `SumOfTwo` state what `_decode_metrics` makes of the text,
  `RemovedOne` what an answer does to the order of the scrapes.
* `CodecProofs`: `CodecStableHolds`, `SavedAsShownHolds`, for
  commands of any length over any texts. Here the invariants follow from the type alone,
  and the work is in the operators. `ReadKeeps`: the loop of `decode` keeps its
  accumulator well formed, in particular every field *settled*, which is to say that
  reading the value again gives it (`Settled`). `DecodeGives`: hence what `decode` returns is
  `Decoded`: no flag in the launcher, no token that names a backend looked for earlier,
  all fields settled. Of such settings, `EncodeIs` says what `encode` writes, `BehindIs`
  that it names no other backend (this is where `Representable` is needed),
  `ReadWritten` and `ReadBack` that the loop reads the same fields from it, whatever was
  set before, and `EncodeDecode` that `decode` cuts it at the same place. `ShownIs` does
  for the form of the page what `DecodeGives` does for `decode`: what an untouched input
  sends is settled, too (`SentSettled`), and blank texts are not written (`BlankUnwritten`). `CodecConstants`
  assumes that `int` and `json.loads` give the same for the text of what they gave, that
  no flag has the name of a backend in it, and that a new path is not empty; the tables
  of flags are the module's own and are gone through flag by flag (`FlagIsOne`,
  `FlagShape`, `FlagsCompatible`).

`FoldLemmas` stands in for induction over sequences. The library's induction theorems
take an operator as a parameter, which the provers cannot instantiate; this module takes
the operator of the fold as a CONSTANT and is instantiated by `CodecProofs` and `GpuProofs`
for each operator that is folded. It goes by least elements of sets of numbers (`Least`,
from the library's well-founded induction; `Induction`): the recursive function that the
library's `FoldLeft` chooses exists (`IterStep`, `IterExists`), so a fold is the last of a
run of accumulators (`FoldRuns`), the only such run (`FoldIs`), keeps what each step keeps
(`RunKeeps`, `FoldKeeps`), and over two sequences is one fold after the other
(`FoldConcat`).

Every inductive invariant was checked by TLC on the instances above before it was
proved.

So every invariant, action property and refinement that a run checks is a theorem. Only
model-checked is liveness (`RequestsServed`, `RequestsEnd`, `SamplesEnd`,
`OperationEnds`): fairness speaks of `ENABLED`, which TLAPS does not reason about.

## Not modelled

* The HTTP layer (`api.py`): stateless routing and error mapping. Authentication
  headers, settings, deployment scripts, page layout: no state of their own.
* The event stream and the log panel: bytes are passed on and lines kept up to a
  limit; a reconnection closes the previous stream first (`web/app.js:605`).
* The registration form of the page, which asks for a fresh revision when it is saved;
  what the service does with it is in `Discovery` and `ConfigTransaction`. The GPU and
  speed panels, which show the last answer that arrived.
* Two saves of one page at once: the buttons are disabled while one is under way.
  (Switching the language enables them; the second save then meets the first one's
  revision and is refused.)
* A GPU request that is cancelled while a program runs leaves that program behind.
* Text formats: YAML, GGUF, quoting, the output around the rows of the GPU programs.
