-------------------------- MODULE ConfigTransaction --------------------------
(***************************************************************************)
(* The configuration file, its backups and the update, registration and    *)
(* rollback requests of ModelService over ConfigStore, with llama-swap     *)
(* reloading the file on its own.                                          *)
(*                                                                         *)
(* A store call holds up the event loop, and with it the other requests,   *)
(* but not an editor: it is a step up to the backup, then the replacement, *)
(* then the read that tells the new revision.  A transaction yields while  *)
(* it waits for llama-swap.  A revision is the hash of the file, so here   *)
(* the content stands for its revision.  The handler's own read of the     *)
(* file and the one that is checked are one step: an edit between them     *)
(* makes a conflict.  Backups are ordered by their names, the times they   *)
(* were made; the clock is never set back.                                 *)
(***************************************************************************)
EXTENDS ConfigDocument

CONSTANTS
    Requests,    \* HTTP requests, each made once
    Models,      \* model ids
    Entries,     \* values of a model's entry
    InitialFile, \* the file at the start
    Limit,       \* ConfigStore.backup_limit
    MaxEdits,    \* bound: edits by somebody else
    Env,         \* what the environment may do, see below
    Kinds,       \* the endpoints called
    None

Docs == Seq([id : Models, entry : Entries])

ASSUME ConstantsAssumption ==
    /\ InitialFile \in Docs
    /\ Limit \in Nat \ {0}       \* config_store.py:38
    /\ MaxEdits \in Nat
    /\ Kinds \subseteq {"update", "register", "rollback"}
    \* "timeout": llama-swap does not take a change over in time
    \* "cancel":  a request may be cancelled at an await
    \* "crash":   the console is killed and restarted, perhaps in a write
    \* "disk":    a call of the file system may fail
    \* "midway":  rollbacks and edits happen during a transaction, too, and
    \*            edits in the middle of a store call
    /\ Env \subseteq {"timeout", "cancel", "crash", "disk", "midway"}

VARIABLES
    file,       \* config.yaml: its models in order
    backups,    \* the backup directory in name order, with who wrote each
    seen,       \* external: the configuration llama-swap runs with
    pc,         \* where each request is
    req,        \* what each request asks for
    orig,       \* ConfigSnapshot.raw read by each transaction
    written,    \* revision read after its last write, None before
    cancelled,  \* the requests with a pending CancelledError
    outcome,    \* how each request ended
    edits,      \* edits made so far
    overtaken   \* history: the transactions with an edit in a store call

vars == <<file, backups, seen, pc, req, orig, written, cancelled, outcome, edits,
          overtaken>>

\* In a store call: before the file is replaced, and before it is read back.
Writing == {"removing", "adding", "restoring"}
Calls == Writing \cup {"removeWritten", "addWritten"}
Phases == Calls \cup {"removed", "added", "undo", "restored"}
InProgress(r) == pc[r] \in Phases
\* _service_gate and _config_lock
GateFree == \A r \in Requests : ~InProgress(r)
\* The event loop runs no store call.
LoopFree == \A r \in Requests : pc[r] \notin Calls

Raws == {backups[i].raw : i \in DOMAIN backups}

Init ==
    /\ file = InitialFile
    /\ backups = <<>>
    /\ seen = InitialFile
    /\ pc = [r \in Requests |-> "idle"]
    /\ req = [r \in Requests |-> None]
    /\ orig = [r \in Requests |-> None]
    /\ written = [r \in Requests |-> None]
    /\ cancelled = {}
    /\ outcome = [r \in Requests |-> None]
    /\ edits = 0
    /\ overtaken = {}

-----------------------------------------------------------------------------
(* ConfigStore. *)

Newest(n, bs) == IF Len(bs) > n THEN SubSeq(bs, Len(bs) - n + 1, Len(bs)) ELSE bs
Saved(content, by) == Append(backups, [raw |-> content, by |-> by])

\* Mutants: one backup too few is kept; none is ever unlinked.
BackupOneLess(content, by) == backups' = Newest(Limit - 1, Saved(content, by))
BackupUnpruned(content, by) == backups' = Saved(content, by)

\* _backup: the oldest files beyond the limit are unlinked.
Backup(content, by) == backups' = Newest(Limit, Saved(content, by))

\* discard_backup: the file that a write made, if it is still there, is unlinked.
Discarded(bs, by) ==
    IF \E i \in DOMAIN bs : bs[i].by = by
    THEN RemoveAt(bs, CHOOSE i \in DOMAIN bs : bs[i].by = by)
    ELSE bs

-----------------------------------------------------------------------------
(* Requests. *)

\* What the request knew of its writes is gone.
End(r, result) ==
    /\ pc' = [pc EXCEPT ![r] = "done"]
    /\ outcome' = [outcome EXCEPT ![r] = result]
    /\ written' = [written EXCEPT ![r] = None]
    /\ overtaken' = overtaken \ {r}

Step(r, place) ==
    /\ pc' = [pc EXCEPT ![r] = place]
    /\ UNCHANGED <<outcome, written, overtaken>>

\* The client has read the models, and with them the revision, and submits.
Arrive(r) ==
    /\ pc[r] = "idle" /\ LoopFree
    /\ \E kind \in Kinds, m \in Models, v \in Entries :
          \* A rollback has no parameters.
          /\ kind = "rollback" =>
                m = (CHOOSE n \in Models : TRUE) /\ v = (CHOOSE e \in Entries : TRUE)
          /\ req' = [req EXCEPT ![r] = [kind |-> kind, id |-> m, entry |-> v,
                                        revision |-> file]]
    /\ Step(r, "gate")
    /\ UNCHANGED <<file, backups, seen, orig, cancelled, edits>>

\* No backup, or the newest does not parse: its writer was killed.
NoRollback == backups # <<>> => backups[Len(backups)].raw = None

\* Validation: an unknown model, candidate, path, template or entry.
Reject(r) ==
    /\ pc[r] = "gate"
    /\ req[r].kind = "rollback" => NoRollback /\ LoopFree
    /\ req[r].kind # "rollback" => GateFree
    /\ End(r, "rejected")
    /\ UNCHANGED <<file, backups, seen, req, orig, cancelled, edits>>

\* RevisionConflict: the file is not the one the client saw.
Conflict(r) ==
    /\ pc[r] = "gate" /\ req[r].kind # "rollback" /\ GateFree
    /\ req[r].revision # file
    /\ End(r, "conflict")
    /\ UNCHANGED <<file, backups, seen, req, orig, cancelled, edits>>

\* Mutant: the revision is not compared.
MayBeginUnchecked(r, kind) ==
    pc[r] = "gate" /\ req[r].kind = kind /\ GateFree
MayBegin(r, kind) ==
    /\ pc[r] = "gate" /\ req[r].kind = kind /\ GateFree
    /\ req[r].revision = file

\* An update first takes the model out of the file: remove_model, up to its
\* backup ...
BeginUpdate(r) ==
    /\ MayBegin(r, "update") /\ req[r].id \in Ids(file)
    /\ orig' = [orig EXCEPT ![r] = file]
    /\ Backup(file, <<r, "remove">>)
    /\ Step(r, "removing")
    /\ UNCHANGED <<file, seen, req, cancelled, edits>>

BeginRegister(r) ==
    /\ MayBegin(r, "register") /\ req[r].id \notin Ids(file)
    /\ orig' = [orig EXCEPT ![r] = file]
    /\ Backup(file, <<r, "register">>)
    /\ Step(r, "adding")
    /\ UNCHANGED <<file, seen, req, cancelled, edits>>

\* What a store call has read and compared, and what it puts in its place.
Checked(r) == IF written[r] = None THEN orig[r] ELSE written[r]
Candidate(r) ==
    CASE pc[r] = "removing" -> Without(Checked(r), req[r].id)
      [] pc[r] = "adding" -> With(Checked(r), req[r].id, req[r].entry)
      [] pc[r] = "restoring" -> orig[r]

\* _replace_with: os.replace, whatever the file is by now.
Replace(r) ==
    /\ pc[r] \in Writing
    /\ file' = Candidate(r)
    /\ Step(r, CASE pc[r] = "removing" -> "removeWritten"
                 [] pc[r] = "adding" -> "addWritten"
                 [] pc[r] = "restoring" -> "restored")
    /\ UNCHANGED <<backups, seen, req, orig, cancelled, edits>>

\* _mutate reads the file again: the revision that the next call expects.
ReadBack(r) ==
    /\ pc[r] \in {"removeWritten", "addWritten"}
    /\ pc' = [pc EXCEPT ![r] = IF @ = "removeWritten" THEN "removed" ELSE "added"]
    /\ written' = [written EXCEPT ![r] = file]
    /\ UNCHANGED <<file, backups, seen, req, orig, cancelled, outcome, edits, overtaken>>

\* _confirm_hot_reload asks llama-swap for the model.
\* Mutant: the model is put back without waiting for llama-swap to drop it.
AbsentUnconfirmed(r) == TRUE
Absent(r) == req[r].id \notin Ids(seen)
Present(r) == req[r].id \in Ids(seen)

\* register_model finds the file as remove_model left it.
Unchanged(r) == file = written[r] /\ req[r].id \notin Ids(file)

\* ... and once llama-swap no longer lists it, puts the new entry back.
PutBack(r) ==
    /\ pc[r] = "removed" /\ r \notin cancelled /\ Absent(r)
    /\ Unchanged(r)
    /\ Backup(file, <<r, "register">>)
    /\ Step(r, "adding")
    /\ UNCHANGED <<file, seen, req, orig, cancelled, edits>>

\* llama-swap lists the model: the transaction is over.  An update drops the
\* backup of the file without the model.
Succeed(r) ==
    /\ pc[r] = "added" /\ r \notin cancelled /\ Present(r)
    /\ backups' = IF req[r].kind = "update" THEN Discarded(backups, <<r, "register">>)
                  ELSE backups
    /\ End(r, "ok")
    /\ UNCHANGED <<file, seen, req, orig, cancelled, edits>>

\* Mutant: the confirmation has no deadline.
NeverTimesOut == FALSE
\* The deadline of _confirm_hot_reload.  It also passes when llama-swap has
\* the change but does not answer.
TimesOut == "timeout" \in Env

\* Cancellation, a timeout, or a file changed meanwhile lead to the recovery.
Fail(r) ==
    /\ \/ pc[r] \in {"removed", "added"} /\ (r \in cancelled \/ TimesOut)
       \/ pc[r] = "removed" /\ Absent(r) /\ ~Unchanged(r)
    /\ Step(r, "undo")
    /\ UNCHANGED <<file, backups, seen, req, orig, cancelled, edits>>

\* Mutant: the file is restored whatever it is now.
MayRestoreUnchecked(r) == TRUE
MayRestore(r) == file = written[r]

\* ConfigStore.restore up to its check; it makes no backup.
Restore(r) ==
    /\ pc[r] = "undo"
    /\ IF MayRestore(r) THEN Step(r, "restoring") ELSE End(r, "unrecovered")
    /\ UNCHANGED <<file, backups, seen, req, orig, cancelled, edits>>

\* Mutant: the backups of a failed transaction stay.
DiscardNone(r) == UNCHANGED backups
DiscardOwn(r) ==
    backups' = Discarded(Discarded(backups, <<r, "register">>), <<r, "remove">>)

Restored(r) ==
    /\ pc[r] = "restored"
    /\ IF req[r].kind = "update" THEN Present(r) ELSE Absent(r)
    /\ DiscardOwn(r)
    /\ End(r, IF r \in cancelled THEN "cancelled" ELSE "failed")
    /\ UNCHANGED <<file, seen, req, orig, cancelled, edits>>

RestoreUnconfirmed(r) ==
    /\ pc[r] = "restored" /\ TimesOut
    /\ End(r, "unrecovered")
    /\ UNCHANGED <<file, backups, seen, req, orig, cancelled, edits>>

\* rollback_latest takes neither the gate nor the configuration lock, and
\* writes without a backup and without a revision.
Rollback(r) ==
    /\ pc[r] = "gate" /\ req[r].kind = "rollback" /\ ~NoRollback /\ LoopFree
    /\ "midway" \in Env \/ GateFree
    /\ file' = backups[Len(backups)].raw
    /\ End(r, "ok")
    /\ UNCHANGED <<backups, seen, req, orig, cancelled, edits>>

\* CancelledError while the request waits; a transaction still recovers, and
\* a recovery is finished whatever is cancelled meanwhile.
Cancel(r) ==
    /\ "cancel" \in Env /\ r \notin cancelled /\ LoopFree
    /\ \/ pc[r] = "gate" /\ End(r, "cancelled") /\ UNCHANGED cancelled
       \/ /\ InProgress(r)
          /\ cancelled' = cancelled \cup {r}
          /\ UNCHANGED <<pc, outcome, written, overtaken>>
    /\ UNCHANGED <<file, backups, seen, req, orig, edits>>

-----------------------------------------------------------------------------
(* OSError in a store call: the exception ends the call where it is. *)

\* A backup cut short is not YAML (None), or holds the first models, or all.
CutShort == {None, file} \cup {SubSeq(file, 1, n) : n \in 1 .. Len(file)}

\* The recovery knows of what was read back; without that there is none.
Recover(r) == IF written[r] = None THEN End(r, "unrecovered") ELSE Step(r, "undo")

\* _mutate fails at its backup, before it has pruned.
BackupFails(r) ==
    /\ \/ MayBegin(r, "update") /\ req[r].id \in Ids(file)
       \/ MayBegin(r, "register") /\ req[r].id \notin Ids(file)
       \/ pc[r] = "removed" /\ r \notin cancelled /\ Absent(r) /\ Unchanged(r)
    /\ \/ UNCHANGED backups
       \/ \E raw \in CutShort : backups' = Saved(raw, None)
    /\ Recover(r)
    /\ UNCHANGED file

\* It fails to replace the file, or to read what it has put there: nobody
\* learns which backup it has made.
MutateFails(r) ==
    /\ pc[r] \in Calls \ {"restoring"}
    /\ backups' = [backups EXCEPT ![Len(backups)].by = None]
    /\ Recover(r)
    /\ UNCHANGED file

\* So does restore, before or after it has replaced the file.
RestoreFails(r) ==
    /\ \/ pc[r] \in {"undo", "restoring"} /\ UNCHANGED file
       \/ pc[r] = "restoring" /\ file' = orig[r]
    /\ End(r, "unrecovered")
    /\ UNCHANGED backups

\* discard_backup, after the success of an update or after a recovery.
DiscardFails(r) ==
    /\ \/ /\ pc[r] = "added" /\ r \notin cancelled /\ Present(r)
          /\ req[r].kind = "update" /\ UNCHANGED backups
       \/ /\ pc[r] = "restored"
          /\ \/ req[r].kind = "update" /\ Present(r)
                /\ backups' \in {backups, Discarded(backups, <<r, "register">>)}
             \/ req[r].kind = "register" /\ Absent(r) /\ UNCHANGED backups
    /\ End(r, "unrecovered")
    /\ UNCHANGED file

RollbackFails(r) ==
    /\ pc[r] = "gate" /\ req[r].kind = "rollback" /\ ~NoRollback /\ LoopFree
    /\ "midway" \in Env \/ GateFree
    /\ file' \in {file, backups[Len(backups)].raw}
    /\ End(r, "unrecovered")
    /\ UNCHANGED backups

DiskFails(r) ==
    /\ "disk" \in Env
    /\ \/ BackupFails(r) \/ MutateFails(r) \/ RestoreFails(r)
       \/ DiscardFails(r) \/ RollbackFails(r)
    /\ UNCHANGED <<seen, req, orig, cancelled, edits>>

-----------------------------------------------------------------------------
(* The surroundings. *)

\* llama-swap notices the file and reloads it.
SwapReload ==
    /\ seen # file
    /\ seen' = file
    /\ UNCHANGED <<file, backups, pc, req, orig, written, cancelled, outcome, edits,
                   overtaken>>

\* Somebody changes or removes a model in the file with an editor, which knows
\* nothing of the locks: a store call may be under way.
Edit ==
    /\ edits < MaxEdits
    /\ "midway" \in Env \/ GateFree
    /\ edits' = edits + 1
    /\ \E m \in Models : \E v \in Entries :
          file' \in {Without(file, m), With(Without(file, m), m, v)} \ {file}
    /\ overtaken' = overtaken \cup {r \in Requests : pc[r] \in Calls}
    /\ UNCHANGED <<backups, seen, pc, req, orig, written, cancelled, outcome>>

\* A request about to write, which makes a backup first.
CanWrite(r) ==
    \/ \E kind \in {"update", "register"} : MayBegin(r, kind)
    \/ pc[r] = "removed" /\ r \notin cancelled /\ Absent(r) /\ Unchanged(r)

\* The console is killed: requests are gone, the files stay.  A write may
\* have made its backup, or a part of it, and nothing more.
Crash ==
    /\ "crash" \in Env
    /\ pc' = [r \in Requests |-> IF pc[r] = "idle" THEN "idle" ELSE "done"]
    /\ outcome' = [r \in Requests |->
          IF pc[r] \in {"idle", "done"} THEN outcome[r] ELSE "crashed"]
    /\ written' = [r \in Requests |-> None]
    /\ overtaken' = {}
    /\ \/ ~GateFree /\ UNCHANGED backups
       \/ /\ \E r \in Requests : CanWrite(r)
          /\ \E raw \in CutShort : backups' = Saved(raw, None)
    /\ UNCHANGED <<file, seen, req, orig, cancelled, edits>>

Quiet == (\A r \in Requests : pc[r] = "done") /\ UNCHANGED vars

Request(r) ==
    \/ Reject(r) \/ Conflict(r) \/ BeginUpdate(r) \/ BeginRegister(r)
    \/ Replace(r) \/ ReadBack(r) \/ PutBack(r) \/ Succeed(r) \/ Fail(r)
    \/ Restore(r) \/ Restored(r) \/ RestoreUnconfirmed(r) \/ Rollback(r)

Next ==
    \/ \E r \in Requests : Arrive(r) \/ Request(r) \/ DiskFails(r) \/ Cancel(r)
    \/ SwapReload \/ Edit \/ Crash \/ Quiet

Spec == Init /\ [][Next]_vars

\* Requests proceed, and _confirm_hot_reload ends: by an answer or at its
\* deadline.  llama-swap is under no obligation to reload.
FairSpec == Spec /\ \A r \in Requests : WF_vars(Request(r))

-----------------------------------------------------------------------------
Bodies == [kind : Kinds, id : Models, entry : Entries, revision : Docs]
BackupFiles == [raw : Docs \cup {None},
                by : (Requests \X {"remove", "register"}) \cup {None}]

Results == {"ok", "failed", "cancelled", "rejected", "conflict", "unrecovered",
            "crashed"}

\* None is no document, no request and no result.
ASSUME NoneAssumption == None \notin Docs \cup Bodies \cup Results

\* No write is broken off.
WritesEnd == {"crash", "disk"} \cap Env = {}

\* Every variable keeps its type, and no more backups than the limit are kept
\* (a crash or a failure in a write may leave one more).
ConfigTypeOK ==
    /\ file \in Docs /\ seen \in Docs
    /\ backups \in Seq(BackupFiles)
    /\ WritesEnd => Len(backups) <= Limit
    /\ pc \in [Requests -> Phases \cup {"idle", "gate", "done"}]
    /\ req \in [Requests -> Bodies \cup {None}]
    /\ orig \in [Requests -> Docs \cup {None}]
    /\ written \in [Requests -> Docs \cup {None}]
    /\ \A r \in Requests : pc[r] # "idle" => req[r] \in Bodies
    /\ \A r \in Requests : InProgress(r) => orig[r] \in Docs
    /\ \A r \in Requests : written[r] # None => InProgress(r)
    /\ cancelled \subseteq Requests
    /\ outcome \in [Requests -> Results \cup {None}]
    /\ edits \in 0 .. MaxEdits
    /\ overtaken \subseteq Requests

\* Whenever the console may be killed in the middle of a transaction, the
\* configuration from before it is in a backup (model_service.py:579, 582-613),
\* provided two are kept, and whatever call of the file system fails.
OriginalSaved ==
    Limit >= 2 => \A r \in Requests : InProgress(r) => orig[r] \in Raws

\* The console replaces what a transaction wrote itself, or what is in a backup;
\* rollback-latest replaces anything.
OwnOrSaved ==
    \/ file \in Raws'
    \/ \E r \in Requests : InProgress(r) /\ file = written[r]
    \/ \E r \in Requests : pc[r] = "gate" /\ req[r].kind = "rollback" /\ pc'[r] = "done"

\* What somebody else wrote into the file between the store calls is never lost:
\* when the console replaces content that it did not write itself, that content
\* is in a backup (config_store.py:84-88, 115-122).
EditsSaved ==
    [][edits' = edits /\ file' # file =>
          OwnOrSaved \/ \E r \in overtaken : InProgress(r)]_vars

\* README.md:487: "Each write is revision-checked to avoid overwriting external
\* changes and creates a backup first."
EditsNeverLost == [][edits' = edits /\ file' # file => OwnOrSaved]_vars

\* An update is answered with success only when llama-swap runs with the new
\* entry, not with the one it had before (model_service.py:579-582).  (It does
\* not hold of a registration: llama-swap may still list an entry of that name
\* that an editor removed from the file a moment ago.)
SuccessIsLive ==
    [][\A r \in Requests :
          outcome'[r] = "ok" /\ outcome[r] # "ok" /\ req[r].kind = "update"
          => HasEntry(seen, req[r].id, req[r].entry)]_vars

\* README.md:487: "Each write is revision-checked to avoid overwriting external
\* changes and creates a backup first."
EachWriteSaved ==
    [][\A r \in Requests :
          outcome'[r] = "ok" /\ outcome[r] # "ok" /\ file' # file
          => file \in Raws']_vars

\* Every request is answered: no transaction waits for llama-swap for ever and
\* keeps the others at the gate.
RequestsEnd == \A r \in Requests : pc[r] = "gate" ~> pc[r] = "done"

\* The newest backup that was not made by the transaction in progress.
Own(r) == {<<r, "remove">>, <<r, "register">>}
Foreign == {i \in DOMAIN backups :
               \A r \in Requests : InProgress(r) => backups[i].by \notin Own(r)}
\* What AtomicConfig sees of it.
InForce == IF GateFree THEN file ELSE orig[CHOOSE r \in Requests : InProgress(r)]
UndoTo == IF Foreign = {} THEN None
          ELSE backups[CHOOSE i \in Foreign : \A j \in Foreign : j <= i].raw
Answer == [r \in Requests |->
    CASE outcome[r] = None -> "open"
      [] outcome[r] = "ok" -> "done"
      [] outcome[r] = "unrecovered" -> "unsettled"
      [] OTHER -> "refused"]

Atomic == INSTANCE AtomicConfig WITH
    config <- InForce, undo <- UndoTo, ask <- req, result <- Answer

\* As long as nobody touches the file during a transaction, the two writes of
\* an update, its recovery and its backups look like one change or none.
ImplementsAtomic == Atomic!Spec
=============================================================================
