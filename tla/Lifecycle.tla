------------------------------ MODULE Lifecycle ------------------------------
(***************************************************************************)
(* The load/unload coordinator of ModelService (model_service.py).         *)
(*                                                                         *)
(* Every coroutine that may run _run_lifecycle_operation is a "runner": an *)
(* HTTP request, or one of the coroutines that an unload-all task gathers, *)
(* which is named by its model.  A runner creates at most one asyncio task *)
(* at a time, so a task is named by its creator.  One step is the code     *)
(* between two awaits; what the code does without yielding to the event    *)
(* loop is one step here.                                                  *)
(***************************************************************************)
EXTENDS Naturals, FiniteSets

CONSTANTS
    Requests,   \* slots for HTTP requests in progress
    Models,     \* the configured models
    Locks,      \* bound: the asyncio.Lock objects alive at once
    None,       \* Python's None
    Kinds,      \* the endpoints called
    Env,        \* what the environment may do, see below
    MayReturn   \* TRUE: a slot whose request is finished takes another one

ASSUME ConstantsAssumption ==
    /\ Models # {} /\ Requests \cap Models = {}
    /\ None \notin Requests \cup Models \cup Locks
    /\ Kinds \subseteq {"load", "unload", "unloadAll", "update"}
    \* "probeError": a status probe may fail
    \* "cancel":     a request may be cancelled at an await
    \* "external":   llama-swap changes a model's state on its own
    \* "batch":      a coroutine may run between the last step of a task and
    \*               the task's callbacks (both in one pass of the event loop)
    /\ Env \subseteq {"probeError", "cancel", "external", "batch"}
    /\ MayReturn \in BOOLEAN

Runners == Requests \cup Models

VARIABLES
    pc,        \* where each runner waits
    kind,      \* its endpoint
    target,    \* its model (without meaning for an unload-all)
    op,        \* the operation it asks _run_lifecycle_operation for
    want,      \* the lock object it holds, queues for or gave to its task
    on,        \* the task it awaits through asyncio.shield
    outcome,   \* how it ended
    tstate,    \* the task it created
    tasks,     \* _lifecycle_tasks and _lifecycle_operations
    locks,     \* _lifecycle_locks
    allTask,   \* _unload_all_task
    up,        \* external: the state of each model in llama-swap
    orphaned,  \* history: models whose lock left the dictionary with waiters
    early      \* history: requests past the gate when allTask was created

vars == <<pc, kind, target, op, want, on, outcome, tstate, tasks, locks,
          allTask, up, orphaned, early>>

Running == {"created", "sent", "timeoutRunning", "timeoutModels",
            "emptyRunning", "emptyModels"}
Ended == {"ok", "failed"}      \* result set, callbacks not run yet
Active == {"ready"}
Starting == {"starting"}

\* A spinning coroutine never yields: nothing else runs in the event loop.
LoopRuns == \A r \in Runners : pc[r] # "spin"
MayResume == LoopRuns /\ ("batch" \in Env \/ \A t \in Runners : tstate[t] \notin Ended)
At(r, place) == MayResume /\ pc[r] = place
TaskAt(t, states) == MayResume /\ tstate[t] \in states
Completes(t) == LoopRuns /\ tstate[t] \in Ended

\* _service_gate is held by an update or a registration from its entry on.
GateHeld == \E r \in Requests :
               kind[r] = "update" /\ pc[r] \notin {"idle", "gate", "done"}
Locked(l) == \E r \in Runners : pc[r] = "probe2" /\ want[r] = l
Waiters(l) == {r \in Runners : pc[r] = "lockWait" /\ want[r] = l}
FreeLock(l) == /\ \A m \in Models : locks[m] # l
               /\ \A r \in Runners : want[r] # l

Init ==
    /\ pc = [r \in Runners |-> "idle"]
    /\ kind = [r \in Runners |-> IF r \in Models THEN "unload" ELSE "load"]
    /\ target = [r \in Runners |-> IF r \in Models THEN r ELSE CHOOSE m \in Models : TRUE]
    /\ op = [r \in Runners |-> "unload"]
    /\ want = [r \in Runners |-> None]
    /\ on = [r \in Runners |-> None]
    /\ outcome = [r \in Runners |-> "none"]
    /\ tstate = [r \in Runners |-> "none"]
    /\ tasks = [m \in Models |-> None]
    /\ locks = [m \in Models |-> None]
    /\ allTask = None
    /\ up \in [Models -> {"stopped", "ready"}]
    /\ orphaned = {}
    /\ early = {}

-----------------------------------------------------------------------------
(* How a runner moves on.  These set pc, on and outcome of r. *)

Go(r, place) ==
    /\ pc' = [pc EXCEPT ![r] = place]
    /\ UNCHANGED <<on, outcome>>

Finish(r, result) ==
    /\ pc' = [pc EXCEPT ![r] = "done"]
    /\ outcome' = [outcome EXCEPT ![r] = result]
    /\ UNCHANGED on

\* `await asyncio.shield(t)` in a `while True`: a task that has ended answers
\* without yielding, so the loop comes back to the same task for ever.
Await(r, t) ==
    \/ /\ tstate[t] \notin Ended
       /\ pc' = [pc EXCEPT ![r] = "wait"]
       /\ on' = [on EXCEPT ![r] = t]
       /\ UNCHANGED outcome
    \/ tstate[t] = "ok" /\ Go(r, "spin")
    \/ tstate[t] = "failed" /\ Finish(r, "failed")

\* The head of the loop of _run_lifecycle_operation, up to its first await.
\* _reload goes on to its load at once when its unload is coalesced.
EnterLoop(r, o) ==
    LET t == tasks[target[r]]
        reload == kind[r] = "update" /\ o = "unload"
    IN  \/ /\ t = None
           /\ op' = [op EXCEPT ![r] = o]
           /\ Go(r, "probe1")
        \/ /\ t # None /\ op[t] # o
           /\ op' = [op EXCEPT ![r] = o]
           /\ Await(r, t)
        \/ /\ t # None /\ op[t] = o /\ reload
           /\ op' = [op EXCEPT ![r] = "load"]
           /\ Await(r, t)
        \/ /\ t # None /\ op[t] = o /\ ~reload
           /\ op' = [op EXCEPT ![r] = o]
           /\ Finish(r, "starting")

\* _discard_lifecycle_lock by a caller that has just released l: the lock
\* leaves the dictionary although coroutines may be queued on it.
DiscardLock(m, l) ==
    IF locks[m] = l
    THEN /\ locks' = [locks EXCEPT ![m] = None]
         /\ orphaned' = IF Waiters(l) # {} THEN orphaned \cup {m} ELSE orphaned
    ELSE UNCHANGED <<locks, orphaned>>

-----------------------------------------------------------------------------
(* Requests at the service gate. *)

Arrive(r) ==
    /\ MayResume /\ pc[r] \in {"idle"} \cup (IF MayReturn THEN {"done"} ELSE {})
    /\ tstate[r] = "none"
    /\ \E k \in Kinds, m \in Models :
          /\ k = "unloadAll" => m = target[r]
          /\ kind' = [kind EXCEPT ![r] = k]
          /\ target' = [target EXCEPT ![r] = m]
    /\ pc' = [pc EXCEPT ![r] = "gate"]
    /\ outcome' = [outcome EXCEPT ![r] = "none"]
    /\ on' = [on EXCEPT ![r] = None]
    /\ early' = early \ {r}
    /\ UNCHANGED <<op, want, tstate, tasks, locks, allTask, up, orphaned>>

\* load and unload: the model is looked up and the unload-all barrier checked
\* under the gate, and the lifecycle loop is entered without a yield.
PassGate(r) ==
    /\ At(r, "gate") /\ kind[r] \in {"load", "unload"} /\ ~GateHeld
    /\ \/ Finish(r, "rejected") /\ UNCHANGED op
       \/ allTask # None /\ Await(r, allTask) /\ UNCHANGED op
       \/ allTask = None /\ EnterLoop(r, kind[r])
    /\ UNCHANGED <<kind, target, want, tstate, tasks, locks, allTask, up,
                   orphaned, early>>

\* update_model and register hold the gate for the whole transaction.
BeginUpdate(r) ==
    /\ At(r, "gate") /\ kind[r] = "update" /\ ~GateHeld
    /\ Go(r, "updating")
    /\ UNCHANGED <<kind, target, op, want, tstate, tasks, locks, allTask, up,
                   orphaned, early>>

EndUpdate(r) ==
    /\ At(r, "updating")
    /\ \/ \E result \in {"ok", "failed"} : Finish(r, result) /\ UNCHANGED op
       \/ EnterLoop(r, "unload")
    /\ UNCHANGED <<kind, target, want, tstate, tasks, locks, allTask, up,
                   orphaned, early>>

PastGate(r) ==
    \/ pc[r] \in {"loop", "probe1", "lockWait", "probe2"}
    \/ pc[r] = "wait" /\ kind[on[r]] # "unloadAll"
    \/ tstate[r] \in Running

UnloadAll(r) ==
    /\ At(r, "gate") /\ kind[r] = "unloadAll" /\ ~GateHeld
    /\ IF allTask = None \/ tstate[allTask] \in Ended
       THEN /\ allTask' = r
            /\ tstate' = [tstate EXCEPT ![r] = "gathering"]
            /\ early' = {s \in Requests : PastGate(s)}
            /\ on' = [on EXCEPT ![r] = r]
            /\ pc' = [s \in Runners |-> IF s \in Models THEN "loop"
                                        ELSE IF s = r THEN "wait" ELSE pc[s]]
       ELSE /\ pc' = [pc EXCEPT ![r] = "wait"]
            /\ on' = [on EXCEPT ![r] = allTask]
            /\ UNCHANGED <<allTask, tstate, early>>
    /\ UNCHANGED <<kind, target, op, want, outcome, tasks, locks, up, orphaned>>

Rejected(r) ==
    /\ At(r, "gate") /\ kind[r] \in {"unloadAll", "update"} /\ ~GateHeld
    /\ Finish(r, "rejected")
    /\ UNCHANGED <<kind, target, op, want, tstate, tasks, locks, allTask, up,
                   orphaned, early>>

-----------------------------------------------------------------------------
(* _run_lifecycle_operation. *)

Loop(r) ==
    /\ At(r, "loop")
    /\ EnterLoop(r, op[r])
    /\ UNCHANGED <<kind, target, want, tstate, tasks, locks, allTask, up,
                   orphaned, early>>

\* The answers of _model_status that end the operation there.
ProbeEnds(r, result) ==
    \/ result = "failed" /\ "probeError" \in Env
    \/ result = "starting" /\ op[r] = "load" /\ up[target[r]] \in Starting
    \/ result = "ok" /\ op[r] = "load" /\ up[target[r]] \in Active
ProbeContinues(r) == op[r] = "unload" \/ up[target[r]] \notin Starting \cup Active

ProbeUnlocked(r) ==
    /\ At(r, "probe1")
    /\ \E result \in {"failed", "starting", "ok"} :
          ProbeEnds(r, result) /\ Finish(r, result)
    /\ UNCHANGED <<kind, target, op, want, tstate, tasks, locks, allTask, up,
                   orphaned, early>>

\* Mutant: the lock is looked up, but not taken.
TakeLockUnentered(r) ==
    LET m == target[r] IN
    /\ At(r, "probe1") /\ ProbeContinues(r)
    /\ \E l \in Locks :
          /\ IF locks[m] = None THEN FreeLock(l) ELSE l = locks[m]
          /\ locks' = [locks EXCEPT ![m] = l]
          /\ IF tasks[m] = None
             THEN /\ want' = [want EXCEPT ![r] = l]
                  /\ Go(r, "probe2") /\ UNCHANGED op
             ELSE EnterLoop(r, op[r]) /\ UNCHANGED want
    /\ UNCHANGED <<kind, target, tstate, tasks, allTask, up, orphaned, early>>

\* setdefault and `async with lock`: a lock that is held or has waiters makes
\* r wait; otherwise r is inside at once and looks at the task again.
TakeLock(r) ==
    LET m == target[r] IN
    /\ At(r, "probe1") /\ ProbeContinues(r)
    /\ \E l \in Locks :
          /\ IF locks[m] = None THEN FreeLock(l) ELSE l = locks[m]
          /\ locks' = [locks EXCEPT ![m] = l]
          /\ IF Locked(l) \/ Waiters(l) # {}
             THEN /\ want' = [want EXCEPT ![r] = l]
                  /\ Go(r, "lockWait") /\ UNCHANGED op
             ELSE IF tasks[m] = None
             THEN /\ want' = [want EXCEPT ![r] = l]
                  /\ Go(r, "probe2") /\ UNCHANGED op
             ELSE EnterLoop(r, op[r]) /\ UNCHANGED want
    /\ UNCHANGED <<kind, target, tstate, tasks, allTask, up, orphaned, early>>

\* Mutant: the task is not looked at again under the lock.
AcquireUnchecked(r) ==
    /\ At(r, "lockWait") /\ ~Locked(want[r])
    /\ Go(r, "probe2")
    /\ UNCHANGED <<kind, target, op, want, tstate, tasks, locks, allTask, up,
                   orphaned, early>>

\* A woken waiter has the lock (asyncio wakes them in order, here in any).
Acquire(r) ==
    /\ At(r, "lockWait") /\ ~Locked(want[r])
    /\ IF tasks[target[r]] = None
       THEN Go(r, "probe2") /\ UNCHANGED <<want, op>>
       ELSE /\ want' = [want EXCEPT ![r] = None]
            /\ EnterLoop(r, op[r])
    /\ UNCHANGED <<kind, target, tstate, tasks, locks, allTask, up, orphaned,
                   early>>

\* Mutant: no finally, the lock stays in the dictionary.
LeaveLockInPlace(r, result) ==
    /\ Finish(r, result)
    /\ want' = [want EXCEPT ![r] = None]
    /\ UNCHANGED <<kind, target, op, tstate, tasks, locks, allTask, up, orphaned,
                   early>>

\* Leaving the critical section without a task: release, then the finally.
LeaveLock(r, result) ==
    /\ Finish(r, result)
    /\ want' = [want EXCEPT ![r] = None]
    /\ IF tasks[target[r]] = None
       THEN DiscardLock(target[r], want[r])
       ELSE UNCHANGED <<locks, orphaned>>
    /\ UNCHANGED <<kind, target, op, tstate, tasks, allTask, up, early>>

ProbeLocked(r) ==
    /\ At(r, "probe2")
    /\ \E result \in {"failed", "starting", "ok"} :
          ProbeEnds(r, result) /\ LeaveLock(r, result)

\* _start_lifecycle_task; the lock is released and r awaits its own task.
StartTask(r) ==
    /\ At(r, "probe2") /\ ProbeContinues(r)
    /\ tasks' = [tasks EXCEPT ![target[r]] = r]
    /\ tstate' = [tstate EXCEPT ![r] = "created"]
    /\ pc' = [pc EXCEPT ![r] = "wait"]
    /\ on' = [on EXCEPT ![r] = r]
    /\ UNCHANGED <<kind, target, op, want, outcome, locks, allTask, up,
                   orphaned, early>>

\* CancelledError at an await.  A task goes on without its waiters; the holder
\* of a lock, or a waiter for it, runs the finally of the critical section.
Cancelled(r) == "cancel" \in Env /\ Finish(r, "cancelled")

CancelHolder(r) ==
    /\ "cancel" \in Env /\ At(r, "probe2")
    /\ LeaveLock(r, "cancelled")

CancelWaiter(r) ==
    LET m == target[r]
        l == want[r]
        discards == tasks[m] = None /\ ~Locked(l) /\ locks[m] = l
    IN  /\ At(r, "lockWait") /\ Cancelled(r)
        /\ want' = [want EXCEPT ![r] = None]
        /\ locks' = IF discards THEN [locks EXCEPT ![m] = None] ELSE locks
        /\ orphaned' = IF discards /\ Waiters(l) # {r} THEN orphaned \cup {m}
                       ELSE orphaned
        /\ UNCHANGED <<kind, target, op, tstate, tasks, allTask, up, early>>

CancelElsewhere(r) ==
    /\ \E place \in {"gate", "updating", "loop", "probe1", "wait"} : At(r, place)
    /\ Cancelled(r)
    /\ UNCHANGED <<kind, target, op, want, tstate, tasks, locks, allTask, up,
                   orphaned, early>>

Cancel(r) == CancelHolder(r) \/ CancelWaiter(r) \/ CancelElsewhere(r)

Spin(r) == pc[r] = "spin" /\ UNCHANGED vars

-----------------------------------------------------------------------------
(* The tasks: _load_upstream, _unload_upstream and _unload_all_models. *)

TaskStep(t, s) ==
    /\ tstate' = [tstate EXCEPT ![t] = s]
    /\ UNCHANGED <<pc, kind, target, op, want, on, outcome, tasks, locks,
                   allTask, orphaned, early>>

\* The call reaches llama-swap, or fails to connect.
Send(t) ==
    /\ TaskAt(t, {"created"})
    /\ \/ TaskStep(t, "failed") /\ UNCHANGED up
       \/ /\ TaskStep(t, "sent")
          /\ up' = IF op[t] = "load" /\ up[target[t]] = "stopped"
                   THEN [up EXCEPT ![target[t]] = "starting"] ELSE up

AnswerLoad(t) ==
    /\ TaskAt(t, {"sent"}) /\ op[t] = "load" /\ UNCHANGED up
    /\ \/ up[target[t]] \in Active /\ TaskStep(t, "ok")
       \/ \E s \in {"timeoutRunning", "emptyRunning", "failed"} : TaskStep(t, s)

AnswerUnload(t) ==
    /\ TaskAt(t, {"sent"}) /\ op[t] = "unload"
    /\ \/ TaskStep(t, "ok") /\ up' = [up EXCEPT ![target[t]] = "stopped"]
       \/ TaskStep(t, "failed") /\ UNCHANGED up
       \/ TaskStep(t, "failed") /\ up' = [up EXCEPT ![target[t]] = "stopped"]

\* _confirmed_load_status asks /running, then /v1/models; without an answer
\* a timeout is raised again and an empty response is "pending".
Confirm(t) ==
    /\ TaskAt(t, Running \ {"created", "sent"})
    /\ UNCHANGED up
    /\ \/ /\ up[target[t]] \in Starting \cup Active
          /\ TaskStep(t, "ok")
       \/ /\ up[target[t]] = "stopped" \/ "probeError" \in Env
          /\ \/ tstate[t] = "timeoutRunning" /\ TaskStep(t, "timeoutModels")
             \/ tstate[t] = "emptyRunning" /\ TaskStep(t, "emptyModels")
             \/ tstate[t] = "timeoutModels" /\ TaskStep(t, "failed")
             \/ tstate[t] = "emptyModels" /\ TaskStep(t, "ok")

\* asyncio.gather in _unload_all_models: it waits for every sub-operation and
\* raises the first failure.
Gather(u) ==
    /\ TaskAt(u, {"gathering"}) /\ kind[u] = "unloadAll"
    /\ \A m \in Models : pc[m] = "done"
    /\ tstate' = [tstate EXCEPT ![u] = IF \E m \in Models : outcome[m] = "failed"
                                       THEN "failed" ELSE "ok"]
    /\ pc' = [r \in Runners |-> IF r \in Models THEN "idle" ELSE pc[r]]
    /\ outcome' = [r \in Runners |-> IF r \in Models THEN "none" ELSE outcome[r]]
    /\ UNCHANGED <<kind, target, op, want, on, tasks, locks, allTask, up,
                   orphaned, early>>

\* The callbacks of task t wake whoever awaits it.  An error reaches all of
\* them; with a result the owner returns it (or _reload goes on to its load)
\* and the others go round their loop again.
Returns(r, t) == r = t \/ kind[r] = "unloadAll"
Wake(t) ==
    LET woken == {r \in Runners : pc[r] = "wait" /\ on[r] = t}
        failed == tstate[t] = "failed"
        reloads(r) == r = t /\ kind[r] = "update" /\ op[r] = "unload"
        place(r) == IF failed \/ (Returns(r, t) /\ ~reloads(r)) THEN "done"
                    ELSE IF kind[t] = "unloadAll" THEN "gate" ELSE "loop"
    IN  /\ pc' = [r \in Runners |-> IF r \in woken THEN place(r) ELSE pc[r]]
        /\ outcome' = [r \in Runners |->
                IF r \in woken /\ place(r) = "done"
                THEN IF failed THEN "failed" ELSE "ok" ELSE outcome[r]]
        /\ op' = [r \in Runners |->
                IF r \in woken /\ ~failed /\ reloads(r) THEN "load" ELSE op[r]]
        /\ on' = [r \in Runners |-> IF r \in woken THEN None ELSE on[r]]
        /\ UNCHANGED <<kind, target>>

\* Mutant: a failed task stays in the dictionary.
PopTaskIfOk(t) ==
    tasks' = IF tasks[target[t]] = t /\ tstate[t] = "ok"
             THEN [tasks EXCEPT ![target[t]] = None] ELSE tasks
PopTask(t) ==
    tasks' = IF tasks[target[t]] = t
             THEN [tasks EXCEPT ![target[t]] = None] ELSE tasks

CompleteTask(t) ==
    LET m == target[t] IN
    /\ Completes(t) /\ kind[t] # "unloadAll"
    /\ PopTask(t)
    /\ IF Locked(want[t]) THEN UNCHANGED <<locks, orphaned>>
       ELSE DiscardLock(m, want[t])
    /\ want' = [want EXCEPT ![t] = None]
    /\ tstate' = [tstate EXCEPT ![t] = "none"]
    /\ Wake(t)
    /\ UNCHANGED <<allTask, up, early>>

\* Mutants: the callback of an older task clears the newer one; the barrier
\* is never lifted.
LiftBarrierAlways(u) == allTask' = None
LiftBarrierNever(u) == UNCHANGED allTask
LiftBarrier(u) == allTask' = IF allTask = u THEN None ELSE allTask

CompleteUnloadAll(u) ==
    /\ Completes(u) /\ kind[u] = "unloadAll"
    /\ LiftBarrier(u)
    /\ tstate' = [tstate EXCEPT ![u] = "none"]
    /\ Wake(u)
    /\ UNCHANGED <<want, tasks, locks, up, orphaned, early>>

-----------------------------------------------------------------------------
(* llama-swap: a start completes; a TTL, a crash or another client changes    *)
(* the state of a model.                                                      *)

Upstream(m) ==
    /\ \E s \in {"stopped", "starting", "ready"} :
          /\ s # up[m]
          /\ "external" \in Env \/ (up[m] = "starting" /\ s = "ready")
          /\ up' = [up EXCEPT ![m] = s]
    /\ UNCHANGED <<pc, kind, target, op, want, on, outcome, tstate, tasks, locks,
                   allTask, orphaned, early>>

-----------------------------------------------------------------------------
Handler(r) ==
    \/ PassGate(r) \/ BeginUpdate(r) \/ EndUpdate(r) \/ UnloadAll(r) \/ Rejected(r)
Coroutine(r) ==
    \/ Loop(r) \/ ProbeUnlocked(r) \/ TakeLock(r) \/ Acquire(r)
    \/ ProbeLocked(r) \/ StartTask(r)
Task(t) == Send(t) \/ AnswerLoad(t) \/ AnswerUnload(t) \/ Confirm(t) \/ Gather(t)
Callback(t) == CompleteTask(t) \/ CompleteUnloadAll(t)

\* Every request was answered and none comes any more.
Quiet ==
    /\ \A r \in Requests : pc[r] = "done" /\ tstate[r] = "none"
    /\ \A m \in Models : pc[m] = "idle"
    /\ UNCHANGED vars

Next ==
    \/ \E r \in Runners : Coroutine(r) \/ Task(r) \/ Callback(r) \/ Spin(r)
    \/ \E r \in Requests : Arrive(r) \/ Handler(r) \/ Cancel(r)
    \/ \E m \in Models : Upstream(m)
    \/ Quiet

Spec == Init /\ [][Next]_vars

\* asyncio resumes every coroutine that is ready, and every HTTP call ends:
\* with an answer, an error or a timeout.
Fairness ==
    /\ \A r \in Requests : WF_vars(Handler(r))
    /\ \A r \in Runners : WF_vars(Coroutine(r)) /\ WF_vars(Task(r)) /\ WF_vars(Callback(r))
FairSpec == Spec /\ Fairness

-----------------------------------------------------------------------------
Typed ==
    /\ pc \in [Runners -> {"idle", "gate", "updating", "loop", "probe1",
                           "lockWait", "probe2", "wait", "spin", "done"}]
    /\ kind \in [Runners -> {"load", "unload", "unloadAll", "update"}]
    /\ target \in [Runners -> Models]
    /\ op \in [Runners -> {"load", "unload"}]
    /\ want \in [Runners -> Locks \cup {None}]
    /\ on \in [Runners -> Runners \cup {None}]
    /\ outcome \in [Runners -> {"none", "ok", "starting", "failed", "rejected",
                                "cancelled"}]
    /\ tstate \in [Runners -> Running \cup Ended \cup {"none", "gathering"}]
    /\ tasks \in [Models -> Runners \cup {None}]
    /\ locks \in [Models -> Locks \cup {None}]
    /\ allTask \in Requests \cup {None}
    /\ up \in [Models -> {"stopped", "starting", "ready"}]
    /\ orphaned \subseteq Models
    /\ early \subseteq Requests

LockUsers == {r \in Runners : pc[r] \in {"lockWait", "probe2"}}
Exclusion ==
    /\ \A r \in LockUsers : want[r] \in Locks
    /\ \A r, s \in LockUsers :
          pc[r] = "probe2" /\ pc[s] = "probe2" /\ want[r] = want[s] => r = s

\* Every variable keeps its type; whoever is in the critical section of
\* _run_lifecycle_operation, or queues for it, has a lock object, and no two
\* are inside with the same one (model_service.py:513-531).
LifecycleTypeOK == Typed /\ Exclusion

InFlight(t, m) == tstate[t] \in Running /\ target[t] = m

\* As long as no lock of a model was discarded under its waiters, a lifecycle
\* task of the model that runs is the one _lifecycle_tasks names: so there is
\* at most one, and every later request sees it.
SingleFlight ==
    \A m \in Models \ orphaned : \A t \in Runners : InFlight(t, m) => tasks[m] = t

\* No dictionary entry, barrier or awaiting coroutine names a task that is
\* over: nobody coalesces with, or waits for, something that never answers.
NoDeadTask ==
    /\ \A m \in Models : tasks[m] # None => tstate[tasks[m]] # "none"
    /\ allTask # None => tstate[allTask] # "none"
    /\ \A r \in Runners : pc[r] = "wait" => tstate[on[r]] # "none"

\* When no coroutine works on a model, its lock and task are gone from the
\* dictionaries (unless its lock was orphaned before).
LocksReclaimed ==
    \A m \in Models \ orphaned :
        (\A r \in Runners : target[r] = m =>
             tstate[r] = "none" /\ pc[r] \in {"idle", "gate", "done"})
        => locks[m] = None /\ tasks[m] = None

\* While unload-all gathers, a load request that runs upstream had passed the
\* gate before unload-all began.
UnloadAllBarrier ==
    \A u, t \in Requests :
        /\ tstate[u] = "gathering"
        /\ tstate[t] \in Running /\ kind[t] = "load"
        => t \in early

\* README.md:336: "Concurrent requests for the same model are coalesced to
\* prevent duplicate upstream operations".
NoDuplicateUpstream ==
    \A m \in Models : \A s, t \in Runners :
        InFlight(s, m) /\ InFlight(t, m) => s = t

\* Every request is answered: no order of updates, unload-alls, loads and unloads
\* leaves one waiting for another for ever.
RequestsServed == \A r \in Requests : pc[r] = "gate" ~> pc[r] = "done"

\* tests/test_api_models.py:1095 "test_unload_waits_for_an_inflight_load_of_
\* the_same_model": an unload that comes while a load of its model is in flight
\* waits for the load, then is carried out and answered.
UnloadWaitsForLoad ==
    \A r, s \in Requests :
        /\ pc[r] = "gate" /\ kind[r] = "unload"
        /\ kind[s] = "load" /\ InFlight(s, target[r])
        ~> pc[r] = "done"
=============================================================================
