--------------------------- MODULE LifecycleProofs ---------------------------
(***************************************************************************)
(* Proofs about Lifecycle, for any number of requests, models and lock     *)
(* objects and every environment: first what each coroutine does to its    *)
(* own state, then the dictionaries, the unload-all barrier and the awaits *)
(* of the coordinator, which only name tasks that are alive.               *)
(***************************************************************************)
EXTENDS Lifecycle, TLAPS

-----------------------------------------------------------------------------
(* Type correctness. *)

\* A coroutine that moves on keeps pc, on and outcome well typed.
LEMMA MovesTyped ==
    ASSUME Typed, NEW r \in Runners,
           \/ \E place \in {"updating", "loop", "probe1", "lockWait", "probe2",
                            "spin"} : Go(r, place)
           \/ \E result \in {"ok", "starting", "failed", "rejected",
                             "cancelled"} : Finish(r, result)
           \/ \E t \in Runners : Await(r, t)
    PROVE  /\ pc' \in [Runners -> {"idle", "gate", "updating", "loop", "probe1",
                           "lockWait", "probe2", "wait", "spin", "done"}]
           /\ on' \in [Runners -> Runners \cup {None}]
           /\ outcome' \in [Runners -> {"none", "ok", "starting", "failed",
                                "rejected", "cancelled"}]
  BY DEF Typed, Go, Finish, Await

\* Entering the loop of _run_lifecycle_operation keeps op well typed as well.
LEMMA EnterLoopTyped ==
    ASSUME Typed, ConstantsAssumption, NEW r \in Runners,
           NEW o \in {"load", "unload"}, EnterLoop(r, o)
    PROVE  /\ pc' \in [Runners -> {"idle", "gate", "updating", "loop", "probe1",
                           "lockWait", "probe2", "wait", "spin", "done"}]
           /\ on' \in [Runners -> Runners \cup {None}]
           /\ outcome' \in [Runners -> {"none", "ok", "starting", "failed",
                                "rejected", "cancelled"}]
           /\ op' \in [Runners -> {"load", "unload"}]
  <1>1. op' \in [Runners -> {"load", "unload"}]
    BY DEF EnterLoop, Typed
  <1>2. tasks[target[r]] # None => tasks[target[r]] \in Runners
    BY DEF Typed
  <1>3. \/ Go(r, "probe1") \/ Finish(r, "starting")
        \/ \E t \in Runners : Await(r, t)
    BY <1>2 DEF EnterLoop
  <1> QED BY <1>1, <1>3, MovesTyped

\* What the callbacks of a task do to its waiters is well typed.
LEMMA WakeTyped ==
    ASSUME Typed, NEW t \in Runners, Wake(t)
    PROVE  /\ pc' \in [Runners -> {"idle", "gate", "updating", "loop", "probe1",
                           "lockWait", "probe2", "wait", "spin", "done"}]
           /\ on' \in [Runners -> Runners \cup {None}]
           /\ outcome' \in [Runners -> {"none", "ok", "starting", "failed",
                                "rejected", "cancelled"}]
           /\ op' \in [Runners -> {"load", "unload"}]
  <1>1. pc' \in [Runners -> {"idle", "gate", "updating", "loop", "probe1",
                           "lockWait", "probe2", "wait", "spin", "done"}]
    BY DEF Typed, Wake
  <1>2. on' \in [Runners -> Runners \cup {None}]
    BY DEF Typed, Wake
  <1>3. outcome' \in [Runners -> {"none", "ok", "starting", "failed",
                                "rejected", "cancelled"}]
    BY DEF Typed, Wake
  <1>4. op' \in [Runners -> {"load", "unload"}]
    BY DEF Typed, Wake
  <1> QED BY <1>1, <1>2, <1>3, <1>4

LEMMA InitTyped == ConstantsAssumption /\ Init => Typed
  <1> SUFFICES ASSUME ConstantsAssumption, Init PROVE Typed OBVIOUS
  <1>1. (CHOOSE m \in Models : TRUE) \in Models BY DEF ConstantsAssumption
  <1> QED BY <1>1 DEF ConstantsAssumption, Init, Typed, Runners

LEMMA NextTyped == ConstantsAssumption /\ Typed /\ [Next]_vars => Typed'
  <1> SUFFICES ASSUME ConstantsAssumption, Typed, [Next]_vars PROVE Typed'
    OBVIOUS
  <1>1. CASE UNCHANGED vars BY <1>1 DEF vars, Typed
  <1>2. ASSUME NEW r \in Requests, Arrive(r) PROVE Typed'
    <2>1. r \in Runners BY DEF Runners
    <2> QED BY <1>2, <2>1 DEF Arrive, Typed, ConstantsAssumption
  <1>3. ASSUME NEW r \in Requests, Handler(r) PROVE Typed'
    <2>0. r \in Runners BY DEF Runners
    <2>1. CASE PassGate(r)
      <3>1. CASE Finish(r, "rejected") /\ UNCHANGED op
        BY <2>0, <2>1, <3>1, MovesTyped DEF PassGate, Typed
      <3>2. CASE allTask # None /\ Await(r, allTask) /\ UNCHANGED op
        <4>1. allTask \in Runners BY <3>2 DEF Typed, Runners
        <4> QED BY <2>0, <2>1, <3>2, <4>1, MovesTyped DEF PassGate, Typed
      <3>3. CASE EnterLoop(r, kind[r])
        BY <2>0, <2>1, <3>3, EnterLoopTyped DEF PassGate, Typed
      <3> QED BY <2>1, <3>1, <3>2, <3>3 DEF PassGate
    <2>2. CASE BeginUpdate(r)
      BY <2>0, <2>2, MovesTyped DEF BeginUpdate, Typed
    <2>3. CASE EndUpdate(r)
      <3>1. ASSUME NEW result \in {"ok", "failed"}, Finish(r, result), UNCHANGED op
            PROVE Typed'
        BY <2>0, <2>3, <3>1, MovesTyped DEF EndUpdate, Typed
      <3>2. CASE EnterLoop(r, "unload")
        BY <2>0, <2>3, <3>2, EnterLoopTyped DEF EndUpdate, Typed
      <3> QED BY <2>3, <3>1, <3>2 DEF EndUpdate
    <2>4. CASE UnloadAll(r)
      BY <2>0, <2>4 DEF UnloadAll, Typed, Runners
    <2>5. CASE Rejected(r)
      BY <2>0, <2>5, MovesTyped DEF Rejected, Typed
    <2> QED BY <1>3, <2>1, <2>2, <2>3, <2>4, <2>5 DEF Handler
  <1>4. ASSUME NEW r \in Requests, Cancel(r) PROVE Typed'
    <2>0. r \in Runners BY DEF Runners
    <2>1. CASE CancelHolder(r)
      BY <2>0, <2>1, MovesTyped DEF CancelHolder, LeaveLock, DiscardLock, Typed
    <2>2. CASE CancelWaiter(r)
      BY <2>0, <2>2, MovesTyped DEF CancelWaiter, Cancelled, Typed
    <2>3. CASE CancelElsewhere(r)
      BY <2>0, <2>3, MovesTyped DEF CancelElsewhere, Cancelled, Typed
    <2> QED BY <1>4, <2>1, <2>2, <2>3 DEF Cancel
  <1>5. ASSUME NEW r \in Runners, Coroutine(r) PROVE Typed'
    <2>1. CASE Loop(r)
      BY <2>1, EnterLoopTyped DEF Loop, Typed
    <2>2. CASE ProbeUnlocked(r)
      BY <2>2, MovesTyped DEF ProbeUnlocked, Typed
    <2>3. CASE TakeLock(r)
      <3>1. PICK l \in Locks :
               /\ locks' = [locks EXCEPT ![target[r]] = l]
               /\ \/ /\ want' = [want EXCEPT ![r] = l]
                     /\ Go(r, "lockWait") \/ Go(r, "probe2")
                     /\ UNCHANGED op
                  \/ EnterLoop(r, op[r]) /\ UNCHANGED want
        BY <2>3 DEF TakeLock
      <3>2. UNCHANGED <<kind, target, tstate, tasks, allTask, up, orphaned, early>>
        BY <2>3 DEF TakeLock
      <3>3. CASE EnterLoop(r, op[r]) /\ UNCHANGED want
        BY <3>1, <3>2, <3>3, EnterLoopTyped DEF Typed
      <3>4. CASE /\ want' = [want EXCEPT ![r] = l]
                 /\ Go(r, "lockWait") \/ Go(r, "probe2")
                 /\ UNCHANGED op
        BY <3>1, <3>2, <3>4, MovesTyped DEF Typed
      <3> QED BY <3>1, <3>3, <3>4
    <2>4. CASE Acquire(r)
      <3>1. CASE tasks[target[r]] = None
        BY <2>4, <3>1, MovesTyped DEF Acquire, Typed
      <3>2. CASE tasks[target[r]] # None
        BY <2>4, <3>2, EnterLoopTyped DEF Acquire, Typed
      <3> QED BY <3>1, <3>2
    <2>5. CASE ProbeLocked(r)
      <3>1. PICK result \in {"failed", "starting", "ok"} : LeaveLock(r, result)
        BY <2>5 DEF ProbeLocked
      <3> QED BY <3>1, MovesTyped DEF LeaveLock, DiscardLock, Typed
    <2>6. CASE StartTask(r)
      BY <2>6 DEF StartTask, Typed, Running
    <2> QED BY <1>5, <2>1, <2>2, <2>3, <2>4, <2>5, <2>6 DEF Coroutine
  <1>6. ASSUME NEW t \in Runners, Task(t) PROVE Typed'
    <2>1. CASE Send(t)
      BY <2>1 DEF Send, TaskStep, Typed, Running, Ended
    <2>2. CASE AnswerLoad(t)
      BY <2>2 DEF AnswerLoad, TaskStep, Typed, Running, Ended
    <2>3. CASE AnswerUnload(t)
      BY <2>3 DEF AnswerUnload, TaskStep, Typed, Running, Ended
    <2>4. CASE Confirm(t)
      BY <2>4 DEF Confirm, TaskStep, Typed, Running, Ended
    <2>5. CASE Gather(t)
      BY <2>5 DEF Gather, Typed, Running, Ended
    <2> QED BY <1>6, <2>1, <2>2, <2>3, <2>4, <2>5 DEF Task
  <1>7. ASSUME NEW t \in Runners, Callback(t) PROVE Typed'
    <2>1. CASE CompleteTask(t)
      <3>1. Wake(t) /\ UNCHANGED <<kind, target>>
        BY <2>1 DEF CompleteTask, Wake
      <3>2. tasks' \in [Models -> Runners \cup {None}]
        BY <2>1 DEF CompleteTask, PopTask, Typed
      <3>3. locks' \in [Models -> Locks \cup {None}] /\ orphaned' \subseteq Models
        BY <2>1 DEF CompleteTask, DiscardLock, Typed
      <3>4. /\ want' \in [Runners -> Locks \cup {None}]
            /\ tstate' \in [Runners -> Running \cup Ended \cup {"none", "gathering"}]
            /\ UNCHANGED <<allTask, up, early>>
        BY <2>1 DEF CompleteTask, Typed
      <3> QED BY <3>1, <3>2, <3>3, <3>4, WakeTyped DEF Typed
    <2>2. CASE CompleteUnloadAll(t)
      <3>1. Wake(t) /\ UNCHANGED <<kind, target>>
        BY <2>2 DEF CompleteUnloadAll, Wake
      <3> QED BY <2>2, <3>1, WakeTyped DEF CompleteUnloadAll, LiftBarrier, Typed
    <2> QED BY <1>7, <2>1, <2>2 DEF Callback
  <1>8. ASSUME NEW m \in Models, Upstream(m) PROVE Typed'
    BY <1>8 DEF Upstream, Typed
  <1>9. CASE (\E r \in Runners : Spin(r)) \/ Quiet
    BY <1>1, <1>9 DEF Spin, Quiet
  <1> QED BY <1>1, <1>2, <1>3, <1>4, <1>5, <1>6, <1>7, <1>8, <1>9 DEF Next

\* Every variable keeps its type.
THEOREM TypeCorrect == Spec => []Typed
  <1>1. Init => Typed BY InitTyped, ConstantsAssumption
  <1>2. Typed /\ [Next]_vars => Typed' BY NextTyped, ConstantsAssumption
  <1> QED BY <1>1, <1>2, PTL DEF Spec

-----------------------------------------------------------------------------
(* Tasks and their creators: a runner with a task of its own only waits for *)
(* it (or was cancelled), and the gathered coroutines run only while the    *)
(* current unload-all gathers.                                              *)

OwnTask ==
    \A r \in Runners : tstate[r] # "none" =>
        (pc[r] = "wait" /\ on[r] = r) \/ (r \in Requests /\ pc[r] = "done")
SubsIdle ==
    allTask = None \/ tstate[allTask] # "gathering" => \A m \in Models : pc[m] = "idle"
StructureInv == OwnTask /\ SubsIdle

\* A coroutine at one of its awaits other than a task moves on alone.
LEMMA PlaceStep ==
    ASSUME StructureInv, NEW r \in Runners, pc[r] \notin {"idle", "wait", "done"},
           \A s \in Runners \ {r} : pc'[s] = pc[s] /\ on'[s] = on[s],
           UNCHANGED <<tstate, allTask>>
    PROVE  StructureInv'
  <1>1. OwnTask' BY DEF StructureInv, OwnTask
  <1>2. SubsIdle' BY DEF StructureInv, SubsIdle, Runners
  <1> QED BY <1>1, <1>2 DEF StructureInv

\* The moves a coroutine can make within one step.
MoveAway(r) ==
    \/ \E result \in {"ok", "starting", "failed", "rejected", "cancelled"} :
           Finish(r, result)
    \/ \E t \in Runners : Await(r, t)
    \/ \E o \in {"load", "unload"} : EnterLoop(r, o)
    \/ Go(r, "updating")
MoveToLock(r) == \E place \in {"lockWait", "probe2"} : Go(r, place)
Move(r) == MoveAway(r) \/ MoveToLock(r)

LEMMA MoveKeeps ==
    ASSUME Typed, StructureInv, NEW r \in Runners,
           pc[r] \notin {"idle", "wait", "done"}, Move(r),
           UNCHANGED <<tstate, allTask>>
    PROVE  StructureInv'
  <1>1. \A s \in Runners \ {r} : pc'[s] = pc[s] /\ on'[s] = on[s]
    BY DEF Move, MoveAway, MoveToLock, Typed, Finish, Await, EnterLoop, Go
  <1> QED BY <1>1, PlaceStep

\* The callbacks of t, when t is over.
LEMMA WakeKeeps ==
    ASSUME Typed, ConstantsAssumption, StructureInv, NEW t \in Runners, Wake(t),
           tstate[t] \in Ended, tstate' = [tstate EXCEPT ![t] = "none"],
           allTask' = allTask \/ (allTask = t /\ allTask' = None)
    PROVE  StructureInv'
  <1>1. \A r \in Runners : /\ pc[r] # "wait" \/ on[r] # t => pc'[r] = pc[r]
                           /\ pc[r] # "wait" \/ on[r] # t => on'[r] = on[r]
    BY DEF Wake, Typed
  <1>2. OwnTask'
    BY <1>1 DEF StructureInv, OwnTask, Typed
  <1>3. SubsIdle'
    <2> SUFFICES ASSUME allTask' = None \/ tstate'[allTask'] # "gathering",
                        NEW m \in Models
                 PROVE  pc'[m] = "idle"
      BY DEF SubsIdle
    <2>1. allTask = None \/ tstate[allTask] # "gathering"
      BY DEF Ended, Typed, Runners
    <2>2. pc[m] = "idle" BY <2>1 DEF StructureInv, SubsIdle
    <2> QED BY <1>1, <2>2 DEF Runners
  <1> QED BY <1>2, <1>3 DEF StructureInv

LEMMA InitStructure == ConstantsAssumption /\ Init => StructureInv
  BY DEF ConstantsAssumption, Init, StructureInv, OwnTask, SubsIdle, Runners

LEMMA TaskStepKeeps ==
    ASSUME Typed, StructureInv, NEW t \in Runners,
           NEW s \in Running \cup Ended, tstate[t] \in Running, TaskStep(t, s)
    PROVE  StructureInv'
  <1>1. OwnTask' BY DEF StructureInv, OwnTask, TaskStep, Typed, Running, Ended
  <1>2. SubsIdle' BY DEF StructureInv, SubsIdle, TaskStep, Typed, Running, Ended, Runners
  <1> QED BY <1>1, <1>2 DEF StructureInv

LEMMA NextStructure ==
    ASSUME ConstantsAssumption, Typed, StructureInv, [Next]_vars
    PROVE  StructureInv'
  <1>1. CASE UNCHANGED vars
    BY <1>1 DEF vars, StructureInv, OwnTask, SubsIdle
  <1>2. ASSUME NEW r \in Requests, Arrive(r) PROVE StructureInv'
    <2>1. OwnTask' BY <1>2 DEF Arrive, StructureInv, OwnTask, Typed, Runners
    <2>2. SubsIdle'
      BY <1>2 DEF Arrive, StructureInv, SubsIdle, Typed, Runners, ConstantsAssumption
    <2> QED BY <2>1, <2>2 DEF StructureInv
  <1>3. ASSUME NEW r \in Requests, Handler(r) PROVE StructureInv'
    <2>0. r \in Runners BY DEF Runners
    <2>1. CASE PassGate(r)
      <3>1. kind[r] \in {"load", "unload"} /\ pc[r] = "gate"
            /\ UNCHANGED <<tstate, allTask>>
        BY <2>1 DEF PassGate, At
      <3>2. allTask # None => allTask \in Runners BY DEF Typed, Runners
      <3>3. Move(r) BY <2>1, <3>1, <3>2 DEF PassGate, Move, MoveAway, MoveToLock
      <3> QED BY <2>0, <3>1, <3>3, MoveKeeps
    <2>2. CASE BeginUpdate(r)
      <3>1. pc[r] = "gate" /\ UNCHANGED <<tstate, allTask>>
        BY <2>2 DEF BeginUpdate, At
      <3>2. Move(r) BY <2>2 DEF BeginUpdate, Move, MoveAway, MoveToLock
      <3> QED BY <2>0, <3>1, <3>2, MoveKeeps
    <2>3. CASE EndUpdate(r)
      <3>1. pc[r] = "updating" /\ UNCHANGED <<tstate, allTask>>
        BY <2>3 DEF EndUpdate, At
      <3>2. Move(r) BY <2>3 DEF EndUpdate, Move, MoveAway, MoveToLock
      <3> QED BY <2>0, <3>1, <3>2, MoveKeeps
    <2>4. CASE UnloadAll(r)
      <3>1. pc[r] = "gate" BY <2>4 DEF UnloadAll, At
      <3>2. CASE allTask = None \/ tstate[allTask] \in Ended
        <4>1. /\ allTask' = r
              /\ tstate' = [tstate EXCEPT ![r] = "gathering"]
              /\ on' = [on EXCEPT ![r] = r]
              /\ pc' = [s \in Runners |-> IF s \in Models THEN "loop"
                                          ELSE IF s = r THEN "wait" ELSE pc[s]]
          BY <2>4, <3>2 DEF UnloadAll
        <4>2. \A m \in Models : tstate[m] = "none"
          BY <3>2 DEF Ended, StructureInv, SubsIdle, OwnTask, ConstantsAssumption, Runners
        <4>3. OwnTask'
          BY <2>0, <4>1, <4>2 DEF StructureInv, OwnTask, ConstantsAssumption, Runners, Typed
        <4>4. SubsIdle'
          BY <2>0, <4>1 DEF SubsIdle, ConstantsAssumption, Typed
        <4> QED BY <4>3, <4>4 DEF StructureInv
      <3>3. CASE ~(allTask = None \/ tstate[allTask] \in Ended)
        BY <2>0, <2>4, <3>1, <3>3, PlaceStep DEF UnloadAll, Typed
      <3> QED BY <3>2, <3>3
    <2>5. CASE Rejected(r)
      <3>1. pc[r] = "gate" /\ UNCHANGED <<tstate, allTask>>
        BY <2>5 DEF Rejected, At
      <3>2. Move(r) BY <2>5 DEF Rejected, Move, MoveAway, MoveToLock
      <3> QED BY <2>0, <3>1, <3>2, MoveKeeps
    <2> QED BY <1>3, <2>1, <2>2, <2>3, <2>4, <2>5 DEF Handler
  <1>4. ASSUME NEW r \in Requests, Cancel(r) PROVE StructureInv'
    <2>0. r \in Runners BY DEF Runners
    <2>1. CASE CancelHolder(r)
      <3>1. pc[r] = "probe2" /\ UNCHANGED <<tstate, allTask>>
        BY <2>1 DEF CancelHolder, LeaveLock, At
      <3>2. Move(r) BY <2>1 DEF CancelHolder, LeaveLock, Move, MoveAway, MoveToLock
      <3> QED BY <2>0, <3>1, <3>2, MoveKeeps
    <2>2. CASE CancelWaiter(r)
      <3>1. pc[r] = "lockWait" /\ UNCHANGED <<tstate, allTask>>
        BY <2>2 DEF CancelWaiter, Cancelled, At
      <3>2. Move(r) BY <2>2 DEF CancelWaiter, Cancelled, Move, MoveAway, MoveToLock
      <3> QED BY <2>0, <3>1, <3>2, MoveKeeps
    <2>3. CASE CancelElsewhere(r)
      <3>1. /\ pc[r] \notin {"idle", "done"} /\ UNCHANGED <<tstate, allTask>>
            /\ pc' = [pc EXCEPT ![r] = "done"] /\ on' = on
        BY <2>3 DEF CancelElsewhere, Cancelled, Finish, At
      <3>2. OwnTask' BY <3>1 DEF StructureInv, OwnTask, Typed
      <3>3. SubsIdle'
        BY <3>1 DEF StructureInv, SubsIdle, ConstantsAssumption, Typed, Runners
      <3> QED BY <3>2, <3>3 DEF StructureInv
    <2> QED BY <1>4, <2>1, <2>2, <2>3 DEF Cancel
  <1>5. ASSUME NEW r \in Runners, Coroutine(r) PROVE StructureInv'
    <2>0. op[r] \in {"load", "unload"} BY DEF Typed
    <2>1. CASE Loop(r)
      <3>1. pc[r] = "loop" /\ UNCHANGED <<tstate, allTask>>
        BY <2>1 DEF Loop, At
      <3>2. Move(r) BY <2>0, <2>1 DEF Loop, Move, MoveAway, MoveToLock
      <3> QED BY <2>0, <3>1, <3>2, MoveKeeps
    <2>2. CASE ProbeUnlocked(r)
      <3>1. pc[r] = "probe1" /\ UNCHANGED <<tstate, allTask>>
        BY <2>2 DEF ProbeUnlocked, At
      <3>2. Move(r) BY <2>2 DEF ProbeUnlocked, Move, MoveAway, MoveToLock
      <3> QED BY <2>0, <3>1, <3>2, MoveKeeps
    <2>3. CASE TakeLock(r)
      <3>1. pc[r] = "probe1" /\ UNCHANGED <<tstate, allTask>>
        BY <2>3 DEF TakeLock, At
      <3>2. Move(r) BY <2>0, <2>3 DEF TakeLock, Move, MoveAway, MoveToLock
      <3> QED BY <2>0, <3>1, <3>2, MoveKeeps
    <2>4. CASE Acquire(r)
      <3>1. pc[r] = "lockWait" /\ UNCHANGED <<tstate, allTask>>
        BY <2>4 DEF Acquire, At
      <3>2. Move(r) BY <2>0, <2>4 DEF Acquire, Move, MoveAway, MoveToLock
      <3> QED BY <2>0, <3>1, <3>2, MoveKeeps
    <2>5. CASE ProbeLocked(r)
      <3>1. pc[r] = "probe2" /\ UNCHANGED <<tstate, allTask>>
        BY <2>5 DEF ProbeLocked, LeaveLock, At
      <3>2. Move(r) BY <2>5 DEF ProbeLocked, LeaveLock, Move, MoveAway, MoveToLock
      <3> QED BY <2>0, <3>1, <3>2, MoveKeeps
    <2>6. CASE StartTask(r)
      <3>1. /\ pc[r] = "probe2" /\ tstate' = [tstate EXCEPT ![r] = "created"]
            /\ pc' = [pc EXCEPT ![r] = "wait"] /\ on' = [on EXCEPT ![r] = r]
            /\ allTask' = allTask
        BY <2>6 DEF StartTask, At
      <3>2. tstate[r] = "none" BY <3>1 DEF StructureInv, OwnTask
      <3>3. OwnTask' BY <3>1 DEF StructureInv, OwnTask, Typed
      <3>4. SubsIdle' BY <3>1, <3>2 DEF StructureInv, SubsIdle, Typed, Runners
      <3> QED BY <3>3, <3>4 DEF StructureInv
    <2> QED BY <1>5, <2>1, <2>2, <2>3, <2>4, <2>5, <2>6 DEF Coroutine
  <1>6. ASSUME NEW t \in Runners, Task(t) PROVE StructureInv'
    <2>0. ASSUME tstate[t] \in Running, \E s \in Running \cup Ended : TaskStep(t, s)
          PROVE  StructureInv'
      BY <2>0, TaskStepKeeps
    <2>1. CASE Send(t)
      <3>1. tstate[t] \in Running /\ \E s \in Running \cup Ended : TaskStep(t, s)
        BY <2>1 DEF Send, TaskAt, Running, Ended
      <3> QED BY <2>0, <3>1
    <2>2. CASE AnswerLoad(t)
      <3>1. tstate[t] \in Running /\ \E s \in Running \cup Ended : TaskStep(t, s)
        BY <2>2 DEF AnswerLoad, TaskAt, Running, Ended
      <3> QED BY <2>0, <3>1
    <2>3. CASE AnswerUnload(t)
      <3>1. tstate[t] \in Running /\ \E s \in Running \cup Ended : TaskStep(t, s)
        BY <2>3 DEF AnswerUnload, TaskAt, Running, Ended
      <3> QED BY <2>0, <3>1
    <2>4. CASE Confirm(t)
      <3>1. tstate[t] \in Running /\ \E s \in Running \cup Ended : TaskStep(t, s)
        BY <2>4 DEF Confirm, TaskAt, Running, Ended
      <3> QED BY <2>0, <3>1
    <2>5. CASE Gather(t)
      <3>1. /\ tstate[t] = "gathering" /\ \A m \in Models : pc[m] = "done"
            /\ \E s \in Ended : tstate' = [tstate EXCEPT ![t] = s]
            /\ pc' = [r \in Runners |-> IF r \in Models THEN "idle" ELSE pc[r]]
            /\ UNCHANGED <<on, allTask>>
        BY <2>5 DEF Gather, TaskAt, Ended
      <3>2. OwnTask'
        BY <3>1 DEF StructureInv, OwnTask, Typed, ConstantsAssumption, Runners
      <3>3. SubsIdle' BY <3>1 DEF SubsIdle, Runners
      <3> QED BY <3>2, <3>3 DEF StructureInv
    <2> QED BY <1>6, <2>1, <2>2, <2>3, <2>4, <2>5 DEF Task
  <1>7. ASSUME NEW t \in Runners, Callback(t) PROVE StructureInv'
    <2>1. CASE CompleteTask(t)
      BY <2>1, WakeKeeps DEF CompleteTask, Completes
    <2>2. CASE CompleteUnloadAll(t)
      BY <2>2, WakeKeeps DEF CompleteUnloadAll, LiftBarrier, Completes
    <2> QED BY <1>7, <2>1, <2>2 DEF Callback
  <1>8. ASSUME NEW m \in Models, Upstream(m) PROVE StructureInv'
    BY <1>8 DEF Upstream, StructureInv, OwnTask, SubsIdle
  <1>9. CASE (\E r \in Runners : Spin(r)) \/ Quiet
    BY <1>1, <1>9 DEF Spin, Quiet
  <1> QED BY <1>1, <1>2, <1>3, <1>4, <1>5, <1>6, <1>7, <1>8, <1>9 DEF Next

-----------------------------------------------------------------------------
(* Single flight.                                                          *)
(*                                                                         *)
(* While the lock of m has not been orphaned, everyone who queues for it   *)
(* or holds it refers to the object in the dictionary, so the object does  *)
(* exclude; whoever is inside saw no task; so the task a holder creates is *)
(* the only one, and stays in the dictionary until its callback.           *)

OperationTask(t) ==
    tstate[t] \in Running \/ (tstate[t] \in Ended /\ kind[t] # "unloadAll")

SameLock(m) ==
    \A r \in Runners : pc[r] \in {"lockWait", "probe2"} /\ target[r] = m =>
        want[r] = locks[m] /\ locks[m] # None
OneHolder(m) ==
    \A r, s \in Runners :
        /\ pc[r] = "probe2" /\ target[r] = m
        /\ pc[s] = "probe2" /\ target[s] = m
        => r = s
HolderAlone(m) ==
    \A r \in Runners : pc[r] = "probe2" /\ target[r] = m => tasks[m] = None
TaskKnown(m) ==
    \A t \in Runners : OperationTask(t) /\ target[t] = m => tasks[m] = t

Guarded(m) == SameLock(m) /\ OneHolder(m) /\ HolderAlone(m) /\ TaskKnown(m)
SingleFlightInv == \A m \in Models \ orphaned : Guarded(m)

\* A step that lets nobody into a critical section, creates no task and leaves
\* the dictionaries alone keeps the invariant.
LEMMA OutsideStep ==
    ASSUME Typed, SingleFlightInv,
           \A r \in Runners : pc'[r] \in {"lockWait", "probe2"} =>
               pc'[r] = pc[r] /\ target'[r] = target[r] /\ want'[r] = want[r],
           \A t \in Runners : OperationTask(t)' =>
               OperationTask(t) /\ target'[t] = target[t],
           UNCHANGED <<tasks, locks, orphaned>>
    PROVE  SingleFlightInv'
  <1> SUFFICES ASSUME NEW m \in Models \ orphaned PROVE Guarded(m)'
    BY DEF SingleFlightInv
  <1>0. Guarded(m) BY DEF SingleFlightInv
  <1>1. SameLock(m)' BY <1>0 DEF Guarded, SameLock
  <1>2. OneHolder(m)' BY <1>0 DEF Guarded, OneHolder
  <1>3. HolderAlone(m)' BY <1>0 DEF Guarded, HolderAlone
  <1>4. TaskKnown(m)' BY <1>0 DEF Guarded, TaskKnown
  <1> QED BY <1>1, <1>2, <1>3, <1>4 DEF Guarded

\* Only Go moves a coroutine to a lock; the other moves lead away from it.
LEMMA MovesOutside ==
    ASSUME Typed, NEW r \in Runners,
           \/ \E result \in {"ok", "starting", "failed", "rejected", "cancelled"} :
                  Finish(r, result)
           \/ \E t \in Runners : Await(r, t)
           \/ \E o \in {"load", "unload"} : EnterLoop(r, o)
           \/ Go(r, "updating")
    PROVE  \A s \in Runners : pc'[s] \in {"lockWait", "probe2"} =>
               s # r /\ pc'[s] = pc[s]
  BY DEF Typed, Finish, Await, EnterLoop, Go

LEMMA WakeOutside ==
    ASSUME NEW t \in Runners, Wake(t)
    PROVE  /\ \A s \in Runners : pc'[s] \in {"lockWait", "probe2"} => pc'[s] = pc[s]
           /\ UNCHANGED <<kind, target>>
  BY DEF Wake

\* Discarding the lock of a model that stays guarded meets no waiter.
LEMMA DiscardGuarded ==
    ASSUME Typed, NEW m \in Models, NEW l \in Locks \cup {None},
           NEW n \in Models \ orphaned', DiscardLock(m, l)
    PROVE  /\ n \notin orphaned
           /\ n # m => locks'[n] = locks[n]
           /\ locks'[n] # locks[n] => n = m /\ locks[m] = l /\ Waiters(l) = {}
  BY DEF DiscardLock, Typed

LEMMA LeaveLockKeeps ==
    ASSUME Typed, SingleFlightInv, NEW r \in Runners, pc[r] = "probe2",
           NEW result \in {"ok", "starting", "failed", "rejected", "cancelled"},
           LeaveLock(r, result)
    PROVE  SingleFlightInv'
  <1> SUFFICES ASSUME NEW m \in Models \ orphaned' PROVE Guarded(m)'
    BY DEF SingleFlightInv
  <1>0. /\ UNCHANGED <<kind, target, op, tstate, tasks, allTask, up, early>>
        /\ want' = [want EXCEPT ![r] = None]
        /\ Finish(r, result)
    BY DEF LeaveLock
  <1>1. \A s \in Runners : pc'[s] \in {"lockWait", "probe2"} =>
            s # r /\ pc'[s] = pc[s] /\ want'[s] = want[s]
    BY <1>0 DEF Finish, Typed
  <1>2. target[r] \in Models /\ want[r] \in Locks \cup {None} BY DEF Typed
  <1>3. /\ m \notin orphaned
        /\ locks'[m] # locks[m] =>
              m = target[r] /\ locks[m] = want[r] /\ Waiters(want[r]) = {}
    BY <1>2, DiscardGuarded DEF LeaveLock
  <1>4. Guarded(m) BY <1>3 DEF SingleFlightInv
  <1>5. SameLock(m)'
    <2> SUFFICES ASSUME NEW s \in Runners, pc'[s] \in {"lockWait", "probe2"},
                        target[s] = m
                 PROVE  want'[s] = locks'[m] /\ locks'[m] # None
      BY <1>0 DEF SameLock
    <2>1. want[s] = locks[m] /\ locks[m] # None /\ s # r /\ pc'[s] = pc[s]
      BY <1>1, <1>4 DEF Guarded, SameLock
    <2>2. CASE locks'[m] = locks[m] BY <1>1, <2>1, <2>2
    <2>3. CASE locks'[m] # locks[m]
      <3>1. s \notin Waiters(want[r]) /\ want[s] = want[r] /\ m = target[r]
        BY <1>3, <2>1, <2>3
      <3>2. pc[s] = "probe2" BY <2>1, <3>1 DEF Waiters
      <3> QED BY <1>4, <2>1, <3>1, <3>2 DEF Guarded, OneHolder
    <2> QED BY <2>2, <2>3
  <1>6. OneHolder(m)' BY <1>0, <1>1, <1>4 DEF Guarded, OneHolder
  <1>7. HolderAlone(m)' BY <1>0, <1>1, <1>4 DEF Guarded, HolderAlone
  <1>8. TaskKnown(m)' BY <1>0, <1>4 DEF Guarded, TaskKnown, OperationTask
  <1> QED BY <1>5, <1>6, <1>7, <1>8 DEF Guarded

LEMMA CancelWaiterKeeps ==
    ASSUME Typed, SingleFlightInv, NEW r \in Runners, CancelWaiter(r)
    PROVE  SingleFlightInv'
  <1> SUFFICES ASSUME NEW m \in Models \ orphaned' PROVE Guarded(m)'
    BY DEF SingleFlightInv
  <1>0. /\ UNCHANGED <<kind, target, op, tstate, tasks, allTask, up, early>>
        /\ want' = [want EXCEPT ![r] = None]
        /\ Finish(r, "cancelled")
        /\ pc[r] = "lockWait"
    BY DEF CancelWaiter, Cancelled, At
  <1>1. \A s \in Runners : pc'[s] \in {"lockWait", "probe2"} =>
            s # r /\ pc'[s] = pc[s] /\ want'[s] = want[s]
    BY <1>0 DEF Finish, Typed
  <1>3. /\ m \notin orphaned
        /\ locks'[m] # locks[m] =>
              /\ m = target[r] /\ locks[m] = want[r] /\ Waiters(want[r]) = {r}
              /\ ~Locked(want[r])
    BY DEF CancelWaiter, Typed
  <1>4. Guarded(m) BY <1>3 DEF SingleFlightInv
  <1>5. SameLock(m)'
    <2> SUFFICES ASSUME NEW s \in Runners, pc'[s] \in {"lockWait", "probe2"},
                        target[s] = m
                 PROVE  want'[s] = locks'[m] /\ locks'[m] # None
      BY <1>0 DEF SameLock
    <2>1. want[s] = locks[m] /\ locks[m] # None /\ s # r /\ pc'[s] = pc[s]
      BY <1>1, <1>4 DEF Guarded, SameLock
    <2>2. locks'[m] = locks[m]
      <3> SUFFICES ASSUME locks'[m] # locks[m] PROVE FALSE OBVIOUS
      <3>1. pc[s] # "probe2" /\ s \notin Waiters(want[r])
        BY <1>3, <2>1 DEF Locked
      <3> QED BY <1>3, <2>1, <3>1 DEF Waiters
    <2> QED BY <1>1, <2>1, <2>2
  <1>6. OneHolder(m)' BY <1>0, <1>1, <1>4 DEF Guarded, OneHolder
  <1>7. HolderAlone(m)' BY <1>0, <1>1, <1>4 DEF Guarded, HolderAlone
  <1>8. TaskKnown(m)' BY <1>0, <1>4 DEF Guarded, TaskKnown, OperationTask
  <1> QED BY <1>5, <1>6, <1>7, <1>8 DEF Guarded

LEMMA TakeLockKeeps ==
    ASSUME Typed, ConstantsAssumption, SingleFlightInv,
           NEW r \in Runners, TakeLock(r)
    PROVE  SingleFlightInv'
  <1> DEFINE n == target[r]
  <1>0. /\ n \in Models /\ op[r] \in {"load", "unload"} /\ pc[r] = "probe1"
        /\ UNCHANGED <<kind, target, tstate, tasks, allTask, up, orphaned, early>>
    BY DEF TakeLock, Typed, At
  <1>1. PICK l \in Locks :
            /\ IF locks[n] = None THEN FreeLock(l) ELSE l = locks[n]
            /\ locks' = [locks EXCEPT ![n] = l]
            /\ \/ /\ want' = [want EXCEPT ![r] = l]
                  /\ Go(r, "lockWait")
               \/ /\ ~Locked(l) /\ tasks[n] = None
                  /\ want' = [want EXCEPT ![r] = l]
                  /\ Go(r, "probe2")
               \/ EnterLoop(r, op[r]) /\ UNCHANGED want
    BY DEF TakeLock
  <1> SUFFICES ASSUME NEW m \in Models \ orphaned PROVE Guarded(m)'
    BY <1>0 DEF SingleFlightInv
  <1>2. Guarded(m) BY DEF SingleFlightInv
  <1>3. \A s \in Runners : s # r => want'[s] = want[s] /\
            (pc'[s] \in {"lockWait", "probe2"} => pc'[s] = pc[s])
    BY <1>0, <1>1, MovesOutside DEF Go, Typed
  <1>4. pc'[r] \in {"lockWait", "probe2"} =>
            want'[r] = l /\ (pc'[r] = "probe2" => ~Locked(l) /\ tasks[n] = None)
    BY <1>0, <1>1, MovesOutside DEF Go, Typed
  <1>5. l # None BY DEF ConstantsAssumption
  <1>6. \A s \in Runners : pc[s] \in {"lockWait", "probe2"} /\ target[s] = m /\ m = n
            => locks[n] = l /\ want[s] = l
    BY <1>1, <1>2 DEF Guarded, SameLock
  <1>7. m # n => locks'[m] = locks[m] BY <1>0, <1>1 DEF Typed
  <1>8. locks'[n] = l BY <1>0, <1>1 DEF Typed
  <1>9. SameLock(m)'
    <2> SUFFICES ASSUME NEW s \in Runners, pc'[s] \in {"lockWait", "probe2"},
                        target[s] = m
                 PROVE  want'[s] = locks'[m] /\ locks'[m] # None
      BY <1>0 DEF SameLock
    <2>1. CASE s = r BY <1>4, <1>5, <1>8, <2>1
    <2>2. CASE s # r /\ m = n BY <1>3, <1>5, <1>6, <1>8, <2>2
    <2>3. CASE s # r /\ m # n BY <1>2, <1>3, <1>7, <2>3 DEF Guarded, SameLock
    <2> QED BY <2>1, <2>2, <2>3
  <1>10. OneHolder(m)'
    <2>1. \A s \in Runners : s # r /\ pc'[s] = "probe2" /\ target[s] = m =>
              pc[s] = "probe2" /\ ~(pc'[r] = "probe2" /\ n = m)
      BY <1>3, <1>4, <1>6 DEF Locked
    <2> QED BY <1>0, <1>2, <2>1 DEF Guarded, OneHolder
  <1>11. HolderAlone(m)'
    BY <1>0, <1>2, <1>3, <1>4 DEF Guarded, HolderAlone
  <1>12. TaskKnown(m)' BY <1>0, <1>2 DEF Guarded, TaskKnown, OperationTask
  <1> QED BY <1>9, <1>10, <1>11, <1>12 DEF Guarded

LEMMA AcquireKeeps ==
    ASSUME Typed, SingleFlightInv, NEW r \in Runners, Acquire(r)
    PROVE  SingleFlightInv'
  <1>0. /\ op[r] \in {"load", "unload"} /\ pc[r] = "lockWait" /\ ~Locked(want[r])
        /\ UNCHANGED <<kind, target, tstate, tasks, locks, allTask, up, orphaned,
                       early>>
    BY DEF Acquire, Typed, At
  <1>1. CASE tasks[target[r]] # None
    <2>1. EnterLoop(r, op[r]) /\ want' = [want EXCEPT ![r] = None]
      BY <1>1 DEF Acquire
    <2>2. \A s \in Runners : pc'[s] \in {"lockWait", "probe2"} =>
              pc'[s] = pc[s] /\ want'[s] = want[s]
      BY <1>0, <2>1, MovesOutside DEF Typed
    <2> QED BY <1>0, <2>2, OutsideStep DEF OperationTask
  <1>2. CASE tasks[target[r]] = None
    <2>1. Go(r, "probe2") /\ UNCHANGED want BY <1>2 DEF Acquire
    <2> SUFFICES ASSUME NEW m \in Models \ orphaned PROVE Guarded(m)'
      BY <1>0 DEF SingleFlightInv
    <2>2. Guarded(m) BY DEF SingleFlightInv
    <2>3. \A s \in Runners : s # r => pc'[s] = pc[s]
      BY <2>1 DEF Go, Typed
    <2>4. SameLock(m)' BY <1>0, <2>1, <2>2, <2>3 DEF Guarded, SameLock
    <2>5. OneHolder(m)'
      <3>1. \A s \in Runners : pc[s] = "probe2" /\ target[s] = m => target[r] # m
        BY <1>0, <2>2 DEF Guarded, SameLock, Locked
      <3> QED BY <1>0, <2>2, <2>3, <3>1 DEF Guarded, OneHolder
    <2>6. HolderAlone(m)' BY <1>0, <1>2, <2>2, <2>3 DEF Guarded, HolderAlone
    <2>7. TaskKnown(m)' BY <1>0, <2>2 DEF Guarded, TaskKnown, OperationTask
    <2> QED BY <2>4, <2>5, <2>6, <2>7 DEF Guarded
  <1> QED BY <1>1, <1>2

LEMMA StartTaskKeeps ==
    ASSUME Typed, ConstantsAssumption, SingleFlightInv,
           NEW r \in Runners, StartTask(r)
    PROVE  SingleFlightInv'
  <1>0. /\ target[r] \in Models /\ pc[r] = "probe2"
        /\ tasks' = [tasks EXCEPT ![target[r]] = r]
        /\ tstate' = [tstate EXCEPT ![r] = "created"]
        /\ pc' = [pc EXCEPT ![r] = "wait"]
        /\ UNCHANGED <<kind, target, op, want, outcome, locks, allTask, up,
                       orphaned, early>>
    BY DEF StartTask, Typed, At
  <1> SUFFICES ASSUME NEW m \in Models \ orphaned PROVE Guarded(m)'
    BY <1>0 DEF SingleFlightInv
  <1>1. Guarded(m) BY DEF SingleFlightInv
  <1>2. \A s \in Runners : pc'[s] \in {"lockWait", "probe2"} => s # r /\ pc'[s] = pc[s]
    BY <1>0 DEF Typed
  <1>3. SameLock(m)' BY <1>0, <1>1, <1>2 DEF Guarded, SameLock
  <1>4. OneHolder(m)' BY <1>0, <1>1, <1>2 DEF Guarded, OneHolder
  <1>5. HolderAlone(m)'
    BY <1>0, <1>1, <1>2 DEF Guarded, HolderAlone, OneHolder, Typed
  <1>6. TaskKnown(m)'
    <2> SUFFICES ASSUME NEW t \in Runners, OperationTask(t)', target[t] = m
                 PROVE  tasks'[m] = t
      BY <1>0 DEF TaskKnown
    <2>1. CASE t = r BY <1>0, <2>1 DEF Typed
    <2>2. CASE t # r
      <3>1. OperationTask(t) BY <1>0, <2>2 DEF OperationTask, Typed
      <3>2. tasks[m] = t BY <1>1, <3>1 DEF Guarded, TaskKnown
      <3>3. t # None BY DEF ConstantsAssumption, Runners
      <3>4. target[r] # m BY <1>0, <1>1, <3>2, <3>3 DEF Guarded, HolderAlone
      <3> QED BY <1>0, <3>2, <3>4 DEF Typed
    <2> QED BY <2>1, <2>2
  <1> QED BY <1>3, <1>4, <1>5, <1>6 DEF Guarded

LEMMA CompleteTaskKeeps ==
    ASSUME Typed, StructureInv, SingleFlightInv, NEW t \in Runners,
           CompleteTask(t)
    PROVE  SingleFlightInv'
  <1>0. /\ Wake(t) /\ PopTask(t) /\ target[t] \in Models
        /\ want[t] \in Locks \cup {None}
        /\ tstate' = [tstate EXCEPT ![t] = "none"]
        /\ want' = [want EXCEPT ![t] = None]
        /\ OperationTask(t) /\ tstate[t] # "none"
        /\ UNCHANGED <<kind, target>>
    BY WakeOutside DEF CompleteTask, Typed, Completes, Ended, OperationTask
  <1>1. \A s \in Runners : pc'[s] \in {"lockWait", "probe2"} => pc'[s] = pc[s]
    BY <1>0, WakeOutside
  <1> SUFFICES ASSUME NEW m \in Models \ orphaned' PROVE Guarded(m)'
    BY DEF SingleFlightInv
  <1>3. /\ m \notin orphaned
        /\ locks'[m] # locks[m] =>
              /\ m = target[t] /\ locks[m] = want[t] /\ Waiters(want[t]) = {}
              /\ ~Locked(want[t])
    BY <1>0, DiscardGuarded DEF CompleteTask
  <1>4. Guarded(m) BY <1>3 DEF SingleFlightInv
  <1>5. \A s \in Runners : pc'[s] \in {"lockWait", "probe2"} /\ target[s] = m
            => locks'[m] = locks[m]
    BY <1>1, <1>3, <1>4 DEF Guarded, SameLock, Waiters, Locked
  <1>9. SameLock(m)'
    <2> SUFFICES ASSUME NEW s \in Runners, pc'[s] \in {"lockWait", "probe2"},
                        target[s] = m
                 PROVE  want'[s] = locks'[m] /\ locks'[m] # None
      BY <1>0 DEF SameLock
    <2>1. want[s] = locks'[m] /\ locks'[m] # None
      BY <1>1, <1>4, <1>5 DEF Guarded, SameLock
    <2>2. s # t BY <1>0, <1>1 DEF StructureInv, OwnTask
    <2> QED BY <1>0, <2>1, <2>2 DEF Typed
  <1>6. OneHolder(m)' BY <1>0, <1>1, <1>4 DEF Guarded, OneHolder
  <1>7. HolderAlone(m)' BY <1>0, <1>1, <1>4 DEF Guarded, HolderAlone, PopTask, Typed
  <1>8. TaskKnown(m)'
    BY <1>0, <1>4 DEF Guarded, TaskKnown, OperationTask, Running, Ended, PopTask, Typed
  <1> QED BY <1>6, <1>7, <1>8, <1>9 DEF Guarded

LEMMA InitSingleFlight == ConstantsAssumption /\ Init => SingleFlightInv
  BY DEF ConstantsAssumption, Init, SingleFlightInv, Guarded, SameLock, OneHolder,
         HolderAlone, TaskKnown, OperationTask, Running, Ended, Runners

\* A move of r that does not lead to a lock, with no task or lock touched.
LEMMA MoveOutsideKeeps ==
    ASSUME Typed, SingleFlightInv, NEW r \in Runners,
           MoveAway(r),
           UNCHANGED <<kind, target, want, tstate, tasks, locks, orphaned>>
    PROVE  SingleFlightInv'
  <1>1. \A s \in Runners : pc'[s] \in {"lockWait", "probe2"} => pc'[s] = pc[s]
    BY DEF MoveAway, Typed, Finish, Await, EnterLoop, Go
  <1> QED BY <1>1, OutsideStep DEF OperationTask

LEMMA NextSingleFlight ==
    ASSUME ConstantsAssumption, Typed, StructureInv, SingleFlightInv, [Next]_vars
    PROVE  SingleFlightInv'
  <1>1. CASE UNCHANGED vars
    BY <1>1, OutsideStep DEF vars, OperationTask
  <1>2. ASSUME NEW r \in Requests, Arrive(r) PROVE SingleFlightInv'
    <2>1. /\ pc' = [pc EXCEPT ![r] = "gate"] /\ tstate[r] = "none"
          /\ \A s \in Runners \ {r} : kind'[s] = kind[s] /\ target'[s] = target[s]
          /\ UNCHANGED <<want, tstate, tasks, locks, orphaned>>
      BY <1>2 DEF Arrive, Typed
    <2> QED BY <2>1, OutsideStep DEF OperationTask, Running, Ended, Typed, Runners
  <1>3. ASSUME NEW r \in Requests, Handler(r) PROVE SingleFlightInv'
    <2>0. r \in Runners BY DEF Runners
    <2>1. CASE PassGate(r)
      <3>0. kind[r] \in {"load", "unload"} BY <2>1 DEF PassGate
      <3>1. allTask # None => allTask \in Runners BY DEF Typed, Runners
      <3>2. MoveAway(r) BY <3>1, <3>0, <2>1 DEF PassGate, MoveAway
      <3>3. UNCHANGED <<kind, target, want, tstate, tasks, locks, orphaned>>
        BY <2>1 DEF PassGate
      <3> QED BY <2>0, <3>2, <3>3, MoveOutsideKeeps
    <2>2. CASE BeginUpdate(r)
      <3>2. MoveAway(r) BY <2>2 DEF BeginUpdate, MoveAway
      <3>3. UNCHANGED <<kind, target, want, tstate, tasks, locks, orphaned>>
        BY <2>2 DEF BeginUpdate
      <3> QED BY <2>0, <3>2, <3>3, MoveOutsideKeeps
    <2>3. CASE EndUpdate(r)
      <3>2. MoveAway(r) BY <2>3 DEF EndUpdate, MoveAway
      <3>3. UNCHANGED <<kind, target, want, tstate, tasks, locks, orphaned>>
        BY <2>3 DEF EndUpdate
      <3> QED BY <2>0, <3>2, <3>3, MoveOutsideKeeps
    <2>4. CASE UnloadAll(r)
      <3>1. /\ \A s \in Runners : pc'[s] \in {"lockWait", "probe2"} => pc'[s] = pc[s]
            /\ \A t \in Runners : OperationTask(t)' => OperationTask(t)
            /\ UNCHANGED <<kind, target, want, tasks, locks, orphaned>>
        BY <2>0, <2>4 DEF UnloadAll, OperationTask, Running, Ended, Typed
      <3> QED BY <3>1, OutsideStep
    <2>5. CASE Rejected(r)
      <3>2. MoveAway(r) BY <2>5 DEF Rejected, MoveAway
      <3>3. UNCHANGED <<kind, target, want, tstate, tasks, locks, orphaned>>
        BY <2>5 DEF Rejected
      <3> QED BY <2>0, <3>2, <3>3, MoveOutsideKeeps
    <2> QED BY <1>3, <2>1, <2>2, <2>3, <2>4, <2>5 DEF Handler
  <1>4. ASSUME NEW r \in Requests, Cancel(r) PROVE SingleFlightInv'
    <2>0. r \in Runners BY DEF Runners
    <2>1. CASE CancelHolder(r)
      <3>1. pc[r] = "probe2" /\ LeaveLock(r, "cancelled")
        BY <2>1 DEF CancelHolder, At
      <3> QED BY <2>0, <3>1, LeaveLockKeeps
    <2>2. CASE CancelWaiter(r)
      BY <2>0, <2>2, CancelWaiterKeeps
    <2>3. CASE CancelElsewhere(r)
      <3>2. MoveAway(r) BY <2>3 DEF CancelElsewhere, Cancelled, MoveAway
      <3>3. UNCHANGED <<kind, target, want, tstate, tasks, locks, orphaned>>
        BY <2>3 DEF CancelElsewhere, Cancelled
      <3> QED BY <2>0, <3>2, <3>3, MoveOutsideKeeps
    <2> QED BY <1>4, <2>1, <2>2, <2>3 DEF Cancel
  <1>5. ASSUME NEW r \in Runners, Coroutine(r) PROVE SingleFlightInv'
    <2>0. op[r] \in {"load", "unload"} BY DEF Typed
    <2>1. CASE Loop(r)
      <3>2. MoveAway(r) BY <2>0, <2>1 DEF Loop, MoveAway
      <3>3. UNCHANGED <<kind, target, want, tstate, tasks, locks, orphaned>>
        BY <2>1 DEF Loop
      <3> QED BY <2>0, <3>2, <3>3, MoveOutsideKeeps
    <2>2. CASE ProbeUnlocked(r)
      <3>2. MoveAway(r) BY <2>2 DEF ProbeUnlocked, MoveAway
      <3>3. UNCHANGED <<kind, target, want, tstate, tasks, locks, orphaned>>
        BY <2>2 DEF ProbeUnlocked
      <3> QED BY <2>0, <3>2, <3>3, MoveOutsideKeeps
    <2>3. CASE TakeLock(r) BY <2>3, TakeLockKeeps
    <2>4. CASE Acquire(r) BY <2>4, AcquireKeeps
    <2>5. CASE ProbeLocked(r)
      <3>1. PICK result \in {"failed", "starting", "ok"} : LeaveLock(r, result)
        BY <2>5 DEF ProbeLocked
      <3>2. pc[r] = "probe2" BY <2>5 DEF ProbeLocked, At
      <3> QED BY <3>1, <3>2, LeaveLockKeeps
    <2>6. CASE StartTask(r) BY <2>6, StartTaskKeeps
    <2> QED BY <1>5, <2>1, <2>2, <2>3, <2>4, <2>5, <2>6 DEF Coroutine
  <1>6. ASSUME NEW t \in Runners, Task(t) PROVE SingleFlightInv'
    <2>1. ASSUME NEW s \in Running \cup Ended, tstate[t] \in Running, TaskStep(t, s)
          PROVE  SingleFlightInv'
      <3>1. \A u \in Runners : OperationTask(u)' => OperationTask(u)
        BY <2>1 DEF TaskStep, OperationTask, Typed, Running
      <3> QED BY <2>1, <3>1, OutsideStep DEF TaskStep
    <2>2. Send(t) \/ AnswerLoad(t) \/ AnswerUnload(t) \/ Confirm(t) => SingleFlightInv'
      <3>1. Send(t) \/ AnswerLoad(t) \/ AnswerUnload(t) \/ Confirm(t) =>
                tstate[t] \in Running /\ \E s \in Running \cup Ended : TaskStep(t, s)
        BY DEF Send, AnswerLoad, AnswerUnload, Confirm, TaskAt, Running, Ended
      <3> QED BY <2>1, <3>1
    <2>3. CASE Gather(t)
      <3>1. /\ \A u \in Runners : OperationTask(u)' => OperationTask(u)
            /\ \A s \in Runners : pc'[s] \in {"lockWait", "probe2"} => pc'[s] = pc[s]
            /\ UNCHANGED <<kind, target, want, tasks, locks, orphaned>>
        BY <2>3 DEF Gather, OperationTask, Running, Ended, Typed, TaskAt
      <3> QED BY <3>1, OutsideStep
    <2> QED BY <1>6, <2>2, <2>3 DEF Task
  <1>7. ASSUME NEW t \in Runners, Callback(t) PROVE SingleFlightInv'
    <2>1. CASE CompleteTask(t) BY <2>1, CompleteTaskKeeps
    <2>2. CASE CompleteUnloadAll(t)
      <3>1. /\ \A u \in Runners : OperationTask(u)' => OperationTask(u)
            /\ \A s \in Runners : pc'[s] \in {"lockWait", "probe2"} => pc'[s] = pc[s]
            /\ UNCHANGED <<kind, target, want, tasks, locks, orphaned>>
        BY <2>2, WakeOutside DEF CompleteUnloadAll, OperationTask, Running, Ended, Typed
      <3> QED BY <3>1, OutsideStep
    <2> QED BY <1>7, <2>1, <2>2 DEF Callback
  <1>8. ASSUME NEW m \in Models, Upstream(m) PROVE SingleFlightInv'
    BY <1>8, OutsideStep DEF Upstream, OperationTask
  <1>9. CASE (\E r \in Runners : Spin(r)) \/ Quiet
    BY <1>1, <1>9 DEF Spin, Quiet
  <1> QED BY <1>1, <1>2, <1>3, <1>4, <1>5, <1>6, <1>7, <1>8, <1>9 DEF Next

\* A task of a model that runs is the one _lifecycle_tasks names, unless a
\* lock of the model was discarded under its waiters: README.md:336.
THEOREM SingleFlightHolds == Spec => []SingleFlight
  <1>1. Init => StructureInv /\ SingleFlightInv
    BY InitStructure, InitSingleFlight, ConstantsAssumption
  <1>2. Typed /\ StructureInv /\ SingleFlightInv /\ [Next]_vars
        => StructureInv' /\ SingleFlightInv'
    BY NextStructure, NextSingleFlight, ConstantsAssumption
  <1>3. Typed /\ SingleFlightInv => SingleFlight
    <2> SUFFICES ASSUME Typed, SingleFlightInv, NEW m \in Models \ orphaned,
                        NEW t \in Runners, InFlight(t, m)
                 PROVE  tasks[m] = t
      BY DEF SingleFlight
    <2> QED BY DEF SingleFlightInv, Guarded, TaskKnown, OperationTask, InFlight, Running
  <1> QED BY <1>1, <1>2, <1>3, TypeCorrect, PTL DEF Spec

-----------------------------------------------------------------------------
(* Names of tasks.                                                         *)
(*                                                                         *)
(* A task enters a dictionary, _unload_all_task or an await when it is     *)
(* alive, and its callbacks, run in the step it is forgotten in, take it   *)
(* out of all of them.                                                     *)

KindsKept ==
    /\ \A m \in Models : kind[m] = "unload" /\ target[m] = m
    /\ \A r \in Runners : pc[r] \in {"loop", "probe1", "lockWait", "probe2"}
                              => kind[r] # "unloadAll"
    /\ \A r \in Runners : pc[r] = "updating" => kind[r] = "update"
    /\ \A t \in Runners : tstate[t] \in Running => kind[t] # "unloadAll"
    /\ \A t \in Runners : tstate[t] = "gathering" => kind[t] = "unloadAll"
TasksNamed ==
    \A m \in Models : tasks[m] # None =>
        OperationTask(tasks[m]) /\ target[tasks[m]] = m
AllTaskNamed ==
    allTask # None =>
        kind[allTask] = "unloadAll" /\ tstate[allTask] \in Ended \cup {"gathering"}
OneGathers == \A u \in Runners : tstate[u] = "gathering" => allTask = u
WaitersAnswered ==
    \A r \in Runners : pc[r] = "wait" => on[r] \in Runners /\ tstate[on[r]] # "none"
\* Loads that are past the gate while unload-all gathers were so before.
LateLoadsWait ==
    allTask # None /\ tstate[allTask] = "gathering" =>
        \A r \in Requests : kind[r] = "load" /\ PastGate(r) => r \in early
TasksInv ==
    /\ KindsKept /\ TasksNamed /\ AllTaskNamed
    /\ OneGathers /\ WaitersAnswered /\ LateLoadsWait

\* Entering the loop leads to the first probe, an answer, or the await of a
\* task of the model that is alive.
LEMMA EnterLoopLeads ==
    ASSUME Typed, TasksInv, NEW r \in Runners, NEW o \in {"load", "unload"},
           EnterLoop(r, o)
    PROVE  /\ \A s \in Runners \ {r} : pc'[s] = pc[s] /\ on'[s] = on[s]
           /\ \/ pc'[r] \in {"probe1", "spin", "done"}
              \/ /\ pc'[r] = "wait" /\ on'[r] \in Runners
                 /\ OperationTask(on'[r])
  <1> DEFINE t == tasks[target[r]]
  <1>1. t # None => t \in Runners /\ OperationTask(t)
    BY DEF Typed, TasksInv, TasksNamed
  <1>2. \/ Go(r, "probe1") \/ Finish(r, "starting")
        \/ t # None /\ Await(r, t)
    BY DEF EnterLoop
  <1>3. CASE Go(r, "probe1") BY <1>3 DEF Go, Typed
  <1>4. CASE Finish(r, "starting") BY <1>4 DEF Finish, Typed
  <1>5. CASE t # None /\ Await(r, t)
    BY <1>1, <1>5 DEF Await, Go, Finish, Typed
  <1> QED BY <1>2, <1>3, <1>4, <1>5

\* A step of one coroutine that creates and ends no task.
LEMMA CoroutineStep ==
    ASSUME ConstantsAssumption, Typed, StructureInv, TasksInv, NEW r \in Runners,
           pc[r] \notin {"idle", "wait", "done"},
           \A s \in Runners \ {r} : pc'[s] = pc[s] /\ on'[s] = on[s],
           pc'[r] = "wait" => on'[r] \in Runners /\ tstate[on'[r]] # "none",
           pc'[r] \in {"loop", "probe1", "lockWait", "probe2"} => kind[r] # "unloadAll",
           pc'[r] = "updating" => kind[r] = "update",
           kind[r] = "load" /\ PastGate(r)' => PastGate(r) \/ allTask = None,
           UNCHANGED <<kind, target, tstate, tasks, allTask, early>>
    PROVE  TasksInv'
  <1>1. KindsKept' BY DEF TasksInv, KindsKept
  <1>2. TasksNamed' BY DEF TasksInv, TasksNamed, OperationTask
  <1>3. AllTaskNamed' /\ OneGathers'
    BY DEF TasksInv, AllTaskNamed, OneGathers
  <1>4. WaitersAnswered' BY DEF TasksInv, WaitersAnswered
  <1>5. LateLoadsWait'
    <2>1. \A s \in Runners \ {r} : PastGate(s)' => PastGate(s)
      BY DEF PastGate
    <2> QED BY <2>1 DEF TasksInv, LateLoadsWait, Runners
  <1> QED BY <1>1, <1>2, <1>3, <1>4, <1>5 DEF TasksInv

\* The same for a coroutine that leaves, or ends up at a lock or a probe.
LEMMA GoStep ==
    ASSUME ConstantsAssumption, Typed, StructureInv, TasksInv, NEW r \in Runners,
           pc[r] \notin {"idle", "wait", "done"},
           \/ \E result \in {"ok", "starting", "failed", "rejected", "cancelled"} :
                  Finish(r, result)
           \/ \E place \in {"lockWait", "probe2"} : Go(r, place) /\ PastGate(r)
                                                     /\ kind[r] # "unloadAll"
           \/ Go(r, "updating") /\ kind[r] = "update",
           UNCHANGED <<kind, target, tstate, tasks, allTask, early>>
    PROVE  TasksInv'
  <1>1. tstate[r] = "none" BY DEF StructureInv, OwnTask
  <1>2. \A s \in Runners \ {r} : pc'[s] = pc[s] /\ on'[s] = on[s]
    BY DEF Finish, Go, Typed
  <1>3. \/ pc'[r] = "done"
        \/ pc'[r] \in {"lockWait", "probe2"} /\ PastGate(r) /\ kind[r] # "unloadAll"
        \/ pc'[r] = "updating" /\ kind[r] = "update"
    BY DEF Finish, Go, Typed
  <1>4. kind[r] = "load" /\ PastGate(r)' => PastGate(r)
    BY <1>1, <1>3 DEF PastGate, Running
  <1> QED BY <1>2, <1>3, <1>4, CoroutineStep

\* A coroutine that enters the loop past the gate, or when there is no barrier.
LEMMA EnterLoopStep ==
    ASSUME ConstantsAssumption, Typed, StructureInv, TasksInv, NEW r \in Runners,
           pc[r] \notin {"idle", "wait", "done"}, kind[r] # "unloadAll",
           kind[r] = "load" => PastGate(r) \/ allTask = None,
           NEW o \in {"load", "unload"}, EnterLoop(r, o),
           UNCHANGED <<kind, target, tstate, tasks, allTask, early>>
    PROVE  TasksInv'
  <1>1. /\ \A s \in Runners \ {r} : pc'[s] = pc[s] /\ on'[s] = on[s]
        /\ \/ pc'[r] \in {"probe1", "spin", "done"}
           \/ pc'[r] = "wait" /\ on'[r] \in Runners /\ OperationTask(on'[r])
    BY EnterLoopLeads
  <1>2. pc'[r] = "wait" => on'[r] \in Runners /\ tstate[on'[r]] # "none"
    BY <1>1 DEF OperationTask, Running, Ended
  <1> QED BY <1>1, <1>2, CoroutineStep

LEMMA InitTasks == ConstantsAssumption /\ Init => TasksInv
  BY DEF ConstantsAssumption, Init, TasksInv, KindsKept, TasksNamed, AllTaskNamed,
         OneGathers, WaitersAnswered, LateLoadsWait, Runners, Running

LEMMA ArriveTasks ==
    ASSUME ConstantsAssumption, Typed, StructureInv, TasksInv,
           NEW r \in Requests, Arrive(r)
    PROVE  TasksInv'
  <1>0. /\ r \in Runners /\ r \notin Models /\ tstate[r] = "none"
        /\ pc' = [pc EXCEPT ![r] = "gate"] /\ on' = [on EXCEPT ![r] = None]
        /\ \A s \in Runners \ {r} : kind'[s] = kind[s] /\ target'[s] = target[s]
        /\ early' = early \ {r}
        /\ UNCHANGED <<tstate, tasks, allTask>>
    BY DEF Arrive, Runners, ConstantsAssumption, Typed
  <1>1. \A s \in Runners : tstate[s] # "none" => s # r BY <1>0
  <1>2. \A t \in Runners : OperationTask(t)' <=> OperationTask(t)
    BY <1>0, <1>1 DEF OperationTask, Running, Ended
  <1>3. KindsKept' BY <1>0, <1>1 DEF TasksInv, KindsKept, Typed, Runners, Running
  <1>4. TasksNamed'
    BY <1>0, <1>1, <1>2 DEF TasksInv, TasksNamed, Typed, OperationTask, Running, Ended
  <1>5. AllTaskNamed' /\ OneGathers'
    BY <1>0, <1>1 DEF TasksInv, AllTaskNamed, OneGathers, Ended, Typed, Runners
  <1>6. WaitersAnswered' BY <1>0 DEF TasksInv, WaitersAnswered, Typed
  <1>7. LateLoadsWait'
    <2>1. ~PastGate(r)' BY <1>0 DEF PastGate, Running, Typed
    <2>2. \A s \in Runners \ {r} : PastGate(s)' => PastGate(s)
      BY <1>0, <1>1 DEF PastGate, TasksInv, WaitersAnswered, Typed
    <2> QED BY <1>0, <2>1, <2>2 DEF TasksInv, LateLoadsWait, Runners
  <1> QED BY <1>3, <1>4, <1>5, <1>6, <1>7 DEF TasksInv

LEMMA UnloadAllTasks ==
    ASSUME ConstantsAssumption, Typed, StructureInv, TasksInv,
           NEW r \in Requests, UnloadAll(r)
    PROVE  TasksInv'
  <1>0. /\ r \in Runners /\ r \notin Models /\ pc[r] = "gate" /\ kind[r] = "unloadAll"
        /\ tstate[r] = "none"
        /\ UNCHANGED <<kind, target, tasks>>
    BY DEF UnloadAll, Runners, ConstantsAssumption, At, StructureInv, OwnTask
  <1>1. CASE ~(allTask = None \/ tstate[allTask] \in Ended)
    <2>1. /\ pc' = [pc EXCEPT ![r] = "wait"]
          /\ on' = [on EXCEPT ![r] = allTask]
          /\ UNCHANGED <<allTask, tstate, early>>
      BY <1>1 DEF UnloadAll
    <2>2. allTask \in Runners /\ tstate[allTask] # "none"
      BY <1>1 DEF TasksInv, AllTaskNamed, Typed, Runners, Ended
    <2> QED BY <1>0, <2>1, <2>2, CoroutineStep DEF Typed
  <1>2. CASE allTask = None \/ tstate[allTask] \in Ended
    <2>1. /\ allTask' = r
          /\ tstate' = [tstate EXCEPT ![r] = "gathering"]
          /\ early' = {s \in Requests : PastGate(s)}
          /\ on' = [on EXCEPT ![r] = r]
          /\ pc' = [s \in Runners |-> IF s \in Models THEN "loop"
                                      ELSE IF s = r THEN "wait" ELSE pc[s]]
      BY <1>2 DEF UnloadAll
    <2>2. \A u \in Runners : tstate[u] # "gathering"
      BY <1>2 DEF TasksInv, OneGathers, Ended, ConstantsAssumption, Runners
    <2>3. KindsKept' BY <1>0, <2>1 DEF TasksInv, KindsKept, Typed, Running
    <2>4. \A t \in Runners : OperationTask(t)' <=> OperationTask(t)
      BY <1>0, <2>1 DEF OperationTask, Running, Ended, Typed
    <2>5. TasksNamed' BY <1>0, <2>4 DEF TasksInv, TasksNamed, Typed
    <2>6. AllTaskNamed' /\ OneGathers'
      BY <1>0, <2>1, <2>2 DEF AllTaskNamed, OneGathers, Typed
    <2>7. WaitersAnswered'
      BY <1>0, <2>1 DEF TasksInv, WaitersAnswered, Typed
    <2>8. LateLoadsWait'
      <3>1. \A s \in Requests : kind[s] = "load" /\ PastGate(s)' => PastGate(s)
        BY <1>0, <2>1 DEF PastGate, Typed, ConstantsAssumption, Runners, Running
      <3> QED BY <1>0, <2>1, <3>1 DEF LateLoadsWait
    <2> QED BY <2>3, <2>5, <2>6, <2>7, <2>8 DEF TasksInv
  <1> QED BY <1>1, <1>2

LEMMA HandlerTasks ==
    ASSUME ConstantsAssumption, Typed, StructureInv, TasksInv,
           NEW r \in Requests, Handler(r)
    PROVE  TasksInv'
  <1>0. r \in Runners BY DEF Runners
  <1>1. CASE PassGate(r)
    <2>0. /\ pc[r] = "gate" /\ kind[r] \in {"load", "unload"} /\ tstate[r] = "none"
          /\ UNCHANGED <<kind, target, want, tstate, tasks, locks, allTask, up,
                         orphaned, early>>
      BY <1>0, <1>1 DEF PassGate, At, StructureInv, OwnTask
    <2>1. CASE Finish(r, "rejected")
      BY <1>0, <2>0, <2>1, GoStep
    <2>2. CASE allTask # None /\ Await(r, allTask)
      <3>1. /\ allTask \in Runners /\ tstate[allTask] # "none"
            /\ kind[allTask] = "unloadAll"
        BY <2>2 DEF TasksInv, AllTaskNamed, Typed, Runners, Ended
      <3>2. /\ \A s \in Runners \ {r} : pc'[s] = pc[s] /\ on'[s] = on[s]
            /\ \/ pc'[r] \in {"spin", "done"}
               \/ pc'[r] = "wait" /\ on'[r] = allTask
        BY <1>0, <2>2, <3>1 DEF Await, Go, Finish, Typed
      <3>3. ~PastGate(r)' BY <2>0, <3>1, <3>2 DEF PastGate, Running
      <3> QED BY <1>0, <2>0, <3>1, <3>2, <3>3, CoroutineStep
    <2>3. CASE allTask = None /\ EnterLoop(r, kind[r])
      BY <1>0, <2>0, <2>3, EnterLoopStep
    <2> QED BY <1>1, <2>1, <2>2, <2>3 DEF PassGate
  <1>2. CASE BeginUpdate(r)
    BY <1>0, <1>2, GoStep DEF BeginUpdate, At
  <1>3. CASE EndUpdate(r)
    <2>0. /\ pc[r] = "updating" /\ kind[r] = "update"
          /\ UNCHANGED <<kind, target, tstate, tasks, allTask, early>>
      BY <1>0, <1>3 DEF EndUpdate, At, TasksInv, KindsKept
    <2>1. ASSUME NEW result \in {"ok", "failed"}, Finish(r, result) PROVE TasksInv'
      BY <1>0, <2>0, <2>1, GoStep
    <2>2. CASE EnterLoop(r, "unload")
      BY <1>0, <2>0, <2>2, EnterLoopStep
    <2> QED BY <1>3, <2>1, <2>2 DEF EndUpdate
  <1>4. CASE UnloadAll(r) BY <1>4, UnloadAllTasks
  <1>5. CASE Rejected(r)
    BY <1>0, <1>5, GoStep DEF Rejected, At
  <1> QED BY <1>1, <1>2, <1>3, <1>4, <1>5 DEF Handler

LEMMA CancelTasks ==
    ASSUME ConstantsAssumption, Typed, StructureInv, TasksInv,
           NEW r \in Requests, Cancel(r)
    PROVE  TasksInv'
  <1>0. r \in Runners BY DEF Runners
  <1>1. CASE CancelHolder(r)
    BY <1>0, <1>1, GoStep DEF CancelHolder, LeaveLock, At
  <1>2. CASE CancelWaiter(r)
    BY <1>0, <1>2, GoStep DEF CancelWaiter, Cancelled, At
  <1>3. CASE CancelElsewhere(r)
    <2>1. /\ pc' = [pc EXCEPT ![r] = "done"]
          /\ UNCHANGED <<kind, target, on, tstate, tasks, allTask, early>>
      BY <1>3 DEF CancelElsewhere, Cancelled, Finish
    <2>2. KindsKept' /\ TasksNamed' /\ AllTaskNamed' /\ OneGathers' /\ WaitersAnswered'
      BY <1>0, <2>1 DEF TasksInv, KindsKept, TasksNamed, AllTaskNamed, OneGathers,
                        WaitersAnswered, OperationTask, Typed
    <2>3. \A s \in Requests : PastGate(s)' => PastGate(s)
      BY <1>0, <2>1 DEF PastGate, Typed
    <2>4. LateLoadsWait' BY <2>1, <2>3 DEF TasksInv, LateLoadsWait
    <2> QED BY <2>2, <2>4 DEF TasksInv
  <1> QED BY <1>1, <1>2, <1>3 DEF Cancel

LEMMA CoroutineTasks ==
    ASSUME ConstantsAssumption, Typed, StructureInv, TasksInv,
           NEW r \in Runners, Coroutine(r)
    PROVE  TasksInv'
  <1>0. op[r] \in {"load", "unload"} BY DEF Typed
  <1>a. ASSUME pc[r] \in {"loop", "probe1", "lockWait", "probe2"}
        PROVE  PastGate(r) /\ kind[r] # "unloadAll"
    BY <1>a DEF PastGate, TasksInv, KindsKept
  <1>1. CASE Loop(r)
    BY <1>0, <1>1, <1>a, EnterLoopStep DEF Loop, At
  <1>2. CASE ProbeUnlocked(r)
    BY <1>2, GoStep DEF ProbeUnlocked, At
  <1>3. CASE TakeLock(r)
    <2>0. pc[r] = "probe1" /\ UNCHANGED <<kind, target, tstate, tasks, allTask, early>>
      BY <1>3 DEF TakeLock, At
    <2>1. CASE \E place \in {"lockWait", "probe2"} : Go(r, place)
      BY <1>a, <2>0, <2>1, GoStep
    <2>2. CASE EnterLoop(r, op[r])
      BY <1>0, <1>a, <2>0, <2>2, EnterLoopStep
    <2> QED BY <1>3, <2>1, <2>2 DEF TakeLock
  <1>4. CASE Acquire(r)
    <2>0. pc[r] = "lockWait" /\ UNCHANGED <<kind, target, tstate, tasks, allTask, early>>
      BY <1>4 DEF Acquire, At
    <2>1. CASE Go(r, "probe2") BY <1>a, <2>0, <2>1, GoStep
    <2>2. CASE EnterLoop(r, op[r]) BY <1>0, <1>a, <2>0, <2>2, EnterLoopStep
    <2> QED BY <1>4, <2>1, <2>2 DEF Acquire
  <1>5. CASE ProbeLocked(r)
    BY <1>5, GoStep DEF ProbeLocked, LeaveLock, At
  <1>6. CASE StartTask(r)
    <2>0. /\ pc[r] = "probe2" /\ tstate[r] = "none" /\ kind[r] # "unloadAll"
          /\ target[r] \in Models
          /\ tasks' = [tasks EXCEPT ![target[r]] = r]
          /\ tstate' = [tstate EXCEPT ![r] = "created"]
          /\ pc' = [pc EXCEPT ![r] = "wait"]
          /\ on' = [on EXCEPT ![r] = r]
          /\ UNCHANGED <<kind, target, allTask, early>>
      BY <1>6, <1>a DEF StartTask, At, StructureInv, OwnTask, Typed
    <2>1. KindsKept' BY <2>0 DEF TasksInv, KindsKept, Typed
    <2>2. TasksNamed'
      BY <2>0 DEF TasksInv, TasksNamed, OperationTask, Running, Ended, Typed
    <2>3. AllTaskNamed' /\ OneGathers'
      BY <2>0 DEF TasksInv, AllTaskNamed, OneGathers, Ended, Typed, Runners
    <2>4. WaitersAnswered' BY <2>0 DEF TasksInv, WaitersAnswered, Typed
    <2>5. \A s \in Requests : PastGate(s)' => PastGate(s)
      BY <2>0 DEF PastGate, Typed, Runners
    <2>6. LateLoadsWait'
      BY <2>0, <2>5 DEF TasksInv, LateLoadsWait, Ended, Typed, Runners
    <2> QED BY <2>1, <2>2, <2>3, <2>4, <2>6 DEF TasksInv
  <1> QED BY <1>1, <1>2, <1>3, <1>4, <1>5, <1>6 DEF Coroutine

LEMMA TaskTasks ==
    ASSUME ConstantsAssumption, Typed, StructureInv, TasksInv,
           NEW t \in Runners, Task(t)
    PROVE  TasksInv'
  <1>1. ASSUME NEW s \in Running \cup Ended, tstate[t] \in Running, TaskStep(t, s)
        PROVE  TasksInv'
    <2>0. /\ tstate' = [tstate EXCEPT ![t] = s] /\ kind[t] # "unloadAll"
          /\ UNCHANGED <<pc, kind, target, on, tasks, allTask, early>>
      BY <1>1 DEF TaskStep, TasksInv, KindsKept
    <2>1. KindsKept' BY <2>0 DEF TasksInv, KindsKept, Typed, Running, Ended
    <2>2. TasksNamed' BY <2>0 DEF TasksInv, TasksNamed, OperationTask, Typed
    <2>3. AllTaskNamed' /\ OneGathers'
      BY <2>0 DEF TasksInv, AllTaskNamed, OneGathers, Running, Ended, Typed, Runners
    <2>4. WaitersAnswered'
      BY <2>0 DEF TasksInv, WaitersAnswered, Running, Ended, Typed
    <2>5. \A r \in Requests : PastGate(r)' => PastGate(r)
      BY <1>1, <2>0 DEF PastGate, Typed, Runners
    <2>6. LateLoadsWait'
      BY <2>0, <2>5 DEF TasksInv, AllTaskNamed, LateLoadsWait, Typed, Runners
    <2> QED BY <2>1, <2>2, <2>3, <2>4, <2>6 DEF TasksInv
  <1>2. CASE Send(t) \/ AnswerLoad(t) \/ AnswerUnload(t) \/ Confirm(t)
    <2>1. tstate[t] \in Running /\ \E s \in Running \cup Ended : TaskStep(t, s)
      BY <1>2 DEF Send, AnswerLoad, AnswerUnload, Confirm, TaskAt, Running, Ended
    <2> QED BY <1>1, <2>1
  <1>3. CASE Gather(t)
    <2>0. /\ tstate[t] = "gathering" /\ kind[t] = "unloadAll"
          /\ \E s \in Ended : tstate' = [tstate EXCEPT ![t] = s]
          /\ pc' = [r \in Runners |-> IF r \in Models THEN "idle" ELSE pc[r]]
          /\ UNCHANGED <<kind, target, on, tasks, allTask, early>>
      BY <1>3 DEF Gather, TaskAt, Ended
    <2>1. KindsKept' BY <2>0 DEF TasksInv, KindsKept, Typed, Ended, Running
    <2>2. TasksNamed'
      BY <2>0 DEF TasksInv, TasksNamed, OperationTask, Running, Ended, Typed
    <2>3. AllTaskNamed' /\ OneGathers'
      BY <2>0 DEF TasksInv, AllTaskNamed, OneGathers, Ended, Typed, Runners
    <2>4. WaitersAnswered' BY <2>0 DEF TasksInv, WaitersAnswered, Typed, Ended
    <2>5. LateLoadsWait'
      BY <2>0 DEF TasksInv, OneGathers, LateLoadsWait, Ended, Typed, Runners
    <2> QED BY <2>1, <2>2, <2>3, <2>4, <2>5 DEF TasksInv
  <1> QED BY <1>2, <1>3 DEF Task

\* The callbacks of t free all that awaited it, and nothing names t any more.
LEMMA CallbackTasks ==
    ASSUME ConstantsAssumption, Typed, StructureInv, TasksInv,
           NEW t \in Runners, Callback(t)
    PROVE  TasksInv'
  <1> DEFINE woken == {r \in Runners : pc[r] = "wait" /\ on[r] = t}
  <1>0. /\ tstate[t] \in Ended /\ tstate' = [tstate EXCEPT ![t] = "none"]
        /\ Wake(t) /\ UNCHANGED <<kind, target, early>>
        /\ \/ /\ kind[t] # "unloadAll" /\ PopTask(t) /\ UNCHANGED allTask
           \/ /\ kind[t] = "unloadAll" /\ LiftBarrier(t) /\ UNCHANGED tasks
    BY DEF Callback, CompleteTask, CompleteUnloadAll, Completes, Wake
  <1>1. /\ \A r \in Runners \ woken : pc'[r] = pc[r] /\ on'[r] = on[r]
        /\ \A r \in woken : pc'[r] \in {"done", "gate", "loop"}
        /\ \A r \in woken : pc'[r] = "loop" =>
              kind[t] # "unloadAll" /\ (kind[r] # "unloadAll" \/ r = t)
    BY <1>0 DEF Wake, Returns, Typed
  <1>2. \A r \in woken : pc'[r] = "loop" => PastGate(r) /\ kind[r] # "unloadAll"
    BY <1>1 DEF PastGate
  <1>3. KindsKept'
    <2>1. \A r \in Runners :
             pc'[r] \in {"loop", "probe1", "lockWait", "probe2"} => kind[r] # "unloadAll"
      BY <1>1, <1>2 DEF TasksInv, KindsKept
    <2>2. \A r \in Runners : pc'[r] = "updating" => kind[r] = "update"
      BY <1>1 DEF TasksInv, KindsKept
    <2> QED BY <1>0, <2>1, <2>2 DEF TasksInv, KindsKept, Typed, Running
  <1>4. TasksNamed'
    <2>1. \A s \in Runners \ {t} : OperationTask(s)' <=> OperationTask(s)
      BY <1>0 DEF OperationTask, Typed
    <2>2. \A m \in Models : tasks'[m] # None => tasks'[m] = tasks[m] /\ tasks[m] # t
      BY <1>0 DEF PopTask, TasksInv, TasksNamed, OperationTask, Running, Ended, Typed
    <2> QED BY <1>0, <2>1, <2>2 DEF TasksInv, TasksNamed, Typed
  <1>5. AllTaskNamed' /\ OneGathers'
    <2>1. \/ allTask' = allTask /\ allTask # t
          \/ allTask = t /\ allTask' = None
      BY <1>0, ConstantsAssumption DEF LiftBarrier, TasksInv, AllTaskNamed,
                                       ConstantsAssumption, Runners
    <2> QED BY <1>0, <2>1 DEF TasksInv, AllTaskNamed, OneGathers, Ended, Typed, Runners
  <1>6. WaitersAnswered' BY <1>0, <1>1 DEF TasksInv, WaitersAnswered, Typed
  <1>7. LateLoadsWait'
    <2>1. \A r \in Requests : PastGate(r)' => PastGate(r)
      <3> SUFFICES ASSUME NEW r \in Requests, PastGate(r)' PROVE PastGate(r)
        OBVIOUS
      <3>0. r \in Runners BY DEF Runners
      <3>1. CASE tstate'[r] \in Running
        BY <1>0, <3>0, <3>1 DEF PastGate, Typed, Running
      <3>2. CASE r \in woken /\ tstate'[r] \notin Running
        BY <1>1, <1>2, <3>2 DEF PastGate
      <3>3. CASE r \notin woken /\ tstate'[r] \notin Running
        BY <1>0, <1>1, <3>0, <3>3 DEF PastGate
      <3> QED BY <3>1, <3>2, <3>3
    <2>2. allTask' # None => allTask' = allTask
      BY <1>0 DEF LiftBarrier
    <2> QED BY <1>0, <2>1, <2>2 DEF TasksInv, LateLoadsWait, Typed, Runners
  <1> QED BY <1>3, <1>4, <1>5, <1>6, <1>7 DEF TasksInv

LEMMA NextTasks ==
    ASSUME ConstantsAssumption, Typed, StructureInv, TasksInv, [Next]_vars
    PROVE  TasksInv'
  <1>1. CASE UNCHANGED vars
    BY <1>1 DEF vars, TasksInv, KindsKept, TasksNamed, AllTaskNamed, OneGathers,
                WaitersAnswered, LateLoadsWait, OperationTask, PastGate
  <1>2. ASSUME NEW m \in Models, Upstream(m) PROVE TasksInv'
    BY <1>2 DEF Upstream, TasksInv, KindsKept, TasksNamed, AllTaskNamed, OneGathers,
                WaitersAnswered, LateLoadsWait, OperationTask, PastGate
  <1>3. CASE (\E r \in Runners : Spin(r)) \/ Quiet
    BY <1>1, <1>3 DEF Spin, Quiet
  <1> QED
    BY <1>1, <1>2, <1>3, ArriveTasks, HandlerTasks, CancelTasks, CoroutineTasks,
       TaskTasks, CallbackTasks DEF Next

THEOREM TasksInvariant == Spec => [](Typed /\ StructureInv /\ TasksInv)
  <1>1. Init => StructureInv /\ TasksInv
    BY InitStructure, InitTasks, ConstantsAssumption
  <1>2. Typed /\ StructureInv /\ TasksInv /\ [Next]_vars => StructureInv' /\ TasksInv'
    BY NextStructure, NextTasks, ConstantsAssumption
  <1> QED BY <1>1, <1>2, TypeCorrect, PTL DEF Spec

\* _lifecycle_tasks, _unload_all_task and every await only name tasks whose
\* callbacks are still to come: _finish_lifecycle_task and _finish_unload_all
\* never leave a request coalescing with an operation that is over.
THEOREM NoDeadTaskHolds == Spec => []NoDeadTask
  <1>1. Typed /\ TasksInv => NoDeadTask
    BY DEF NoDeadTask, TasksInv, TasksNamed, AllTaskNamed, WaitersAnswered,
           OperationTask, Running, Ended
  <1> QED BY <1>1, TasksInvariant, PTL

\* A load that runs upstream while unload-all gathers had passed the gate
\* before it: the barrier load and unload check under _service_gate is sound.
THEOREM UnloadAllBarrierHolds == Spec => []UnloadAllBarrier
  <1>1. ConstantsAssumption /\ TasksInv => UnloadAllBarrier
    <2> SUFFICES ASSUME ConstantsAssumption, TasksInv, NEW u \in Requests,
                        NEW t \in Requests, tstate[u] = "gathering",
                        tstate[t] \in Running, kind[t] = "load"
                 PROVE  t \in early
      BY DEF UnloadAllBarrier
    <2>1. allTask = u /\ u # None
      BY DEF TasksInv, OneGathers, Runners, ConstantsAssumption
    <2>2. PastGate(t) BY DEF PastGate
    <2> QED BY <2>1, <2>2 DEF TasksInv, LateLoadsWait
  <1> QED BY <1>1, ConstantsAssumption, TasksInvariant, PTL

-----------------------------------------------------------------------------
(* Mutual exclusion. *)

\* A step that lets nobody reach for a lock keeps the exclusion.
LEMMA ExclusionFrame ==
    ASSUME Exclusion,
           \A s \in Runners : pc'[s] \in {"lockWait", "probe2"} =>
               pc'[s] = pc[s] /\ want'[s] = want[s]
    PROVE  Exclusion'
  BY DEF Exclusion, LockUsers

\* Nor does a runner that moves on to another place.
LEMMA MoveExcludes ==
    ASSUME Typed, Exclusion, NEW r \in Runners, UNCHANGED want,
           \/ \E place \in {"updating", "loop", "probe1", "spin"} : Go(r, place)
           \/ \E result \in {"ok", "starting", "failed", "rejected",
                             "cancelled"} : Finish(r, result)
           \/ \E t \in Runners : Await(r, t)
    PROVE  Exclusion'
  <1>1. \A s \in Runners : pc'[s] \in {"lockWait", "probe2"} => pc'[s] = pc[s]
    BY DEF Typed, Go, Finish, Await
  <1> QED BY <1>1, ExclusionFrame

LEMMA EnterLoopMoves ==
    ASSUME Typed, NEW r \in Runners, NEW o \in {"load", "unload"}, EnterLoop(r, o)
    PROVE  \/ Go(r, "probe1") \/ Finish(r, "starting")
           \/ \E t \in Runners : Await(r, t)
  <1>1. tasks[target[r]] # None => tasks[target[r]] \in Runners
    BY DEF Typed
  <1> QED BY <1>1 DEF EnterLoop

\* A runner that ends outside, whatever becomes of its lock.
LEMMA FinishExcludes ==
    ASSUME Typed, Exclusion, NEW r \in Runners, NEW result, Finish(r, result),
           want' = [want EXCEPT ![r] = None]
    PROVE  Exclusion'
  <1>1. \A s \in Runners : pc'[s] \in {"lockWait", "probe2"} =>
            pc'[s] = pc[s] /\ want'[s] = want[s]
    BY DEF Typed, Finish
  <1> QED BY <1>1, ExclusionFrame

\* Whoever queues or goes inside has the lock; inside, nobody else had it.
LEMMA TakeLockExcludes ==
    ASSUME Typed, Exclusion, NEW r \in Runners, TakeLock(r)
    PROVE  Exclusion'
  <1>1. PICK l \in Locks :
           \/ want' = [want EXCEPT ![r] = l] /\ Go(r, "lockWait")
           \/ ~Locked(l) /\ want' = [want EXCEPT ![r] = l] /\ Go(r, "probe2")
           \/ EnterLoop(r, op[r]) /\ UNCHANGED want
    BY DEF TakeLock
  <1>2. CASE want' = [want EXCEPT ![r] = l] /\ Go(r, "lockWait")
    BY <1>2 DEF Typed, Exclusion, LockUsers, Go
  <1>3. CASE ~Locked(l) /\ want' = [want EXCEPT ![r] = l] /\ Go(r, "probe2")
    BY <1>3 DEF Typed, Exclusion, LockUsers, Go, Locked
  <1>4. CASE EnterLoop(r, op[r]) /\ UNCHANGED want
    <2>1. op[r] \in {"load", "unload"} BY DEF Typed
    <2> QED BY <1>4, <2>1, EnterLoopMoves, MoveExcludes
  <1> QED BY <1>1, <1>2, <1>3, <1>4

LEMMA AcquireExcludes ==
    ASSUME Typed, Exclusion, NEW r \in Runners, Acquire(r)
    PROVE  Exclusion'
  <1>1. CASE tasks[target[r]] = None
    <2>1. ~Locked(want[r]) /\ Go(r, "probe2") /\ UNCHANGED want /\ r \in LockUsers
      BY <1>1 DEF Acquire, At, LockUsers
    <2> QED BY <2>1 DEF Typed, Exclusion, LockUsers, Go, Locked
  <1>2. CASE tasks[target[r]] # None
    <2>1. op[r] \in {"load", "unload"} BY DEF Typed
    <2>2. EnterLoop(r, op[r]) /\ want' = [want EXCEPT ![r] = None]
      BY <1>2 DEF Acquire
    <2>3. \A s \in Runners : pc'[s] \in {"lockWait", "probe2"} =>
              pc'[s] = pc[s] /\ s # r
      BY <2>1, <2>2, EnterLoopMoves DEF Typed, Go, Finish, Await
    <2>4. \A s \in Runners : pc'[s] \in {"lockWait", "probe2"} =>
              pc'[s] = pc[s] /\ want'[s] = want[s]
      BY <2>2, <2>3 DEF Typed
    <2> QED BY <2>4, ExclusionFrame
  <1> QED BY <1>1, <1>2

LEMMA NextExcludes ==
    ASSUME Typed, StructureInv, Exclusion, [Next]_vars PROVE Exclusion'
  <1>0. CASE UNCHANGED vars BY <1>0 DEF vars, Exclusion, LockUsers
  <1>1. ASSUME NEW r \in Requests, Arrive(r) PROVE Exclusion'
    BY <1>1, ExclusionFrame DEF Arrive, Typed
  <1>2. ASSUME NEW r \in Requests, Handler(r) PROVE Exclusion'
    <2>0. r \in Runners BY DEF Runners
    <2>1. CASE PassGate(r)
      <3>1. UNCHANGED want /\ kind[r] \in {"load", "unload"} BY <2>1 DEF PassGate
      <3>2. allTask # None => allTask \in Runners BY DEF Typed, Runners
      <3> QED BY <2>0, <2>1, <3>1, <3>2, EnterLoopMoves, MoveExcludes DEF PassGate
    <2>2. CASE BeginUpdate(r) \/ Rejected(r)
      BY <2>0, <2>2, MoveExcludes DEF BeginUpdate, Rejected
    <2>3. CASE EndUpdate(r)
      BY <2>0, <2>3, EnterLoopMoves, MoveExcludes DEF EndUpdate
    <2>4. CASE UnloadAll(r)
      BY <2>4, ExclusionFrame DEF UnloadAll, Typed
    <2> QED BY <1>2, <2>1, <2>2, <2>3, <2>4 DEF Handler
  <1>3. ASSUME NEW r \in Requests, Cancel(r) PROVE Exclusion'
    <2>0. r \in Runners BY DEF Runners
    <2>1. CASE CancelHolder(r) \/ CancelWaiter(r)
      BY <2>0, <2>1, FinishExcludes DEF CancelHolder, LeaveLock, CancelWaiter, Cancelled
    <2>2. CASE CancelElsewhere(r)
      BY <2>0, <2>2, MoveExcludes DEF CancelElsewhere, Cancelled
    <2> QED BY <1>3, <2>1, <2>2 DEF Cancel
  <1>4. ASSUME NEW r \in Runners, Coroutine(r) PROVE Exclusion'
    <2>1. CASE Loop(r)
      <3>1. op[r] \in {"load", "unload"} BY DEF Typed
      <3> QED BY <2>1, <3>1, EnterLoopMoves, MoveExcludes DEF Loop
    <2>2. CASE ProbeUnlocked(r)
      BY <2>2, MoveExcludes DEF ProbeUnlocked
    <2>3. CASE TakeLock(r) BY <2>3, TakeLockExcludes
    <2>4. CASE Acquire(r) BY <2>4, AcquireExcludes
    <2>5. CASE ProbeLocked(r)
      BY <2>5, FinishExcludes DEF ProbeLocked, LeaveLock
    <2>6. CASE StartTask(r)
      BY <2>6, ExclusionFrame DEF StartTask, Typed
    <2> QED BY <1>4, <2>1, <2>2, <2>3, <2>4, <2>5, <2>6 DEF Coroutine
  <1>5. ASSUME NEW t \in Runners, Task(t) PROVE Exclusion'
    <2>1. CASE Gather(t)
      BY <2>1, ExclusionFrame DEF Gather, Typed
    <2>2. CASE Send(t) \/ AnswerLoad(t) \/ AnswerUnload(t) \/ Confirm(t)
      <3>1. UNCHANGED <<pc, want>>
        BY <2>2 DEF Send, AnswerLoad, AnswerUnload, Confirm, TaskStep
      <3> QED BY <3>1 DEF Exclusion, LockUsers
    <2> QED BY <1>5, <2>1, <2>2 DEF Task
  <1>6. ASSUME NEW t \in Runners, Callback(t) PROVE Exclusion'
    <2>1. Wake(t) /\ tstate[t] # "none" /\ want' \in {want, [want EXCEPT ![t] = None]}
      BY <1>6 DEF Callback, CompleteTask, CompleteUnloadAll, Completes, Ended
    <2>2. pc[t] \notin {"lockWait", "probe2"} BY <2>1 DEF StructureInv, OwnTask
    <2>3. \A s \in Runners : pc'[s] \in {"lockWait", "probe2"} => pc'[s] = pc[s]
      BY <2>1 DEF Wake, Typed
    <2>4. \A s \in Runners : pc'[s] \in {"lockWait", "probe2"} => want'[s] = want[s]
      BY <2>1, <2>2, <2>3 DEF Typed
    <2> QED BY <2>3, <2>4, ExclusionFrame
  <1>7. ASSUME NEW m \in Models, Upstream(m) PROVE Exclusion'
    BY <1>7 DEF Upstream, Exclusion, LockUsers
  <1>8. CASE (\E r \in Runners : Spin(r)) \/ Quiet
    BY <1>0, <1>8 DEF Spin, Quiet
  <1> QED BY <1>0, <1>1, <1>2, <1>3, <1>4, <1>5, <1>6, <1>7, <1>8 DEF Next

\* Every variable keeps its type, and the critical section of
\* _run_lifecycle_operation has at most one coroutine inside per lock object,
\* also while an orphaned lock and a new one of the same model exist.
THEOREM LifecycleTypeCorrect == Spec => []LifecycleTypeOK
  <1>1. Init => Exclusion BY DEF Init, Exclusion, LockUsers
  <1>2. Typed /\ StructureInv /\ Exclusion /\ [Next]_vars => Exclusion'
    BY NextExcludes
  <1> QED BY <1>1, <1>2, TasksInvariant, PTL DEF Spec, LifecycleTypeOK

-----------------------------------------------------------------------------
(* Locks are given back.                                                   *)
(*                                                                         *)
(* As long as no lock of m was orphaned, the object in the dictionary is   *)
(* the one that the users of m refer to, and it has a user: whoever is the *)
(* last one discards it.  A lock object never serves two models.           *)

UsesLock(r) == pc[r] \in {"lockWait", "probe2"} \/ OperationTask(r)

LocksDistinct == \A m, n \in Models : locks[m] # None /\ locks[m] = locks[n] => m = n
LockOwner ==
    \A r \in Runners, m \in Models :
        want[r] # None /\ locks[m] = want[r] => target[r] = m
WantUse == \A r \in Runners : want[r] # None => UsesLock(r)
TaskLock(m) ==
    \A t \in Runners : OperationTask(t) /\ target[t] = m =>
        want[t] = locks[m] /\ locks[m] # None
LockInUse(m) == locks[m] # None => \E r \in Runners : target[r] = m /\ UsesLock(r)

LocksInv ==
    /\ LocksDistinct /\ LockOwner /\ WantUse
    /\ \A m \in Models \ orphaned : TaskLock(m) /\ LockInUse(m)

CoordinatorInv == Typed /\ StructureInv /\ SingleFlightInv /\ TasksInv /\ LocksInv

\* A runner that uses a lock has not come to rest.
LEMMA UserBusy ==
    ASSUME StructureInv, NEW r \in Runners
    PROVE  /\ UsesLock(r) => tstate[r] # "none" \/ pc[r] \in {"lockWait", "probe2"}
           /\ pc[r] \notin {"wait", "done"} => tstate[r] = "none" /\ ~OperationTask(r)
  BY DEF StructureInv, OwnTask, UsesLock, OperationTask, Running, Ended

\* A step that nobody takes or leaves a lock in.
LEMMA LocksFrame ==
    ASSUME LocksInv, UNCHANGED <<want, locks, orphaned>>,
           \A r \in Runners : /\ UsesLock(r)' <=> UsesLock(r)
                              /\ OperationTask(r)' <=> OperationTask(r)
                              /\ UsesLock(r) => target'[r] = target[r]
    PROVE  LocksInv'
  <1>1. LocksDistinct' BY DEF LocksInv, LocksDistinct
  <1>2. LockOwner' BY DEF LocksInv, LockOwner, WantUse
  <1>3. WantUse' BY DEF LocksInv, WantUse
  <1>4. ASSUME NEW m \in Models \ orphaned' PROVE TaskLock(m)'
    BY DEF LocksInv, TaskLock, UsesLock
  <1>5. ASSUME NEW m \in Models \ orphaned' PROVE LockInUse(m)'
    BY DEF LocksInv, LockInUse
  <1> QED BY <1>1, <1>2, <1>3, <1>4, <1>5 DEF LocksInv

\* What leaving a lock does to the dictionary and to the others.
LEMMA LeavingLocks ==
    ASSUME LocksInv, Typed, NEW r \in Runners,
           want' = [want EXCEPT ![r] = None],
           \A m \in Models : locks'[m] = locks[m] \/ locks'[m] = None,
           \A s \in Runners \ {r} : UsesLock(s)' <=> UsesLock(s),
           UNCHANGED target
    PROVE  LocksDistinct' /\ LockOwner' /\ WantUse'
  <1>1. LocksDistinct' BY DEF LocksInv, LocksDistinct
  <1>2. LockOwner' BY DEF LocksInv, LockOwner, Typed
  <1>3. WantUse' BY DEF LocksInv, WantUse, Typed
  <1> QED BY <1>1, <1>2, <1>3

\* A runner in the critical section, or queued for it, that gives up.
LEMMA LeaveLockReclaims ==
    ASSUME ConstantsAssumption, CoordinatorInv, NEW r \in Runners, pc[r] = "probe2",
           NEW result \in {"ok", "starting", "failed", "rejected", "cancelled"},
           LeaveLock(r, result)
    PROVE  LocksInv'
  <1> DEFINE n == target[r]
  <1> USE DEF CoordinatorInv
  <1>0. /\ n \in Models /\ want[r] \in Locks \cup {None}
        /\ want' = [want EXCEPT ![r] = None]
        /\ pc' = [pc EXCEPT ![r] = "done"]
        /\ tstate[r] = "none" /\ ~OperationTask(r)
        /\ UNCHANGED <<kind, target, tstate, tasks>>
    BY UserBusy DEF LeaveLock, Finish, Typed
  <1>1. \A m \in Models : locks'[m] = locks[m] \/ (m = n /\ locks'[m] = None)
    BY <1>0 DEF LeaveLock, DiscardLock, Typed
  <1>2. \A s \in Runners : OperationTask(s)' <=> OperationTask(s)
    BY <1>0 DEF OperationTask
  <1>3. \A s \in Runners \ {r} : UsesLock(s)' <=> UsesLock(s)
    BY <1>0, <1>2 DEF UsesLock, Typed
  <1>4. LocksDistinct' /\ LockOwner' /\ WantUse'
    BY <1>0, <1>1, <1>3, LeavingLocks
  <1>5. orphaned \subseteq orphaned'
    BY <1>0, DiscardGuarded DEF LeaveLock, DiscardLock
  <1> SUFFICES ASSUME NEW m \in Models \ orphaned' PROVE TaskLock(m)' /\ LockInUse(m)'
    BY <1>4 DEF LocksInv
  <1>6. Guarded(m) /\ TaskLock(m) /\ LockInUse(m)
    BY <1>5 DEF SingleFlightInv, LocksInv
  <1>7. m = n => tasks[n] = None /\ locks[n] = want[r] /\ locks'[n] = None
    BY <1>0, <1>6 DEF Guarded, HolderAlone, SameLock, LeaveLock, DiscardLock, Typed
  <1>8. TaskLock(m)'
    <2> SUFFICES ASSUME NEW t \in Runners, OperationTask(t), target[t] = m
                 PROVE  want'[t] = locks'[m] /\ locks'[m] # None
      BY <1>0, <1>2 DEF TaskLock
    <2>1. tasks[m] = t BY <1>6 DEF Guarded, TaskKnown
    <2>2. m # n BY <1>7, <2>1 DEF ConstantsAssumption, Runners
    <2> QED BY <1>0, <1>1, <1>6, <2>2 DEF TaskLock, Typed
  <1>9. LockInUse(m)'
    BY <1>0, <1>1, <1>3, <1>6, <1>7 DEF LockInUse
  <1> QED BY <1>8, <1>9

LEMMA CancelWaiterReclaims ==
    ASSUME ConstantsAssumption, CoordinatorInv, NEW r \in Runners, CancelWaiter(r)
    PROVE  LocksInv'
  <1> DEFINE n == target[r]
  <1> USE DEF CoordinatorInv
  <1>0. /\ n \in Models /\ pc[r] = "lockWait"
        /\ want' = [want EXCEPT ![r] = None]
        /\ pc' = [pc EXCEPT ![r] = "done"]
        /\ tstate[r] = "none" /\ ~OperationTask(r)
        /\ UNCHANGED <<kind, target, tstate, tasks>>
    BY UserBusy DEF CancelWaiter, Cancelled, At, Finish, Typed
  <1>1. \A m \in Models :
           locks'[m] = locks[m] \/ (m = n /\ locks'[m] = None /\ tasks[n] = None)
    BY <1>0 DEF CancelWaiter, Typed
  <1>2. \A s \in Runners : OperationTask(s)' <=> OperationTask(s)
    BY <1>0 DEF OperationTask
  <1>3. \A s \in Runners \ {r} : UsesLock(s)' <=> UsesLock(s)
    BY <1>0, <1>2 DEF UsesLock, Typed
  <1>4. LocksDistinct' /\ LockOwner' /\ WantUse'
    BY <1>0, <1>1, <1>3, LeavingLocks
  <1>5. orphaned \subseteq orphaned' BY DEF CancelWaiter
  <1> SUFFICES ASSUME NEW m \in Models \ orphaned' PROVE TaskLock(m)' /\ LockInUse(m)'
    BY <1>4 DEF LocksInv
  <1>6. Guarded(m) /\ TaskLock(m) /\ LockInUse(m)
    BY <1>5 DEF SingleFlightInv, LocksInv
  <1>8. TaskLock(m)'
    <2> SUFFICES ASSUME NEW t \in Runners, OperationTask(t), target[t] = m
                 PROVE  want'[t] = locks'[m] /\ locks'[m] # None
      BY <1>0, <1>2 DEF TaskLock
    <2>1. tasks[m] = t BY <1>6 DEF Guarded, TaskKnown
    <2>2. m = n => tasks[n] # None BY <2>1 DEF ConstantsAssumption, Runners
    <2> QED BY <1>0, <1>1, <1>6, <2>2 DEF TaskLock, Typed
  <1>9. LockInUse(m)'
    <2> SUFFICES ASSUME locks'[m] # None
                 PROVE  \E s \in Runners : target[s] = m /\ UsesLock(s)'
      BY <1>0 DEF LockInUse
    <2>1. CASE m # n BY <1>0, <1>1, <1>3, <1>6, <2>1 DEF LockInUse
    <2>2. CASE m = n /\ tasks[n] # None
      <3>1. tasks[n] \in Runners /\ OperationTask(tasks[n]) /\ target[tasks[n]] = n
        BY <1>0, <2>2 DEF TasksInv, TasksNamed, Typed
      <3> QED BY <1>2, <2>2, <3>1 DEF UsesLock
    <2>3. CASE m = n /\ tasks[n] = None
      <3>1. want[r] = locks[n] /\ locks[n] # None
        BY <1>0, <1>6, <2>3 DEF Guarded, SameLock
      <3>2. Locked(want[r]) BY <1>0, <2>3, <3>1 DEF CancelWaiter, Typed
      <3>3. PICK s \in Runners : pc[s] = "probe2" /\ want[s] = want[r]
        BY <3>2 DEF Locked
      <3>4. target[s] = n BY <1>0, <3>1, <3>3 DEF LocksInv, LockOwner
      <3> QED BY <1>0, <1>3, <2>3, <3>3, <3>4 DEF UsesLock
    <2> QED BY <2>1, <2>2, <2>3
  <1> QED BY <1>8, <1>9

\* Whoever queues for the lock of a model, or meets a task at it, leaves the
\* lock in use.
LEMMA TakeLockReclaims ==
    ASSUME ConstantsAssumption, CoordinatorInv, NEW r \in Runners, TakeLock(r)
    PROVE  LocksInv'
  <1> DEFINE n == target[r]
  <1> USE DEF CoordinatorInv
  <1>0. /\ n \in Models /\ op[r] \in {"load", "unload"} /\ pc[r] = "probe1"
        /\ tstate[r] = "none" /\ ~OperationTask(r) /\ ~UsesLock(r)
        /\ UNCHANGED <<kind, target, tstate, tasks, orphaned>>
    BY UserBusy DEF TakeLock, Typed, At, UsesLock
  <1>1. PICK l \in Locks :
            /\ IF locks[n] = None THEN FreeLock(l) ELSE l = locks[n]
            /\ locks' = [locks EXCEPT ![n] = l]
            /\ \/ /\ want' = [want EXCEPT ![r] = l]
                  /\ \E place \in {"lockWait", "probe2"} : Go(r, place)
               \/ EnterLoop(r, op[r]) /\ UNCHANGED want /\ tasks[n] # None
    BY DEF TakeLock
  <1>2. l # None /\ locks'[n] = l /\ \A m \in Models \ {n} : locks'[m] = locks[m]
    BY <1>0, <1>1 DEF ConstantsAssumption, Typed
  <1>3. want[r] = None BY <1>0 DEF LocksInv, WantUse
  <1>4. \A s \in Runners : OperationTask(s)' <=> OperationTask(s)
    BY <1>0 DEF OperationTask
  <1>5. /\ \A s \in Runners \ {r} : want'[s] = want[s] /\ (UsesLock(s)' <=> UsesLock(s))
        /\ \/ want'[r] = l /\ UsesLock(r)'
           \/ want'[r] = None /\ tasks[n] # None
    <2>1. \A s \in Runners \ {r} : pc'[s] = pc[s] /\ want'[s] = want[s]
      BY <1>0, <1>1, EnterLoopLeads DEF Go, Typed
    <2>2. \/ want'[r] = l /\ pc'[r] \in {"lockWait", "probe2"}
          \/ want'[r] = None /\ tasks[n] # None
      BY <1>1, <1>3 DEF Go, Typed
    <2> QED BY <1>4, <2>1, <2>2 DEF UsesLock
  <1>6. \A m \in Models \ {n} : locks[m] # l
    BY <1>0, <1>1, <1>2 DEF FreeLock, LocksInv, LocksDistinct
  <1>7. LocksDistinct'
    BY <1>0, <1>2, <1>6 DEF LocksInv, LocksDistinct
  <1>8. \A s \in Runners : want[s] = l => target[s] = n
    BY <1>0, <1>1, <1>2 DEF FreeLock, LocksInv, LockOwner
  <1>9. LockOwner'
    BY <1>0, <1>2, <1>5, <1>6, <1>8 DEF LocksInv, LockOwner
  <1>10. WantUse' BY <1>5 DEF LocksInv, WantUse
  <1> SUFFICES ASSUME NEW m \in Models \ orphaned PROVE TaskLock(m)' /\ LockInUse(m)'
    BY <1>0, <1>7, <1>9, <1>10 DEF LocksInv
  <1>11. TaskLock(m) /\ LockInUse(m) BY DEF LocksInv
  <1>12. TaskLock(m)'
    BY <1>0, <1>1, <1>2, <1>4, <1>5, <1>11 DEF TaskLock
  <1>13. LockInUse(m)'
    <2>1. CASE m # n BY <1>0, <1>2, <1>5, <1>11, <2>1 DEF LockInUse
    <2>2. CASE m = n /\ UsesLock(r)' BY <1>0, <2>2 DEF LockInUse
    <2>3. CASE m = n /\ tasks[n] # None
      <3>1. tasks[n] \in Runners /\ OperationTask(tasks[n]) /\ target[tasks[n]] = n
        BY <1>0, <2>3 DEF TasksInv, TasksNamed, Typed
      <3> QED BY <1>0, <1>4, <2>3, <3>1 DEF UsesLock, LockInUse
    <2> QED BY <1>5, <2>1, <2>2, <2>3
  <1> QED BY <1>12, <1>13

LEMMA AcquireReclaims ==
    ASSUME ConstantsAssumption, CoordinatorInv, NEW r \in Runners, Acquire(r)
    PROVE  LocksInv'
  <1> DEFINE n == target[r]
  <1> USE DEF CoordinatorInv
  <1>0. /\ n \in Models /\ op[r] \in {"load", "unload"} /\ pc[r] = "lockWait"
        /\ tstate[r] = "none" /\ ~OperationTask(r)
        /\ UNCHANGED <<kind, target, tstate, tasks, locks, orphaned>>
    BY UserBusy DEF Acquire, Typed, At
  <1>1. \A s \in Runners : OperationTask(s)' <=> OperationTask(s)
    BY <1>0 DEF OperationTask
  <1>2. CASE tasks[n] = None
    <2>1. Go(r, "probe2") /\ UNCHANGED want BY <1>2 DEF Acquire
    <2>2. \A s \in Runners : UsesLock(s)' <=> UsesLock(s)
      BY <1>0, <1>1, <2>1 DEF Go, UsesLock, Typed
    <2> QED BY <1>0, <1>1, <2>1, <2>2, LocksFrame
  <1>3. CASE tasks[n] # None
    <2>1. EnterLoop(r, op[r]) /\ want' = [want EXCEPT ![r] = None]
      BY <1>3 DEF Acquire
    <2>2. \A s \in Runners \ {r} : UsesLock(s)' <=> UsesLock(s)
      BY <1>0, <1>1, <2>1, EnterLoopLeads DEF UsesLock
    <2>3. LocksDistinct' /\ LockOwner' /\ WantUse'
      BY <1>0, <2>1, <2>2, LeavingLocks
    <2> SUFFICES ASSUME NEW m \in Models \ orphaned PROVE TaskLock(m)' /\ LockInUse(m)'
      BY <1>0, <2>3 DEF LocksInv
    <2>4. TaskLock(m) /\ LockInUse(m) BY DEF LocksInv
    <2>5. TaskLock(m)' BY <1>0, <1>1, <2>1, <2>4 DEF TaskLock, Typed
    <2>6. CASE m # n BY <1>0, <2>2, <2>4, <2>5, <2>6 DEF LockInUse
    <2>7. CASE m = n
      <3>1. tasks[n] \in Runners /\ OperationTask(tasks[n]) /\ target[tasks[n]] = n
        BY <1>0, <1>3 DEF TasksInv, TasksNamed, Typed
      <3> QED BY <1>0, <1>1, <2>5, <2>7, <3>1 DEF UsesLock, LockInUse
    <2> QED BY <2>6, <2>7
  <1> QED BY <1>2, <1>3

LEMMA StartTaskReclaims ==
    ASSUME ConstantsAssumption, CoordinatorInv, NEW r \in Runners, StartTask(r)
    PROVE  LocksInv'
  <1> USE DEF CoordinatorInv
  <1>0. /\ pc[r] = "probe2" /\ pc' = [pc EXCEPT ![r] = "wait"]
        /\ tstate' = [tstate EXCEPT ![r] = "created"]
        /\ UNCHANGED <<kind, target, want, locks, orphaned>>
    BY DEF StartTask, At
  <1>1. \A s \in Runners \ {r} : /\ OperationTask(s)' <=> OperationTask(s)
                                 /\ UsesLock(s)' <=> UsesLock(s)
    BY <1>0 DEF OperationTask, UsesLock, Typed
  <1>2. UsesLock(r) /\ UsesLock(r)'
    BY <1>0 DEF UsesLock, OperationTask, Running, Typed
  <1>3. LocksDistinct' /\ LockOwner' /\ WantUse'
    BY <1>0, <1>1, <1>2 DEF LocksInv, LocksDistinct, LockOwner, WantUse
  <1> SUFFICES ASSUME NEW m \in Models \ orphaned PROVE TaskLock(m)' /\ LockInUse(m)'
    BY <1>0, <1>3 DEF LocksInv
  <1>4. TaskLock(m) /\ LockInUse(m) /\ Guarded(m) BY DEF LocksInv, SingleFlightInv
  <1>5. TaskLock(m)' BY <1>0, <1>1, <1>4 DEF TaskLock, Guarded, SameLock
  <1>6. LockInUse(m)' BY <1>0, <1>1, <1>2, <1>4 DEF LockInUse
  <1> QED BY <1>5, <1>6

\* _finish_lifecycle_task: nobody can hold the lock of a task that ends, so
\* its callback discards it.
LEMMA CompleteTaskReclaims ==
    ASSUME ConstantsAssumption, CoordinatorInv, NEW t \in Runners, CompleteTask(t)
    PROVE  LocksInv'
  <1> DEFINE n == target[t]
  <1> USE DEF CoordinatorInv
  <1>0. /\ n \in Models /\ OperationTask(t) /\ Wake(t)
        /\ tstate' = [tstate EXCEPT ![t] = "none"]
        /\ want' = [want EXCEPT ![t] = None]
        /\ UNCHANGED <<kind, target>>
    BY WakeOutside DEF CompleteTask, Completes, OperationTask, Typed
  <1>1. \A m \in Models : locks'[m] = locks[m] \/ (m = n /\ locks'[m] = None)
    BY <1>0 DEF CompleteTask, DiscardLock, Typed
  <1>2. /\ ~OperationTask(t)'
        /\ \A s \in Runners \ {t} : OperationTask(s)' <=> OperationTask(s)
    BY <1>0 DEF OperationTask, Typed, Running, Ended
  <1>3. \A s \in Runners \ {t} : UsesLock(s)' <=> UsesLock(s)
    <2>1. \A s \in Runners : pc[s] \in {"lockWait", "probe2"} => pc'[s] = pc[s]
      BY <1>0 DEF Wake, Typed
    <2>2. \A s \in Runners : pc'[s] \in {"lockWait", "probe2"} => pc'[s] = pc[s]
      BY <1>0, WakeOutside
    <2> QED BY <1>2, <2>1, <2>2 DEF UsesLock
  <1>4. LocksDistinct' /\ LockOwner' /\ WantUse'
    BY <1>0, <1>1, <1>3, LeavingLocks
  <1>5. orphaned \subseteq orphaned' BY DEF CompleteTask, DiscardLock
  <1> SUFFICES ASSUME NEW m \in Models \ orphaned' PROVE TaskLock(m)' /\ LockInUse(m)'
    BY <1>4 DEF LocksInv
  <1>6. Guarded(m) /\ TaskLock(m) /\ LockInUse(m)
    BY <1>5 DEF SingleFlightInv, LocksInv
  <1>7. m = n => locks'[n] = None
    <2> SUFFICES ASSUME m = n PROVE locks'[n] = None OBVIOUS
    <2>1. /\ tasks[n] = t /\ t # None
          /\ want[t] = locks[n] /\ locks[n] # None
      BY <1>0, <1>6 DEF Guarded, TaskKnown, TaskLock, ConstantsAssumption, Runners
    <2>2. ~Locked(want[t])
      <3> SUFFICES ASSUME NEW s \in Runners, pc[s] = "probe2", want[s] = want[t]
                   PROVE  FALSE
        BY DEF Locked
      <3>1. target[s] = n BY <1>0, <2>1 DEF LocksInv, LockOwner
      <3> QED BY <1>6, <2>1, <3>1 DEF Guarded, HolderAlone
    <2> QED BY <1>0, <2>1, <2>2 DEF CompleteTask, DiscardLock, Typed
  <1>8. TaskLock(m)'
    <2> SUFFICES ASSUME NEW s \in Runners, OperationTask(s)', target[s] = m
                 PROVE  want'[s] = locks'[m] /\ locks'[m] # None
      BY <1>0 DEF TaskLock
    <2>1. s # t /\ OperationTask(s) BY <1>2
    <2>2. m # n BY <1>0, <1>6, <2>1 DEF Guarded, TaskKnown
    <2> QED BY <1>0, <1>1, <1>6, <2>1, <2>2 DEF TaskLock, Typed
  <1>9. LockInUse(m)'
    BY <1>0, <1>1, <1>3, <1>6, <1>7 DEF LockInUse
  <1> QED BY <1>8, <1>9

LEMMA InitLocks == ConstantsAssumption /\ Init => LocksInv
  BY DEF ConstantsAssumption, Init, LocksInv, LocksDistinct, LockOwner, WantUse,
         TaskLock, LockInUse, OperationTask, Running, Ended, Runners

\* A coroutine that is not at a lock and does not go to one.
LEMMA MoveReclaims ==
    ASSUME CoordinatorInv, NEW r \in Runners,
           pc[r] \notin {"lockWait", "probe2"}, MoveAway(r),
           UNCHANGED <<kind, target, want, tstate, tasks, locks, orphaned>>
    PROVE  LocksInv'
  <1>1. \A s \in Runners \ {r} : pc'[s] = pc[s]
    BY DEF CoordinatorInv, MoveAway, Typed, Finish, Await, EnterLoop, Go
  <1>2. pc'[r] \notin {"lockWait", "probe2"}
    BY MovesOutside DEF CoordinatorInv, MoveAway
  <1>3. \A s \in Runners : OperationTask(s)' <=> OperationTask(s)
    BY DEF OperationTask
  <1>4. \A s \in Runners : UsesLock(s)' <=> UsesLock(s)
    BY <1>1, <1>2, <1>3 DEF UsesLock
  <1> QED BY <1>3, <1>4, LocksFrame DEF CoordinatorInv

LEMMA HandlerReclaims ==
    ASSUME ConstantsAssumption, CoordinatorInv, NEW r \in Requests,
           Arrive(r) \/ Handler(r)
    PROVE  LocksInv'
  <1> USE DEF CoordinatorInv
  <1>0. r \in Runners BY DEF Runners
  <1>1. CASE Arrive(r)
    <2>1. /\ tstate[r] = "none" /\ pc[r] \in {"idle", "done"}
          /\ pc' = [pc EXCEPT ![r] = "gate"]
          /\ \A s \in Runners \ {r} : kind'[s] = kind[s] /\ target'[s] = target[s]
          /\ UNCHANGED <<want, tstate, tasks, locks, orphaned>>
      BY <1>0, <1>1 DEF Arrive, Typed
    <2>2. ~UsesLock(r) /\ ~OperationTask(r) /\ ~UsesLock(r)' /\ ~OperationTask(r)'
      BY <1>0, <2>1 DEF UsesLock, OperationTask, Running, Ended, Typed
    <2>3. \A s \in Runners \ {r} : /\ UsesLock(s)' <=> UsesLock(s)
                                   /\ OperationTask(s)' <=> OperationTask(s)
      BY <2>1 DEF UsesLock, OperationTask, Typed
    <2> QED BY <2>1, <2>2, <2>3, LocksFrame
  <1>2. CASE PassGate(r)
    <2>0. allTask # None => allTask \in Runners BY DEF Typed, Runners
    <2>1. pc[r] = "gate" /\ MoveAway(r) BY <1>2, <2>0 DEF PassGate, MoveAway, At
    <2>2. UNCHANGED <<kind, target, want, tstate, tasks, locks, orphaned>>
      BY <1>2 DEF PassGate
    <2> QED BY <1>0, <2>1, <2>2, MoveReclaims
  <1>3. CASE BeginUpdate(r) \/ EndUpdate(r) \/ Rejected(r)
    <2>1. pc[r] \in {"gate", "updating"} /\ MoveAway(r)
      BY <1>3 DEF BeginUpdate, EndUpdate, Rejected, MoveAway, At
    <2>2. UNCHANGED <<kind, target, want, tstate, tasks, locks, orphaned>>
      BY <1>3 DEF BeginUpdate, EndUpdate, Rejected
    <2> QED BY <1>0, <2>1, <2>2, MoveReclaims
  <1>4. CASE UnloadAll(r)
    <2>0. pc[r] = "gate" /\ UNCHANGED <<kind, target, want, tasks, locks, orphaned>>
      BY <1>4 DEF UnloadAll, At
    <2>1. CASE ~(allTask = None \/ tstate[allTask] \in Ended)
      <3>1. pc' = [pc EXCEPT ![r] = "wait"] /\ UNCHANGED tstate
        BY <1>4, <2>1 DEF UnloadAll
      <3>2. \A s \in Runners : /\ UsesLock(s)' <=> UsesLock(s)
                               /\ OperationTask(s)' <=> OperationTask(s)
        BY <1>0, <2>0, <3>1 DEF UsesLock, OperationTask, Typed
      <3> QED BY <2>0, <3>2, LocksFrame
    <2>2. CASE allTask = None \/ tstate[allTask] \in Ended
      <3>1. /\ tstate' = [tstate EXCEPT ![r] = "gathering"] /\ tstate[r] = "none"
            /\ pc' = [s \in Runners |-> IF s \in Models THEN "loop"
                                        ELSE IF s = r THEN "wait" ELSE pc[s]]
        BY <1>0, <1>4, <2>0, <2>2 DEF UnloadAll, StructureInv, OwnTask
      <3>2. \A m \in Models : pc[m] = "idle"
        BY <2>2 DEF StructureInv, SubsIdle, Ended
      <3>3. \A s \in Runners : OperationTask(s)' <=> OperationTask(s)
        BY <1>0, <2>0, <3>1 DEF OperationTask, Running, Ended, Typed
      <3>4. \A s \in Runners : UsesLock(s)' <=> UsesLock(s)
        BY <1>0, <2>0, <3>1, <3>2, <3>3 DEF UsesLock
      <3> QED BY <2>0, <3>3, <3>4, LocksFrame
    <2> QED BY <2>1, <2>2
  <1> QED BY <1>1, <1>2, <1>3, <1>4 DEF Handler

LEMMA NextReclaims ==
    ASSUME ConstantsAssumption, CoordinatorInv, [Next]_vars
    PROVE  LocksInv'
  <1> USE DEF CoordinatorInv
  <1>0. UNCHANGED vars \/ (\E m \in Models : Upstream(m)) => LocksInv'
    BY LocksFrame DEF vars, Upstream, UsesLock, OperationTask
  <1>1. ASSUME NEW r \in Requests, Arrive(r) \/ Handler(r) PROVE LocksInv'
    BY <1>1, HandlerReclaims
  <1>2. ASSUME NEW r \in Requests, Cancel(r) PROVE LocksInv'
    <2>0. r \in Runners BY DEF Runners
    <2>1. CASE CancelHolder(r)
      BY <2>0, <2>1, LeaveLockReclaims DEF CancelHolder, At
    <2>2. CASE CancelWaiter(r) BY <2>0, <2>2, CancelWaiterReclaims
    <2>3. CASE CancelElsewhere(r)
      <3>1. MoveAway(r) /\ pc[r] \notin {"lockWait", "probe2"}
        BY <2>3 DEF CancelElsewhere, Cancelled, MoveAway, At
      <3>2. UNCHANGED <<kind, target, want, tstate, tasks, locks, orphaned>>
        BY <2>3 DEF CancelElsewhere
      <3> QED BY <2>0, <3>1, <3>2, MoveReclaims
    <2> QED BY <1>2, <2>1, <2>2, <2>3 DEF Cancel
  <1>3. ASSUME NEW r \in Runners, Coroutine(r) PROVE LocksInv'
    <2>1. CASE Loop(r) \/ ProbeUnlocked(r)
      <3>1. pc[r] \in {"loop", "probe1"} /\ MoveAway(r)
        BY <2>1 DEF Loop, ProbeUnlocked, MoveAway, At, Typed
      <3>2. UNCHANGED <<kind, target, want, tstate, tasks, locks, orphaned>>
        BY <2>1 DEF Loop, ProbeUnlocked
      <3> QED BY <3>1, <3>2, MoveReclaims
    <2>2. CASE ProbeLocked(r)
      BY <2>2, LeaveLockReclaims DEF ProbeLocked, At
    <2> QED
      BY <1>3, <2>1, <2>2, TakeLockReclaims, AcquireReclaims, StartTaskReclaims
         DEF Coroutine
  <1>4. ASSUME NEW t \in Runners, Task(t) PROVE LocksInv'
    <2>1. \A s \in Runners : OperationTask(s)' <=> OperationTask(s)
      <3>1. CASE \E s \in Running \cup Ended : tstate[t] \in Running /\ TaskStep(t, s)
        BY <3>1 DEF TaskStep, OperationTask, TasksInv, KindsKept, Typed
      <3>2. CASE Gather(t)
        BY <3>2 DEF Gather, TaskAt, OperationTask, Running, Ended, Typed
      <3> QED BY <1>4, <3>1, <3>2
              DEF Task, Send, AnswerLoad, AnswerUnload, Confirm, TaskAt, Running, Ended
    <2>2. \A s \in Runners : pc[s] \in {"lockWait", "probe2"} <=>
                             pc'[s] \in {"lockWait", "probe2"}
      BY <1>4 DEF Task, Send, AnswerLoad, AnswerUnload, Confirm, Gather, TaskStep
    <2>3. UNCHANGED <<want, locks, orphaned, target>>
      BY <1>4 DEF Task, Send, AnswerLoad, AnswerUnload, Confirm, Gather, TaskStep
    <2> QED BY <2>1, <2>2, <2>3, LocksFrame DEF UsesLock
  <1>5. ASSUME NEW t \in Runners, Callback(t) PROVE LocksInv'
    <2>1. CASE CompleteUnloadAll(t)
      <3>1. \A s \in Runners : OperationTask(s)' <=> OperationTask(s)
        BY <2>1, WakeOutside DEF CompleteUnloadAll, Completes, OperationTask, Running,
                                 Ended, Typed
      <3>2. \A s \in Runners : pc[s] \in {"lockWait", "probe2"} <=>
                               pc'[s] \in {"lockWait", "probe2"}
        BY <2>1 DEF CompleteUnloadAll, Wake, Typed
      <3>3. UNCHANGED <<want, locks, orphaned, target>>
        BY <2>1 DEF CompleteUnloadAll, Wake
      <3> QED BY <3>1, <3>2, <3>3, LocksFrame DEF UsesLock
    <2> QED BY <1>5, <2>1, CompleteTaskReclaims DEF Callback
  <1>6. CASE (\E r \in Runners : Spin(r)) \/ Quiet
    BY <1>0, <1>6 DEF Spin, Quiet
  <1> QED BY <1>0, <1>1, <1>2, <1>3, <1>4, <1>5, <1>6 DEF Next

THEOREM CoordinatorInvariant == Spec => []CoordinatorInv
  <1>1. Init => SingleFlightInv /\ LocksInv
    BY InitSingleFlight, InitLocks, ConstantsAssumption
  <1>2. Typed /\ StructureInv /\ TasksInv /\ SingleFlightInv /\ LocksInv /\ [Next]_vars
        => SingleFlightInv' /\ LocksInv'
    BY NextSingleFlight, NextReclaims, ConstantsAssumption DEF CoordinatorInv
  <1> QED BY <1>1, <1>2, TasksInvariant, PTL DEF Spec, CoordinatorInv

\* When no coroutine works on a model, _lifecycle_tasks and _lifecycle_locks
\* have no entry for it, unless a lock of the model was discarded under its
\* waiters: the dictionaries of _discard_lifecycle_lock do not grow.
THEOREM LocksReclaimedHolds == Spec => []LocksReclaimed
  <1>1. CoordinatorInv => LocksReclaimed
    <2> SUFFICES ASSUME CoordinatorInv, NEW m \in Models \ orphaned,
                        \A r \in Runners : target[r] = m =>
                            tstate[r] = "none" /\ pc[r] \in {"idle", "gate", "done"}
                 PROVE  locks[m] = None /\ tasks[m] = None
      BY DEF LocksReclaimed
    <2>1. \A r \in Runners : target[r] = m => ~UsesLock(r)
      BY DEF UsesLock, OperationTask, Running, Ended
    <2>2. locks[m] = None BY <2>1 DEF CoordinatorInv, LocksInv, LockInUse
    <2>3. tasks[m] = None
      BY <2>1 DEF CoordinatorInv, TasksInv, TasksNamed, UsesLock, Typed
    <2> QED BY <2>2, <2>3
  <1> QED BY <1>1, CoordinatorInvariant, PTL
=============================================================================
