------------------------------ MODULE WebClient ------------------------------
(***************************************************************************)
(* One page of the browser client (web/app.js) against the service: which  *)
(* model is selected, the details it holds (state.currentModel), the       *)
(* editor, and the asynchronous functions that answer to the user and run  *)
(* between each other at every await.  Each run of one of them is a flow.  *)
(* A request is served at one moment and its answer is read at a later     *)
(* one.  Of the configuration only its revision is kept: what is written   *)
(* does not matter here, only what it was written over.                    *)
(***************************************************************************)
EXTENDS Naturals, FiniteSets

CONSTANTS
    Models,     \* the configured models
    Clicks,     \* selections and refreshes under way at once
    Saves,      \* saves under way at once
    MaxPolls,   \* OPERATION_STATUS_MAX_POLLS, 30 in the code
    MaxWrites,  \* bound: writes of the configuration, from here and elsewhere
    None

ASSUME WebConstants ==
    /\ None \notin Models /\ {MaxPolls, MaxWrites} \subseteq Nat /\ MaxPolls > 0
    \* A flow is a run of one function.
    /\ Clicks \cap Saves = {} /\ "op" \notin Clicks \cup Saves

VARIABLES
    revision,   \* the service: the revision of config.yaml
    selected,   \* state.selectedId
    current,    \* state.currentModel: its id and revision
    editor,     \* the dialog: the id and revision it was opened with, or closed
    savable,    \* the buttons that save are enabled
    replaced,   \* history: current was replaced since the editor was opened
    busy,       \* state.operationBusy
    polls,      \* attempt of waitForOperationStatus
    waiting,    \* the operation was answered "starting": it waits for its model
    flow        \* what each flow waits for

webVars == <<revision, selected, current, editor, savable, replaced,
             busy, polls, waiting, flow>>

Flows == Clicks \cup Saves \cup {"op"}
Nothing == [id |-> None, revision |-> 0]
Idle == [at |-> "idle", seen |-> Nothing, opened |-> Nothing, replaced |-> FALSE]
At(f, where) == flow[f].at = where
Steps == {"idle", "post", "list", "detail", "answered", "sleep", "put",
          "saved", "refused"}

-----------------------------------------------------------------------------
WebInit ==
    /\ revision = 0
    /\ selected = None
    /\ current = Nothing
    /\ editor = Nothing
    /\ savable = TRUE
    /\ replaced = FALSE
    /\ busy = FALSE
    /\ polls = 0
    /\ waiting = FALSE
    /\ flow = [f \in Flows |-> Idle]

Closed == editor = Nothing
pageVars == <<selected, current, editor, savable, replaced>>
opVars == <<busy, polls, waiting>>

Goto(f, where) == flow' = [flow EXCEPT ![f] = [Idle EXCEPT !.at = where]]
Ask(f, id) ==
    flow' = [flow EXCEPT ![f] = [Idle EXCEPT !.at = "detail", !.seen = [Nothing EXCEPT !.id = id]]]

\* selectModel; the dialog is modal, so the list cannot be clicked behind it.
Select(f, id) ==
    /\ f \in Clicks /\ At(f, "idle") /\ Closed
    /\ selected' = id
    /\ Ask(f, id)
    /\ UNCHANGED <<revision, current, editor, savable, replaced, opVars>>

\* The refresh button: loadModels
Refresh(f) ==
    /\ f \in Clicks /\ At(f, "idle") /\ Closed
    /\ Goto(f, "list")
    /\ UNCHANGED <<revision, pageVars, opVars>>

\* runModelOperation up to its request
Operate ==
    /\ selected # None /\ ~busy /\ Closed
    /\ busy' = TRUE
    /\ Goto("op", "post")
    /\ UNCHANGED <<revision, pageVars, polls, waiting>>

\* As OperationFails, without the last block.
OperationAborts ==
    /\ At("op", "post")
    /\ Goto("op", "idle")
    /\ UNCHANGED <<revision, pageVars, opVars>>

\* An error is shown, and the list is loaded all the same.
OperationFails ==
    /\ At("op", "post")
    /\ Goto("op", "list")
    /\ UNCHANGED <<revision, pageVars, opVars>>

\* The answer says whether the model is still starting.
OperationAnswered ==
    /\ At("op", "post")
    /\ Goto("op", "list")
    /\ waiting' \in BOOLEAN
    /\ UNCHANGED <<revision, pageVars, busy, polls>>

\* As Proceed, with a poll that does not count.
ProceedForever(f) ==
    \/ /\ f # "op" /\ Goto(f, "idle")
       /\ savable' = (savable \/ f \in Saves)
       /\ UNCHANGED opVars
    \/ /\ f = "op" /\ ~waiting
       /\ Goto(f, "idle")
       /\ busy' = FALSE /\ polls' = 0
       /\ UNCHANGED <<savable, waiting>>
    \/ /\ f = "op" /\ waiting
       /\ Goto(f, "sleep")
       /\ UNCHANGED <<savable, opVars>>

\* What follows loadModels in the flow that called it.  A save enables its
\* buttons again.  The operation polls until the list shows its model as
\* started, or has no such model, but not for ever: after its last attempt it
\* loads the list once more.
Proceed(f) ==
    \/ /\ f \in Clicks /\ Goto(f, "idle")
       /\ UNCHANGED <<savable, opVars>>
    \/ /\ f \in Saves /\ Goto(f, "idle")
       /\ savable' = TRUE
       /\ UNCHANGED opVars
    \/ /\ f = "op" /\ (waiting => polls > 0)
       /\ Goto(f, "idle")
       /\ busy' = FALSE /\ polls' = 0 /\ waiting' = FALSE
       /\ UNCHANGED savable
    \/ /\ f = "op" /\ waiting /\ polls < MaxPolls
       /\ Goto(f, "sleep")
       /\ polls' = polls + 1
       /\ UNCHANGED <<savable, busy, waiting>>
    \/ /\ f = "op" /\ waiting /\ polls = MaxPolls
       /\ Goto(f, "list")
       /\ polls' = 0 /\ waiting' = FALSE
       /\ UNCHANGED <<savable, busy>>

WakeUp ==
    /\ At("op", "sleep")
    /\ Goto("op", "list")
    /\ UNCHANGED <<revision, pageVars, opVars>>

\* loadModels: the list, then the details of the model selected by then.
ListAnswered(f) ==
    /\ At(f, "list")
    /\ \/ selected # None /\ Ask(f, selected) /\ UNCHANGED <<savable, opVars>>
       \/ selected = None /\ Proceed(f)
    /\ UNCHANGED <<revision, selected, current, editor, replaced>>

ListFails(f) ==
    /\ At(f, "list")
    /\ Proceed(f)
    /\ UNCHANGED <<revision, selected, current, editor, replaced>>

\* The service: get_model
ServeDetail(f) ==
    /\ At(f, "detail")
    /\ flow' = [flow EXCEPT ![f].at = "answered", ![f].seen.revision = revision]
    /\ UNCHANGED <<revision, pageVars, opVars>>

\* selectModel after its await: the answer is taken whatever is selected now,
\* and whether an editor is open or not.
DetailAnswered(f) ==
    /\ At(f, "answered")
    /\ current' = flow[f].seen
    /\ replaced' = (replaced \/ (~Closed /\ current' # current))
    /\ Proceed(f)
    /\ UNCHANGED <<revision, selected, editor>>

DetailFails(f) ==
    /\ flow[f].at \in {"detail", "answered"}
    /\ Proceed(f)
    /\ UNCHANGED <<revision, selected, current, editor, replaced>>

-----------------------------------------------------------------------------
(* The editor of a configured model. *)

OpenEditor ==
    /\ current # Nothing /\ Closed
    /\ editor' = current
    /\ savable' = TRUE
    /\ replaced' = FALSE
    /\ UNCHANGED <<revision, selected, current, opVars, flow>>

\* The dialog is closed by the user, even while a save is under way.
Cancel ==
    /\ ~Closed
    /\ editor' = Nothing
    /\ replaced' = FALSE
    /\ UNCHANGED <<revision, selected, current, savable, opVars, flow>>

\* saveEditor up to its request: the form, for the id and at the revision that
\* state.currentModel has now.
Save(f) ==
    /\ f \in Saves /\ At(f, "idle") /\ ~Closed /\ savable
    /\ savable' = FALSE
    /\ flow' = [flow EXCEPT ![f] = [at |-> "put", seen |-> current, opened |-> editor,
                                    replaced |-> replaced]]
    /\ UNCHANGED <<revision, selected, current, editor, replaced, opVars>>

\* As ServeSave, for any revision.
ServeAnySave(f) ==
    /\ At(f, "put")
    /\ revision < MaxWrites
    /\ revision' = revision + 1
    /\ Goto(f, "saved")
    /\ UNCHANGED <<pageVars, opVars>>

\* The service: update_model writes at the revision that the request names and
\* refuses any other one with 409.
ServeSave(f) ==
    /\ At(f, "put")
    /\ \/ /\ flow[f].seen.revision = revision /\ revision < MaxWrites
          /\ revision' = revision + 1
          /\ Goto(f, "saved")
       \/ /\ flow[f].seen.revision # revision
          /\ Goto(f, "refused")
          /\ UNCHANGED revision
    /\ UNCHANGED <<pageVars, opVars>>

\* The dialog is closed, whichever is open now, and the list is loaded.
SaveSucceeds(f) ==
    /\ At(f, "saved")
    /\ editor' = Nothing
    /\ replaced' = FALSE
    /\ Goto(f, "list")
    /\ UNCHANGED <<revision, selected, current, savable, opVars>>

\* A refusal, a validation error, or a lost answer: the dialog stays open.
SaveFails(f) ==
    /\ flow[f].at \in {"put", "saved", "refused"}
    /\ savable' = TRUE
    /\ Goto(f, "idle")
    /\ UNCHANGED <<revision, selected, current, editor, replaced, opVars>>

\* External: another program, or another page, changes the configuration.
EditElsewhere ==
    /\ revision < MaxWrites
    /\ revision' = revision + 1
    /\ UNCHANGED <<pageVars, opVars, flow>>

WebNext ==
    \/ \E f \in Clicks, id \in Models : Select(f, id)
    \/ \E f \in Clicks : Refresh(f)
    \/ Operate \/ OperationFails \/ OperationAnswered \/ WakeUp
    \/ \E f \in Flows :
          \/ ListAnswered(f) \/ ListFails(f)
          \/ ServeDetail(f) \/ DetailAnswered(f) \/ DetailFails(f)
    \/ OpenEditor \/ Cancel
    \/ \E f \in Saves : Save(f) \/ ServeSave(f) \/ SaveSucceeds(f) \/ SaveFails(f)
    \/ EditElsewhere

\* Every request is answered or fails, and timers fire.
WebFairness ==
    /\ WF_webVars(OperationFails \/ OperationAnswered)
    /\ WF_webVars(WakeUp)
    /\ WF_webVars(ListAnswered("op") \/ ListFails("op"))
    /\ WF_webVars(ServeDetail("op") \/ DetailFails("op"))
    /\ WF_webVars(DetailAnswered("op") \/ DetailFails("op"))

-----------------------------------------------------------------------------
Details == [id : Models \cup {None}, revision : 0 .. MaxWrites]

WebTypeOK ==
    /\ revision \in 0 .. MaxWrites
    /\ selected \in Models \cup {None}
    /\ current \in Details /\ editor \in Details
    /\ {savable, replaced, waiting} \subseteq BOOLEAN
    /\ polls \in 0 .. MaxPolls
    /\ flow \in [Flows -> [at : Steps, seen : Details, opened : Details,
                           replaced : BOOLEAN]]
    /\ busy <=> ~At("op", "idle")

\* A save is the write of a form: f has it served, and the file changes.
Writes(f) == At(f, "put") /\ revision' # revision /\ flow'[f].at = "saved"

\* What the file says now is what the editor was opened with: "409 means another
\* process changed config.yaml after the editor opened".  (The save names the
\* details that the page holds by then, not those of the form.)
OverwritesNothingUnseen ==
    [][\A f \in Saves : Writes(f) => flow[f].opened.revision = revision]_webVars

\* As long as no answer replaces the details while the editor is open, that is
\* so, and the model written is the one in the form: whatever other pages write,
\* however a save is repeated after a lost answer, and whatever is closed and
\* opened again meanwhile.
OverwritesOnlyAfterReload ==
    [][\A f \in Saves : Writes(f) /\ ~flow[f].replaced
        => flow[f].opened = [id |-> flow[f].seen.id, revision |-> revision]]_webVars

\* An operation releases its buttons in the end, whatever fails on the way and
\* even when its model never leaves the starting state.
OperationEnds == []<>~busy
=============================================================================
