------------------------------ MODULE WebProofs ------------------------------
(***************************************************************************)
(* Proofs about WebClient, for any number of flows, models and writes.     *)
(***************************************************************************)
EXTENDS WebClient, TLAPS

\* The page by itself, without fairness.
WebSpec == WebInit /\ [][WebNext]_webVars

FlowStates == [at : Steps, seen : Details, opened : Details, replaced : BOOLEAN]

\* Where flows go, they stay in their type and keep apart from one another.
LEMMA GotoTyped ==
    ASSUME flow \in [Flows -> FlowStates], NEW f \in Flows, NEW where \in Steps,
           0 \in 0 .. MaxWrites, Goto(f, where)
    PROVE  /\ flow' \in [Flows -> FlowStates]
           /\ flow'[f].at = where
           /\ \A g \in Flows \ {f} : flow'[g] = flow[g]
  BY DEF Goto, Idle, Nothing, FlowStates, Details

LEMMA AskTyped ==
    ASSUME flow \in [Flows -> FlowStates], NEW f \in Flows, NEW id \in Models,
           0 \in 0 .. MaxWrites, Ask(f, id)
    PROVE  /\ flow' \in [Flows -> FlowStates]
           /\ flow'[f].at = "detail"
           /\ \A g \in Flows \ {f} : flow'[g] = flow[g]
  BY DEF Ask, Idle, Nothing, FlowStates, Details, Steps

\* What Proceed does to the flow that called it and to the page.
LEMMA ProceedTyped ==
    ASSUME WebConstants, WebTypeOK, NEW f \in Flows, f = "op" => busy, Proceed(f)
    PROVE  /\ flow' \in [Flows -> FlowStates]
           /\ \A g \in Flows \ {f} : flow'[g] = flow[g]
           /\ flow'[f].at \in {"idle", "sleep", "list"}
           /\ {savable', waiting'} \subseteq BOOLEAN /\ polls' \in 0 .. MaxPolls
           /\ busy' <=> flow'["op"].at # "idle"
  <1>0. /\ flow \in [Flows -> FlowStates] /\ 0 \in 0 .. MaxWrites /\ 0 \in 0 .. MaxPolls
        /\ MaxPolls \in Nat /\ polls \in 0 .. MaxPolls
        /\ {savable, waiting} \subseteq BOOLEAN
        /\ busy <=> flow["op"].at # "idle"
        /\ "op" \in Flows /\ "op" \notin Clicks \cup Saves
    BY DEF WebConstants, WebTypeOK, FlowStates, At, Flows
  <1>1. PICK where \in {"idle", "sleep", "list"} :
           /\ Goto(f, where)
           /\ {savable', waiting'} \subseteq BOOLEAN /\ polls' \in 0 .. MaxPolls
           /\ f # "op" => busy' = busy
           /\ f = "op" => (busy' <=> where # "idle")
    <2> DEFINE P(where) == /\ Goto(f, where)
                           /\ {savable', waiting'} \subseteq BOOLEAN /\ polls' \in 0 .. MaxPolls
                           /\ f # "op" => busy' = busy
                           /\ f = "op" => (busy' <=> where # "idle")
    <2>1. CASE f \in Clicks /\ Goto(f, "idle") /\ UNCHANGED <<savable, opVars>>
      <3>1. P("idle") BY <1>0, <2>1 DEF opVars
      <3> QED BY <3>1
    <2>2. CASE f \in Saves /\ Goto(f, "idle") /\ savable' = TRUE /\ UNCHANGED opVars
      <3>1. P("idle") BY <1>0, <2>2 DEF opVars
      <3> QED BY <3>1
    <2>3. CASE /\ f = "op" /\ Goto(f, "idle")
               /\ busy' = FALSE /\ polls' = 0 /\ waiting' = FALSE /\ UNCHANGED savable
      <3>1. P("idle") BY <1>0, <2>3
      <3> QED BY <3>1
    <2>4. CASE /\ f = "op" /\ waiting /\ polls < MaxPolls /\ Goto(f, "sleep")
               /\ polls' = polls + 1 /\ UNCHANGED <<savable, busy, waiting>>
      <3>1. polls' \in 0 .. MaxPolls BY <1>0, <2>4
      <3>2. P("sleep") BY <1>0, <2>4, <3>1
      <3> QED BY <3>2
    <2>5. CASE /\ f = "op" /\ Goto(f, "list")
               /\ polls' = 0 /\ waiting' = FALSE /\ UNCHANGED <<savable, busy>>
      <3>1. P("list") BY <1>0, <2>5
      <3> QED BY <3>1
    <2> QED BY <2>1, <2>2, <2>3, <2>4, <2>5 DEF Proceed
  <1>2. /\ flow' \in [Flows -> FlowStates] /\ flow'[f].at = where
        /\ \A g \in Flows \ {f} : flow'[g] = flow[g]
    BY <1>0, <1>1, GotoTyped DEF Steps
  <1> QED BY <1>0, <1>1, <1>2

LEMMA NextWebTyped == WebConstants /\ WebTypeOK /\ [WebNext]_webVars => WebTypeOK'
  <1> SUFFICES ASSUME WebConstants, WebTypeOK, [WebNext]_webVars PROVE WebTypeOK'
    OBVIOUS
  <1>0. /\ flow \in [Flows -> FlowStates] /\ 0 \in 0 .. MaxWrites /\ 0 \in 0 .. MaxPolls
        /\ MaxPolls \in Nat /\ MaxWrites \in Nat /\ polls \in 0 .. MaxPolls
        /\ revision \in 0 .. MaxWrites /\ selected \in Models \cup {None}
        /\ current \in Details /\ editor \in Details
        /\ {savable, replaced, waiting} \subseteq BOOLEAN
        /\ busy <=> flow["op"].at # "idle"
        /\ "op" \in Flows /\ "op" \notin Clicks \cup Saves
        /\ Nothing \in Details
    BY DEF WebConstants, WebTypeOK, FlowStates, At, Flows, Nothing, Details
  <1> DEFINE Typed ==
        /\ revision' \in 0 .. MaxWrites /\ selected' \in Models \cup {None}
        /\ current' \in Details /\ editor' \in Details
        /\ {savable', replaced', waiting'} \subseteq BOOLEAN
        /\ polls' \in 0 .. MaxPolls
        /\ flow' \in [Flows -> FlowStates]
        /\ busy' <=> flow'["op"].at # "idle"
  <1>t. Typed => WebTypeOK' BY DEF WebTypeOK, FlowStates, At
  <1> HIDE DEF Typed
  <1>1. ASSUME NEW f \in Clicks, NEW id \in Models, Select(f, id) PROVE Typed
    <2>1. f \in Flows /\ f # "op" BY <1>0 DEF Flows
    <2>2. /\ flow' \in [Flows -> FlowStates]
          /\ \A g \in Flows \ {f} : flow'[g] = flow[g]
      BY <1>0, <1>1, <2>1, AskTyped DEF Select
    <2> QED BY <1>0, <1>1, <2>1, <2>2 DEF Typed, Select, opVars
  <1>2. ASSUME NEW f \in Clicks, Refresh(f) PROVE Typed
    <2>1. f \in Flows /\ f # "op" /\ "list" \in Steps BY <1>0 DEF Flows, Steps
    <2>2. /\ flow' \in [Flows -> FlowStates]
          /\ \A g \in Flows \ {f} : flow'[g] = flow[g]
      BY <1>0, <1>2, <2>1, GotoTyped DEF Refresh
    <2> QED BY <1>0, <1>2, <2>1, <2>2 DEF Typed, Refresh, pageVars, opVars
  <1>3. ASSUME NEW where \in {"post", "list"}, Goto("op", where),
               Operate \/ OperationFails \/ OperationAnswered \/ WakeUp
        PROVE  Typed
    <2>1. flow' \in [Flows -> FlowStates] /\ flow'["op"].at = where
      BY <1>0, <1>3, GotoTyped DEF Steps
    <2>2. /\ busy'
          /\ UNCHANGED <<revision, pageVars, polls>> /\ waiting' \in BOOLEAN
      BY <1>0, <1>3 DEF Operate, OperationFails, OperationAnswered, WakeUp, At, opVars
    <2> QED BY <1>0, <1>3, <2>1, <2>2 DEF Typed, pageVars
  <1>4. ASSUME NEW f \in Flows, Proceed(f), flow[f].at # "idle", revision' = revision,
               selected' = selected, current' \in Details, editor' = editor,
               replaced' \in BOOLEAN
        PROVE  Typed
    BY <1>0, <1>4, ProceedTyped DEF Typed
  <1>5. ASSUME NEW f \in Flows,
               ListAnswered(f) \/ ListFails(f) \/ ServeDetail(f) \/ DetailAnswered(f)
                  \/ DetailFails(f)
        PROVE  Typed
    <2>1. CASE ListAnswered(f) /\ Ask(f, selected) /\ selected # None
                  /\ UNCHANGED <<savable, opVars>>
      <3>1. selected \in Models BY <1>0, <2>1
      <3>2. /\ flow' \in [Flows -> FlowStates] /\ flow'[f].at = "detail"
            /\ \A g \in Flows \ {f} : flow'[g] = flow[g]
        BY <1>0, <2>1, <3>1, AskTyped
      <3>3. flow'["op"].at # "idle" <=> flow["op"].at # "idle"
        BY <1>0, <2>1, <3>2 DEF ListAnswered, At
      <3> QED BY <1>0, <2>1, <3>2, <3>3 DEF Typed, ListAnswered, opVars
    <2>2. CASE ListAnswered(f) /\ Proceed(f)
      BY <1>0, <1>4, <2>2 DEF ListAnswered, At
    <2>3. CASE ListFails(f) BY <1>0, <1>4, <2>3 DEF ListFails, At
    <2>4. CASE ServeDetail(f)
      <3>1. /\ flow' \in [Flows -> FlowStates] /\ flow'[f].at = "answered"
            /\ \A g \in Flows \ {f} : flow'[g] = flow[g]
        <4>1. /\ flow[f] \in FlowStates /\ flow[f].seen \in Details
              /\ revision \in 0 .. MaxWrites /\ "answered" \in Steps
          BY <1>0 DEF FlowStates, Steps
        <4> DEFINE new == [[flow[f] EXCEPT !.at = "answered"] EXCEPT !.seen.revision = revision]
        <4>2. new \in FlowStates /\ new.at = "answered" BY <4>1 DEF FlowStates, Details
        <4>3. flow' = [flow EXCEPT ![f] = new] BY <1>0, <2>4, <4>1 DEF ServeDetail, FlowStates
        <4> HIDE DEF new
        <4> QED BY <1>0, <4>2, <4>3
      <3>2. flow'["op"].at # "idle" <=> flow["op"].at # "idle"
        BY <1>0, <2>4, <3>1 DEF ServeDetail, At
      <3> QED BY <1>0, <2>4, <3>1, <3>2 DEF Typed, ServeDetail, pageVars, opVars
    <2>5. CASE DetailAnswered(f)
      <3>1. flow[f].seen \in Details BY <1>0 DEF FlowStates
      <3> QED BY <1>0, <1>4, <2>5, <3>1 DEF DetailAnswered, At
    <2>6. CASE DetailFails(f) BY <1>0, <1>4, <2>6 DEF DetailFails
    <2> QED BY <1>5, <2>1, <2>2, <2>3, <2>4, <2>5, <2>6 DEF ListAnswered
  <1>6. ASSUME OpenEditor \/ Cancel \/ EditElsewhere PROVE Typed
    <2>1. UNCHANGED <<selected, current, opVars, flow>> /\ revision' \in 0 .. MaxWrites
      BY <1>0, <1>6 DEF OpenEditor, Cancel, EditElsewhere, pageVars
    <2>2. editor' \in Details /\ {savable', replaced'} \subseteq BOOLEAN
      BY <1>0, <1>6 DEF OpenEditor, Cancel, EditElsewhere, pageVars
    <2> QED BY <1>0, <2>1, <2>2 DEF Typed, opVars
  <1>7. ASSUME NEW f \in Saves, Save(f) \/ ServeSave(f) \/ SaveSucceeds(f) \/ SaveFails(f)
        PROVE  Typed
    <2>1. f \in Flows /\ f # "op" BY <1>0 DEF Flows
    <2>2. /\ flow' \in [Flows -> FlowStates]
          /\ \A g \in Flows \ {f} : flow'[g] = flow[g]
      <3>1. CASE Save(f)
        BY <1>0, <2>1, <3>1 DEF Save, FlowStates, Steps
      <3>2. CASE \E where \in Steps : Goto(f, where)
        BY <1>0, <2>1, <3>2, GotoTyped
      <3> QED BY <1>7, <3>1, <3>2 DEF ServeSave, SaveSucceeds, SaveFails, Steps
    <2>3. /\ UNCHANGED <<selected, current, opVars>> /\ revision' \in 0 .. MaxWrites
          /\ editor' \in Details /\ {savable', replaced'} \subseteq BOOLEAN
      <3>1. CASE Save(f) BY <1>0, <3>1 DEF Save
      <3>2. CASE ServeSave(f) BY <1>0, <3>2 DEF ServeSave, pageVars
      <3>3. CASE SaveSucceeds(f) BY <1>0, <3>3 DEF SaveSucceeds
      <3>4. CASE SaveFails(f) BY <1>0, <3>4 DEF SaveFails
      <3> QED BY <1>7, <3>1, <3>2, <3>3, <3>4
    <2> QED BY <1>0, <2>1, <2>2, <2>3 DEF Typed, opVars
  <1>8. ASSUME UNCHANGED webVars PROVE Typed
    BY <1>0, <1>8 DEF Typed, webVars
  <1>9. Operate \/ OperationFails \/ OperationAnswered \/ WakeUp => Typed
    BY <1>3 DEF Operate, OperationFails, OperationAnswered, WakeUp
  <1> QED BY <1>t, <1>1, <1>2, <1>5, <1>6, <1>7, <1>8, <1>9 DEF WebNext

LEMMA InitWebTyped == WebConstants /\ WebInit => WebTypeOK
  <1> SUFFICES ASSUME WebConstants, WebInit PROVE WebTypeOK OBVIOUS
  <1>1. 0 \in 0 .. MaxWrites /\ 0 \in 0 .. MaxPolls BY DEF WebConstants
  <1>2. Nothing \in Details BY <1>1 DEF Nothing, Details
  <1>3. Idle \in FlowStates BY <1>2 DEF Idle, FlowStates, Steps
  <1>4. flow \in [Flows -> FlowStates] BY <1>3 DEF WebInit
  <1>5. ~busy /\ flow["op"].at = "idle" BY DEF WebInit, Flows, Idle
  <1>6. {savable, replaced, waiting} \subseteq BOOLEAN BY DEF WebInit
  <1> QED BY <1>1, <1>2, <1>4, <1>5, <1>6 DEF WebInit, WebTypeOK, FlowStates, At

\* Every variable of the page keeps its type, and the buttons of an operation
\* are held exactly while it runs.
THEOREM WebTypeCorrect == WebSpec => []WebTypeOK
  <1>1. WebInit => WebTypeOK
    BY InitWebTyped, WebConstants
  <1>2. WebTypeOK /\ [WebNext]_webVars => WebTypeOK'
    BY NextWebTyped, WebConstants
  <1> QED BY <1>1, <1>2, PTL DEF WebSpec

-----------------------------------------------------------------------------
(* What a save writes over. *)

\* As long as nothing has replaced the details since the editor was opened,
\* they are those it was opened with, and a save names them.
FormIsCurrent ==
    /\ ~Closed /\ ~replaced => current = editor
    /\ \A f \in Saves : At(f, "put") /\ ~flow[f].replaced => flow[f].seen = flow[f].opened
WebInv == WebTypeOK /\ FormIsCurrent

LEMMA NextForm ==
    ASSUME WebConstants, WebInv, [WebNext]_webVars
    PROVE  WebInv'
  <1>0. /\ WebTypeOK' /\ flow \in [Flows -> FlowStates]
        /\ \A f \in Saves : f \in Flows /\ f # "op" /\ f \notin Clicks
        /\ {savable, replaced, waiting} \subseteq BOOLEAN
    BY NextWebTyped DEF WebInv, WebTypeOK, FlowStates, Flows, WebConstants
  <1> DEFINE Put(f) == /\ flow'[f].at = "put" /\ ~flow'[f].replaced
             Page == ~(editor' = Nothing) /\ ~replaced' => current' = editor'
  <1>t. Page /\ (\A f \in Saves : Put(f) => flow'[f].seen = flow'[f].opened) => FormIsCurrent'
    BY DEF FormIsCurrent, Closed, At
  <1>1. Page
    <2>1. CASE UNCHANGED <<current, editor, replaced>>
      BY <2>1 DEF WebInv, FormIsCurrent, Closed
    <2>2. CASE editor' = Nothing
      BY <2>2
    <2>3. CASE UNCHANGED current /\ editor' = current
      BY <2>3
    <2>4. ASSUME NEW f \in Flows, DetailAnswered(f) PROVE Page
      BY <1>0, <2>4 DEF DetailAnswered, WebInv, FormIsCurrent, Closed
    <2>5. CASE \E f \in Clicks, id \in Models : Select(f, id)
      BY <2>1, <2>5 DEF Select, Closed
    <2> HIDE DEF Page
    <2> QED BY <2>1, <2>2, <2>3, <2>4, <2>5 DEF WebNext, webVars, pageVars,
           Refresh, Operate, OperationFails, OperationAnswered, WakeUp,
           ListAnswered, ListFails, ServeDetail, DetailFails,
           OpenEditor, Cancel, Save, ServeSave, SaveSucceeds, SaveFails, EditElsewhere
  <1>2. ASSUME NEW f \in Saves, Put(f) PROVE flow'[f].seen = flow'[f].opened
    <2>1. ASSUME flow'[f] = flow[f] PROVE flow'[f].seen = flow'[f].opened
      BY <1>2, <2>1 DEF WebInv, FormIsCurrent, At
    <2>2. ASSUME NEW g \in Flows, NEW where \in Steps \ {"put"}, NEW seen,
                 flow' = [flow EXCEPT ![g] = [Idle EXCEPT !.at = where, !.seen = seen]]
          PROVE  flow'[f].seen = flow'[f].opened
      BY <1>0, <1>2, <2>1, <2>2 DEF Idle
    <2>3. ASSUME NEW g \in Flows, NEW where \in Steps \ {"put"}, Goto(g, where)
          PROVE  flow'[f].seen = flow'[f].opened
      BY <1>0, <1>2, <2>1, <2>3 DEF Goto, Idle
    <2>4. ASSUME NEW g \in Flows, NEW id, Ask(g, id)
          PROVE  flow'[f].seen = flow'[f].opened
      BY <1>0, <1>2, <2>1, <2>4 DEF Ask, Idle
    <2>5. ASSUME NEW g \in Flows, Proceed(g) PROVE flow'[f].seen = flow'[f].opened
      BY <2>3, <2>5 DEF Proceed, Steps
    <2>6. ASSUME NEW g \in Flows, ServeDetail(g) PROVE flow'[f].seen = flow'[f].opened
      BY <1>0, <1>2, <2>1, <2>6 DEF ServeDetail, FlowStates
    <2>7. ASSUME NEW g \in Saves, Save(g) PROVE flow'[f].seen = flow'[f].opened
      <3>1. CASE g = f
        BY <1>0, <1>2, <2>7, <3>1 DEF Save, WebInv, FormIsCurrent
      <3>2. CASE g # f BY <1>0, <1>2, <2>1, <2>7, <3>2 DEF Save
      <3> QED BY <3>1, <3>2
    <2>8. CASE UNCHANGED flow BY <2>1, <2>8
    <2> HIDE DEF Put
    <2>9. Clicks \subseteq Flows /\ "op" \in Flows BY DEF Flows
    <2> QED BY <1>0, <2>3, <2>4, <2>5, <2>6, <2>7, <2>8, <2>9
        DEF WebNext, webVars, Select, Refresh, Operate, OperationFails, OperationAnswered,
            WakeUp, ListAnswered, ListFails, DetailAnswered, DetailFails, OpenEditor, Cancel,
            ServeSave, SaveSucceeds, SaveFails, EditElsewhere, Steps
  <1> HIDE DEF Put, Page
  <1>3. FormIsCurrent' BY <1>t, <1>1, <1>2
  <1> QED BY <1>0, <1>3 DEF WebInv

\* What a step that serves a save writes over.
WritesOnlyOpened ==
    \A f \in Saves : Writes(f) /\ ~flow[f].replaced
        => flow[f].opened = [id |-> flow[f].seen.id, revision |-> revision]

LEMMA StepWrites ==
    ASSUME WebConstants, WebInv, WebNext
    PROVE  WritesOnlyOpened
  <1> SUFFICES ASSUME NEW f \in Saves, Writes(f), ~flow[f].replaced
               PROVE  flow[f].opened = [id |-> flow[f].seen.id, revision |-> revision]
    BY DEF WritesOnlyOpened
  <1>0. /\ flow \in [Flows -> FlowStates] /\ \A g \in Saves : g \in Flows
    BY DEF WebInv, WebTypeOK, FlowStates, Flows
  <1>1. flow[f].at = "put" /\ flow'[f].at = "saved" /\ revision' # revision
    BY DEF Writes, At
  <1>2. PICK g \in Saves : ServeSave(g)
    BY <1>1 DEF WebNext, Select, Refresh, Operate, OperationFails, OperationAnswered, WakeUp,
                ListAnswered, ListFails, ServeDetail, DetailAnswered, DetailFails,
                OpenEditor, Cancel, Save, SaveSucceeds, SaveFails, EditElsewhere
  <1>3. g = f
    BY <1>0, <1>1, <1>2 DEF ServeSave, Goto
  <1>4. flow[f].seen.revision = revision
    BY <1>1, <1>2, <1>3 DEF ServeSave
  <1>5. flow[f].seen = flow[f].opened
    BY <1>1 DEF WebInv, FormIsCurrent, At
  <1>6. flow[f].opened \in Details BY <1>0 DEF FlowStates
  <1> QED BY <1>4, <1>5, <1>6 DEF Details

\* As long as no answer replaces the details while the editor is open, a save
\* only writes over what the editor was opened with (app.js:saveEditor).
THEOREM OverwritesOnlyAfterReloadHolds == WebSpec => OverwritesOnlyAfterReload
  <1>1. WebInit => FormIsCurrent
    BY DEF WebInit, FormIsCurrent, Closed, At, Idle, Flows
  <1>2. WebInv /\ [WebNext]_webVars => WebInv'
    BY NextForm, WebConstants
  <1>3. WebInv /\ [WebNext]_webVars => [WritesOnlyOpened]_webVars
    BY StepWrites, WebConstants
  <1>4. WebInit => WebTypeOK
    BY InitWebTyped, WebConstants
  <1>5. WebInit => WebInv BY <1>1, <1>4 DEF WebInv
  <1> QED BY <1>2, <1>3, <1>5, PTL
      DEF WebSpec, OverwritesOnlyAfterReload, WritesOnlyOpened
=============================================================================
