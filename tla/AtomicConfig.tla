---------------------------- MODULE AtomicConfig ----------------------------
(***************************************************************************)
(* What the console promises about config.yaml.  A request that changes it *)
(* takes effect as a whole or not at all, and only on the configuration    *)
(* its client has seen; rollback-latest puts back what the last change     *)
(* that took effect replaced.                                              *)
(***************************************************************************)
EXTENDS ConfigDocument

CONSTANTS Requests, None

VARIABLES
    config,   \* the configuration in force
    undo,     \* what rollback-latest would put back, or None
    ask,      \* what each request asks for: id, entry and the revision seen
    result    \* "open", then "done", "refused" or "unsettled"

vars == <<config, undo, ask, result>>

Init ==
    /\ undo = None
    /\ ask = [r \in Requests |-> None]
    /\ result = [r \in Requests |-> "open"]

End(r, how) == result[r] = "open" /\ result' = [result EXCEPT ![r] = how]

Ask(r) ==
    /\ ask[r] = None
    /\ \A q \in Requests \ {r} : ask'[q] = ask[q]
    /\ UNCHANGED <<config, undo, result>>

Change(r) == With(Without(config, ask[r].id), ask[r].id, ask[r].entry)

Commit(r) ==
    /\ ask[r] # None /\ ask[r].revision = config
    /\ End(r, "done")
    /\ config' = Change(r)
    /\ undo' = config
    /\ UNCHANGED ask

Refuse(r) == End(r, "refused") /\ UNCHANGED <<config, undo, ask>>

\* "Configuration recovery failed": the configuration is the old one, but what
\* a rollback would put back is not promised.
GiveUp(r) == End(r, "unsettled") /\ UNCHANGED <<config, ask>>

Undo(r) ==
    /\ undo # None
    /\ End(r, "done")
    /\ config' = undo
    /\ UNCHANGED <<undo, ask>>

\* Somebody else edits the file.
Edit == UNCHANGED <<undo, ask, result>>

Next ==
    \/ \E r \in Requests : Ask(r) \/ Commit(r) \/ Refuse(r) \/ GiveUp(r) \/ Undo(r)
    \/ Edit

Spec == Init /\ [][Next]_vars
=============================================================================
