---------------------------- MODULE ConfigProofs ----------------------------
(***************************************************************************)
(* Proofs about ConfigTransaction, for any number of requests, models and  *)
(* entries, every backup limit and every environment; at the end, that a   *)
(* transaction looks like one change or none, and that an update that      *)
(* reports success is in force.  These two need that nobody else writes    *)
(* the file in the middle of a transaction: with "midway" in Env neither   *)
(* holds.                                                                  *)
(***************************************************************************)
EXTENDS ConfigTransaction, SequenceTheorems, TLAPS

-----------------------------------------------------------------------------
(* Documents and backups. *)

\* Dropping an element of a sequence leaves a shorter sequence.
LEMMA RemoveAtSeq ==
    ASSUME NEW S, NEW s \in Seq(S), NEW i \in DOMAIN s
    PROVE  RemoveAt(s, i) \in Seq(S) /\ Len(RemoveAt(s, i)) = Len(s) - 1
  BY DEF RemoveAt

\* Removing a model and adding one make documents of documents.
LEMMA WithoutDoc ==
    ASSUME NEW doc \in Docs, NEW m
    PROVE  Without(doc, m) \in Docs
  <1>1. CASE m \in Ids(doc)
    <2>1. (CHOOSE i \in DOMAIN doc : doc[i].id = m) \in DOMAIN doc
      BY <1>1 DEF Ids
    <2> QED BY <1>1, <2>1, RemoveAtSeq DEF Without, Docs
  <1> QED BY <1>1 DEF Without

LEMMA WithDoc ==
    ASSUME NEW doc \in Docs, NEW m \in Models, NEW v \in Entries
    PROVE  With(doc, m, v) \in Docs
  BY DEF With, Docs

\* What is left of a backup that is broken off is a document, if it is YAML.
LEMMA CutShortDocs ==
    ASSUME file \in Docs, NEW raw \in CutShort
    PROVE  raw \in Docs \cup {None}
  <1>1. ASSUME NEW n \in 1 .. Len(file) PROVE SubSeq(file, 1, n) \in Docs
    <2> DEFINE Pairs == [id : Models, entry : Entries]
    <2>1. file \in Seq(Pairs)
      BY DEF Docs
    <2> HIDE DEF Pairs
    <2>2. SubSeq(file, 1, n) \in Seq(Pairs)
      BY <2>1
    <2> QED BY <2>2 DEF Docs, Pairs
  <1> QED BY <1>1 DEF CutShort

\* After _backup the new file is the newest, the newest from before is the one
\* before it when two are kept, and no more than the limit are there.
LEMMA BackupKeeps ==
    ASSUME ConstantsAssumption, backups \in Seq(BackupFiles), NEW content \in Docs,
           NEW by \in (Requests \X {"remove", "register"}) \cup {None},
           Backup(content, by)
    PROVE  /\ backups' \in Seq(BackupFiles)
           /\ Len(backups') >= 1 /\ Len(backups') <= Limit
           /\ backups'[Len(backups')].raw = content
           /\ Limit >= 2 /\ Len(backups) >= 1 =>
                /\ Len(backups') >= 2
                /\ backups'[Len(backups') - 1] = backups[Len(backups)]
  <1> DEFINE all == Saved(content, by)
  <1>1. all \in Seq(BackupFiles) /\ Len(all) = Len(backups) + 1
    BY DEF Saved, BackupFiles
  <1>2. all[Len(all)].raw = content
    BY DEF Saved
  <1>3. Len(backups) >= 1 => all[Len(all) - 1] = backups[Len(backups)]
    BY DEF Saved
  <1>4. backups' = Newest(Limit, all)
    BY DEF Backup
  <1>5. Limit \in Nat /\ Limit >= 1
    BY DEF ConstantsAssumption
  <1> HIDE DEF all
  <1>6. CASE Len(all) > Limit
    <2>1. backups' = SubSeq(all, Len(all) - Limit + 1, Len(all))
      BY <1>4, <1>6 DEF Newest
    <2>2. Len(backups') = Limit /\ backups' \in Seq(BackupFiles)
      BY <2>1, <1>1, <1>5, <1>6
    <2>3. \A i \in 1 .. Limit : backups'[i] = all[Len(all) - Limit + i]
      BY <2>1, <1>1, <1>5, <1>6
    <2>4. backups'[Limit] = all[Len(all)]
      BY <2>3, <1>1, <1>5
    <2>5. Limit >= 2 => backups'[Limit - 1] = all[Len(all) - 1]
      BY <2>3, <1>1, <1>5
    <2> QED BY <2>2, <2>4, <2>5, <1>2, <1>3, <1>5
  <1>7. CASE ~(Len(all) > Limit)
    <2>1. backups' = all
      BY <1>4, <1>7 DEF Newest
    <2> QED BY <2>1, <1>1, <1>2, <1>3, <1>5, <1>7
  <1> QED BY <1>6, <1>7

\* discard_backup leaves a sequence of backup files, no longer than before.
LEMMA DiscardedSeq ==
    ASSUME NEW bs \in Seq(BackupFiles), NEW by
    PROVE  /\ Discarded(bs, by) \in Seq(BackupFiles)
           /\ Len(Discarded(bs, by)) <= Len(bs)
  <1>1. CASE \E i \in DOMAIN bs : bs[i].by = by
    <2>1. (CHOOSE i \in DOMAIN bs : bs[i].by = by) \in DOMAIN bs
      BY <1>1
    <2>2. Len(bs) \in Nat
      OBVIOUS
    <2> QED BY <1>1, <2>1, <2>2, RemoveAtSeq DEF Discarded
  <1> QED BY <1>1 DEF Discarded

-----------------------------------------------------------------------------
(* Type correctness. *)

LEMMA InitTyped == ConstantsAssumption /\ Init => ConfigTypeOK
  <1> SUFFICES ASSUME ConstantsAssumption, Init PROVE ConfigTypeOK
    OBVIOUS
  <1>1. InitialFile \in Docs /\ Limit \in Nat /\ Limit >= 1 /\ MaxEdits \in Nat
    BY DEF ConstantsAssumption
  <1>2. backups \in Seq(BackupFiles) /\ Len(backups) = 0
    BY DEF Init
  <1> QED BY <1>1, <1>2 DEF Init, ConfigTypeOK, InProgress, Phases, Calls, Writing

Ends(r) ==
    \E result \in {"ok", "failed", "cancelled", "rejected", "conflict", "unrecovered"} :
        End(r, result)

\* The types survive a step of one request past its arrival, if what the step
\* does to the files and to the request's own snapshot respects them.
LEMMA RequestTyped ==
    ASSUME ConfigTypeOK, NEW r \in Requests, pc[r] # "idle",
           \/ \E place \in Phases : Step(r, place) /\ orig'[r] \in Docs
           \/ Ends(r),
           \A q \in Requests : q # r => orig'[q] = orig[q],
           orig' \in [Requests -> Docs \cup {None}],
           file' \in Docs, cancelled' \subseteq Requests,
           backups' \in Seq(BackupFiles),
           WritesEnd => Len(backups') <= Limit,
           UNCHANGED <<seen, req, edits>>
    PROVE  ConfigTypeOK'
  <1>1. /\ pc' \in [Requests -> Phases \cup {"idle", "gate", "done"}]
        /\ outcome' \in [Requests -> Results \cup {None}]
        /\ written' \in [Requests -> Docs \cup {None}]
        /\ overtaken' \subseteq Requests
    BY DEF ConfigTypeOK, Step, End, Ends, Results
  <1>2. \A q \in Requests : pc'[q] # "idle" => req'[q] \in Bodies
    BY DEF ConfigTypeOK, Step, End, Ends
  <1>3. \A q \in Requests : written'[q] # None => InProgress(q)'
    BY DEF ConfigTypeOK, Step, End, Ends, InProgress
  <1>4. \A q \in Requests : InProgress(q)' => orig'[q] \in Docs
    <2> SUFFICES ASSUME NEW q \in Requests, InProgress(q)' PROVE orig'[q] \in Docs
      OBVIOUS
    <2>1. CASE q = r
      BY <2>1 DEF ConfigTypeOK, Step, End, Ends, InProgress, Phases, Calls, Writing
    <2>2. CASE q # r
      BY <2>2 DEF ConfigTypeOK, Step, End, Ends, InProgress
    <2> QED BY <2>1, <2>2
  <1> QED BY <1>1, <1>2, <1>4, <1>3 DEF ConfigTypeOK

\* _backup leaves backups of the right type and no more than the limit.
LEMMA BackupTyped ==
    ASSUME ConstantsAssumption, ConfigTypeOK,
           NEW r \in Requests, NEW name \in {"remove", "register"},
           Backup(file, <<r, name>>)
    PROVE  backups' \in Seq(BackupFiles) /\ Len(backups') <= Limit
  <1>1. backups \in Seq(BackupFiles) /\ file \in Docs
    BY DEF ConfigTypeOK
  <1>2. <<r, name>> \in (Requests \X {"remove", "register"}) \cup {None}
    OBVIOUS
  <1> QED BY <1>1, <1>2, BackupKeeps

\* A backup that is broken off, one of the right type, is the newest.
LEMMA CutShortTyped ==
    ASSUME ConfigTypeOK, NEW raw \in CutShort
    PROVE  /\ Saved(raw, None) \in Seq(BackupFiles)
           /\ Len(Saved(raw, None)) = Len(backups) + 1
           /\ backups # <<>> =>
                Saved(raw, None)[Len(Saved(raw, None)) - 1] = backups[Len(backups)]
  <1>1. backups \in Seq(BackupFiles) /\ file \in Docs
    BY DEF ConfigTypeOK
  <1>2. raw \in Docs \cup {None}
    BY <1>1, CutShortDocs
  <1>3. [raw |-> raw, by |-> None] \in BackupFiles
    BY <1>2 DEF BackupFiles
  <1> QED BY <1>1, <1>3 DEF Saved

\* A backup whose maker is forgotten keeps its content.
LEMMA ForgottenTyped ==
    ASSUME ConfigTypeOK, backups' = [backups EXCEPT ![Len(backups)].by = None]
    PROVE  /\ backups' \in Seq(BackupFiles) /\ Len(backups') = Len(backups)
           /\ \A i \in 1 .. Len(backups) : backups'[i].raw = backups[i].raw
  <1> DEFINE last == Len(backups)
             e == [backups[last] EXCEPT !.by = None]
  <1>1. backups \in Seq(BackupFiles)
    BY DEF ConfigTypeOK
  <1>2. CASE last \notin DOMAIN backups
    <2>1. backups' = backups
      BY <1>1, <1>2
    <2> QED BY <1>1, <2>1
  <1>3. CASE last \in DOMAIN backups
    <2>1. backups' = [backups EXCEPT ![last] = e]
      OBVIOUS
    <2>2. backups[last] \in BackupFiles
      BY <1>1, <1>3
    <2>3. e \in BackupFiles /\ e.raw = backups[last].raw
      BY <2>2 DEF BackupFiles
    <2> HIDE DEF e, last
    <2>4. backups' \in Seq(BackupFiles) /\ Len(backups') = Len(backups)
      BY <1>1, <1>3, <2>1, <2>3, ExceptSeq
    <2>5. \A i \in 1 .. Len(backups) :
             backups'[i] = IF i = last THEN e ELSE backups[i]
      BY <1>1, <1>3, <2>1
    <2> QED BY <2>3, <2>4, <2>5
  <1> QED BY <1>2, <1>3

\* What a store call puts in the place of the file is a document.
LEMMA CandidateTyped ==
    ASSUME ConfigTypeOK, NEW r \in Requests, pc[r] \in Writing
    PROVE  Candidate(r) \in Docs
  <1>1. /\ orig[r] \in Docs /\ req[r] \in Bodies /\ written[r] \in Docs \cup {None}
    BY DEF ConfigTypeOK, InProgress, Phases, Calls, Writing
  <1>2. Checked(r) \in Docs
    BY <1>1 DEF Checked
  <1>3. Without(Checked(r), req[r].id) \in Docs
    BY <1>2, WithoutDoc
  <1>4. With(Checked(r), req[r].id, req[r].entry) \in Docs
    BY <1>1, <1>2, WithDoc DEF Bodies
  <1> QED BY <1>1, <1>3, <1>4 DEF Candidate, Writing

\* Dropping backups keeps their type and their limit.
LEMMA DiscardTyped ==
    ASSUME ConstantsAssumption, ConfigTypeOK, NEW bs \in Seq(BackupFiles),
           WritesEnd => Len(bs) <= Limit, NEW by
    PROVE  /\ Discarded(bs, by) \in Seq(BackupFiles)
           /\ WritesEnd => Len(Discarded(bs, by)) <= Limit
  <1>1. /\ Discarded(bs, by) \in Seq(BackupFiles)
        /\ Len(Discarded(bs, by)) <= Len(bs)
    BY DiscardedSeq
  <1>2. Len(bs) \in Nat /\ Len(Discarded(bs, by)) \in Nat /\ Limit \in Nat
    BY <1>1 DEF ConstantsAssumption
  <1> QED BY <1>1, <1>2

\* Every step keeps the types.
LEMMA NextTyped == ConstantsAssumption /\ ConfigTypeOK /\ [Next]_vars => ConfigTypeOK'
  <1> SUFFICES ASSUME ConstantsAssumption, ConfigTypeOK, [Next]_vars
               PROVE  ConfigTypeOK'
    OBVIOUS
  <1>1. Limit \in Nat /\ MaxEdits \in Nat
    BY DEF ConstantsAssumption
  <1>2. /\ backups \in Seq(BackupFiles) /\ file \in Docs /\ seen \in Docs
        /\ WritesEnd => Len(backups) <= Limit
        /\ orig \in [Requests -> Docs \cup {None}]
        /\ cancelled \subseteq Requests
        /\ \A r \in Requests : pc[r] # "idle" => req[r] \in Bodies
        /\ \A r \in Requests : InProgress(r) => orig[r] \in Docs
    BY DEF ConfigTypeOK
  <1>3. ASSUME NEW r \in Requests, Arrive(r) PROVE ConfigTypeOK'
    <2>1. PICK kind \in Kinds, m \in Models, v \in Entries :
            req' = [req EXCEPT ![r] = [kind |-> kind, id |-> m, entry |-> v,
                                       revision |-> file]]
      BY <1>3 DEF Arrive
    <2>2. [kind |-> kind, id |-> m, entry |-> v, revision |-> file] \in Bodies
      BY <1>2 DEF Bodies
    <2>3. Step(r, "gate") /\ UNCHANGED <<file, backups, seen, orig, cancelled, edits>>
      BY <1>3 DEF Arrive
    <2>4. req' \in [Requests -> Bodies \cup {None}]
      BY <2>1, <2>2 DEF ConfigTypeOK
    <2>5. \A q \in Requests : pc'[q] # "idle" => req'[q] \in Bodies
      BY <2>1, <2>2, <2>3 DEF ConfigTypeOK, Step
    <2>6. \A q \in Requests : InProgress(q)' => orig'[q] \in Docs
      BY <2>3 DEF ConfigTypeOK, Step, InProgress, Phases, Calls, Writing
    <2>7. /\ pc' \in [Requests -> Phases \cup {"idle", "gate", "done"}]
          /\ outcome' = outcome
      BY <2>3 DEF ConfigTypeOK, Step
    <2>8. \A q \in Requests : written'[q] # None => InProgress(q)'
      <3>1. pc[r] = "idle" /\ pc' = [pc EXCEPT ![r] = "gate"] /\ written' = written
        BY <1>3 DEF Arrive, Step
      <3> QED BY <3>1 DEF ConfigTypeOK, InProgress, Phases, Calls, Writing
    <2> QED BY <2>3, <2>4, <2>5, <2>6, <2>7, <2>8 DEF ConfigTypeOK, Step
  <1>4. ASSUME NEW r \in Requests, Reject(r) \/ Conflict(r) PROVE ConfigTypeOK'
    <2>1. pc[r] # "idle" /\ Ends(r)
      BY <1>4 DEF Reject, Conflict, Ends
    <2>2. UNCHANGED <<file, backups, seen, req, orig, cancelled, edits>>
      BY <1>4 DEF Reject, Conflict
    <2> QED BY <1>2, <2>1, <2>2, RequestTyped
  <1>5. ASSUME NEW r \in Requests, BeginUpdate(r) \/ BeginRegister(r) PROVE ConfigTypeOK'
    <2>1. PICK name \in {"remove", "register"}, place \in {"removing", "adding"} :
             Backup(file, <<r, name>>) /\ Step(r, place)
      BY <1>5 DEF BeginUpdate, BeginRegister
    <2>2. /\ pc[r] # "idle" /\ orig' = [orig EXCEPT ![r] = file]
          /\ UNCHANGED <<file, seen, req, cancelled, edits>>
      BY <1>5 DEF BeginUpdate, BeginRegister, MayBegin
    <2>3. backups' \in Seq(BackupFiles) /\ Len(backups') <= Limit
      BY <2>1, BackupTyped
    <2>4. /\ orig' \in [Requests -> Docs \cup {None}] /\ orig'[r] \in Docs
          /\ \A q \in Requests : q # r => orig'[q] = orig[q]
      BY <1>2, <2>2
    <2>5. place \in Phases
      BY DEF Phases, Calls, Writing
    <2> QED BY <1>2, <2>1, <2>2, <2>3, <2>4, <2>5, RequestTyped
  <1>6. ASSUME NEW r \in Requests, Replace(r) PROVE ConfigTypeOK'
    <2>1. /\ pc[r] # "idle" /\ InProgress(r) /\ file' \in Docs
          /\ UNCHANGED <<backups, seen, req, orig, cancelled, edits>>
      BY <1>6, CandidateTyped DEF Replace, InProgress, Phases, Calls, Writing
    <2>2. \E place \in Phases : Step(r, place)
      BY <1>6 DEF Replace, Phases, Calls, Writing
    <2> QED BY <1>2, <2>1, <2>2, RequestTyped
  <1>7. ASSUME NEW r \in Requests, ReadBack(r) PROVE ConfigTypeOK'
    <2>1. /\ pc[r] # "idle" /\ InProgress(r)
          /\ \E place \in Phases : pc' = [pc EXCEPT ![r] = place]
          /\ written' = [written EXCEPT ![r] = file]
          /\ UNCHANGED <<file, backups, seen, req, orig, cancelled, outcome, edits, overtaken>>
      BY <1>7 DEF ReadBack, InProgress, Phases, Calls, Writing
    <2>2. /\ pc' \in [Requests -> Phases \cup {"idle", "gate", "done"}]
          /\ written' \in [Requests -> Docs \cup {None}]
      BY <1>2, <2>1 DEF ConfigTypeOK
    <2>3. \A q \in Requests : /\ InProgress(q)' <=> InProgress(q)
                              /\ pc'[q] # "idle" => pc[q] # "idle"
      BY <2>1 DEF ConfigTypeOK, InProgress
    <2> QED BY <2>1, <2>2, <2>3 DEF ConfigTypeOK
  <1>8. ASSUME NEW r \in Requests, PutBack(r) PROVE ConfigTypeOK'
    <2>1. /\ pc[r] # "idle" /\ InProgress(r) /\ Step(r, "adding")
          /\ Backup(file, <<r, "register">>)
          /\ UNCHANGED <<file, seen, req, orig, cancelled, edits>>
      BY <1>8 DEF PutBack, InProgress, Phases, Calls, Writing
    <2>2. backups' \in Seq(BackupFiles) /\ Len(backups') <= Limit
      BY <2>1, BackupTyped
    <2>3. "adding" \in Phases
      BY DEF Phases, Calls, Writing
    <2> QED BY <1>2, <2>1, <2>2, <2>3, RequestTyped
  <1>9. ASSUME NEW r \in Requests, Succeed(r) PROVE ConfigTypeOK'
    <2>1. /\ pc[r] # "idle" /\ Ends(r)
          /\ \/ backups' = Discarded(backups, <<r, "register">>)
             \/ backups' = backups
          /\ UNCHANGED <<file, seen, req, orig, cancelled, edits>>
      BY <1>9 DEF Succeed, Ends
    <2>2. /\ backups' \in Seq(BackupFiles)
          /\ WritesEnd => Len(backups') <= Limit
      BY <1>2, <2>1, DiscardTyped
    <2> QED BY <1>2, <2>1, <2>2, RequestTyped
  <1>10. ASSUME NEW r \in Requests, Fail(r) PROVE ConfigTypeOK'
    <2>1. /\ pc[r] # "idle" /\ InProgress(r)
          /\ \E place \in Phases : Step(r, place)
          /\ UNCHANGED <<file, backups, seen, req, orig, cancelled, edits>>
      BY <1>10 DEF Fail, InProgress, Phases, Calls, Writing
    <2> QED BY <1>2, <2>1, RequestTyped
  <1>11. ASSUME NEW r \in Requests, Restore(r) PROVE ConfigTypeOK'
    <2>1. /\ pc[r] # "idle" /\ InProgress(r)
          /\ UNCHANGED <<file, backups, seen, req, orig, cancelled, edits>>
      BY <1>11 DEF Restore, InProgress, Phases, Calls, Writing
    <2>2. (\E place \in Phases : Step(r, place)) \/ Ends(r)
      BY <1>11 DEF Restore, Ends, Phases, Calls, Writing
    <2> QED BY <1>2, <2>1, <2>2, RequestTyped
  <1>12. ASSUME NEW r \in Requests, Restored(r) PROVE ConfigTypeOK'
    <2>1. /\ pc[r] # "idle" /\ Ends(r)
          /\ backups' = Discarded(Discarded(backups, <<r, "register">>), <<r, "remove">>)
          /\ UNCHANGED <<file, seen, req, orig, cancelled, edits>>
      BY <1>12 DEF Restored, DiscardOwn, Ends
    <2>2. /\ backups' \in Seq(BackupFiles)
          /\ WritesEnd => Len(backups') <= Limit
      <3>1. /\ Discarded(backups, <<r, "register">>) \in Seq(BackupFiles)
            /\ WritesEnd => Len(Discarded(backups, <<r, "register">>)) <= Limit
        BY <1>2, DiscardTyped
      <3> QED BY <2>1, <3>1, DiscardTyped
    <2> QED BY <1>2, <2>1, <2>2, RequestTyped
  <1>13. ASSUME NEW r \in Requests, RestoreUnconfirmed(r) PROVE ConfigTypeOK'
    <2>1. /\ pc[r] # "idle" /\ Ends(r)
          /\ UNCHANGED <<file, backups, seen, req, orig, cancelled, edits>>
      BY <1>13 DEF RestoreUnconfirmed, Ends
    <2> QED BY <1>2, <2>1, RequestTyped
  <1>14. ASSUME NEW r \in Requests, Rollback(r) PROVE ConfigTypeOK'
    <2>1. /\ pc[r] # "idle" /\ Ends(r)
          /\ file' = backups[Len(backups)].raw
          /\ UNCHANGED <<backups, seen, req, orig, cancelled, edits>>
      BY <1>14 DEF Rollback, Ends
    <2>2. backups # <<>> /\ backups[Len(backups)].raw # None
      BY <1>14 DEF Rollback, NoRollback
    <2>3. backups[Len(backups)] \in BackupFiles
      BY <1>2, <2>2
    <2>4. file' \in Docs
      BY <2>1, <2>2, <2>3 DEF BackupFiles
    <2> QED BY <1>2, <2>1, <2>4, RequestTyped
  <1>15. ASSUME NEW r \in Requests, Cancel(r) PROVE ConfigTypeOK'
    <2>1. UNCHANGED <<file, backups, seen, req, orig, edits>>
      BY <1>15 DEF Cancel
    <2>2. CASE pc[r] = "gate" /\ End(r, "cancelled") /\ UNCHANGED cancelled
      <3>1. Ends(r)
        BY <2>2 DEF Ends
      <3> QED BY <1>2, <2>1, <2>2, <3>1, RequestTyped
    <2>3. CASE cancelled' = cancelled \cup {r} /\ UNCHANGED <<pc, outcome, written, overtaken>>
      BY <2>1, <2>3 DEF ConfigTypeOK, InProgress
    <2> QED BY <1>15, <2>2, <2>3 DEF Cancel
  <1>16. ASSUME SwapReload PROVE ConfigTypeOK'
    BY <1>16 DEF SwapReload, ConfigTypeOK, InProgress
  <1>17. ASSUME Edit PROVE ConfigTypeOK'
    <2>1. PICK m \in Models, v \in Entries :
            file' \in {Without(file, m), With(Without(file, m), m, v)}
      BY <1>17 DEF Edit
    <2>2. Without(file, m) \in Docs
      BY <1>2, WithoutDoc
    <2>3. With(Without(file, m), m, v) \in Docs
      BY <2>2, WithDoc
    <2>4. file' \in Docs
      BY <2>1, <2>2, <2>3
    <2>5. edits' \in 0 .. MaxEdits
      BY <1>1, <1>17 DEF Edit, ConfigTypeOK
    <2>6. UNCHANGED <<backups, seen, pc, req, orig, written, cancelled, outcome>>
      BY <1>17 DEF Edit
    <2>7. overtaken' \subseteq Requests
      BY <1>17 DEF Edit, ConfigTypeOK
    <2> QED BY <2>4, <2>5, <2>6, <2>7 DEF ConfigTypeOK, InProgress
  <1>18. ASSUME Crash PROVE ConfigTypeOK'
    <2>1. /\ "crash" \in Env
          /\ UNCHANGED <<file, seen, req, orig, cancelled, edits>>
          /\ ~WritesEnd
          /\ pc' = [r \in Requests |-> IF pc[r] = "idle" THEN "idle" ELSE "done"]
      BY <1>18 DEF Crash, WritesEnd
    <2>2. backups' \in Seq(BackupFiles)
      BY <1>2, <1>18, CutShortTyped DEF Crash
    <2>3. outcome' \in [Requests -> Results \cup {None}]
      BY <1>18 DEF Crash, ConfigTypeOK, Results
    <2>4. \A r \in Requests : ~InProgress(r)' /\ (pc'[r] # "idle" => pc[r] # "idle")
      BY <2>1 DEF InProgress, Phases, Calls, Writing
    <2>5. pc' \in [Requests -> Phases \cup {"idle", "gate", "done"}]
      BY <2>1
    <2>6. /\ written' = [r \in Requests |-> None] /\ overtaken' \subseteq Requests
          /\ written' \in [Requests -> Docs \cup {None}]
      BY <1>18 DEF Crash
    <2> QED BY <2>1, <2>2, <2>3, <2>4, <2>5, <2>6 DEF ConfigTypeOK
  <1>19. ASSUME UNCHANGED vars PROVE ConfigTypeOK'
    BY <1>19 DEF vars, ConfigTypeOK, InProgress
  <1>20. ASSUME NEW r \in Requests, DiskFails(r) PROVE ConfigTypeOK'
    <2>1. ~WritesEnd /\ UNCHANGED <<seen, req, orig, cancelled, edits>>
      BY <1>20 DEF DiskFails, WritesEnd
    <2>2. CASE BackupFails(r)
      <3>1. pc[r] # "idle" /\ UNCHANGED file
        BY <2>2 DEF BackupFails, MayBegin
      <3>2. backups' \in Seq(BackupFiles)
        BY <1>2, <2>2, CutShortTyped DEF BackupFails
      <3>3. CASE Ends(r)
        BY <1>2, <2>1, <3>1, <3>2, <3>3, RequestTyped
      <3>4. CASE Step(r, "undo") /\ written[r] # None
        <4>1. InProgress(r) /\ "undo" \in Phases
          BY <3>4 DEF ConfigTypeOK, Phases
        <4> QED BY <1>2, <2>1, <3>1, <3>2, <3>4, <4>1, RequestTyped
      <3> QED BY <2>2, <3>3, <3>4 DEF BackupFails, Recover, Ends
    <2>3. CASE MutateFails(r)
      <3>1. pc[r] # "idle" /\ InProgress(r) /\ UNCHANGED file
        BY <2>3 DEF MutateFails, InProgress, Phases, Calls, Writing
      <3>2. backups' \in Seq(BackupFiles)
        BY <2>3, ForgottenTyped DEF MutateFails
      <3>3. (\E place \in Phases : Step(r, place)) \/ Ends(r)
        BY <2>3 DEF MutateFails, Recover, Ends, Phases
      <3> QED BY <1>2, <2>1, <3>1, <3>2, <3>3, RequestTyped
    <2>4. CASE RestoreFails(r)
      <3>1. /\ pc[r] # "idle" /\ InProgress(r) /\ Ends(r) /\ UNCHANGED backups
            /\ file' \in {file, orig[r]}
        BY <2>4 DEF RestoreFails, InProgress, Phases, Calls, Writing, Ends
      <3> QED BY <1>2, <2>1, <3>1, RequestTyped
    <2>5. CASE DiscardFails(r)
      <3>1. /\ pc[r] # "idle" /\ Ends(r) /\ UNCHANGED file
            /\ backups' \in {backups, Discarded(backups, <<r, "register">>)}
        BY <2>5 DEF DiscardFails, Ends
      <3>2. backups' \in Seq(BackupFiles)
        BY <1>2, <3>1, DiscardedSeq
      <3> QED BY <1>2, <2>1, <3>1, <3>2, RequestTyped
    <2>6. CASE RollbackFails(r)
      <3>1. /\ pc[r] # "idle" /\ Ends(r) /\ UNCHANGED backups
            /\ file' \in {file, backups[Len(backups)].raw}
            /\ backups # <<>> /\ backups[Len(backups)].raw # None
        BY <2>6 DEF RollbackFails, NoRollback, Ends
      <3>2. backups[Len(backups)] \in BackupFiles
        BY <1>2, <3>1
      <3>3. file' \in Docs
        BY <1>2, <3>1, <3>2 DEF BackupFiles
      <3> QED BY <1>2, <2>1, <3>1, <3>3, RequestTyped
    <2> QED BY <1>20, <2>2, <2>3, <2>4, <2>5, <2>6 DEF DiskFails
  <1> QED
    BY <1>3, <1>4, <1>5, <1>6, <1>7, <1>8, <1>9, <1>10, <1>11, <1>12, <1>13, <1>14, <1>15,
       <1>16, <1>17, <1>18, <1>19, <1>20 DEF Next, Request, Quiet

\* Every variable keeps its type, and outside of crashes never more backups are
\* kept than the limit allows.
THEOREM ConfigTypeCorrect == Spec => []ConfigTypeOK
  <1>1. Init => ConfigTypeOK
    BY InitTyped, ConstantsAssumption
  <1>2. ConfigTypeOK /\ [Next]_vars => ConfigTypeOK'
    BY NextTyped, ConstantsAssumption
  <1> QED BY <1>1, <1>2, PTL DEF Spec

-----------------------------------------------------------------------------
(* What the backups hold. *)

\* The gate and the configuration lock let one transaction in at a time.
OneTransaction ==
    \A r, q \in Requests : InProgress(r) /\ InProgress(q) => r = q

IsNewest(content) == backups # <<>> /\ backups[Len(backups)].raw = content
IsSecond(content) == Len(backups) >= 2 /\ backups[Len(backups) - 1].raw = content

\* Before the second write of an update.
Early == {"removing", "removeWritten", "removed"}

\* The file from before a transaction is the newest backup after the first
\* write, and at worst the one before it after the second.
OriginalKept ==
    Limit >= 2 => \A r \in Requests : InProgress(r) =>
        \/ IsNewest(orig[r])
        \/ pc[r] \notin Early /\ IsSecond(orig[r])

IInv == ConfigTypeOK /\ OneTransaction /\ OriginalKept

\* The strengthened invariant implies the property.
LEMMA OriginalIsSaved == ConstantsAssumption /\ IInv => OriginalSaved
  <1> SUFFICES ASSUME ConstantsAssumption, IInv, Limit >= 2,
                      NEW r \in Requests, InProgress(r)
               PROVE  orig[r] \in Raws
    BY DEF OriginalSaved
  <1>1. backups \in Seq(BackupFiles)
    BY DEF IInv, ConfigTypeOK
  <1>2. CASE IsNewest(orig[r])
    <2>1. Len(backups) \in DOMAIN backups
      BY <1>1, <1>2 DEF IsNewest
    <2> QED BY <1>2, <2>1 DEF IsNewest, Raws
  <1>3. CASE IsSecond(orig[r])
    <2>1. Len(backups) - 1 \in DOMAIN backups
      BY <1>1, <1>3 DEF IsSecond
    <2> QED BY <1>3, <2>1 DEF IsSecond, Raws
  <1> QED BY <1>2, <1>3 DEF IInv, OriginalKept

\* A store call makes the file it has read the newest backup.
LEMMA BackupSaves ==
    ASSUME ConstantsAssumption, ConfigTypeOK,
           NEW r \in Requests, NEW name \in {"remove", "register"},
           Backup(file, <<r, name>>)
    PROVE  /\ Len(backups') \in DOMAIN backups'
           /\ backups' # <<>> /\ backups'[Len(backups')].raw = file
           /\ Limit >= 2 /\ backups # <<>> =>
                /\ Len(backups') >= 2
                /\ backups'[Len(backups') - 1] = backups[Len(backups)]
  <1>1. backups \in Seq(BackupFiles) /\ file \in Docs
    BY DEF ConfigTypeOK
  <1>2. <<r, name>> \in (Requests \X {"remove", "register"}) \cup {None}
    OBVIOUS
  <1>3. /\ backups' \in Seq(BackupFiles)
        /\ Len(backups') >= 1
        /\ backups'[Len(backups')].raw = file
        /\ Limit >= 2 /\ Len(backups) >= 1 =>
             /\ Len(backups') >= 2
             /\ backups'[Len(backups') - 1] = backups[Len(backups)]
    BY <1>1, <1>2, BackupKeeps
  <1>4. backups # <<>> => Len(backups) >= 1
    BY <1>1
  <1> QED BY <1>3, <1>4

\* A step after which no transaction is in progress keeps the invariant.
LEMMA NoneKept ==
    ASSUME ConfigTypeOK', \A r \in Requests : ~InProgress(r)'
    PROVE  IInv'
  BY DEF IInv, OneTransaction, OriginalKept

\* A step that starts no transaction, moves none back behind its second write
\* and leaves the backups alone keeps it, too.
LEMMA UntouchedKept ==
    ASSUME IInv, ConfigTypeOK', UNCHANGED <<backups, orig>>,
           \A r \in Requests : InProgress(r)' => InProgress(r),
           \A r \in Requests : pc'[r] \in Early => pc[r] \in Early
    PROVE  IInv'
  BY DEF IInv, OneTransaction, OriginalKept, IsNewest, IsSecond

\* A request that begins a transaction backs up what it has read.
LEMMA BeginKept ==
    ASSUME ConstantsAssumption, ConfigTypeOK, ConfigTypeOK', GateFree, NEW r \in Requests,
           NEW name \in {"remove", "register"},
           Backup(file, <<r, name>>), orig' = [orig EXCEPT ![r] = file],
           NEW place, Step(r, place)
    PROVE  IInv'
  <1>1. \A q \in Requests : InProgress(q)' => q = r
    BY DEF GateFree, InProgress, Step, ConfigTypeOK
  <1>2. orig'[r] = file
    BY DEF ConfigTypeOK
  <1>3. backups' # <<>> /\ backups'[Len(backups')].raw = file
    BY BackupSaves
  <1> QED BY <1>1, <1>2, <1>3 DEF IInv, OneTransaction, OriginalKept, IsNewest

\* When the only transaction ends, none is left.
LEMMA EndKept ==
    ASSUME IInv, ConfigTypeOK', NEW r \in Requests, InProgress(r), Ends(r)
    PROVE  IInv'
  <1>1. \A q \in Requests : ~InProgress(q)'
    <2> SUFFICES ASSUME NEW q \in Requests, InProgress(q)' PROVE FALSE
      OBVIOUS
    <2>1. pc' = [pc EXCEPT ![r] = "done"] /\ pc \in [Requests -> Phases \cup {"idle", "gate", "done"}]
      BY DEF Ends, End, IInv, ConfigTypeOK
    <2>2. q # r
      BY <2>1 DEF InProgress, Phases, Calls, Writing
    <2>3. InProgress(q)
      BY <2>1, <2>2 DEF InProgress
    <2> QED BY <2>2, <2>3 DEF IInv, OneTransaction
  <1> QED BY <1>1, NoneKept

\* Every step keeps the invariant.
LEMMA NextKept == ConstantsAssumption /\ IInv /\ [Next]_vars => IInv'
  <1> SUFFICES ASSUME ConstantsAssumption, IInv, [Next]_vars PROVE IInv'
    OBVIOUS
  <1>1. ConfigTypeOK /\ ConfigTypeOK'
    BY NextTyped DEF IInv
  <1>2. pc \in [Requests -> Phases \cup {"idle", "gate", "done"}]
    BY <1>1 DEF ConfigTypeOK
  <1>3. ASSUME NEW r \in Requests, Arrive(r) \/ Reject(r) \/ Conflict(r) \/ Rollback(r)
        PROVE  IInv'
    <2>1. /\ pc' = [pc EXCEPT ![r] = "gate"] \/ pc' = [pc EXCEPT ![r] = "done"]
          /\ UNCHANGED <<backups, orig>>
      BY <1>3 DEF Arrive, Reject, Conflict, Rollback, Step, End
    <2> QED BY <1>1, <1>2, <2>1, UntouchedKept DEF InProgress, Phases, Calls,
                        Writing, Early
  <1>4. ASSUME NEW r \in Requests, BeginUpdate(r) PROVE IInv'
    BY <1>1, <1>4, BeginKept DEF BeginUpdate, MayBegin
  <1>5. ASSUME NEW r \in Requests, BeginRegister(r) PROVE IInv'
    BY <1>1, <1>5, BeginKept DEF BeginRegister, MayBegin
  <1>6. ASSUME NEW r \in Requests, PutBack(r) PROVE IInv'
    <2>1. /\ pc[r] = "removed" /\ pc' = [pc EXCEPT ![r] = "adding"] /\ orig' = orig
          /\ Backup(file, <<r, "register">>)
      BY <1>6 DEF PutBack, Step
    <2>2. \A q \in Requests : InProgress(q)' => q = r
      BY <1>2, <2>1 DEF IInv, OneTransaction, InProgress, Phases, Calls, Writing
    <2>3. Limit >= 2 => IsNewest(orig[r])
      BY <2>1 DEF IInv, OriginalKept, InProgress, Phases, Early
    <2>4. Limit >= 2 => /\ Len(backups') >= 2
                        /\ backups'[Len(backups') - 1] = backups[Len(backups)]
      BY <1>1, <2>1, <2>3, BackupSaves DEF IsNewest
    <2>5. Limit >= 2 => IsSecond(orig[r])'
      BY <2>1, <2>3, <2>4 DEF IsNewest, IsSecond
    <2>6. pc'[r] \notin Early
      BY <1>2, <2>1 DEF Early
    <2> QED BY <1>1, <2>2, <2>5, <2>6 DEF IInv, OneTransaction, OriginalKept
  <1>7. ASSUME NEW r \in Requests, Succeed(r) \/ Restored(r) \/ RestoreUnconfirmed(r)
        PROVE  IInv'
    <2>1. InProgress(r) /\ Ends(r)
      BY <1>7 DEF Succeed, Restored, RestoreUnconfirmed, InProgress, Phases, Calls,
                  Writing, Ends
    <2> QED BY <1>1, <2>1, EndKept
  <1>8. ASSUME NEW r \in Requests, Fail(r) \/ Restore(r) PROVE IInv'
    <2>1. /\ InProgress(r) /\ UNCHANGED <<backups, orig>>
          /\ \E place \in {"undo", "restoring", "done"} : pc' = [pc EXCEPT ![r] = place]
      BY <1>8 DEF Fail, Restore, Step, End, InProgress, Phases
    <2> QED BY <1>1, <1>2, <2>1, UntouchedKept DEF InProgress, Early
  <1>9. ASSUME NEW r \in Requests, Replace(r) \/ ReadBack(r) PROVE IInv'
    <2>1. /\ InProgress(r) /\ UNCHANGED <<backups, orig>>
          /\ \/ pc[r] = "removing" /\ pc' = [pc EXCEPT ![r] = "removeWritten"]
             \/ pc[r] = "removeWritten" /\ pc' = [pc EXCEPT ![r] = "removed"]
             \/ \E place \in {"addWritten", "added", "restored"} :
                   pc' = [pc EXCEPT ![r] = place]
      BY <1>9 DEF Replace, ReadBack, Step, InProgress, Phases, Calls, Writing
    <2> QED BY <1>1, <1>2, <2>1, UntouchedKept DEF InProgress, Early
  <1>10. ASSUME NEW r \in Requests, Cancel(r) PROVE IInv'
    <2>1. /\ UNCHANGED <<backups, orig>>
          /\ pc' = [pc EXCEPT ![r] = "done"] \/ pc' = pc
      BY <1>10 DEF Cancel, End
    <2> QED BY <1>1, <1>2, <2>1, UntouchedKept DEF InProgress, Phases, Calls,
                        Writing, Early
  <1>11. ASSUME SwapReload \/ Edit \/ UNCHANGED vars PROVE IInv'
    BY <1>1, <1>11, UntouchedKept DEF SwapReload, Edit, vars, InProgress
  <1>12. ASSUME Crash PROVE IInv'
    <2>1. \A r \in Requests : ~InProgress(r)'
      BY <1>12 DEF Crash, InProgress, Phases, Calls, Writing
    <2> QED BY <1>1, <2>1, NoneKept
  <1>13. ASSUME NEW r \in Requests, DiskFails(r) PROVE IInv'
    <2>1. orig' = orig
      BY <1>13 DEF DiskFails
    <2>2. CASE Ends(r) /\ (GateFree \/ InProgress(r))
      <3>1. CASE GateFree
        <4>1. \A q \in Requests : ~InProgress(q)'
          BY <1>2, <2>2, <3>1 DEF Ends, End, GateFree, InProgress, Phases, Calls,
                        Writing
        <4> QED BY <1>1, <4>1, NoneKept
      <3> QED BY <1>1, <2>2, <3>1, EndKept
    <2>3. CASE InProgress(r) /\ Step(r, "undo") /\ (BackupFails(r) \/ MutateFails(r))
      <3>1. pc' = [pc EXCEPT ![r] = "undo"]
        BY <2>3 DEF Step
      <3>2. \A q \in Requests : InProgress(q)' => q = r
        BY <1>2, <2>3, <3>1 DEF IInv, OneTransaction, InProgress
      <3>3. Limit >= 2 => IsNewest(orig[r]) \/ IsSecond(orig[r])
        BY <2>3 DEF IInv, OriginalKept
      <3>4. backups \in Seq(BackupFiles) BY <1>1 DEF ConfigTypeOK
      <3>5. Limit >= 2 => IsNewest(orig[r])' \/ IsSecond(orig[r])'
        <4>1. CASE BackupFails(r)
          <5>1. pc[r] = "removed"
            BY <2>3, <4>1 DEF BackupFails, MayBegin, InProgress, Phases, Calls, Writing
          <5>2. Limit >= 2 => IsNewest(orig[r])
            BY <2>3, <5>1 DEF IInv, OriginalKept, Early
          <5>3. CASE backups' = backups
            BY <2>1, <3>3, <5>3 DEF IsNewest, IsSecond
          <5>4. ASSUME NEW raw \in CutShort, backups' = Saved(raw, None)
                PROVE  Limit >= 2 => IsSecond(orig[r])'
            <6>1. CASE backups # <<>>
              <7>1. Len(backups') = Len(backups) + 1 /\ Len(backups) >= 1
                BY <1>1, <3>4, <5>4, <6>1, CutShortTyped
              <7>2. backups'[Len(backups') - 1] = backups[Len(backups)]
                BY <1>1, <5>4, <6>1, CutShortTyped
              <7> QED BY <2>1, <5>2, <7>1, <7>2 DEF IsNewest, IsSecond
            <6> QED BY <5>2, <6>1 DEF IsNewest
          <5> QED BY <4>1, <5>3, <5>4 DEF BackupFails
        <4>2. CASE MutateFails(r)
          <5>1. /\ backups' \in Seq(BackupFiles) /\ Len(backups') = Len(backups)
                /\ \A i \in 1 .. Len(backups) : backups'[i].raw = backups[i].raw
            BY <1>1, <4>2, ForgottenTyped DEF MutateFails
          <5>2. CASE IsNewest(orig[r])
            <6>1. Len(backups) \in 1 .. Len(backups) /\ backups' # <<>>
              BY <3>4, <5>1, <5>2 DEF IsNewest
            <6> QED BY <2>1, <5>1, <5>2, <6>1 DEF IsNewest
          <5>3. CASE IsSecond(orig[r])
            <6>1. Len(backups) - 1 \in 1 .. Len(backups)
              BY <3>4, <5>3 DEF IsSecond
            <6> QED BY <2>1, <5>1, <5>3, <6>1 DEF IsSecond
          <5> QED BY <3>3, <5>2, <5>3
        <4> QED BY <2>3, <4>1, <4>2
      <3>6. pc'[r] \notin Early
        BY <1>2, <3>1 DEF Early
      <3> QED BY <1>1, <3>2, <3>5, <3>6 DEF IInv, OneTransaction, OriginalKept
    <2>4. CASE BackupFails(r) \/ MutateFails(r)
      <3>1. GateFree \/ InProgress(r)
        BY <2>4 DEF BackupFails, MutateFails, MayBegin, InProgress, Phases
      <3>2. CASE Ends(r)
        BY <2>2, <3>1, <3>2
      <3>3. CASE Step(r, "undo") /\ written[r] # None
        <4>1. InProgress(r)
          BY <1>1, <3>3 DEF ConfigTypeOK
        <4> QED BY <2>3, <2>4, <3>3, <4>1
      <3> QED BY <2>4, <3>2, <3>3 DEF BackupFails, MutateFails, Recover, Ends
    <2>5. CASE RestoreFails(r) \/ DiscardFails(r)
      <3>1. InProgress(r) /\ Ends(r)
        BY <2>5 DEF RestoreFails, DiscardFails, InProgress, Phases, Calls, Writing, Ends
      <3> QED BY <1>1, <3>1, EndKept
    <2>6. CASE RollbackFails(r)
      <3>1. pc' = [pc EXCEPT ![r] = "done"] /\ UNCHANGED <<backups, orig>>
        BY <2>1, <2>6 DEF RollbackFails, End
      <3> QED BY <1>1, <1>2, <3>1, UntouchedKept DEF InProgress, Phases, Calls,
                        Writing, Early
    <2> QED BY <1>13, <2>5, <2>6, <2>4 DEF DiskFails
  <1> QED
    BY <1>3, <1>4, <1>5, <1>6, <1>7, <1>8, <1>9, <1>10, <1>11, <1>12, <1>13 DEF Next, Request, Quiet

\* Whenever the console may be killed in the middle of a transaction, the
\* configuration from before it is in a backup, for every number of requests
\* and every limit from two on, whatever is edited or rolled back meanwhile.
THEOREM OriginalSavedHolds == Spec => []OriginalSaved
  <1>1. Init => IInv
    BY InitTyped, ConstantsAssumption
       DEF Init, IInv, OneTransaction, OriginalKept, InProgress, Phases, Calls, Writing
  <1>2. IInv /\ [Next]_vars => IInv'
    BY NextKept, ConstantsAssumption
  <1>3. IInv => OriginalSaved
    BY OriginalIsSaved, ConstantsAssumption
  <1> QED BY <1>1, <1>2, <1>3, PTL DEF Spec

-----------------------------------------------------------------------------
(* What somebody else wrote.                                               *)
(*                                                                         *)
(* Between the backup and the replacement the file is the newest backup,   *)
(* or in a recovery what the transaction wrote itself, as long as nobody   *)
(* edits it in the store call.                                             *)

EditsKept ==
    \A r \in Requests \ overtaken :
        /\ pc[r] \in {"removing", "adding"} => IsNewest(file)
        /\ pc[r] = "restoring" => file = written[r]
EditInv == IInv /\ EditsKept

\* A step after which no request is about to replace the file.
LEMMA EditsIdle ==
    ASSUME \A r \in Requests : pc'[r] \notin Writing
    PROVE  EditsKept'
  BY DEF EditsKept, Writing

\* A step that none of those requests takes and that leaves the files alone.
LEMMA EditsFrame ==
    ASSUME EditsKept, UNCHANGED <<file, backups>>,
           \A r \in Requests : pc'[r] \in Writing =>
               /\ pc'[r] = pc[r] /\ written'[r] = written[r]
               /\ r \in overtaken => r \in overtaken'
    PROVE  EditsKept'
  BY DEF EditsKept, IsNewest, Writing

\* A step of the one transaction, which is then not about to replace the file.
LEMMA EditsMove ==
    ASSUME IInv, NEW r \in Requests, InProgress(r),
           NEW place, place \notin Writing, pc' = [pc EXCEPT ![r] = place]
    PROVE  EditsKept'
  <1>1. \A q \in Requests : pc'[q] \notin Writing
    BY DEF IInv, ConfigTypeOK, OneTransaction, InProgress, Phases, Calls
  <1> QED BY <1>1, EditsIdle

LEMMA NextEdits ==
    ASSUME ConstantsAssumption, EditInv, [Next]_vars
    PROVE  EditInv'
  <1>1. IInv' BY NextKept DEF EditInv
  <1>2. /\ IInv /\ EditsKept /\ ConfigTypeOK
        /\ pc \in [Requests -> Phases \cup {"idle", "gate", "done"}]
        /\ written \in [Requests -> Docs \cup {None}]
    BY DEF EditInv, IInv, ConfigTypeOK
  <1>3. ASSUME NEW r \in Requests, Arrive(r) \/ Reject(r) \/ Conflict(r) \/ Cancel(r)
        PROVE  EditsKept'
    <2>1. /\ UNCHANGED <<file, backups>>
          /\ \/ /\ pc[r] \in {"idle", "gate"}
                /\ \E place \in {"gate", "done"} : pc' = [pc EXCEPT ![r] = place]
                /\ \A q \in Requests \ {r} : /\ written'[q] = written[q]
                                             /\ q \in overtaken => q \in overtaken'
             \/ UNCHANGED <<pc, written, overtaken>>
      BY <1>2, <1>3 DEF Arrive, Reject, Conflict, Cancel, Step, End
    <2> QED BY <1>2, <2>1, EditsFrame DEF Writing
  <1>4. ASSUME NEW r \in Requests, BeginUpdate(r) \/ BeginRegister(r) \/ PutBack(r)
        PROVE  EditsKept'
    <2>1. PICK name \in {"remove", "register"}, place \in {"removing", "adding"} :
             Backup(file, <<r, name>>) /\ Step(r, place)
      BY <1>4 DEF BeginUpdate, BeginRegister, PutBack
    <2>2. file' = file /\ (GateFree \/ InProgress(r))
      BY <1>4 DEF BeginUpdate, BeginRegister, MayBegin, PutBack, InProgress, Phases
    <2>3. IsNewest(file)'
      BY <1>2, <2>1, <2>2, BackupSaves DEF IsNewest
    <2>4. \A q \in Requests : q # r => pc'[q] \notin Writing
      BY <1>2, <2>1, <2>2 DEF Step, GateFree, IInv, OneTransaction, InProgress,
                        Phases, Calls
    <2>5. pc'[r] \in {"removing", "adding"}
      BY <1>2, <2>1 DEF Step
    <2> QED BY <2>3, <2>4, <2>5 DEF EditsKept, Writing
  <1>5. ASSUME NEW r \in Requests, InProgress(r),
               \E place \in (Phases \ Writing) \cup {"done"} : pc' = [pc EXCEPT ![r] = place]
        PROVE  EditsKept'
    BY <1>2, <1>5, EditsMove DEF Writing
  <1>6. ASSUME NEW r \in Requests,
               \/ Replace(r) \/ ReadBack(r) \/ Succeed(r) \/ Fail(r) \/ Restored(r)
               \/ RestoreUnconfirmed(r) \/ RestoreFails(r) \/ DiscardFails(r)
        PROVE  EditsKept'
    <2>1. InProgress(r)
      BY <1>6 DEF Replace, ReadBack, Succeed, Fail, Restored, RestoreUnconfirmed,
                  RestoreFails, DiscardFails, InProgress, Phases, Calls, Writing
    <2>2. \E place \in {"removeWritten", "addWritten", "restored", "removed", "added",
                        "undo", "done"} : pc' = [pc EXCEPT ![r] = place]
      BY <1>6 DEF Replace, ReadBack, Succeed, Fail, Restored, RestoreUnconfirmed,
                  RestoreFails, DiscardFails, Step, End, Writing
    <2> QED BY <1>5, <2>1, <2>2 DEF Phases, Calls, Writing
  <1>7. ASSUME NEW r \in Requests, Restore(r) PROVE EditsKept'
    <2>1. InProgress(r) BY <1>7 DEF Restore, InProgress, Phases
    <2>2. CASE End(r, "unrecovered")
      BY <1>5, <2>1, <2>2 DEF End
    <2>3. CASE MayRestore(r) /\ Step(r, "restoring")
      <3>1. \A q \in Requests : q # r => pc'[q] \notin Writing
        BY <1>2, <2>1, <2>3 DEF Step, IInv, OneTransaction, InProgress, Phases, Calls
      <3>2. pc'[r] = "restoring" /\ file' = written'[r]
        BY <1>2, <1>7, <2>3 DEF Restore, MayRestore, Step
      <3> QED BY <3>1, <3>2 DEF EditsKept, Writing
    <2> QED BY <1>7, <2>2, <2>3 DEF Restore
  <1>8. ASSUME NEW r \in Requests, Rollback(r) \/ RollbackFails(r) PROVE EditsKept'
    <2>1. LoopFree /\ pc' = [pc EXCEPT ![r] = "done"]
      BY <1>8 DEF Rollback, RollbackFails, End
    <2> QED BY <1>2, <2>1, EditsIdle DEF LoopFree, Calls, Writing
  <1>9. ASSUME NEW r \in Requests, BackupFails(r) \/ MutateFails(r) PROVE EditsKept'
    <2>1. GateFree \/ InProgress(r)
      BY <1>9 DEF BackupFails, MutateFails, MayBegin, InProgress, Phases
    <2>2. \E place \in {"undo", "done"} : pc' = [pc EXCEPT ![r] = place]
      BY <1>9 DEF BackupFails, MutateFails, Recover, Step, End
    <2>3. \A q \in Requests : pc'[q] \notin Writing
      BY <1>2, <2>1, <2>2 DEF GateFree, IInv, OneTransaction, InProgress, Phases,
                        Calls, Writing
    <2> QED BY <2>3, EditsIdle
  <1>10. ASSUME Edit PROVE EditsKept'
    BY <1>10 DEF Edit, EditsKept, Calls, Writing
  <1>11. ASSUME SwapReload \/ UNCHANGED vars PROVE EditsKept'
    BY <1>2, <1>11, EditsFrame DEF SwapReload, vars
  <1>12. ASSUME Crash PROVE EditsKept'
    BY <1>12, EditsIdle DEF Crash, Writing
  <1>13. EditsKept'
    BY <1>3, <1>4, <1>6, <1>7, <1>8, <1>9, <1>10, <1>11, <1>12
       DEF Next, Request, DiskFails, Quiet
  <1> QED BY <1>1, <1>13 DEF EditInv

\* What a step that replaces the file may lose: nothing that is not its own,
\* except in a rollback and when somebody edits the file in the store call.
SavesEdits ==
    edits' = edits /\ file' # file =>
        OwnOrSaved \/ \E r \in overtaken : InProgress(r)

LEMMA StepSavesEdits ==
    ASSUME ConstantsAssumption, EditInv, Next
    PROVE  SavesEdits
  <1>1. IInv /\ EditsKept /\ ConfigTypeOK /\ backups \in Seq(BackupFiles)
        /\ overtaken \subseteq Requests
    BY DEF EditInv, IInv, ConfigTypeOK
  <1>2. ASSUME NEW r \in Requests, Replace(r) \/ RestoreFails(r) PROVE SavesEdits
    <2> SUFFICES ASSUME file' # file, r \notin overtaken PROVE OwnOrSaved
      BY <1>1, <1>2 DEF SavesEdits, Replace, RestoreFails, InProgress, Phases, Calls,
                        Writing
    <2>1. pc[r] \in Writing /\ InProgress(r) /\ UNCHANGED backups
      BY <1>2 DEF Replace, RestoreFails, InProgress, Phases, Calls, Writing
    <2>2. CASE pc[r] \in {"removing", "adding"}
      <3>1. IsNewest(file) BY <1>1, <2>2 DEF EditsKept
      <3>2. Len(backups) \in DOMAIN backups BY <1>1, <3>1 DEF IsNewest
      <3> QED BY <2>1, <3>1, <3>2 DEF IsNewest, OwnOrSaved, Raws
    <2>3. CASE pc[r] = "restoring"
      <3>1. file = written[r] BY <1>1, <2>3 DEF EditsKept
      <3> QED BY <2>1, <3>1 DEF OwnOrSaved
    <2> QED BY <2>1, <2>2, <2>3 DEF Writing
  <1>3. ASSUME NEW r \in Requests, Rollback(r) \/ RollbackFails(r) PROVE SavesEdits
    <2>1. pc[r] = "gate" /\ req[r].kind = "rollback" /\ pc'[r] = "done"
      BY <1>1, <1>3 DEF Rollback, RollbackFails, End, ConfigTypeOK
    <2> QED BY <2>1 DEF SavesEdits, OwnOrSaved
  <1>4. ASSUME NEW r \in Requests,
               \/ Arrive(r) \/ Reject(r) \/ Conflict(r) \/ BeginUpdate(r)
               \/ BeginRegister(r) \/ ReadBack(r) \/ PutBack(r) \/ Succeed(r) \/ Fail(r)
               \/ Restore(r) \/ Restored(r) \/ RestoreUnconfirmed(r) \/ Cancel(r)
               \/ BackupFails(r) \/ MutateFails(r) \/ DiscardFails(r)
        PROVE  SavesEdits
    <2>1. file' = file
      BY <1>4 DEF Arrive, Reject, Conflict, BeginUpdate, BeginRegister, ReadBack,
                  PutBack,
                  Succeed, Fail, Restore, Restored, RestoreUnconfirmed, Cancel,
                  BackupFails, MutateFails, DiscardFails
    <2> QED BY <2>1 DEF SavesEdits
  <1>5. ASSUME Edit PROVE SavesEdits
    BY <1>1, <1>5 DEF Edit, ConfigTypeOK, SavesEdits
  <1>6. ASSUME SwapReload \/ Crash \/ Quiet PROVE SavesEdits
    BY <1>6 DEF SwapReload, Crash, Quiet, vars, SavesEdits
  <1> QED BY <1>2, <1>3, <1>4, <1>5, <1>6 DEF Next, Request, DiskFails

\* What somebody else wrote into the file is in a backup when the console
\* replaces it, except by rollback-latest and, in the moment between a store
\* call's check and its os.replace, by the call itself.
THEOREM EditsSavedHolds == Spec => EditsSaved
  <1>1. Init => EditInv
    BY InitTyped, ConstantsAssumption
       DEF Init, EditInv, IInv, OneTransaction, OriginalKept, EditsKept, InProgress,
           Phases, Calls, Writing
  <1>2. EditInv /\ [Next]_vars => EditInv'
    BY NextEdits, ConstantsAssumption
  <1>3. EditInv /\ [Next]_vars => [SavesEdits]_vars
    BY StepSavesEdits, ConstantsAssumption
  <1> QED BY <1>1, <1>2, <1>3, PTL DEF Spec, EditsSaved, SavesEdits

-----------------------------------------------------------------------------
(* A successful update is live. *)

\* An update puts the model back when neither the file nor llama-swap has it;
\* from then on llama-swap can only list it with the new entry.
PutsBack(r) == pc[r] \in {"adding", "addWritten", "added"} /\ req[r].kind = "update"
AddedIsLive ==
    \A r \in Requests : PutsBack(r) =>
        IF pc[r] = "adding"
        THEN file = written[r] /\ req[r].id \notin Ids(file) /\ req[r].id \notin Ids(seen)
        ELSE /\ HasEntry(file, req[r].id, req[r].entry)
             /\ req[r].id \in Ids(seen) => HasEntry(seen, req[r].id, req[r].entry)
LiveInv == IInv /\ AddedIsLive

LEMMA WithHasEntry ==
    ASSUME NEW doc \in Docs, NEW m \in Models, NEW v \in Entries
    PROVE  HasEntry(With(doc, m, v), m, v)
  <1> DEFINE new == With(doc, m, v)
  <1>1. Len(doc) + 1 \in DOMAIN new /\ new[Len(doc) + 1] = [id |-> m, entry |-> v]
    BY DEF With, Docs
  <1> QED BY <1>1 DEF HasEntry

\* A step that brings no update to these phases, and changes neither the file
\* nor what llama-swap runs with, under an update in one.
LEMMA LiveFrame ==
    ASSUME AddedIsLive,
           \A r \in Requests : PutsBack(r)' =>
               /\ pc'[r] = pc[r] /\ req'[r] = req[r] /\ written'[r] = written[r]
               /\ UNCHANGED <<file, seen>>
    PROVE  AddedIsLive'
  BY DEF AddedIsLive, PutsBack, HasEntry

\* A step of the one transaction, after which it is in none of them.
LEMMA LiveMove ==
    ASSUME IInv, AddedIsLive, NEW r \in Requests, InProgress(r),
           \E place \in (Phases \cup {"done"}) \ {"adding", "addWritten", "added"} :
               pc' = [pc EXCEPT ![r] = place]
    PROVE  AddedIsLive'
  <1>1. \A q \in Requests : pc'[q] \notin {"adding", "addWritten", "added"}
    BY DEF IInv, ConfigTypeOK, OneTransaction, InProgress, Phases, Calls, Writing
  <1> QED BY <1>1 DEF AddedIsLive, PutsBack

LEMMA NextLive ==
    ASSUME ConstantsAssumption, NoneAssumption, "midway" \notin Env, LiveInv, [Next]_vars
    PROVE  LiveInv'
  <1>1. IInv' BY NextKept DEF LiveInv
  <1>2. /\ IInv /\ AddedIsLive /\ ConfigTypeOK
        /\ pc \in [Requests -> Phases \cup {"idle", "gate", "done"}]
        /\ req \in [Requests -> Bodies \cup {None}]
        /\ written \in [Requests -> Docs \cup {None}]
    BY DEF LiveInv, IInv, ConfigTypeOK
  <1>3. GateFree => \A r \in Requests : ~PutsBack(r)
    BY DEF GateFree, PutsBack, InProgress, Phases, Calls, Writing
  <1>4. \A r \in Requests : PutsBack(r) =>
           InProgress(r) /\ req[r] \in Bodies /\ orig[r] \in Docs
    BY <1>2 DEF ConfigTypeOK, PutsBack, InProgress, Phases, Calls, Writing
  <1>5. ASSUME NEW r \in Requests, Arrive(r) \/ Reject(r) \/ Conflict(r) \/ Cancel(r)
        PROVE  AddedIsLive'
    <2>1. /\ \/ /\ \E place \in {"gate", "done"} : pc' = [pc EXCEPT ![r] = place]
                /\ \A q \in Requests \ {r} : written'[q] = written[q]
             \/ UNCHANGED <<pc, written>>
          /\ \A q \in Requests \ {r} : req'[q] = req[q]
          /\ pc'[r] \notin {"gate", "done"} => req'[r] = req[r]
          /\ UNCHANGED <<file, seen>>
      BY <1>2, <1>5 DEF Arrive, Reject, Conflict, Cancel, Step, End
    <2> QED BY <1>2, <2>1, LiveFrame DEF PutsBack
  <1>6. ASSUME NEW r \in Requests, UNCHANGED req, GateFree,
               \/ BeginUpdate(r) \/ BeginRegister(r) \/ Rollback(r)
               \/ BackupFails(r) \/ RollbackFails(r)
        PROVE  AddedIsLive'
    <2>1. \A q \in Requests : ~PutsBack(q)'
      BY <1>2, <1>6, <1>3 DEF BeginUpdate, BeginRegister, Rollback, BackupFails,
                        Recover,
                        RollbackFails, MayBegin, PutsBack, Step, End
    <2> QED BY <2>1 DEF AddedIsLive
  <1>7. ASSUME NEW r \in Requests, PutBack(r) PROVE AddedIsLive'
    <2>1. /\ pc[r] = "removed" /\ pc' = [pc EXCEPT ![r] = "adding"]
          /\ Absent(r) /\ Unchanged(r)
          /\ UNCHANGED <<file, seen, req, written>>
      BY <1>7 DEF PutBack, Step
    <2>2. \A q \in Requests : PutsBack(q)' => q = r
      BY <1>2, <2>1 DEF IInv, OneTransaction, InProgress, Phases, Calls, Writing,
                        PutsBack
    <2>3. pc'[r] = "adding" BY <1>2, <2>1
    <2> QED BY <2>1, <2>2, <2>3 DEF AddedIsLive, Absent, Unchanged
  <1>8. ASSUME NEW r \in Requests, Replace(r), pc[r] = "adding" PROVE AddedIsLive'
    <2>1. /\ pc' = [pc EXCEPT ![r] = "addWritten"] /\ UNCHANGED <<seen, req>>
          /\ file' = With(Checked(r), req[r].id, req[r].entry)
      BY <1>8 DEF Replace, Candidate, Step
    <2>2. \A q \in Requests : PutsBack(q)' => q = r
      BY <1>2, <1>8, <2>1 DEF IInv, OneTransaction, InProgress, Phases, Calls,
                        Writing, PutsBack
    <2>3. req[r].kind = "update" =>
             /\ req[r].id \notin Ids(seen)
             /\ HasEntry(file', req[r].id, req[r].entry)
      <3> SUFFICES ASSUME req[r].kind = "update"
                   PROVE  /\ req[r].id \notin Ids(seen)
                          /\ HasEntry(file', req[r].id, req[r].entry)
        OBVIOUS
      <3>1. PutsBack(r) BY <1>8 DEF PutsBack
      <3>2. /\ req[r].id \notin Ids(seen) /\ req[r] \in Bodies
            /\ orig[r] \in Docs /\ Checked(r) \in Docs
        BY <1>2, <1>8, <1>4, <3>1 DEF AddedIsLive, Checked
      <3>3. HasEntry(file', req[r].id, req[r].entry)
        BY <2>1, <3>2, WithHasEntry DEF Bodies
      <3> QED BY <3>2, <3>3
    <2>4. pc'[r] = "addWritten" BY <1>2, <2>1
    <2> QED BY <2>1, <2>2, <2>3, <2>4 DEF AddedIsLive, PutsBack, HasEntry
  <1>9. ASSUME NEW r \in Requests, ReadBack(r), pc[r] = "addWritten" PROVE AddedIsLive'
    <2>1. pc' = [pc EXCEPT ![r] = "added"] /\ UNCHANGED <<file, seen, req>>
      BY <1>9 DEF ReadBack
    <2>2. \A q \in Requests : PutsBack(q)' => q = r
      BY <1>2, <1>9, <2>1 DEF IInv, OneTransaction, InProgress, Phases, Calls,
                        Writing, PutsBack
    <2>3. pc'[r] = "added" BY <1>2, <2>1
    <2> QED BY <1>2, <1>9, <2>1, <2>2, <2>3 DEF AddedIsLive, PutsBack, HasEntry
  <1>10. ASSUME NEW r \in Requests, InProgress(r),
               \E place \in {"removeWritten", "restored", "removed", "undo", "restoring",
                             "done"} : pc' = [pc EXCEPT ![r] = place]
        PROVE  AddedIsLive'
    <2>1. \E place \in (Phases \cup {"done"}) \ {"adding", "addWritten", "added"} :
             pc' = [pc EXCEPT ![r] = place]
      BY <1>10 DEF Phases, Calls, Writing
    <2> QED BY <1>2, <1>10, <2>1, LiveMove
  <1>11. ASSUME SwapReload PROVE AddedIsLive'
    BY <1>2, <1>11 DEF SwapReload, AddedIsLive, PutsBack, HasEntry
  <1>12. ASSUME Edit PROVE AddedIsLive'
    BY <1>12, <1>3 DEF Edit, AddedIsLive, PutsBack
  <1>13. ASSUME Crash PROVE AddedIsLive'
    BY <1>13 DEF Crash, AddedIsLive, PutsBack
  <1>14. ASSUME UNCHANGED vars PROVE AddedIsLive'
    BY <1>2, <1>14, LiveFrame DEF vars
  <1>15. ASSUME NEW r \in Requests, DiskFails(r) PROVE AddedIsLive'
    <2>1. UNCHANGED req BY <1>15 DEF DiskFails
    <2>2. CASE RollbackFails(r)
      <3>1. GateFree BY <2>2 DEF RollbackFails
      <3> QED BY <1>6, <2>1, <2>2, <3>1
    <2>3. CASE BackupFails(r) /\ GateFree BY <1>6, <2>1, <2>3
    <2>4. CASE \/ BackupFails(r) /\ ~GateFree
               \/ MutateFails(r) \/ RestoreFails(r) \/ DiscardFails(r)
      <3>1. InProgress(r)
        BY <2>4 DEF BackupFails, MutateFails, RestoreFails, DiscardFails, MayBegin,
                    InProgress, Phases, Calls, Writing
      <3>2. \E place \in {"undo", "done"} : pc' = [pc EXCEPT ![r] = place]
        <4>1. Recover(r) \/ End(r, "unrecovered")
          BY <2>4 DEF BackupFails, MutateFails, RestoreFails, DiscardFails
        <4> QED BY <4>1 DEF Recover, Step, End
      <3> QED BY <1>10, <3>1, <3>2
    <2> QED BY <1>15, <2>2, <2>3, <2>4 DEF DiskFails
  <1>16. ASSUME NEW r \in Requests, Request(r) PROVE AddedIsLive'
    <2>1. CASE Reject(r) \/ Conflict(r) BY <1>5, <2>1
    <2>2. CASE BeginUpdate(r) \/ BeginRegister(r) \/ Rollback(r)
      <3>1. UNCHANGED req /\ GateFree
        BY <2>2 DEF BeginUpdate, BeginRegister, Rollback, MayBegin
      <3> QED BY <1>6, <2>2, <3>1
    <2>3. CASE Replace(r) /\ pc[r] = "adding" BY <1>8, <2>3
    <2>4. CASE ReadBack(r) /\ pc[r] = "addWritten" BY <1>9, <2>4
    <2>5. CASE PutBack(r) BY <1>7, <2>5
    <2>6. CASE \/ Replace(r) /\ pc[r] # "adding"
               \/ ReadBack(r) /\ pc[r] # "addWritten"
               \/ Succeed(r) \/ Fail(r) \/ Restore(r) \/ Restored(r)
               \/ RestoreUnconfirmed(r)
      <3>1. InProgress(r)
        BY <2>6 DEF Replace, ReadBack, Succeed, Fail, Restore, Restored,
                    RestoreUnconfirmed, InProgress, Phases, Calls, Writing
      <3>2. \E place \in {"removeWritten", "restored", "removed", "undo", "restoring",
                          "done"} : pc' = [pc EXCEPT ![r] = place]
        BY <2>6 DEF Replace, ReadBack, Succeed, Fail, Restore, Restored,
                    RestoreUnconfirmed, Step, End, Writing
      <3> QED BY <1>10, <3>1, <3>2
    <2> QED BY <1>16, <2>1, <2>2, <2>3, <2>4, <2>5, <2>6 DEF Request
  <1>17. AddedIsLive'
    BY <1>5, <1>11, <1>12, <1>13, <1>14, <1>15, <1>16 DEF Next, Quiet
  <1> QED BY <1>1, <1>17 DEF LiveInv

\* What a step that answers an update with success has seen.
AnswersLive ==
    \A r \in Requests :
        outcome'[r] = "ok" /\ outcome[r] # "ok" /\ req[r].kind = "update"
        => HasEntry(seen, req[r].id, req[r].entry)

LEMMA StepAnswersLive ==
    ASSUME LiveInv, Next
    PROVE  AnswersLive
  <1> SUFFICES ASSUME NEW r \in Requests, outcome'[r] = "ok", outcome[r] # "ok",
                      req[r].kind = "update"
               PROVE  HasEntry(seen, req[r].id, req[r].entry)
    BY DEF AnswersLive
  <1>1. Succeed(r) \/ Rollback(r)
    <2>1. outcome \in [Requests -> Results \cup {None}]
      BY DEF LiveInv, IInv, ConfigTypeOK
    <2>2. ASSUME NEW q \in Requests, Arrive(q) \/ DiskFails(q) \/ Cancel(q) PROVE FALSE
      BY <2>1, <2>2 DEF Arrive, DiskFails, BackupFails, MutateFails, Recover,
                        RestoreFails, DiscardFails, RollbackFails, Cancel, Step, End
    <2>3. ASSUME NEW q \in Requests, Request(q) PROVE Succeed(r) \/ Rollback(r)
      BY <2>1, <2>3 DEF Request, Reject, Conflict, BeginUpdate, BeginRegister, PutBack,
                        Replace, ReadBack, Succeed, Fail, Restore, Restored,
                        RestoreUnconfirmed, Rollback,
                        Step, End
    <2>4. ~(SwapReload \/ Edit \/ Crash \/ Quiet)
      BY <2>1 DEF SwapReload, Edit, Crash, Quiet, vars
    <2> QED BY <2>2, <2>3, <2>4 DEF Next
  <1>2. CASE Succeed(r)
    BY <1>2 DEF Succeed, Present, LiveInv, AddedIsLive, PutsBack
  <1>3. CASE Rollback(r)
    BY <1>3 DEF Rollback
  <1> QED BY <1>1, <1>2, <1>3

\* When nobody writes the file in the middle of a transaction, an update is
\* answered with success only while llama-swap runs with the new entry
\* (_confirm_hot_reload), whatever crashes, fails, times out or is cancelled.
THEOREM SuccessIsLiveHolds ==
    ASSUME "midway" \notin Env
    PROVE  Spec => SuccessIsLive
  <1>1. Init => LiveInv
    BY InitTyped, ConstantsAssumption
       DEF Init, LiveInv, IInv, OneTransaction, OriginalKept, AddedIsLive, PutsBack,
           InProgress, Phases, Calls, Writing
  <1>2. LiveInv /\ [Next]_vars => LiveInv'
    BY NextLive, ConstantsAssumption, NoneAssumption
  <1>3. LiveInv /\ [Next]_vars => [AnswersLive]_vars
    BY StepAnswersLive
  <1> QED BY <1>1, <1>2, <1>3, PTL DEF Spec, SuccessIsLive, AnswersLive

-----------------------------------------------------------------------------
(* One change or none.                                                     *)
(*                                                                         *)
(* Of the two writes of an update only the end shows: in between the file  *)
(* from before is in force, and the backups the transaction has made are   *)
(* the newest ones, of which the first holds that file.  So what rollback  *)
(* would put back is the newest backup below them, and discarding them, or *)
(* the last, is all that the end of the transaction has to do.             *)

\* The conditions under which it holds: nothing interrupts a write, nobody
\* writes the file in the middle of a transaction, and the two backups of an
\* update do not push out the one before them.
Undisturbed == {"crash", "disk", "midway"} \cap Env = {} /\ Limit >= 3

\* The file without the model, and with its new entry.
Cleared(r) == Without(orig[r], req[r].id)
Changed(r) == With(Cleared(r), req[r].id, req[r].entry)

\* What is in the file, and what the transaction knows of it, in each phase.
FileAt(r) ==
    /\ pc[r] = "removing" => file = orig[r] /\ written[r] = None
    /\ pc[r] \in {"removeWritten", "removed", "adding"} => file = Cleared(r)
    /\ pc[r] \in {"addWritten", "added"} => file = Changed(r)
    /\ pc[r] = "adding" => file = Checked(r)
    /\ pc[r] \in {"removed", "added", "undo", "restoring"} => file = written[r]
    /\ pc[r] = "restored" => file = orig[r]
FileKnown == \A r \in Requests : InProgress(r) => FileAt(r)
AskedFor ==
    \A r \in Requests : InProgress(r) =>
        /\ req[r].kind \in {"update", "register"}
        /\ req[r].revision = orig[r]
        /\ req[r].kind = "register" =>
              req[r].id \notin Ids(orig[r]) /\ pc[r] \notin Early
Pending ==
    \A r \in Requests : /\ pc[r] # "done" => outcome[r] = None
                        /\ pc[r] = "idle" => req[r] = None

\* The newest backups are those that r has made, in this order.
TailIs(r, names) ==
    LET first == Len(backups) - Len(names)
    IN  /\ first >= 0
        /\ backups[first + 1].raw = orig[r]
        /\ \A i \in 1 .. first : backups[i].by \notin Own(r)
        /\ \A j \in 1 .. Len(names) : backups[first + j].by = <<r, names[j]>>
\* What r may have written by now.
Writes(r) ==
    IF req[r].kind = "register" THEN {<<"register">>}
    ELSE (IF pc[r] \notin {"adding", "addWritten", "added"} THEN {<<"remove">>} ELSE {})
         \cup (IF pc[r] \notin Early THEN {<<"remove", "register">>} ELSE {})
BackupsKnown ==
    \A r \in Requests : InProgress(r) => \E names \in Writes(r) : TailIs(r, names)
NotYet ==
    \A r \in Requests : pc[r] \in {"idle", "gate"} =>
        \A i \in DOMAIN backups : backups[i].by \notin Own(r)
AtomInv == IInv /\ FileKnown /\ AskedFor /\ Pending /\ BackupsKnown /\ NotYet

\* The backup that rollback would put back below the k newest ones.
Below(bs, k) == IF Len(bs) = k THEN None ELSE bs[Len(bs) - k].raw

\* _backup keeps the newest files in order.
LEMMA NewestTail ==
    ASSUME NEW n \in Nat, n >= 3, NEW S, NEW bs \in Seq(S), NEW b \in S, Len(bs) <= n
    PROVE  LET new == Newest(n, Append(bs, b))
               d == Len(bs) + 1 - Len(new)
           IN  /\ new \in Seq(S) /\ d \in {0, 1} /\ (d = 1 => Len(bs) = n)
               /\ new[Len(new)] = b
               /\ \A i \in 1 .. Len(new) - 1 : new[i] = bs[i + d]
  <1> DEFINE all == Append(bs, b)
  <1>1. all \in Seq(S) /\ Len(all) = Len(bs) + 1 /\ all[Len(bs) + 1] = b
        /\ \A i \in 1 .. Len(bs) : all[i] = bs[i]
    OBVIOUS
  <1> HIDE DEF all
  <1>2. CASE Len(all) > n
    <2> DEFINE new == SubSeq(all, Len(all) - n + 1, Len(all))
    <2>1. Newest(n, all) = new BY <1>2 DEF Newest
    <2>2. Len(all) = n + 1 BY <1>1, <1>2
    <2>3. new \in Seq(S) /\ Len(new) = n /\ \A i \in 1 .. n : new[i] = all[i + 1]
      BY <1>1, <2>2
    <2> HIDE DEF new
    <2> QED BY <1>1, <2>1, <2>2, <2>3 DEF all
  <1>3. CASE ~(Len(all) > n)
    <2>1. Newest(n, all) = all BY <1>3 DEF Newest
    <2> QED BY <1>1, <1>3, <2>1 DEF all
  <1> QED BY <1>2, <1>3

\* discard_backup on the newest file, and on one that is gone.
LEMMA DiscardNewest ==
    ASSUME NEW S, NEW bs \in Seq(S), NEW by, Len(bs) >= 1, bs[Len(bs)].by = by,
           \A i \in 1 .. Len(bs) - 1 : bs[i].by # by
    PROVE  Discarded(bs, by) = SubSeq(bs, 1, Len(bs) - 1)
  <1>1. (CHOOSE i \in DOMAIN bs : bs[i].by = by) = Len(bs)
    <2>1. \A i \in DOMAIN bs : bs[i].by = by <=> i = Len(bs) OBVIOUS
    <2> QED BY <2>1
  <1>2. RemoveAt(bs, Len(bs)) = SubSeq(bs, 1, Len(bs) - 1)
    BY DEF RemoveAt
  <1> QED BY <1>1, <1>2 DEF Discarded

LEMMA DiscardMissing ==
    ASSUME NEW bs, NEW by, \A i \in DOMAIN bs : bs[i].by # by
    PROVE  Discarded(bs, by) = bs
  BY DEF Discarded

LEMMA FrontSeq ==
    ASSUME NEW S, NEW bs \in Seq(S), NEW n \in 0 .. Len(bs)
    PROVE  /\ SubSeq(bs, 1, n) \in Seq(S) /\ Len(SubSeq(bs, 1, n)) = n
           /\ \A i \in 1 .. n : SubSeq(bs, 1, n)[i] = bs[i]
  OBVIOUS

LEMMA FrontFront ==
    ASSUME NEW S, NEW bs \in Seq(S), NEW n \in 0 .. Len(bs), NEW m \in 0 .. n
    PROVE  SubSeq(SubSeq(bs, 1, n), 1, m) = SubSeq(bs, 1, m)
  <1> DEFINE front == SubSeq(bs, 1, n)
  <1>1. front \in Seq(S) /\ Len(front) = n /\ \A i \in 1 .. n : front[i] = bs[i]
    BY FrontSeq
  <1> HIDE DEF front
  <1>2. m \in 0 .. Len(front) BY <1>1
  <1>3. /\ SubSeq(front, 1, m) \in Seq(S) /\ Len(SubSeq(front, 1, m)) = m
        /\ \A i \in 1 .. m : SubSeq(front, 1, m)[i] = front[i]
    BY <1>1, <1>2, FrontSeq
  <1>4. /\ SubSeq(bs, 1, m) \in Seq(S) /\ Len(SubSeq(bs, 1, m)) = m
        /\ \A i \in 1 .. m : SubSeq(bs, 1, m)[i] = bs[i]
    BY FrontSeq
  <1>5. \A i \in 1 .. m : SubSeq(front, 1, m)[i] = SubSeq(bs, 1, m)[i]
    BY <1>1, <1>3, <1>4
  <1> QED BY <1>3, <1>4, <1>5 DEF front

\* What the end of a transaction makes of the backups.
LEMMA OwnDiscarded ==
    ASSUME backups \in Seq(BackupFiles), NEW r \in Requests,
           NEW names \in {<<"remove">>, <<"register">>, <<"remove", "register">>},
           TailIs(r, names)
    PROVE  /\ Discarded(Discarded(backups, <<r, "register">>), <<r, "remove">>)
                = SubSeq(backups, 1, Len(backups) - Len(names))
           /\ names = <<"remove", "register">> =>
                Discarded(backups, <<r, "register">>)
                    = SubSeq(backups, 1, Len(backups) - 1)
  <1> DEFINE n == Len(backups)
             first == n - Len(names)
             one == Discarded(backups, <<r, "register">>)
  <1>1. /\ first \in Nat /\ n \in Nat
        /\ \A i \in 1 .. first : backups[i].by \notin Own(r)
        /\ \A j \in 1 .. Len(names) : backups[first + j].by = <<r, names[j]>>
    BY DEF TailIs
  <1>2. <<r, "remove">> # <<r, "register">> OBVIOUS
  <1>3. \A i \in 1 .. first : /\ backups[i].by # <<r, "remove">>
                              /\ backups[i].by # <<r, "register">>
    BY <1>1 DEF Own
  <1>4. CASE names = <<"remove">>
    <2>1. n >= 1 /\ first = n - 1 /\ backups[n].by = <<r, "remove">>
      BY <1>1, <1>4
    <2>2. one = backups
      BY <1>1, <1>2, <1>3, <2>1, DiscardMissing
    <2>3. Discarded(backups, <<r, "remove">>) = SubSeq(backups, 1, n - 1)
      BY <1>3, <2>1, DiscardNewest
    <2> QED BY <1>4, <2>1, <2>2, <2>3
  <1>5. CASE names = <<"register">>
    <2>1. n >= 1 /\ first = n - 1 /\ backups[n].by = <<r, "register">>
      BY <1>1, <1>5
    <2>2. one = SubSeq(backups, 1, n - 1)
      BY <1>3, <2>1, DiscardNewest
    <2>3. \A i \in DOMAIN one : one[i].by # <<r, "remove">>
      <3> HIDE DEF one
      <3>1. n - 1 \in 0 .. Len(backups) BY <1>1, <2>1
      <3>2. /\ one \in Seq(BackupFiles) /\ Len(one) = n - 1
            /\ \A i \in 1 .. n - 1 : one[i] = backups[i]
        BY <2>2, <3>1, FrontSeq
      <3>3. \A i \in DOMAIN one : i \in 1 .. first BY <2>1, <3>2
      <3> QED BY <1>3, <2>1, <3>2, <3>3
    <2>4. Discarded(one, <<r, "remove">>) = one
      BY <2>3, DiscardMissing
    <2> QED BY <1>5, <2>1, <2>2, <2>4
  <1>6. CASE names = <<"remove", "register">>
    <2>1. /\ n >= 2 /\ first = n - 2 /\ backups[n].by = <<r, "register">>
          /\ backups[n - 1].by = <<r, "remove">>
      BY <1>1, <1>6
    <2>2. \A i \in 1 .. n - 1 : backups[i].by # <<r, "register">>
      <3>1. \A i \in 1 .. n - 1 : i \in 1 .. first \/ i = n - 1
        BY <1>1, <2>1
      <3> QED BY <1>2, <1>3, <2>1, <3>1
    <2>3. one = SubSeq(backups, 1, n - 1)
      <3> HIDE DEF n
      <3>1. backups \in Seq(BackupFiles) OBVIOUS
      <3>2. Len(backups) >= 1 /\ backups[Len(backups)].by = <<r, "register">>
        BY <1>1, <2>1 DEF n
      <3>3. \A i \in 1 .. Len(backups) - 1 : backups[i].by # <<r, "register">>
        BY <2>2 DEF n
      <3>4. Discarded(backups, <<r, "register">>) = SubSeq(backups, 1, Len(backups) - 1)
        BY <3>1, <3>2, <3>3, DiscardNewest
      <3> QED BY <3>4 DEF n
    <2> HIDE DEF one
    <2>4. /\ one \in Seq(BackupFiles) /\ Len(one) = n - 1
          /\ \A i \in 1 .. n - 1 : one[i] = backups[i]
      BY <1>1, <2>1, <2>3, FrontSeq
    <2>5. Discarded(one, <<r, "remove">>) = SubSeq(one, 1, n - 2)
      <3>1. /\ Len(one) >= 1 /\ one[Len(one)].by = <<r, "remove">>
            /\ \A i \in 1 .. Len(one) - 1 : one[i].by # <<r, "remove">>
        <4>1. Len(one) = n - 1 /\ n - 1 >= 1 BY <1>1, <2>1, <2>4
        <4>2. one[n - 1].by = <<r, "remove">> BY <2>1, <2>4, <4>1
        <4>3. \A i \in 1 .. Len(one) - 1 : i \in 1 .. first /\ i \in 1 .. n - 1
          BY <1>1, <2>1, <4>1
        <4> QED BY <1>3, <2>4, <4>1, <4>2, <4>3
      <3>2. Len(one) - 1 = n - 2 BY <1>1, <2>4
      <3> QED BY <2>4, <3>1, <3>2, DiscardNewest
    <2>6. SubSeq(one, 1, n - 2) = SubSeq(backups, 1, n - 2)
      BY <1>1, <2>1, <2>3, FrontFront
    <2> QED BY <1>6, <2>1, <2>3, <2>5, <2>6 DEF one
  <1> QED BY <1>4, <1>5, <1>6

\* Steps that leave the backups and the transaction in progress alone, or are
\* taken when there is none.
LEMMA AtomFrame ==
    ASSUME AtomInv, IInv', UNCHANGED <<backups, orig>>,
           \A q \in Requests : InProgress(q)' =>
               /\ pc'[q] = pc[q] /\ req'[q] = req[q] /\ written'[q] = written[q]
               /\ file' = file,
           \A q \in Requests : pc'[q] \in {"idle", "gate"} => pc[q] \in {"idle", "gate"},
           Pending'
    PROVE  AtomInv'
  <1>1. FileKnown' /\ AskedFor'
    BY DEF AtomInv, FileKnown, FileAt, Cleared, Changed, Checked, AskedFor, InProgress
  <1>2. BackupsKnown'
    <2> SUFFICES ASSUME NEW q \in Requests, InProgress(q)'
                 PROVE  \E names \in Writes(q)' : TailIs(q, names)'
      BY DEF BackupsKnown
    <2>1. InProgress(q) /\ Writes(q)' = Writes(q)
      BY DEF InProgress, Writes
    <2>2. PICK names \in Writes(q) : TailIs(q, names)
      BY <2>1 DEF AtomInv, BackupsKnown
    <2>3. TailIs(q, names)' BY <2>2 DEF TailIs, Own
    <2> QED BY <2>1, <2>2, <2>3
  <1>3. NotYet' BY DEF AtomInv, NotYet, Own
  <1> QED BY <1>1, <1>2, <1>3 DEF AtomInv

\* The end of the one transaction, which at most drops newest backups.
LEMMA AtomEnd ==
    ASSUME AtomInv, IInv', NEW r \in Requests, InProgress(r), Ends(r),
           UNCHANGED <<orig, req>>,
           NEW n \in 0 .. Len(backups), backups' = SubSeq(backups, 1, n)
    PROVE  AtomInv'
  <1>1. /\ pc \in [Requests -> Phases \cup {"idle", "gate", "done"}]
        /\ outcome \in [Requests -> Results \cup {None}]
        /\ backups \in Seq(BackupFiles)
    BY DEF AtomInv, IInv, ConfigTypeOK
  <1>2. /\ \A q \in Requests : ~InProgress(q)'
        /\ \A q \in Requests : pc'[q] \in {"idle", "gate"} => pc'[q] = pc[q]
        /\ \A q \in Requests : pc'[q] # "done" => pc'[q] = pc[q] /\ outcome'[q] = outcome[q]
    BY <1>1 DEF AtomInv, IInv, OneTransaction, InProgress, Phases, Calls, Writing,
                Ends, End
  <1>3. FileKnown' /\ AskedFor' /\ BackupsKnown'
    BY <1>2 DEF FileKnown, AskedFor, BackupsKnown
  <1>4. Pending' BY <1>2 DEF AtomInv, Pending
  <1>5. NotYet' BY <1>1, <1>2 DEF AtomInv, NotYet, Own
  <1> QED BY <1>3, <1>4, <1>5 DEF AtomInv

\* Another phase of the one transaction.
LEMMA AtomMove ==
    ASSUME AtomInv, IInv', NEW r \in Requests, InProgress(r),
           NEW place \in Phases, pc' = [pc EXCEPT ![r] = place],
           UNCHANGED <<outcome, backups, orig, req>>,
           FileAt(r)', place \in Early => pc[r] \in Early,
           Writes(r) \subseteq Writes(r)'
    PROVE  AtomInv'
  <1>1. pc \in [Requests -> Phases \cup {"idle", "gate", "done"}]
    BY DEF AtomInv, IInv, ConfigTypeOK
  <1>2. \A q \in Requests : InProgress(q)' => q = r
    BY <1>1 DEF AtomInv, IInv, OneTransaction, InProgress, Phases, Calls, Writing
  <1>3. FileKnown' BY <1>2 DEF FileKnown
  <1>4. AskedFor' BY <1>1, <1>2 DEF AtomInv, AskedFor
  <1>5. Pending' /\ NotYet'
    BY <1>1 DEF AtomInv, Pending, NotYet, Own, Phases, Calls, Writing, InProgress
  <1>6. BackupsKnown'
    <2>1. PICK names \in Writes(r) : TailIs(r, names) BY DEF AtomInv, BackupsKnown
    <2>2. TailIs(r, names)' BY <2>1 DEF TailIs, Own
    <2> QED BY <1>2, <2>1, <2>2 DEF BackupsKnown
  <1> QED BY <1>3, <1>4, <1>5, <1>6 DEF AtomInv

\* What a store call makes of the backups when there is room for one that it
\* does not push out.
LEMMA BackupTail ==
    ASSUME ConstantsAssumption, Undisturbed, ConfigTypeOK,
           NEW r \in Requests, NEW name \in {"remove", "register"},
           Backup(file, <<r, name>>)
    PROVE  LET d == Len(backups) + 1 - Len(backups')
           IN  /\ backups \in Seq(BackupFiles) /\ backups' \in Seq(BackupFiles)
               /\ d \in {0, 1} /\ (d = 1 => Len(backups) >= 3)
               /\ backups'[Len(backups')] = [raw |-> file, by |-> <<r, name>>]
               /\ \A i \in 1 .. Len(backups') - 1 : backups'[i] = backups[i + d]
  <1> DEFINE b == [raw |-> file, by |-> <<r, name>>]
  <1>1. backups \in Seq(BackupFiles) /\ b \in BackupFiles
    BY DEF ConfigTypeOK, BackupFiles
  <1>2. Limit \in Nat /\ Limit >= 3 /\ Len(backups) <= Limit
    BY DEF Undisturbed, ConfigTypeOK, WritesEnd, ConstantsAssumption
  <1>3. backups' = Newest(Limit, Append(backups, b))
    BY DEF Backup, Saved
  <1> DEFINE e == Len(backups) + 1 - Len(backups')
  <1>4. /\ backups' \in Seq(BackupFiles) /\ e \in {0, 1} /\ (e = 1 => Len(backups) = Limit)
        /\ backups'[Len(backups')] = b
        /\ \A i \in 1 .. Len(backups') - 1 : backups'[i] = backups[i + e]
    <2> HIDE DEF b
    <2> DEFINE new == Newest(Limit, Append(backups, b))
               f == Len(backups) + 1 - Len(new)
    <2>1. /\ new \in Seq(BackupFiles) /\ f \in {0, 1} /\ (f = 1 => Len(backups) = Limit)
          /\ new[Len(new)] = b
          /\ \A i \in 1 .. Len(new) - 1 : new[i] = backups[i + f]
      BY <1>1, <1>2, NewestTail
    <2>2. backups' = new BY <1>3
    <2> HIDE DEF new
    <2> QED BY <2>1, <2>2
  <1>5. e = 1 => Len(backups) >= 3 BY <1>2, <1>4
  <1> QED BY <1>1, <1>3, <1>4, <1>5

LEMMA AtomBegin ==
    ASSUME ConstantsAssumption, Undisturbed, AtomInv, IInv', GateFree,
           NEW r \in Requests, pc[r] = "gate", req[r].revision = file,
           NEW name \in {"remove", "register"}, NEW place \in {"removing", "adding"},
           Backup(file, <<r, name>>), Step(r, place),
           \/ name = "remove" /\ place = "removing" /\ req[r].kind = "update"
           \/ /\ name = "register" /\ place = "adding" /\ req[r].kind = "register"
              /\ req[r].id \notin Ids(file),
           orig' = [orig EXCEPT ![r] = file], UNCHANGED <<file, req>>
    PROVE  AtomInv'
  <1> DEFINE d == Len(backups) + 1 - Len(backups')
  <1>1. ConfigTypeOK /\ pc' = [pc EXCEPT ![r] = place] /\ UNCHANGED outcome
        /\ pc \in [Requests -> Phases \cup {"idle", "gate", "done"}] /\ orig'[r] = file
        /\ pc'[r] = place /\ written' = written /\ written[r] = None
    BY DEF AtomInv, IInv, ConfigTypeOK, Step, InProgress, Phases, Calls, Writing
  <1>2. /\ backups \in Seq(BackupFiles) /\ backups' \in Seq(BackupFiles)
        /\ d \in {0, 1} /\ (d = 1 => Len(backups) >= 3)
        /\ backups'[Len(backups')] = [raw |-> file, by |-> <<r, name>>]
        /\ \A i \in 1 .. Len(backups') - 1 : backups'[i] = backups[i + d]
    BY <1>1, BackupTail
  <1>3. \A q \in Requests : InProgress(q)' => q = r
    BY <1>1 DEF GateFree, InProgress
  <1>4. FileKnown'
    BY <1>1, <1>3 DEF FileKnown, FileAt, Cleared, Checked, Without
  <1>5. AskedFor' BY <1>1, <1>3 DEF AskedFor, Early
  <1>6. Pending' BY <1>1 DEF AtomInv, Pending
  <1>7. \A i \in 1 .. Len(backups') - 1 : i + d \in DOMAIN backups
    BY <1>2
  <1>8. NotYet'
    <2> SUFFICES ASSUME NEW q \in Requests, pc'[q] \in {"idle", "gate"},
                        NEW i \in DOMAIN backups'
                 PROVE  backups'[i].by \notin Own(q)
      BY DEF NotYet, Own
    <2>1. q # r /\ pc[q] \in {"idle", "gate"} BY <1>1
    <2>2. CASE i = Len(backups') BY <1>2, <2>1, <2>2 DEF Own
    <2>3. CASE i # Len(backups')
      <3>1. i \in 1 .. Len(backups') - 1 BY <1>2, <2>3
      <3> QED BY <1>2, <1>7, <2>1, <3>1 DEF AtomInv, NotYet
    <2> QED BY <2>2, <2>3
  <1>9. BackupsKnown'
    <2>1. <<name>> \in Writes(r)' BY <1>1 DEF Writes, Early
    <2>2. Len(backups') >= 1 BY <1>2
    <2>3. \A i \in 1 .. Len(backups') - 1 : backups'[i].by \notin Own(r)
      BY <1>2, <1>7 DEF AtomInv, NotYet
    <2>4. backups'[Len(backups')].raw = orig'[r] /\ backups'[Len(backups')].by = <<r, name>>
      BY <1>1, <1>2
    <2>5. TailIs(r, <<name>>)'
      <3> SUFFICES /\ Len(backups') - 1 >= 0
                   /\ backups'[Len(backups') - 1 + 1].raw = orig'[r]
                   /\ \A i \in 1 .. Len(backups') - 1 : backups'[i].by \notin Own(r)
                   /\ \A j \in 1 .. 1 :
                         backups'[Len(backups') - 1 + j].by = <<r, <<name>>[j]>>
        BY DEF TailIs, Own
      <3> QED BY <1>2, <2>2, <2>3, <2>4
    <2> QED BY <1>3, <2>1, <2>5 DEF BackupsKnown
  <1> QED BY <1>4, <1>5, <1>6, <1>8, <1>9 DEF AtomInv

LEMMA AtomPutBack ==
    ASSUME ConstantsAssumption, NoneAssumption, Undisturbed, AtomInv, IInv',
           NEW r \in Requests, PutBack(r)
    PROVE  AtomInv'
  <1> DEFINE d == Len(backups) + 1 - Len(backups')
             n == Len(backups)
  <1>1. /\ ConfigTypeOK /\ pc[r] = "removed" /\ InProgress(r) /\ FileAt(r)
        /\ pc' = [pc EXCEPT ![r] = "adding"] /\ UNCHANGED <<file, outcome, written, req, orig>>
        /\ pc \in [Requests -> Phases \cup {"idle", "gate", "done"}] /\ file \in Docs
        /\ Backup(file, <<r, "register">>) /\ pc'[r] = "adding"
        /\ req[r].kind = "update"
    BY DEF PutBack, AtomInv, IInv, ConfigTypeOK, Step, InProgress, Phases, Calls,
           Writing,
           AskedFor, FileKnown, Early
  <1>2. /\ backups \in Seq(BackupFiles) /\ backups' \in Seq(BackupFiles)
        /\ d \in {0, 1} /\ (d = 1 => n >= 3)
        /\ backups'[Len(backups')] = [raw |-> file, by |-> <<r, "register">>]
        /\ \A i \in 1 .. Len(backups') - 1 : backups'[i] = backups[i + d]
    BY <1>1, BackupTail
  <1>3. \A q \in Requests : InProgress(q)' => q = r
    BY <1>1 DEF AtomInv, IInv, OneTransaction, InProgress, Phases, Calls, Writing
  <1>4. FileKnown' BY <1>1, <1>3 DEF FileKnown, FileAt, Cleared, Checked, NoneAssumption
  <1>5. AskedFor' BY <1>1, <1>3 DEF AtomInv, AskedFor, Early
  <1>6. Pending' BY <1>1 DEF AtomInv, Pending
  <1>7. /\ n >= 1 /\ backups[n].raw = orig[r] /\ backups[n].by = <<r, "remove">>
        /\ \A i \in 1 .. n - 1 : backups[i].by \notin Own(r)
    <2>1. Writes(r) = {<<"remove">>} BY <1>1 DEF Writes, Early
    <2>2. TailIs(r, <<"remove">>) BY <1>1, <2>1 DEF AtomInv, BackupsKnown
    <2>3. n \in Nat BY <1>2
    <2>4. /\ n - 1 >= 0 /\ backups[n - 1 + 1].raw = orig[r]
          /\ \A i \in 1 .. n - 1 : backups[i].by \notin Own(r)
          /\ \A j \in 1 .. 1 : backups[n - 1 + j].by = <<r, <<"remove">>[j]>>
      BY <2>2 DEF TailIs
    <2> QED BY <2>3, <2>4
  <1>8. \A i \in 1 .. Len(backups') - 1 : i + d \in DOMAIN backups
    BY <1>2
  <1>9. NotYet'
    <2> SUFFICES ASSUME NEW q \in Requests, pc'[q] \in {"idle", "gate"},
                        NEW i \in DOMAIN backups'
                 PROVE  backups'[i].by \notin Own(q)
      BY DEF NotYet, Own
    <2>1. q # r /\ pc[q] \in {"idle", "gate"} BY <1>1
    <2>2. CASE i = Len(backups') BY <1>2, <2>1, <2>2 DEF Own
    <2>3. CASE i # Len(backups')
      <3>1. i \in 1 .. Len(backups') - 1 BY <1>2, <2>3
      <3> QED BY <1>2, <1>8, <2>1, <3>1 DEF AtomInv, NotYet
    <2> QED BY <2>2, <2>3
  <1>10. BackupsKnown'
    <2> DEFINE two == <<"remove", "register">>
               m == Len(backups')
    <2>1. two \in Writes(r)' BY <1>1 DEF Writes, Early
    <2>2. /\ m \in Nat /\ n \in Nat /\ n >= 1
          /\ d \in {0, 1} /\ (d = 1 => n >= 3) /\ m = n + 1 - d
      BY <1>2, <1>7
    <2>3. /\ m - 2 >= 0 /\ m - 1 \in 1 .. m - 1 /\ m - 1 + d = n
          /\ \A i \in 1 .. m - 2 : i \in 1 .. m - 1 /\ i + d \in 1 .. n - 1
      <3> HIDE DEF m, n, d
      <3>1. CASE d = 0 BY <2>2, <3>1
      <3>2. CASE d = 1 BY <2>2, <3>2
      <3> QED BY <2>2, <3>1, <3>2
    <2>4. m - 1 \in 1 .. Len(backups') - 1 /\ m - 1 + d = n BY <2>3
    <2>5. backups'[m - 1] = backups[n] BY <1>2, <2>4
    <2>6. \A i \in 1 .. m - 2 : backups'[i].by \notin Own(r)
      <3> SUFFICES ASSUME NEW i \in 1 .. m - 2 PROVE backups'[i].by \notin Own(r)
        OBVIOUS
      <3>1. i \in 1 .. Len(backups') - 1 /\ i + d \in 1 .. n - 1 BY <2>3
      <3> QED BY <1>2, <1>7, <3>1
    <2>7. TailIs(r, two)'
      <3> SUFFICES /\ m - 2 >= 0
                   /\ backups'[m - 2 + 1].raw = orig'[r]
                   /\ \A i \in 1 .. m - 2 : backups'[i].by \notin Own(r)
                   /\ \A j \in 1 .. 2 : backups'[m - 2 + j].by = <<r, two[j]>>
        BY DEF TailIs, Own
      <3>1. m - 2 + 1 = m - 1 /\ m - 2 + 2 = m
        <4>1. m \in Nat BY <2>2
        <4> HIDE DEF m
        <4> QED BY <4>1
      <3>2. backups'[m - 2 + 1] = backups[n] /\ backups'[m - 2 + 2] = backups'[m]
        BY <2>5, <3>1
      <3>3. backups'[m].by = <<r, "register">> /\ backups[n].by = <<r, "remove">>
        BY <1>2, <1>7
      <3>4. \A j \in 1 .. 2 : backups'[m - 2 + j].by = <<r, two[j]>>
        BY <3>2, <3>3
      <3> QED BY <1>1, <1>7, <2>3, <2>6, <3>2, <3>4
    <2> QED BY <1>3, <2>1, <2>7 DEF BackupsKnown
  <1> QED BY <1>4, <1>5, <1>6, <1>9, <1>10 DEF AtomInv

\* The end of a transaction drops some of the newest backups, or none: all
\* its own after a recovery, the last after a successful update.
LEMMA EndDrops ==
    ASSUME AtomInv, NEW r \in Requests,
           Succeed(r) \/ Restored(r) \/ RestoreUnconfirmed(r)
    PROVE  \E n \in 0 .. Len(backups) : backups' = SubSeq(backups, 1, n)
  <1>1. backups \in Seq(BackupFiles) /\ InProgress(r)
    BY DEF AtomInv, IInv, ConfigTypeOK, Succeed, Restored, RestoreUnconfirmed,
           InProgress, Phases, Calls, Writing
  <1>2. PICK names \in Writes(r) : TailIs(r, names)
    BY <1>1 DEF AtomInv, BackupsKnown
  <1>3. names \in {<<"remove">>, <<"register">>, <<"remove", "register">>}
    BY <1>2 DEF Writes
  <1>4. Len(backups) \in Nat /\ Len(names) \in {1, 2} /\ Len(backups) - Len(names) >= 0
    BY <1>1, <1>2, <1>3 DEF TailIs
  <1>5. Len(backups) - Len(names) \in 0 .. Len(backups) /\ Len(backups) - 1 \in 0 .. Len(backups)
    BY <1>4
  <1>6. backups = SubSeq(backups, 1, Len(backups)) /\ Len(backups) \in 0 .. Len(backups)
    BY <1>1
  <1>7. CASE UNCHANGED backups
    BY <1>6, <1>7
  <1>8. CASE Succeed(r) /\ req[r].kind = "update"
    <2>1. names = <<"remove", "register">>
      BY <1>2, <1>8 DEF Succeed, Writes
    <2>2. backups' = SubSeq(backups, 1, Len(backups) - 1)
      BY <1>1, <1>2, <1>3, <1>8, <2>1, OwnDiscarded DEF Succeed
    <2> QED BY <1>5, <2>2
  <1>9. CASE Restored(r)
    <2>1. backups' = SubSeq(backups, 1, Len(backups) - Len(names))
      BY <1>1, <1>2, <1>3, <1>9, OwnDiscarded DEF Restored, DiscardOwn
    <2> QED BY <1>5, <2>1
  <1> QED BY <1>7, <1>8, <1>9 DEF Succeed, RestoreUnconfirmed

\* Every step of an undisturbed system keeps the invariant.
LEMMA NextAtom ==
    ASSUME ConstantsAssumption, NoneAssumption, Undisturbed, AtomInv, [Next]_vars
    PROVE  AtomInv'
  <1>1. /\ IInv /\ IInv' /\ ConfigTypeOK
        /\ pc \in [Requests -> Phases \cup {"idle", "gate", "done"}]
        /\ backups \in Seq(BackupFiles)
        /\ outcome \in [Requests -> Results \cup {None}]
        /\ req \in [Requests -> Bodies \cup {None}]
        /\ written \in [Requests -> Docs \cup {None}]
    BY NextKept DEF AtomInv, IInv, ConfigTypeOK
  <1>2. ASSUME NEW r \in Requests,
               Arrive(r) \/ Reject(r) \/ Conflict(r) \/ Rollback(r) \/ Cancel(r)
        PROVE  AtomInv'
    <2>1. UNCHANGED <<backups, orig>>
      BY <1>2 DEF Arrive, Reject, Conflict, Rollback, Cancel
    <2>2. /\ \A q \in Requests : InProgress(q)' =>
                 /\ InProgress(q) /\ pc'[q] = pc[q] /\ req'[q] = req[q]
                 /\ written'[q] = written[q]
          /\ \A q \in Requests : pc'[q] \in {"idle", "gate"} => pc[q] \in {"idle", "gate"}
      BY <1>1, <1>2 DEF Arrive, Reject, Conflict, Rollback, Cancel, Step, End,
                        InProgress, Phases, Calls, Writing
    <2>3. GateFree \/ file' = file
      BY <1>2 DEF Arrive, Reject, Conflict, Rollback, Cancel, Undisturbed
    <2>4. Pending'
      BY <1>1, <1>2 DEF AtomInv, Pending, Arrive, Reject, Conflict, Rollback, Cancel,
                        Step, End, InProgress, Phases, Calls, Writing
    <2> QED BY <1>1, <2>1, <2>2, <2>3, <2>4, AtomFrame DEF GateFree
  <1>3. ASSUME NEW r \in Requests, BeginUpdate(r) PROVE AtomInv'
    <2>1. MayBegin(r, "update") /\ Step(r, "removing") BY <1>3 DEF BeginUpdate
    <2> QED BY <1>1, <1>3, <2>1, AtomBegin DEF BeginUpdate, MayBegin
  <1>4. ASSUME NEW r \in Requests, BeginRegister(r) PROVE AtomInv'
    <2>1. MayBegin(r, "register") /\ Step(r, "adding") BY <1>4 DEF BeginRegister
    <2> QED BY <1>1, <1>4, <2>1, AtomBegin DEF BeginRegister, MayBegin
  <1>5. ASSUME NEW r \in Requests, PutBack(r) PROVE AtomInv'
    BY <1>1, <1>5, AtomPutBack
  <1>6. ASSUME NEW r \in Requests,
               Succeed(r) \/ Restored(r) \/ RestoreUnconfirmed(r)
        PROVE  AtomInv'
    <2>1. InProgress(r) /\ Ends(r) /\ UNCHANGED <<orig, req>>
      BY <1>6 DEF Succeed, Restored, RestoreUnconfirmed, InProgress, Phases, Calls,
                  Writing, Ends
    <2>2. PICK n \in 0 .. Len(backups) : backups' = SubSeq(backups, 1, n)
      BY <1>1, <1>6, EndDrops DEF AtomInv
    <2> QED BY <1>1, <2>1, <2>2, AtomEnd
  <1>7. ASSUME NEW r \in Requests, Fail(r) \/ Restore(r) PROVE AtomInv'
    <2>1. /\ InProgress(r) /\ UNCHANGED <<file, written, outcome, backups, orig, req>>
          /\ FileAt(r)
          /\ \/ pc[r] \in {"removed", "added"} /\ pc' = [pc EXCEPT ![r] = "undo"]
             \/ pc[r] = "undo" /\ pc' = [pc EXCEPT ![r] = "restoring"]
      <3>1. InProgress(r) /\ FileAt(r)
        BY <1>7 DEF Fail, Restore, InProgress, Phases, AtomInv, FileKnown
      <3>2. pc[r] = "undo" => MayRestore(r)
        BY <3>1 DEF FileAt, MayRestore
      <3> QED BY <1>7, <3>1, <3>2 DEF Fail, Restore, Step
    <2>2. FileAt(r)'
      BY <1>1, <2>1 DEF FileAt, Cleared, Changed, Checked
    <2>3. Writes(r) \subseteq Writes(r)'
      BY <1>1, <2>1 DEF Writes, Early
    <2>4. PICK place \in {"undo", "restoring"} : pc' = [pc EXCEPT ![r] = place]
      BY <2>1
    <2>5. place \in Phases /\ place \notin Early
      BY DEF Phases, Calls, Writing, Early
    <2> QED BY <1>1, <2>1, <2>2, <2>3, <2>4, <2>5, AtomMove
  <1>8. ASSUME NEW r \in Requests, Replace(r) PROVE AtomInv'
    <2>1. /\ InProgress(r) /\ FileAt(r) /\ orig[r] \in Docs
      BY <1>1, <1>8 DEF Replace, InProgress, Phases, Calls, AtomInv, FileKnown,
                        ConfigTypeOK
    <2>2. PICK place \in {"removeWritten", "addWritten", "restored"} : Step(r, place)
      BY <1>8 DEF Replace, Writing
    <2>3. /\ pc' = [pc EXCEPT ![r] = place] /\ UNCHANGED <<outcome, backups, orig, req>>
          /\ pc'[r] = place
      BY <1>1, <1>8, <2>2 DEF Replace, Step
    <2>4. CASE pc[r] = "removing"
      <3>1. pc'[r] = "removeWritten" /\ file' = Cleared(r)
        BY <1>1, <1>8, <2>1, <2>4 DEF Replace, Candidate, Step, FileAt, Checked, Cleared
      <3>2. FileAt(r)' BY <2>3, <3>1 DEF FileAt, Cleared
      <3>3. Writes(r) \subseteq Writes(r)' BY <2>3, <2>4, <3>1 DEF Writes, Early
      <3> QED BY <1>1, <2>1, <2>3, <2>4, <3>2, <3>3, AtomMove DEF Phases, Calls, Early
    <2>5. CASE pc[r] = "adding"
      <3>1. pc'[r] = "addWritten" /\ file' = Changed(r)
        BY <1>1, <1>8, <2>1, <2>5 DEF Replace, Candidate, Step, FileAt, Changed
      <3>2. FileAt(r)' BY <2>3, <3>1 DEF FileAt, Cleared, Changed
      <3>3. Writes(r) \subseteq Writes(r)' BY <2>3, <2>5, <3>1 DEF Writes, Early
      <3> QED BY <1>1, <2>1, <2>3, <3>1, <3>2, <3>3, AtomMove DEF Phases, Calls, Early
    <2>6. CASE pc[r] = "restoring"
      <3>1. pc'[r] = "restored" /\ file' = orig[r]
        BY <1>1, <1>8, <2>6 DEF Replace, Candidate, Step
      <3>2. FileAt(r)' BY <2>3, <3>1 DEF FileAt
      <3>3. Writes(r) \subseteq Writes(r)' BY <2>3, <2>6, <3>1 DEF Writes, Early
      <3> QED BY <1>1, <2>1, <2>3, <3>1, <3>2, <3>3, AtomMove DEF Phases, Early
    <2> QED BY <1>8, <2>4, <2>5, <2>6 DEF Replace, Writing
  <1>9. ASSUME NEW r \in Requests, ReadBack(r) PROVE AtomInv'
    <2>1. /\ InProgress(r) /\ FileAt(r) /\ written'[r] = file
          /\ UNCHANGED <<file, outcome, backups, orig, req>>
          /\ \/ pc[r] = "removeWritten" /\ pc' = [pc EXCEPT ![r] = "removed"]
             \/ pc[r] = "addWritten" /\ pc' = [pc EXCEPT ![r] = "added"]
      BY <1>1, <1>9 DEF ReadBack, InProgress, Phases, Calls, AtomInv, FileKnown
    <2>2. FileAt(r)'
      BY <1>1, <2>1 DEF FileAt, Cleared, Changed
    <2>3. Writes(r) \subseteq Writes(r)'
      BY <1>1, <2>1 DEF Writes, Early
    <2>4. CASE pc[r] = "removeWritten"
      <3>1. pc' = [pc EXCEPT ![r] = "removed"] /\ "removed" \in Phases /\ pc[r] \in Early
        BY <2>1, <2>4 DEF Phases, Early
      <3> QED BY <1>1, <2>1, <2>2, <2>3, <3>1, AtomMove
    <2>5. CASE pc[r] = "addWritten"
      <3>1. pc' = [pc EXCEPT ![r] = "added"] /\ "added" \in Phases /\ "added" \notin Early
        BY <2>1, <2>5 DEF Phases, Early
      <3> QED BY <1>1, <2>1, <2>2, <2>3, <3>1, AtomMove
    <2> QED BY <2>1, <2>4, <2>5
  <1>10. ASSUME SwapReload \/ Edit \/ UNCHANGED vars PROVE AtomInv'
    <2>1. UNCHANGED <<backups, orig, pc, req, written, outcome>>
      BY <1>10 DEF SwapReload, Edit, vars
    <2>2. GateFree \/ file' = file BY <1>10 DEF SwapReload, Edit, vars, Undisturbed
    <2> QED BY <1>1, <2>1, <2>2, AtomFrame DEF GateFree, InProgress, AtomInv, Pending
  <1>11. ~Crash /\ \A r \in Requests : ~DiskFails(r)
    BY DEF Crash, DiskFails, Undisturbed
  <1> QED BY <1>2, <1>3, <1>4, <1>5, <1>6, <1>7, <1>8, <1>9, <1>10, <1>11
          DEF Next, Request, Quiet

-----------------------------------------------------------------------------
(* What shows of a state. *)

Names == {<<"remove">>, <<"register">>, <<"remove", "register">>}
MapsIdle == GateFree => InForce = file /\ UndoTo = Below(backups, 0)
MapsBusy ==
    \A r \in Requests : \A names \in Names :
        InProgress(r) /\ TailIs(r, names) =>
            InForce = orig[r] /\ UndoTo = Below(backups, Len(names))
Maps == MapsIdle /\ MapsBusy

\* The newest of the files up to the k-th is the k-th.
LEMMA NewestOf ==
    ASSUME NEW k \in Nat, NEW F, \A i : i \in F <=> i \in 1 .. k
    PROVE  /\ F = {} <=> k = 0
           /\ k > 0 => (CHOOSE i \in F : \A j \in F : j <= i) = k
  <1>1. F = 1 .. k OBVIOUS
  <1>2. F = {} <=> k = 0 BY <1>1
  <1>3. ASSUME k > 0 PROVE (CHOOSE i \in F : \A j \in F : j <= i) = k
    <2>1. k \in F /\ \A j \in F : j <= k BY <1>1, <1>3
    <2>2. \A i \in F : (\A j \in F : j <= i) => i = k BY <1>1, <2>1
    <2> QED BY <2>1, <2>2
  <1> QED BY <1>2, <1>3

LEMMA AtomMaps == AtomInv => Maps
  <1> SUFFICES ASSUME AtomInv PROVE Maps OBVIOUS
  <1>1. backups \in Seq(BackupFiles) /\ OneTransaction
    BY DEF AtomInv, IInv, ConfigTypeOK
  <1> DEFINE n == Len(backups)
  <1>2. ASSUME NEW k \in 0 .. n, \A i : i \in Foreign <=> i \in 1 .. n - k
        PROVE  UndoTo = Below(backups, k)
    <2>1. n \in Nat /\ n - k \in Nat BY <1>1
    <2>2. /\ Foreign = {} <=> n - k = 0
          /\ n - k > 0 => (CHOOSE i \in Foreign : \A j \in Foreign : j <= i) = n - k
      BY <1>2, <2>1, NewestOf
    <2>3. n - k = 0 <=> n = k BY <2>1
    <2>4. n - k # 0 => n - k > 0 BY <2>1
    <2>5. CASE n = k
      <3>1. Foreign = {} BY <2>2, <2>3, <2>5
      <3> QED BY <2>5, <3>1 DEF UndoTo, Below
    <2>6. CASE n # k
      <3>1. /\ Foreign # {}
            /\ (CHOOSE i \in Foreign : \A j \in Foreign : j <= i) = n - k
        BY <2>2, <2>3, <2>4, <2>6
      <3> HIDE DEF n
      <3>2. UndoTo = backups[n - k].raw BY <3>1 DEF UndoTo
      <3> QED BY <2>6, <3>2 DEF Below, n
    <2> QED BY <2>5, <2>6
  <1>3. MapsIdle
    <2> SUFFICES ASSUME GateFree PROVE InForce = file /\ UndoTo = Below(backups, 0)
      BY DEF MapsIdle
    <2>1. Foreign = DOMAIN backups BY DEF Foreign, GateFree
    <2>2. 0 \in 0 .. n /\ \A i : i \in Foreign <=> i \in 1 .. n - 0 BY <1>1, <2>1
    <2> QED BY <1>2, <2>2 DEF InForce
  <1>4. MapsBusy
    <2> SUFFICES ASSUME NEW r \in Requests, NEW names \in Names,
                        InProgress(r), TailIs(r, names)
                 PROVE  InForce = orig[r] /\ UndoTo = Below(backups, Len(names))
      BY DEF MapsBusy
    <2>1. \A q \in Requests : InProgress(q) <=> q = r BY <1>1 DEF OneTransaction
    <2>2. InForce = orig[r]
      <3>1. (CHOOSE q \in Requests : InProgress(q)) = r BY <2>1
      <3> QED BY <3>1 DEF InForce, GateFree
    <2> DEFINE k == Len(names)
    <2>3. k \in {1, 2} /\ n \in Nat BY <1>1 DEF Names
    <2>4. /\ n - k >= 0 /\ \A i \in 1 .. n - k : backups[i].by \notin Own(r)
          /\ \A j \in 1 .. k : backups[n - k + j].by = <<r, names[j]>>
      BY DEF TailIs
    <2>5. \A j \in 1 .. k : <<r, names[j]>> \in Own(r) BY DEF Own, Names
    <2> HIDE DEF k
    <2>6. \A i \in 1 .. n : i \in 1 .. n - k \/ (i - (n - k) \in 1 .. k
                                               /\ n - k + (i - (n - k)) = i)
      <3> HIDE DEF n
      <3> QED BY <2>3, <2>4
    <2>7. \A i \in 1 .. n : backups[i].by \notin Own(r) <=> i \in 1 .. n - k
      BY <2>3, <2>4, <2>5, <2>6
    <2>8. \A i : i \in Foreign <=> i \in 1 .. n /\ backups[i].by \notin Own(r)
      BY <1>1, <2>1 DEF Foreign
    <2>9. 1 .. n - k \subseteq 1 .. n /\ k \in 0 .. n BY <2>3, <2>4
    <2>10. \A i : i \in Foreign <=> i \in 1 .. n - k BY <2>7, <2>8, <2>9
    <2> QED BY <1>2, <2>2, <2>9, <2>10 DEF k
  <1> QED BY <1>3, <1>4 DEF Maps

\* The answer of a request that ends, and of the others.
LEMMA AnswerGiven ==
    ASSUME NoneAssumption, ConfigTypeOK, NEW r \in Requests, outcome[r] = None,
           NEW result \in Results, End(r, result)
    PROVE  /\ Answer[r] = "open"
           /\ Answer' = [Answer EXCEPT ![r] =
                CASE result = "ok" -> "done"
                  [] result = "unrecovered" -> "unsettled"
                  [] OTHER -> "refused"]
  <1>1. /\ outcome \in [Requests -> Results \cup {None}]
        /\ outcome' = [outcome EXCEPT ![r] = result] /\ result # None /\ "ok" # None
        /\ "unrecovered" # None
    BY DEF ConfigTypeOK, End, NoneAssumption, Results
  <1>2. Answer[r] = "open" BY <1>1 DEF Answer
  <1> DEFINE how == CASE result = "ok" -> "done"
                      [] result = "unrecovered" -> "unsettled"
                      [] OTHER -> "refused"
  <1>3. \A q \in Requests : Answer'[q] = IF q = r THEN how ELSE Answer[q]
    <2> SUFFICES ASSUME NEW q \in Requests
                 PROVE  Answer'[q] = IF q = r THEN how ELSE Answer[q]
      OBVIOUS
    <2>1. CASE q = r BY <1>1, <2>1 DEF Answer
    <2>2. CASE q # r BY <1>1, <2>2 DEF Answer
    <2> QED BY <2>1, <2>2
  <1> HIDE DEF how
  <1>4. Answer' = [Answer EXCEPT ![r] = how]
    <2>1. /\ Answer = [q \in Requests |-> Answer[q]]
          /\ Answer' = [q \in Requests |-> Answer'[q]]
      BY DEF Answer
    <2> QED BY <1>3, <2>1
  <1> QED BY <1>2, <1>4 DEF how

\* Outside of transactions the file and the newest backup show; within one
\* the file from before it and the backup below its own.
LEMMA ShownIdle ==
    ASSUME Maps, Maps', GateFree, GateFree', UNCHANGED <<file, backups>>
    PROVE  UNCHANGED <<InForce, UndoTo>>
  BY DEF Maps, MapsIdle, Below

LEMMA ShownBusy ==
    ASSUME Maps, Maps', NEW r \in Requests, InProgress(r), InProgress(r)',
           NEW names \in Names, NEW names2 \in Names, TailIs(r, names), TailIs(r, names2)',
           orig'[r] = orig[r], Below(backups', Len(names2)) = Below(backups, Len(names))
    PROVE  UNCHANGED <<InForce, UndoTo>>
  BY DEF Maps, MapsBusy

\* A step that leaves the backups alone, and the file when there is no
\* transaction, and that neither begins nor ends one, does not show.
LEMMA ShownFrame ==
    ASSUME AtomInv, Maps, Maps', UNCHANGED <<backups, orig>>,
           \A q \in Requests : InProgress(q)' <=> InProgress(q),
           GateFree => file' = file
    PROVE  UNCHANGED <<InForce, UndoTo>>
  <1>1. CASE GateFree
    BY <1>1, ShownIdle DEF GateFree
  <1>2. CASE ~GateFree
    <2>1. PICK r \in Requests : InProgress(r) BY <1>2 DEF GateFree
    <2>2. PICK names \in Writes(r) : TailIs(r, names)
      BY <2>1 DEF AtomInv, BackupsKnown
    <2>3. names \in Names BY <2>2 DEF Writes, Names
    <2>4. TailIs(r, names)' BY <2>2 DEF TailIs, Own
    <2> QED BY <2>1, <2>2, <2>3, <2>4, ShownBusy DEF Below
  <1> QED BY <1>1, <1>2

Shown == <<InForce, UndoTo, req, Answer>>

\* The first write of a transaction does not show ...
LEMMA BeginShown ==
    ASSUME ConstantsAssumption, Undisturbed, AtomInv, AtomInv', Maps, Maps', GateFree,
           NEW r \in Requests, BeginUpdate(r) \/ BeginRegister(r)
    PROVE  UNCHANGED Shown
  <1>1. /\ ConfigTypeOK /\ backups \in Seq(BackupFiles) /\ UNCHANGED <<req, outcome>>
        /\ InProgress(r)' /\ orig'[r] = file
        /\ \E name \in {"remove", "register"} : Backup(file, <<r, name>>)
    BY DEF AtomInv, IInv, ConfigTypeOK, BeginUpdate, BeginRegister, Step, InProgress,
           Phases, Calls, Writing
  <1>2. PICK name \in {"remove", "register"} : Backup(file, <<r, name>>)
    BY <1>1
  <1> DEFINE n == Len(backups)
             m == Len(backups')
             d == n + 1 - m
  <1>3. /\ backups' \in Seq(BackupFiles) /\ d \in {0, 1} /\ (d = 1 => n >= 3)
        /\ \A i \in 1 .. m - 1 : backups'[i] = backups[i + d]
    BY <1>1, <1>2, BackupTail
  <1>4. PICK names \in Writes(r)' : TailIs(r, names)'
    BY <1>1 DEF AtomInv, BackupsKnown
  <1>5. Len(names) = 1 /\ names \in Names
    BY <1>1, <1>4 DEF Writes, Names, Early, AtomInv, IInv, ConfigTypeOK, BeginUpdate,
                      BeginRegister, MayBegin, Step
  <1>6. /\ n \in Nat /\ m \in Nat /\ m = n + 1 - d BY <1>1, <1>3
  <1>7. /\ m = 1 <=> n = 0
        /\ m # 1 => m - 1 \in 1 .. m - 1 /\ m - 1 + d = n
    <2>1. m - 1 >= 0 BY <1>4, <1>5 DEF TailIs
    <2>2. m >= 1 BY <1>6, <2>1
    <2>3. /\ n \in Nat /\ m \in Nat /\ m = n + 1 - d /\ d \in {0, 1} /\ (d = 1 => n >= 3)
          /\ m >= 1
      BY <1>3, <1>6, <2>2
    <2> HIDE DEF n, m, d
    <2>4. CASE d = 0 BY <2>3, <2>4
    <2>5. CASE d = 1 BY <2>3, <2>5
    <2> QED BY <2>3, <2>4, <2>5
  <1>8. m # 1 => backups'[m - 1] = backups[n] BY <1>3, <1>7
  <1>9. Below(backups', 1) = Below(backups, 0)
    <2>1. n - 0 = n BY <1>6
    <2> QED BY <1>7, <1>8, <2>1 DEF Below
  <1>10. InForce = file /\ UndoTo = Below(backups, 0) BY DEF Maps, MapsIdle
  <1>11. InForce' = orig'[r] /\ UndoTo' = Below(backups', 1)
    BY <1>1, <1>4, <1>5 DEF Maps, MapsBusy
  <1> QED BY <1>1, <1>9, <1>10, <1>11 DEF Shown, Answer

\* ... nor does the second of an update.
LEMMA PutBackShown ==
    ASSUME ConstantsAssumption, Undisturbed, AtomInv, AtomInv', Maps, Maps',
           NEW r \in Requests, PutBack(r)
    PROVE  UNCHANGED Shown
  <1>1. /\ ConfigTypeOK /\ backups \in Seq(BackupFiles) /\ UNCHANGED <<req, outcome, orig>>
        /\ InProgress(r) /\ InProgress(r)' /\ pc[r] = "removed" /\ pc'[r] = "adding"
        /\ req[r].kind = "update"
        /\ Backup(file, <<r, "register">>)
    BY DEF AtomInv, IInv, ConfigTypeOK, AskedFor, Early, PutBack, Step, InProgress,
           Phases, Calls, Writing
  <1> DEFINE n == Len(backups)
             m == Len(backups')
             d == n + 1 - m
  <1>2. /\ backups' \in Seq(BackupFiles) /\ d \in {0, 1} /\ (d = 1 => n >= 3)
        /\ \A i \in 1 .. m - 1 : backups'[i] = backups[i + d]
    BY <1>1, BackupTail
  <1>3. TailIs(r, <<"remove">>) /\ TailIs(r, <<"remove", "register">>)'
    <2>1. Writes(r) = {<<"remove">>} /\ Writes(r)' = {<<"remove", "register">>}
      BY <1>1 DEF Writes, Early
    <2> QED BY <1>1, <2>1 DEF AtomInv, BackupsKnown
  <1>4. <<"remove">> \in Names /\ <<"remove", "register">> \in Names BY DEF Names
  <1>5. /\ n \in Nat /\ m \in Nat /\ m = n + 1 - d BY <1>1, <1>2
  <1>6. /\ m = 2 <=> n = 1
        /\ m # 2 => m - 2 \in 1 .. m - 1 /\ m - 2 + d = n - 1
    <2>1. n - 1 >= 0 /\ m - 2 >= 0 BY <1>3 DEF TailIs
    <2>2. n >= 1 /\ m >= 2 BY <1>5, <2>1
    <2>3. /\ n \in Nat /\ m \in Nat /\ m = n + 1 - d /\ d \in {0, 1} /\ (d = 1 => n >= 3)
          /\ n >= 1 /\ m >= 2
      BY <1>2, <1>5, <2>2
    <2> HIDE DEF n, m, d
    <2>4. CASE d = 0 BY <2>3, <2>4
    <2>5. CASE d = 1 BY <2>3, <2>5
    <2> QED BY <2>3, <2>4, <2>5
  <1>7. m # 2 => backups'[m - 2] = backups[n - 1] BY <1>2, <1>6
  <1>8. Below(backups', 2) = Below(backups, 1) BY <1>6, <1>7 DEF Below
  <1>9. UNCHANGED <<InForce, UndoTo>>
    BY <1>1, <1>3, <1>4, <1>8, ShownBusy
  <1> QED BY <1>1, <1>9 DEF Shown, Answer

\* The abstract configuration and the file are changed by the same operators.
LEMMA SameDocuments ==
    ASSUME NEW doc, NEW m, NEW v
    PROVE  Atomic!Without(doc, m) = Without(doc, m) /\ Atomic!With(doc, m, v) = With(doc, m, v)
  <1>1. Atomic!Ids(doc) = Ids(doc) BY DEF Atomic!Ids, Ids
  <1>2. \A i : Atomic!RemoveAt(doc, i) = RemoveAt(doc, i) BY DEF Atomic!RemoveAt,
                        RemoveAt
  <1>3. Atomic!Without(doc, m) = Without(doc, m)
    BY <1>1, <1>2 DEF Atomic!Without, Without
  <1>4. Atomic!With(doc, m, v) = With(doc, m, v) BY DEF Atomic!With, With
  <1> QED BY <1>3, <1>4

\* A transaction that succeeds is the change, all at once.
LEMMA SucceedCommits ==
    ASSUME NoneAssumption, AtomInv, AtomInv', Maps, Maps', GateFree',
           NEW r \in Requests, Succeed(r)
    PROVE  Atomic!Commit(r)
  <1>1. /\ ConfigTypeOK /\ backups \in Seq(BackupFiles) /\ InProgress(r) /\ pc[r] = "added"
        /\ End(r, "ok") /\ UNCHANGED <<file, req, orig>>
        /\ req[r] \in Bodies /\ orig[r] \in Docs
    BY DEF AtomInv, IInv, ConfigTypeOK, Succeed, InProgress, Phases, Calls, Writing
  <1>2. PICK names \in Writes(r) : TailIs(r, names)
    BY <1>1 DEF AtomInv, BackupsKnown
  <1>3. names \in Names BY <1>2 DEF Writes, Names
  <1>4. InForce = orig[r] /\ InForce' = file /\ UndoTo' = Below(backups', 0)
    BY <1>1, <1>2, <1>3 DEF Maps, MapsIdle, MapsBusy
  <1>5. /\ file = Changed(r) /\ req[r].revision = orig[r]
        /\ req[r].kind = "register" => req[r].id \notin Ids(orig[r])
        /\ req[r].kind \in {"update", "register"}
    BY <1>1 DEF AtomInv, FileKnown, FileAt, AskedFor
  <1>6. file = With(Without(orig[r], req[r].id), req[r].id, req[r].entry)
    BY <1>5 DEF Changed, Cleared
  <1>7. InForce' = Atomic!Change(r)
    BY <1>4, <1>6, SameDocuments DEF Atomic!Change
  <1>8. UndoTo' = orig[r]
    <2> DEFINE n == Len(backups)
    <2>1. n \in Nat /\ backups[n - Len(names) + 1].raw = orig[r] /\ n - Len(names) >= 0
      BY <1>1, <1>2 DEF TailIs
    <2>2. CASE req[r].kind = "update"
      <3>1. names = <<"remove", "register">> /\ Len(names) = 2
        BY <1>1, <1>2, <2>2 DEF Writes, Early
      <3>2. backups' = SubSeq(backups, 1, n - 1)
        BY <1>1, <1>2, <2>2, <3>1, OwnDiscarded DEF Succeed
      <3>3. n - 1 \in 0 .. n /\ n - 1 \in 1 .. n - 1 /\ n - 2 + 1 = n - 1 /\ n - 1 # 0
            /\ n - 1 - 0 = n - 1
        <4>1. n \in Nat /\ n - 2 >= 0 BY <2>1, <3>1
        <4> HIDE DEF n
        <4> QED BY <4>1
      <3>4. Len(backups') = n - 1 /\ backups'[n - 1] = backups[n - 1]
        BY <1>1, <3>2, <3>3, FrontSeq
      <3>5. backups[n - 1].raw = orig[r] BY <2>1, <3>1, <3>3
      <3> QED BY <1>4, <3>3, <3>4, <3>5 DEF Below
    <2>3. CASE req[r].kind = "register"
      <3>1. names = <<"register">> /\ Len(names) = 1
        BY <1>2, <2>3 DEF Writes
      <3>2. backups' = backups BY <2>3 DEF Succeed
      <3>3. n - 1 + 1 = n /\ n # 0 /\ n - 0 = n
        <4>1. n \in Nat /\ n - 1 >= 0 BY <2>1, <3>1
        <4> HIDE DEF n
        <4> QED BY <4>1
      <3> QED BY <1>4, <2>1, <3>1, <3>2, <3>3 DEF Below
    <2> QED BY <1>5, <2>2, <2>3
  <1>9. /\ Answer[r] = "open" /\ Answer' = [Answer EXCEPT ![r] = "done"]
    <2>1. outcome[r] = None BY <1>1 DEF AtomInv, Pending
    <2>2. "ok" \in Results BY DEF Results
    <2>3. /\ Answer[r] = "open"
          /\ Answer' = [Answer EXCEPT ![r] =
                CASE "ok" = "ok" -> "done"
                  [] "ok" = "unrecovered" -> "unsettled"
                  [] OTHER -> "refused"]
      BY <1>1, <2>1, <2>2, AnswerGiven
    <2> QED BY <2>3
  <1>10. req[r] # None BY <1>1 DEF NoneAssumption
  <1> QED BY <1>1, <1>4, <1>5, <1>7, <1>8, <1>9, <1>10 DEF Atomic!Commit, Atomic!End

\* One that is undone was refused: its backups are gone, too.
LEMMA RestoredRefuses ==
    ASSUME NoneAssumption, AtomInv, Maps, Maps', GateFree',
           NEW r \in Requests, Restored(r)
    PROVE  Atomic!Refuse(r)
  <1>1. /\ ConfigTypeOK /\ backups \in Seq(BackupFiles) /\ InProgress(r) /\ pc[r] = "restored"
        /\ UNCHANGED <<file, req, orig>> /\ outcome[r] = None /\ file = orig[r]
    BY DEF AtomInv, IInv, ConfigTypeOK, Restored, InProgress, Phases, Calls, Writing,
           Pending,
           FileKnown, FileAt
  <1>2. PICK names \in Writes(r) : TailIs(r, names)
    BY <1>1 DEF AtomInv, BackupsKnown
  <1>3. names \in Names BY <1>2 DEF Writes, Names
  <1> DEFINE n == Len(backups)
             k == Len(names)
  <1>4. /\ InForce = orig[r] /\ UndoTo = Below(backups, k)
        /\ InForce' = file /\ UndoTo' = Below(backups', 0)
    BY <1>1, <1>2, <1>3 DEF Maps, MapsIdle, MapsBusy
  <1>5. backups' = SubSeq(backups, 1, n - k)
    BY <1>1, <1>2, <1>3, OwnDiscarded DEF Restored, DiscardOwn, Names
  <1>6. Below(backups', 0) = Below(backups, k)
    <2>1. n \in Nat /\ n - k >= 0 /\ k \in {1, 2} BY <1>1, <1>2, <1>3 DEF TailIs, Names
    <2>2. /\ n - k \in 0 .. n /\ (n - k = 0 <=> n = k) /\ n - k - 0 = n - k
          /\ n - k # 0 => n - k \in 1 .. n - k
      <3> HIDE DEF n, k
      <3> QED BY <2>1
    <2>3. /\ Len(backups') = n - k
          /\ \A i \in 1 .. n - k : backups'[i] = backups[i]
      BY <1>1, <1>5, <2>2, FrontSeq
    <2> HIDE DEF n, k
    <2>4. n - k # 0 => backups'[n - k] = backups[n - k] BY <2>2, <2>3
    <2> QED BY <2>2, <2>3, <2>4 DEF Below, n, k
  <1>7. Answer[r] = "open" /\ Answer' = [Answer EXCEPT ![r] = "refused"]
    <2>1. PICK result \in {"cancelled", "failed"} : End(r, result) BY DEF Restored
    <2>2. result \in Results BY <2>1 DEF Results
    <2> QED BY <1>1, <2>1, <2>2, AnswerGiven
  <1> QED BY <1>1, <1>4, <1>6, <1>7 DEF Atomic!Refuse, Atomic!End

LEMMA StepShown ==
    ASSUME ConstantsAssumption, NoneAssumption, Undisturbed, AtomInv, AtomInv',
           Maps, Maps', Next
    PROVE  Atomic!Next \/ UNCHANGED Shown
  <1>1. /\ ConfigTypeOK /\ OneTransaction
        /\ pc \in [Requests -> Phases \cup {"idle", "gate", "done"}]
        /\ req \in [Requests -> Bodies \cup {None}]
    BY DEF AtomInv, IInv, ConfigTypeOK
  <1>2. \A r \in Requests : pc[r] # "done" => outcome[r] = None
    BY DEF AtomInv, Pending
  <1>3. ASSUME NEW r \in Requests, Arrive(r) PROVE Atomic!Ask(r)
    <2>1. UNCHANGED <<InForce, UndoTo>>
      BY <1>1, <1>3, ShownFrame DEF Arrive, Step, InProgress, Phases, Calls, Writing
    <2>2. /\ req[r] = None /\ \A q \in Requests \ {r} : req'[q] = req[q]
          /\ UNCHANGED outcome
      BY <1>1, <1>3 DEF Arrive, Step, AtomInv, Pending
    <2> QED BY <2>1, <2>2 DEF Atomic!Ask, Answer
  <1>4. ASSUME NEW r \in Requests, pc[r] = "gate",
               NEW result \in Results \ {"ok", "unrecovered"}, End(r, result),
               UNCHANGED <<file, backups, orig, req>>
        PROVE  Atomic!Refuse(r)
    <2>1. UNCHANGED <<InForce, UndoTo>>
      BY <1>1, <1>4, ShownFrame DEF End, InProgress, Phases, Calls, Writing
    <2>2. Answer[r] = "open" /\ Answer' = [Answer EXCEPT ![r] = "refused"]
      BY <1>1, <1>2, <1>4, AnswerGiven
    <2> QED BY <1>4, <2>1, <2>2 DEF Atomic!Refuse, Atomic!End
  <1>5. ASSUME NEW r \in Requests, Reject(r) \/ Conflict(r) PROVE Atomic!Refuse(r)
    <2>1. PICK result \in {"rejected", "conflict"} : End(r, result)
      BY <1>5 DEF Reject, Conflict
    <2>2. result \in Results \ {"ok", "unrecovered"} BY <2>1 DEF Results
    <2>3. pc[r] = "gate" /\ UNCHANGED <<file, backups, orig, req>>
      BY <1>5 DEF Reject, Conflict
    <2> QED BY <1>4, <2>1, <2>2, <2>3
  <1>6. ASSUME NEW r \in Requests, BeginUpdate(r) \/ BeginRegister(r)
        PROVE  UNCHANGED Shown
    BY <1>6, BeginShown DEF BeginUpdate, BeginRegister, MayBegin
  <1>7. ASSUME NEW r \in Requests, PutBack(r) PROVE UNCHANGED Shown
    BY <1>7, PutBackShown
  <1>8. ASSUME NEW r \in Requests, InProgress(r), Ends(r) PROVE GateFree'
    BY <1>1, <1>8 DEF OneTransaction, InProgress, Phases, Calls, Writing, Ends, End,
                      GateFree
  <1>9. ASSUME NEW r \in Requests, Succeed(r) PROVE Atomic!Commit(r)
    <2>1. InProgress(r) /\ Ends(r) BY <1>9 DEF Succeed, InProgress, Phases, Calls,
                        Writing, Ends
    <2> QED BY <1>8, <1>9, <2>1, SucceedCommits
  <1>10. ASSUME NEW r \in Requests, Restored(r) PROVE Atomic!Refuse(r)
    <2>1. InProgress(r) /\ Ends(r) BY <1>10 DEF Restored, InProgress, Phases, Calls,
                        Writing, Ends
    <2> QED BY <1>8, <1>10, <2>1, RestoredRefuses
  <1>11. ASSUME NEW r \in Requests, RestoreUnconfirmed(r) PROVE Atomic!GiveUp(r)
    <2>1. /\ InProgress(r) /\ Ends(r) /\ End(r, "unrecovered")
          /\ UNCHANGED <<file, req, orig>> /\ outcome[r] = None
      BY <1>11, <1>2 DEF RestoreUnconfirmed, InProgress, Phases, Calls, Writing, Ends
    <2>2. file = orig[r] BY <1>11, <2>1 DEF RestoreUnconfirmed, AtomInv, FileKnown,
                        FileAt
    <2>3. InForce' = file
      BY <1>8, <2>1 DEF Maps, MapsIdle
    <2>4. InForce = orig[r]
      <3>1. PICK names \in Writes(r) : TailIs(r, names)
        BY <2>1 DEF AtomInv, BackupsKnown
      <3>2. names \in Names BY <3>1 DEF Writes, Names
      <3> QED BY <2>1, <3>1, <3>2 DEF Maps, MapsBusy
    <2>5. Answer[r] = "open" /\ Answer' = [Answer EXCEPT ![r] = "unsettled"]
      <3>1. "unrecovered" \in Results BY DEF Results
      <3>2. /\ Answer[r] = "open"
            /\ Answer' = [Answer EXCEPT ![r] =
                  CASE "unrecovered" = "ok" -> "done"
                    [] "unrecovered" = "unrecovered" -> "unsettled"
                    [] OTHER -> "refused"]
        BY <1>1, <2>1, <3>1, AnswerGiven
      <3> QED BY <3>2
    <2> QED BY <2>1, <2>2, <2>3, <2>4, <2>5 DEF Atomic!GiveUp, Atomic!End
  <1>12. ASSUME NEW r \in Requests, Rollback(r) PROVE Atomic!Undo(r)
    <2>1. /\ GateFree /\ pc[r] = "gate" /\ outcome[r] = None /\ End(r, "ok")
          /\ backups # <<>> /\ backups[Len(backups)].raw # None
          /\ file' = backups[Len(backups)].raw /\ UNCHANGED <<backups, req>>
      BY <1>12, <1>2 DEF Rollback, NoRollback, Undisturbed
    <2>2. GateFree' BY <1>1, <2>1 DEF GateFree, InProgress, Phases, Calls, Writing, End
    <2>3. Len(backups) # 0 /\ Len(backups) - 0 = Len(backups)
      BY <1>1, <2>1 DEF ConfigTypeOK
    <2>4. UndoTo = backups[Len(backups)].raw /\ UNCHANGED UndoTo /\ InForce' = file'
      BY <2>1, <2>2, <2>3 DEF Maps, MapsIdle, Below
    <2>5. Answer[r] = "open" /\ Answer' = [Answer EXCEPT ![r] = "done"]
      <3>1. "ok" \in Results BY DEF Results
      <3>2. /\ Answer[r] = "open"
            /\ Answer' = [Answer EXCEPT ![r] =
                  CASE "ok" = "ok" -> "done"
                    [] "ok" = "unrecovered" -> "unsettled"
                    [] OTHER -> "refused"]
        BY <1>1, <2>1, <3>1, AnswerGiven
      <3> QED BY <3>2
    <2> QED BY <2>1, <2>4, <2>5 DEF Atomic!Undo, Atomic!End
  <1>13. ASSUME NEW r \in Requests, Replace(r) \/ ReadBack(r) \/ Fail(r) \/ Restore(r)
         PROVE  UNCHANGED Shown
    <2>1. /\ InProgress(r) /\ UNCHANGED <<backups, orig, req, outcome>>
          /\ \E place \in Phases : pc' = [pc EXCEPT ![r] = place]
      <3>1. CASE Replace(r) \/ ReadBack(r)
        BY <3>1 DEF Replace, ReadBack, Step, InProgress, Phases, Calls, Writing
      <3>2. CASE Fail(r) BY <3>2 DEF Fail, Step, InProgress, Phases
      <3>3. CASE Restore(r)
        <4>1. InProgress(r) /\ pc[r] = "undo"
          BY <3>3 DEF Restore, InProgress, Phases
        <4>2. MayRestore(r) BY <4>1 DEF AtomInv, FileKnown, FileAt, MayRestore
        <4> QED BY <3>3, <4>1, <4>2 DEF Restore, Step, Phases, Calls, Writing
      <3> QED BY <1>13, <3>1, <3>2, <3>3
    <2>2. \A q \in Requests : InProgress(q)' <=> InProgress(q)
      BY <1>1, <2>1 DEF InProgress
    <2>3. ~GateFree BY <2>1 DEF GateFree
    <2> QED BY <2>1, <2>2, <2>3, ShownFrame DEF Shown, Answer
  <1>14. ASSUME NEW r \in Requests, Cancel(r) PROVE Atomic!Refuse(r) \/ UNCHANGED Shown
    <2>1. CASE pc[r] = "gate" /\ End(r, "cancelled")
      <3>1. "cancelled" \in Results \ {"ok", "unrecovered"} BY DEF Results
      <3> QED BY <1>4, <1>14, <2>1, <3>1 DEF Cancel
    <2>2. CASE UNCHANGED <<pc, outcome>>
      BY <1>14, <2>2, ShownFrame DEF Cancel, InProgress, Shown, Answer
    <2> QED BY <1>14, <2>1, <2>2 DEF Cancel
  <1>15. ASSUME SwapReload \/ Quiet PROVE UNCHANGED Shown
    BY <1>15, ShownFrame DEF SwapReload, Quiet, vars, InProgress, Shown, Answer
  <1>16. ASSUME Edit PROVE Atomic!Edit
    <2>1. GateFree /\ GateFree' /\ UNCHANGED <<backups, req, outcome>>
      BY <1>16 DEF Edit, Undisturbed, GateFree, InProgress
    <2> QED BY <2>1 DEF Maps, MapsIdle, Below, Atomic!Edit, Answer
  <1>17. ~Crash /\ \A r \in Requests : ~DiskFails(r)
    BY DEF Crash, DiskFails, Undisturbed
  <1>18. ASSUME NEW r \in Requests, Request(r) PROVE Atomic!Next \/ UNCHANGED Shown
    BY <1>5, <1>6, <1>7, <1>9, <1>10, <1>11, <1>12, <1>13, <1>18 DEF Request, Atomic!Next
  <1> QED BY <1>3, <1>14, <1>15, <1>16, <1>17, <1>18 DEF Next, Atomic!Next

LEMMA InitShown == Init => Atomic!Init
  <1> SUFFICES ASSUME Init PROVE Atomic!Init OBVIOUS
  <1>1. backups = <<>> /\ \A r \in Requests : outcome[r] = None /\ req[r] = None BY DEF Init
  <1>2. UndoTo = None BY <1>1 DEF UndoTo, Foreign
  <1>3. None # "ok" /\ None # "unrecovered" BY NoneAssumption DEF Results
  <1>4. Answer = [r \in Requests |-> "open"]
    BY <1>1, <1>3 DEF Answer
  <1> QED BY <1>2, <1>4 DEF Init, Atomic!Init

\* In an undisturbed system an update, a registration or a rollback looks like
\* one change or none, and rollback-latest puts back what the last change that
\* took effect replaced: ConfigTransaction implements AtomicConfig.
THEOREM ImplementsAtomicHolds ==
    ASSUME Undisturbed
    PROVE  Spec => ImplementsAtomic
  <1>1. Init => AtomInv
    BY InitTyped, ConstantsAssumption
       DEF Init, AtomInv, IInv, OneTransaction, OriginalKept, InProgress, Phases,
           Calls, Writing,
           FileKnown, AskedFor, Pending, BackupsKnown, NotYet
  <1>2. AtomInv /\ [Next]_vars => AtomInv'
    BY NextAtom, ConstantsAssumption, NoneAssumption
  <1>3. AtomInv /\ AtomInv' /\ Maps /\ Maps' /\ [Next]_vars
            => [Atomic!Next]_(Atomic!vars)
    <2>1. Atomic!vars = Shown /\ Atomic!vars' = Shown' BY DEF Atomic!vars, Shown
    <2>2. ASSUME AtomInv, Maps, Maps', UNCHANGED vars PROVE UNCHANGED Shown
      BY <2>2, ShownFrame DEF vars, InProgress, Shown, Answer
    <2> QED BY <2>1, <2>2, StepShown, ConstantsAssumption, NoneAssumption
  <1> QED BY <1>1, <1>2, <1>3, AtomMaps, InitShown, PTL DEF Spec, ImplementsAtomic,
                        Atomic!Spec
=============================================================================
