--------------------------- MODULE ConfigDocument ---------------------------
(***************************************************************************)
(* The part of config.yaml the console changes: the mapping "models", an   *)
(* ordered dictionary from model ids to entries.  A document also stands   *)
(* for its bytes and for its revision, the hash of the bytes.              *)
(***************************************************************************)
EXTENDS Naturals, Sequences, SequencesExt

Ids(doc) == {doc[i].id : i \in DOMAIN doc}
HasEntry(doc, m, v) == \E i \in DOMAIN doc : doc[i] = [id |-> m, entry |-> v]

\* `del models[m]`
Without(doc, m) ==
    IF m \in Ids(doc) THEN RemoveAt(doc, CHOOSE i \in DOMAIN doc : doc[i].id = m)
    ELSE doc
\* `models[m] = v` for a new key: it goes to the end.
With(doc, m, v) == Append(doc, [id |-> m, entry |-> v])
=============================================================================
