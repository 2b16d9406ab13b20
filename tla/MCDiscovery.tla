---------------------------- MODULE MCDiscovery ----------------------------
(***************************************************************************)
(* Directories and configured models for TLC.                              *)
(***************************************************************************)
EXTENDS Discovery

\* A model directory without one of its shards that also holds GGUF files: two
\* main models, one of them unreadable, and two helpers.  Both roots reach it.
File(path, readable, architecture, draft) ==
    [path |-> path, readable |-> readable, architecture |-> architecture, draft |-> draft]
Directory ==
    [path |-> "d", config |-> "qwen3", tokenizer |-> TRUE, weights |-> {"w1"},
     downloading |-> FALSE, index |-> "ok", shards |-> {"w1", "w2"},
     ggufs |-> <<File("f1", TRUE, "llama", FALSE), File("f2", FALSE, "clip", FALSE),
                 File("f3", FALSE, "none", FALSE), File("f4", FALSE, "none", TRUE)>>]
OneRoot == <<Directory>>
TwoRoots == <<Directory, Directory>>
OneEntry == <<[path |-> "f1", kind |-> "gguf", decodable |-> TRUE]>>
=============================================================================
