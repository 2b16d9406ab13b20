----------------------------- MODULE MCLifecycle -----------------------------
(* Instances of Lifecycle for TLC. *)
EXTENDS Lifecycle, TLC

\* Requests and lock objects are interchangeable: sound for safety runs.
Symmetry == Permutations(Requests) \cup Permutations(Locks)
=============================================================================
