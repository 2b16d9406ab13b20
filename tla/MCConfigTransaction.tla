------------------------ MODULE MCConfigTransaction ------------------------
(* Instances of ConfigTransaction for TLC. *)
EXTENDS ConfigTransaction, TLC

CONSTANTS a, b, x, y

\* One configured model; the other can be registered.
OneModel == <<[id |-> a, entry |-> x]>>

\* Requests are interchangeable: sound for safety runs.
Symmetry == Permutations(Requests)
=============================================================================
