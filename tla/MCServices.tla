----------------------------- MODULE MCServices -----------------------------
(***************************************************************************)
(* Discovery, the decode speed and the command codec, for TLC.  They share *)
(* no state, and a property speaks of one of them: whatever the others do  *)
(* is a stuttering step for it.  So each behaviour runs one part, leaving  *)
(* the others in an initial state, and the state spaces add up instead of  *)
(* multiplying.  Only safety is checked, so scans and polls may be         *)
(* symmetric.                                                              *)
(***************************************************************************)
EXTENDS MCDiscovery, DecodeSpeed, MCCodec

VARIABLE part

vars == <<part, discoveryVars, speedVars, codecVars>>

Init ==
    /\ part \in {"discovery", "speed", "codec"}
    /\ DiscoveryInit /\ SpeedInit /\ CodecInit
    /\ part # "speed" => backend = "other" /\ ~up
    /\ part # "codec" => line = <<>>

\* A command of MaxPieces pieces stays as it is; nothing waits for more.
Complete == part = "codec" /\ pieces = MaxPieces /\ UNCHANGED vars

Next ==
    \/ part = "discovery" /\ DiscoveryNext /\ UNCHANGED <<part, speedVars, codecVars>>
    \/ part = "speed" /\ SpeedNext /\ UNCHANGED <<part, discoveryVars, codecVars>>
    \/ part = "codec" /\ CodecNext /\ UNCHANGED <<part, discoveryVars, speedVars>>
    \/ Complete

Spec == Init /\ [][Next]_vars

Symmetry == Permutations(Scans) \union Permutations(Polls)
=============================================================================
