----------------------------- MODULE MCStopSource -----------------------------
(* Instances of StopSource for TLC. *)
EXTENDS StopSource, TLC

Symmetry == Permutations(Sources) \cup Permutations(Connections) \cup Permutations(States)
=============================================================================
