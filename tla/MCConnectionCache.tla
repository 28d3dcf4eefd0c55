-------------------------- MODULE MCConnectionCache --------------------------
(* Instances of ConnectionCache for TLC. *)
EXTENDS ConnectionCache, TLC

Symmetry == Permutations(Calls) \cup Permutations(Keys)
=============================================================================
