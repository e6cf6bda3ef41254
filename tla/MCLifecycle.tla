---------------------------- MODULE MCLifecycle ----------------------------
(* Instances of Lifecycle for TLC. *)
EXTENDS Lifecycle, TLC

CONSTANTS c1, c2, w1, w2, noone

Symmetry == Permutations(Workers) \cup Permutations(Calls)
=============================================================================
