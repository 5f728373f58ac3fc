-------------------------- MODULE MC_ReviewIteration --------------------------
(* Instances of the iteration module for TLC. *)
EXTENDS ReviewIteration, TLC

CONSTANTS c1, c2, r1

MCCalls == {c1, c2}
Symmetry == Permutations(MCCalls)
=============================================================================
