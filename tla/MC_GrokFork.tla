------------------------------ MODULE MC_GrokFork ------------------------------
(* Instance of the Grok Build client for TLC. *)
EXTENDS GrokFork

CONSTANTS c1, c2, f1, f2
=============================================================================
