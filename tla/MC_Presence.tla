----------------------------- MODULE MC_Presence -----------------------------
(* Instances of the presence module for TLC. *)
EXTENDS Presence

CONSTANTS t1, t2
=============================================================================
