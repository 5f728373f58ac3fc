--------------------------- MODULE MC_BundleStore ---------------------------
(* Instance of the bundle store for TLC. *)
EXTENDS BundleStore

CONSTANTS p1, p2, e1, e2
=============================================================================
