------------------------- MODULE MC_AppServerClient -------------------------
(* Instance of the app-server client for TLC. *)
EXTENDS AppServerClient

CONSTANTS a1, a2
=============================================================================
