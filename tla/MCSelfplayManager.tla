------------------------- MODULE MCSelfplayManager -------------------------
(* SelfplayManager with a small number of threads, models and games. *)
EXTENDS SelfplayManager
=============================================================================
