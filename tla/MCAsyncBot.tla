----------------------------- MODULE MCAsyncBot -----------------------------
(* Bounds for model-checking AsyncBot: the searches are the only counter. *)
EXTENDS AsyncBot
=============================================================================
