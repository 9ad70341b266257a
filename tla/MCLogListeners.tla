--------------------------- MODULE MCLogListeners ---------------------------
(* LogListeners instantiated for TLC. *)
EXTENDS LogListeners
=============================================================================
