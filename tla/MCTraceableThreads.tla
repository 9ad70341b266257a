------------------------ MODULE MCTraceableThreads ------------------------
(* TraceableThreads instantiated for TLC. *)
EXTENDS TraceableThreads
=============================================================================
