--------------------------- MODULE MC_EventStream ---------------------------
(* Instances of EventStream for TLC. *)
EXTENDS EventStream
=============================================================================
