--------------------------- MODULE MC_EventPublisher ---------------------------
(* Instances of EventPublisher for TLC.                                     *)
EXTENDS EventPublisher, TLC
=============================================================================
