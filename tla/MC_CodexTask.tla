---------------------------- MODULE MC_CodexTask ----------------------------
(* One command process; two turns; one end of a process; one other fault at a time. *)
EXTENDS CodexTask

Faults == {{"ends"}, {"deaf"}, {"blind", "ends"}, {"overtaken"}, {"found", "ends"}}
=============================================================================
