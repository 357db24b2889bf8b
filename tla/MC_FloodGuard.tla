----------------------------- MODULE MC_FloodGuard -----------------------------
(* Instances of FloodGuard for TLC.                                         *)
EXTENDS FloodGuard, TLC
=============================================================================
