------------------------ MODULE MC_ResourceManagerStop ------------------------
(* Instances of ResourceManagerStop for TLC.                                *)
EXTENDS ResourceManagerStop, TLC

Sessions == Permutations(Session)
=============================================================================
