-------------------------- MODULE MC_ResourceManager --------------------------
(* Instances of ResourceManager for TLC.                                    *)
EXTENDS ResourceManager, TLC

Interchangeable == Permutations(Session) \cup Permutations(Model)
=============================================================================
