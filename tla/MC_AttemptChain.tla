---------------------------- MODULE MC_AttemptChain ----------------------------
(* Instances of AttemptChain for TLC: one provider that speaks the external  *)
(* protocol and one behind an adapter.                                       *)
EXTENDS AttemptChain, TLC

CONSTANTS m1, m2, p1, p2

Serves == (m1 :> p1) @@ (m2 :> p2)
=============================================================================
