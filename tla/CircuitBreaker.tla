---------------------------- MODULE CircuitBreaker ----------------------------
(***************************************************************************)
(* The circuit breaker of one target, a provider or a model                *)
(* (ravis/reliability/health.py, TargetHealth): a record, and what each    *)
(* method makes of it.  The counters kept for a person to read are left    *)
(* out.                                                                    *)
(***************************************************************************)
EXTENDS Integers

CONSTANT Threshold   \* consecutive failures that open it (failure_threshold)

ASSUME ThresholdAssumption == Threshold \in Nat \ {0}

\* fails is consecutive_failures, as far as it is compared; circuit is the
\* state property, whose cooldown runs out in Cooled; probing as in the code.
Health == [fails   : 0 .. Threshold,
           circuit : {"closed", "open", "halfOpen"},
           probing : BOOLEAN]

Untried == [fails |-> 0, circuit |-> "closed", probing |-> FALSE]

Allows(h) ==
  \/ h.circuit = "closed"
  \/ h.circuit = "halfOpen" /\ ~ h.probing

Begin(h) == IF h.circuit = "halfOpen" THEN [h EXCEPT !.probing = TRUE] ELSE h

\* Mutant of Succeeded: the circuit closes and the failures stay counted.
SucceededCounting(h) == [h EXCEPT !.circuit = "closed", !.probing = FALSE]

Succeeded(h) == Untried

\* Mutant of BlamedElsewhere: the probe is kept.
BlamedElsewhereProbing(h) == h

BlamedElsewhere(h) == [h EXCEPT !.probing = FALSE]

\* A failure this target is blamed for.  A failed probe reopens the circuit,
\* and so does a late failure, whose cooldown starts again.
Failed(h) ==
  LET fails == IF h.fails < Threshold THEN h.fails + 1 ELSE Threshold IN
  [fails   |-> fails,
   circuit |-> IF h.circuit = "halfOpen" \/ fails = Threshold THEN "open" ELSE h.circuit,
   probing |-> FALSE]

Cooled(h) == [h EXCEPT !.circuit = "halfOpen"]
=============================================================================
