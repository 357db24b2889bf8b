----------------------------- MODULE AttemptChain -----------------------------
(***************************************************************************)
(* How RAVIS answers a completion: a route, then attempts down the chain   *)
(* of candidates until one answers or the retry budget ends                *)
(* (ravis/reliability/attempts.py, AttemptChain; reliability/health.py,    *)
(* HealthRegistry; api/openai/chat.py).  All requests share the breakers   *)
(* of their models and providers.                                          *)
(*                                                                         *)
(* One event loop: an action is what runs between two awaits.  A request   *)
(* awaits its upstream, and the closing of a refused response; what comes  *)
(* after the first byte of an answer touches no breaker.                   *)
(***************************************************************************)
EXTENDS CircuitBreaker, Sequences

CONSTANTS
  Models, Providers,
  ProviderOf,    \* which provider serves each model
  Translated,    \* providers reached through an adapter (Path B)
  Calls,         \* bound: requests at a time
  MaxAttempts,   \* RetryBudget.max_attempts
  EarlyEnds      \* may a stream end before its upstream has answered?

None == "none"
Target == Models \cup Providers

ASSUME ChainAssumption ==
  /\ None \notin Models /\ Models \cap Providers = {}
  /\ ProviderOf \in [Models -> Providers]
  /\ Translated \subseteq Providers
  /\ MaxAttempts \in Nat \ {0} /\ EarlyEnds \in BOOLEAN

VARIABLES
  health,   \* HealthRegistry._targets
  chain,    \* each request's AttemptChain, and where it is in it
  calm      \* do upstreams answer, requests suit them, and clients wait?

vars == <<health, chain, calm>>

(* at: "idle", "choosing" (about to ask next_target), "waiting" (for an    *)
(* upstream).  attempts is len(_attempts), skipped those of them that were *)
(* never sent; retried is about the target, which the queue never names    *)
(* again; onward is _may_fall_back of the last failure.                    *)
Idle == [at |-> "idle", translated |-> FALSE, explored |-> None, target |-> None,
         queue |-> <<>>, retry |-> FALSE, retried |-> FALSE,
         attempts |-> 0, skipped |-> 0, onward |-> TRUE]

Init ==
  /\ health = [t \in Target |-> Untried]
  /\ chain = [c \in Calls |-> Idle]
  /\ calm = TRUE

-----------------------------------------------------------------------------
(* The registry: an attempt is on a model and on its provider.            *)

Touched(m) == {m, ProviderOf[m]}

\* unavailable, and the two questions of _next_permitted.
Permitted(m) == \A t \in Touched(m) : Allows(health[t])

Begun(m) == [t \in Target |-> IF t \in Touched(m) THEN Begin(health[t]) ELSE health[t]]

\* Mutant of Credited: only the model is told.
CreditedModelOnly(m) == [health EXCEPT ![m] = Succeeded(health[m])]

Credited(m) == [t \in Target |-> IF t \in Touched(m) THEN Succeeded(health[t]) ELSE health[t]]

(* The classes of failure, by their policy: no connection; timeout, rate   *)
(* limit, overload; model unavailable, out of memory, unusable response;   *)
(* a refused setting the chain may leave out; other refused settings and   *)
(* tools; authentication; invalid request, context, unknown; safety.       *)
ProviderFault == {"unreached", "busy"}
ModelFault    == {"model"}
FallsBack     == {"unreached", "busy", "model", "setting", "objection"}
RetriedOnce   == {"unreached", "setting"}
FailureClass  == FallsBack \cup {"credential", "request", "safety"}

\* record: the blamed one is charged, both are let go.
Blames(k, t) == IF t \in Providers THEN k \in ProviderFault ELSE k \in ModelFault

Recorded(m, k) ==
  [t \in Target |-> IF t \notin Touched(m) THEN health[t]
                    ELSE IF Blames(k, t) THEN Failed(health[t])
                    ELSE BlamedElsewhere(health[t])]

-----------------------------------------------------------------------------
(* A request is routed.                                                   *)

\* A pool's ranking, of what is not unavailable; or the one model addressed,
\* whatever its circuit says.
Rankings == {q \in UNION {[1 .. n -> Models] : n \in 1 .. 3} :
               /\ \A i, j \in DOMAIN q : q[i] = q[j] => i = j
               /\ \A i \in DOMAIN q : Permitted(q[i])}

Routed(q, explored) ==
  [Idle EXCEPT !.at = "choosing", !.queue = q, !.explored = explored]

\* Path A: the router's choice and its fallbacks become the chain.
Route(c) ==
  /\ chain[c].at = "idle"
  /\ \/ \E m \in Models : /\ ProviderOf[m] \notin Translated
                          /\ chain' = [chain EXCEPT ![c] = Routed(<<m>>, None)]
     \/ \E q \in Rankings : \E explored \in {None, q[1]} :
          /\ explored # None => Len(q) > 1   \* else it changes nothing
          /\ ProviderOf[q[1]] \notin Translated
          /\ chain' = [chain EXCEPT ![c] = Routed(q, explored)]
  /\ UNCHANGED <<health, calm>>

\* Path B: one attempt, begun as it is routed.  A pool has asked the circuits,
\* a direct address has not; so any model may be asked here.
Translate(c, m) ==
  /\ chain[c].at = "idle"
  /\ ProviderOf[m] \in Translated
  /\ chain' = [chain EXCEPT ![c] = [Idle EXCEPT
                  !.at = "waiting", !.target = m, !.translated = TRUE]]
  /\ health' = Begun(m)
  /\ UNCHANGED calm

-----------------------------------------------------------------------------
(* next_target and begin                                                  *)

Spent(c) == chain[c].attempts >= MaxAttempts

\* Mutant of Retry: the second try is not asked of the budget.
RetryUnasked(c) ==
  /\ chain[c].at = "choosing" /\ chain[c].retry
  /\ chain' = [chain EXCEPT ![c] = [chain[c] EXCEPT !.at = "waiting", !.retry = FALSE]]
  /\ health' = Begun(chain[c].target)
  /\ UNCHANGED calm

\* The same target again, whatever its circuit says by now.
Retry(c) ==
  /\ chain[c].at = "choosing" /\ chain[c].retry
  /\ ~ Spent(c)
  /\ chain' = [chain EXCEPT ![c] = [chain[c] EXCEPT !.at = "waiting", !.retry = FALSE]]
  /\ health' = Begun(chain[c].target)
  /\ UNCHANGED calm

MayContinue(c) == ~ chain[c].retry /\ ~ Spent(c) /\ chain[c].onward

\* Mutant of NextPermitted: the candidate stays in the queue.
NextPermittedKept(c) ==
  /\ chain[c].at = "choosing" /\ MayContinue(c)
  /\ LET q == chain[c].queue IN \E i \in DOMAIN q :
       /\ Permitted(q[i])
       /\ \A j \in 1 .. i - 1 : ~ Permitted(q[j])
       /\ chain' = [chain EXCEPT ![c] = [chain[c] EXCEPT
                      !.at = "waiting", !.target = q[i], !.queue = SubSeq(q, i, Len(q)),
                      !.retried = FALSE, !.explored = IF q[i] = @ THEN @ ELSE None,
                      !.attempts = @ + (i - 1), !.skipped = @ + (i - 1)]]
       /\ health' = Begun(q[i])
  /\ UNCHANGED calm

\* The first candidate left whose circuits are closed; those before it are
\* recorded as skipped.
NextPermitted(c) ==
  /\ chain[c].at = "choosing" /\ MayContinue(c)
  /\ LET q == chain[c].queue IN \E i \in DOMAIN q :
       /\ Permitted(q[i])
       /\ \A j \in 1 .. i - 1 : ~ Permitted(q[j])
       /\ chain' = [chain EXCEPT ![c] = [chain[c] EXCEPT
                      !.at = "waiting", !.target = q[i], !.queue = SubSeq(q, i + 1, Len(q)),
                      !.retried = FALSE, !.explored = IF q[i] = @ THEN @ ELSE None,
                      !.attempts = @ + (i - 1), !.skipped = @ + (i - 1)]]
       /\ health' = Begun(q[i])
  /\ UNCHANGED calm

\* The chain is finished: the budget, in attempts or in time, the last
\* failure's policy, or the last candidate.
Exhausted(c) ==
  /\ chain[c].at = "choosing"
  /\ \/ Spent(c) \/ chain[c].attempts > 0
     \/ MayContinue(c) /\ \A i \in DOMAIN chain[c].queue : ~ Permitted(chain[c].queue[i])
  /\ chain' = [chain EXCEPT ![c] = Idle]
  /\ UNCHANGED <<health, calm>>

-----------------------------------------------------------------------------
(* What becomes of an attempt.                                            *)

Answers(c) ==
  /\ chain[c].at = "waiting"
  /\ health' = Credited(chain[c].target)
  /\ chain' = [chain EXCEPT ![c] = Idle]
  /\ UNCHANGED calm

\* (from_pool matters for a credential only, and a model addressed directly has
\* nothing to fall back to.)
MayFallBack(c, k) ==
  \/ k \in FallsBack \cup {"credential"}
  \/ k # "safety" /\ chain[c].target = chain[c].explored

\* failed: one more try of this target where its class and its past allow it.
Fails(c, k) ==
  /\ chain[c].at = "waiting" /\ ~ chain[c].translated /\ ~ calm
  /\ health' = Recorded(chain[c].target, k)
  /\ LET retry == k \in RetriedOnce /\ ~ chain[c].retried IN
     chain' = [chain EXCEPT ![c] = [chain[c] EXCEPT
                 !.at = "choosing", !.attempts = @ + 1, !.onward = MayFallBack(c, k),
                 !.retry = retry, !.retried = @ \/ retry]]
  /\ UNCHANGED calm

\* A whole answer through an adapter: no chain behind it, and what was never
\* reached counts as unknown.
AdapterFails(c, k) ==
  /\ chain[c].at = "waiting" /\ chain[c].translated /\ ~ calm
  /\ k # "unreached"
  /\ health' = Recorded(chain[c].target, k)
  /\ chain' = [chain EXCEPT ![c] = Idle]
  /\ UNCHANGED calm

\* A stream ends without an answer: the client leaves (cancelled), or an
\* adapter breaks behind RAVIS's own opening frame (interrupted).  Neither
\* tells a breaker anything.
EndsEarly(c) ==
  /\ chain[c].at # "idle" /\ ~ calm
  /\ chain[c].at = "waiting" => EarlyEnds
  /\ chain' = [chain EXCEPT ![c] = Idle]
  /\ UNCHANGED <<health, calm>>

-----------------------------------------------------------------------------
CoolsDown(t) ==
  /\ health[t].circuit = "open"
  /\ health' = [health EXCEPT ![t] = Cooled(@)]
  /\ UNCHANGED <<chain, calm>>

TroubleComesAndGoes == calm' = ~ calm /\ UNCHANGED <<health, chain>>

Choose(c) == Retry(c) \/ NextPermitted(c) \/ Exhausted(c)
Fate(c)   == Answers(c) \/ \E k \in FailureClass : Fails(c, k) \/ AdapterFails(c, k)

Next ==
  \/ \E c \in Calls : Route(c) \/ (\E m \in Models : Translate(c, m))
                      \/ Choose(c) \/ Fate(c) \/ EndsEarly(c)
  \/ \E t \in Target : CoolsDown(t)
  \/ TroubleComesAndGoes

Spec == Init /\ [][Next]_vars

\* Somebody asks for this model, by name.
AskedFor(m) ==
  \E c \in Calls :
    \/ Translate(c, m)
    \/ Route(c) /\ chain'[c].queue = <<m>>

\* Upstreams answer or time out, time passes, and every model is asked for
\* again and again.
FairSpec ==
  /\ Spec
  /\ \A c \in Calls : WF_vars(Choose(c)) /\ WF_vars(Fate(c))
  /\ \A t \in Target : WF_vars(CoolsDown(t))
  /\ \A m \in Models : SF_vars(AskedFor(m))

-----------------------------------------------------------------------------
(* What must hold.                                                        *)

\* Every variable stays within its type, and a chain holds each candidate once.
Chain == [at : {"idle", "choosing", "waiting"}, translated : BOOLEAN,
          explored : Models \cup {None}, target : Models \cup {None},
          queue : Seq(Models), retry : BOOLEAN, retried : BOOLEAN,
          attempts : Nat, skipped : Nat, onward : BOOLEAN]

TypeOK ==
  /\ health \in [Target -> Health]
  /\ chain \in [Calls -> Chain]
  /\ \A c \in Calls : LET q == chain[c].queue IN
       /\ chain[c].at = "waiting" \/ chain[c].retry => chain[c].target \in Models
       /\ \A i, j \in DOMAIN q : q[i] = q[j] => i = j
       /\ \A i \in DOMAIN q : q[i] # chain[c].target
  /\ calm \in BOOLEAN

\* A circuit is closed while, and only while, its consecutive failures are
\* below the threshold: what opens it and what closes it keep the count.
CircuitMatchesCount ==
  \A t \in Target : health[t].circuit = "closed" <=> health[t].fails < Threshold

\* The registry of breakers and the chains beside it are well formed, at every point of a request.
RegistryHolds == TypeOK /\ CircuitMatchesCount

\* probing is "set while a HALF_OPEN probe is in flight": some request is
\* waiting for the target, and its end will let the next probe through.
ProbeIsCarried ==
  \A t \in Target : health[t].probing =>
    \E c \in Calls : chain[c].at = "waiting" /\ t \in Touched(chain[c].target)

\* "The budget governs a same-target retry exactly as it governs a fallback":
\* what a request sends upstream, retries included, is within max_attempts.
Sent(c) == chain[c].attempts - chain[c].skipped + IF chain[c].at = "waiting" THEN 1 ELSE 0

BudgetHolds == \A c \in Calls : Sent(c) <= MaxAttempts

\* The breakers need no operator: once the upstreams work again and are asked
\* for, every circuit closes and stays closed.
Recovers == <>[] calm => \A t \in Target : <>[](health[t].circuit = "closed")
=============================================================================
