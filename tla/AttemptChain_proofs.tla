-------------------------- MODULE AttemptChain_proofs --------------------------
(***************************************************************************)
(* What holds of AttemptChain for any models, providers, requests,         *)
(* threshold and budget.  Every invariant is inductive on top of TypeOK.   *)
(***************************************************************************)
EXTENDS AttemptChain, SequenceTheorems, TLAPS

\* Each method of a breaker returns a breaker.
LEMMA BreakerTypes ==
  ASSUME NEW h \in Health
  PROVE  /\ Begin(h) \in Health /\ Succeeded(h) \in Health
         /\ BlamedElsewhere(h) \in Health /\ Failed(h) \in Health
         /\ Cooled(h) \in Health
  <1>1. h.fails \in 0 .. Threshold /\ h.circuit \in {"closed", "open", "halfOpen"}
        /\ h = [fails |-> h.fails, circuit |-> h.circuit, probing |-> h.probing]
    BY DEF Health
  <1>2. Begin(h) \in Health /\ BlamedElsewhere(h) \in Health /\ Cooled(h) \in Health
    BY DEF Begin, BlamedElsewhere, Cooled, Health
  <1>3. Succeeded(h) \in Health
    BY ThresholdAssumption DEF Succeeded, Untried, Health
  <1>4. Failed(h) \in Health
    <2>1. (IF h.fails < Threshold THEN h.fails + 1 ELSE Threshold) \in 0 .. Threshold
      BY <1>1, ThresholdAssumption
    <2> QED
      BY <1>1, <2>1 DEF Failed, Health
  <1> QED
    BY <1>2, <1>3, <1>4

\* So does each method of the registry, for all its targets.
LEMMA RegistryTypes ==
  ASSUME TypeOK, NEW m \in Models
  PROVE  /\ Begun(m) \in [Target -> Health]
         /\ Credited(m) \in [Target -> Health]
         /\ \A k : Recorded(m, k) \in [Target -> Health]
  BY BreakerTypes DEF TypeOK, Begun, Credited, Recorded

\* A ranking is a sequence of models.
LEMMA RankingType ==
  ASSUME NEW q \in Rankings
  PROVE  /\ q \in Seq(Models)
         /\ \A i, j \in DOMAIN q : q[i] = q[j] => i = j
  <1>1. PICK n \in 1 .. 3 : q \in [1 .. n -> Models]
    BY DEF Rankings
  <1>2. q \in Seq(Models)
    BY <1>1, SeqDef
  <1> QED
    BY <1>2 DEF Rankings

\* What is left of a queue names none of its candidates twice.
LEMMA RestOfQueue ==
  ASSUME NEW q \in Seq(Models), NEW i \in DOMAIN q,
         \A j, l \in DOMAIN q : q[j] = q[l] => j = l
  PROVE  LET r == SubSeq(q, i + 1, Len(q)) IN
         /\ r \in Seq(Models)
         /\ \A j, l \in DOMAIN r : r[j] = r[l] => j = l
         /\ \A j \in DOMAIN r : r[j] # q[i]
  <1> DEFINE r == SubSeq(q, i + 1, Len(q))
  <1>1. i \in 1 .. Len(q) /\ Len(q) \in Nat
    OBVIOUS
  <1>2. r \in Seq(Models) /\ Len(r) = Len(q) - i
    BY <1>1, SubSeqProperties
  <1>3. \A j \in 1 .. Len(r) : r[j] = q[i + j] /\ i + j \in 1 .. Len(q)
    BY <1>1, <1>2, SubSeqProperties
  <1>4. DOMAIN r = 1 .. Len(r) /\ DOMAIN q = 1 .. Len(q)
    BY <1>2
  <1>5. ASSUME NEW j \in DOMAIN r, NEW l \in DOMAIN r, r[j] = r[l] PROVE j = l
    <2>1. i + j = i + l
      BY <1>3, <1>4, <1>5
    <2> QED
      BY <2>1, <1>1, <1>2, <1>4
  <1>6. ASSUME NEW j \in DOMAIN r PROVE r[j] # q[i]
    <2>1. i + j # i
      BY <1>1, <1>2, <1>4
    <2> QED
      BY <2>1, <1>3, <1>4
  <1> QED
    BY <1>2, <1>5, <1>6

-----------------------------------------------------------------------------
(* Type correctness.                                                      *)

\* A chain's own invariants: the part of TypeOK that is about one request.
Sound(r) ==
  /\ r \in Chain
  /\ r.at = "waiting" \/ r.retry => r.target \in Models
  /\ \A i, j \in DOMAIN r.queue : r.queue[i] = r.queue[j] => i = j
  /\ \A i \in DOMAIN r.queue : r.queue[i] # r.target

LEMMA SoundChains ==
  TypeOK <=> /\ health \in [Target -> Health]
             /\ chain \in [Calls -> Chain]
             /\ \A c \in Calls : Sound(chain[c])
             /\ calm \in BOOLEAN
  BY DEF TypeOK, Sound

LEMMA SoundWithTarget ==
  ASSUME NEW r \in Chain, r.target \in Models,
         \A i, j \in DOMAIN r.queue : r.queue[i] = r.queue[j] => i = j,
         \A i \in DOMAIN r.queue : r.queue[i] # r.target
  PROVE  Sound(r)
  BY DEF Sound

LEMMA IdleSound == Sound(Idle)
  <1>1. <<>> \in Seq(Models) /\ DOMAIN <<>> = {}
    OBVIOUS
  <1> QED
    BY <1>1 DEF Sound, Idle, Chain

LEMMA RoutedSound ==
  ASSUME NEW q \in Seq(Models), \A i, j \in DOMAIN q : q[i] = q[j] => i = j,
         NEW e \in Models \cup {None}
  PROVE  Sound(Routed(q, e))
  <1>1. /\ Routed(q, e) \in Chain
        /\ Routed(q, e).at = "choosing" /\ Routed(q, e).queue = q
        /\ Routed(q, e).target = None /\ Routed(q, e).retry = FALSE
    <2>1. Idle \in Chain
      BY IdleSound DEF Sound
    <2> QED
      BY <2>1 DEF Routed, Chain, Idle
  <1>2. \A i \in DOMAIN q : q[i] # None
    BY ChainAssumption
  <1> QED
    BY <1>1, <1>2 DEF Sound

\* A step that changes one chain to a sound one keeps all of them sound.
LEMMA ChainStep ==
  ASSUME TypeOK, NEW c \in Calls, NEW r, Sound(r),
         chain' = [chain EXCEPT ![c] = r], health' \in [Target -> Health], calm' = calm
  PROVE  TypeOK'
  <1>1. chain' \in [Calls -> Chain] /\ \A d \in Calls : Sound(chain[d]')
    BY SoundChains DEF Sound, TypeOK
  <1> QED
    BY <1>1, SoundChains DEF TypeOK, Sound

\* What a step of next_target that takes the i-th candidate makes of a chain.
LEMMA TakenSound ==
  ASSUME NEW r, Sound(r), NEW i \in DOMAIN r.queue, ~ r.retry,
         NEW t, t = [r EXCEPT
                       !.at = "waiting", !.target = r.queue[i],
                       !.queue = SubSeq(r.queue, i + 1, Len(r.queue)),
                       !.retried = FALSE, !.explored = IF r.queue[i] = @ THEN @ ELSE None,
                       !.attempts = @ + (i - 1), !.skipped = @ + (i - 1)]
  PROVE  Sound(t) /\ t.target \in Models
  <1> DEFINE rest == SubSeq(r.queue, i + 1, Len(r.queue))
  <1>1. r \in Chain /\ r.queue \in Seq(Models) /\ r.attempts \in Nat /\ r.skipped \in Nat
    BY DEF Sound, Chain
  <1>2. /\ rest \in Seq(Models)
        /\ \A j, l \in DOMAIN rest : rest[j] = rest[l] => j = l
        /\ \A j \in DOMAIN rest : rest[j] # r.queue[i]
    BY <1>1, RestOfQueue DEF Sound
  <1>3. i \in 1 .. Len(r.queue) /\ r.queue[i] \in Models
    BY <1>1
  <1>4. r.attempts + (i - 1) \in Nat /\ r.skipped + (i - 1) \in Nat
    BY <1>1, <1>3
  <1> HIDE DEF rest
  <1>5. t = [r EXCEPT !.at = "waiting", !.target = r.queue[i], !.queue = rest,
                      !.retried = FALSE, !.explored = IF r.queue[i] = @ THEN @ ELSE None,
                      !.attempts = @ + (i - 1), !.skipped = @ + (i - 1)]
    BY DEF rest
  <1>6. /\ t \in Chain
        /\ t.queue = rest /\ t.target = r.queue[i]
    BY <1>1, <1>2, <1>3, <1>4, <1>5 DEF Chain
  <1> QED
    <2>1. t.target \in Models
      BY <1>3, <1>6
    <2>2. \A j, l \in DOMAIN t.queue : t.queue[j] = t.queue[l] => j = l
      BY <1>2, <1>6, ZenonT(40)
    <2>3. \A j \in DOMAIN t.queue : t.queue[j] # t.target
      BY <1>2, <1>6
    <2> QED
      BY <1>6, <2>1, <2>2, <2>3, SoundWithTarget

\* What the end of an attempt that failed makes of it.
LEMMA FailedSound ==
  ASSUME NEW r, Sound(r), r.at = "waiting", NEW onward \in BOOLEAN, NEW retry \in BOOLEAN
  PROVE  Sound([r EXCEPT !.at = "choosing", !.attempts = @ + 1, !.onward = onward,
                         !.retry = retry, !.retried = @ \/ retry])
  <1> DEFINE t == [r EXCEPT !.at = "choosing", !.attempts = @ + 1, !.onward = onward,
                            !.retry = retry, !.retried = @ \/ retry]
  <1>1. r \in Chain /\ r.target \in Models /\ (r.retried \/ retry) \in BOOLEAN
    BY DEF Sound
  <1>2. t \in Chain
    <2>1. r.attempts + 1 \in Nat
      BY <1>1 DEF Chain
    <2> QED
      BY <1>1, <2>1 DEF Chain
  <1>3. t.target = r.target /\ t.queue = r.queue
    BY <1>1 DEF Chain
  <1> HIDE DEF t
  <1>4. Sound(t)
    BY <1>1, <1>2, <1>3, SoundWithTarget DEF Sound
  <1> QED
    BY <1>4 DEF t

\* The registry only ever holds breakers and every chain stays well formed: an
\* attempt in flight has a target, and a queue never names a model twice nor the
\* one being tried.
THEOREM TypeCorrect == Spec => []TypeOK
  <1>1. Init => TypeOK
    <2>1. Init => health \in [Target -> Health]
      BY ThresholdAssumption DEF Init, Health, Untried
    <2> QED
      BY <2>1, IdleSound, SoundChains DEF Init, Sound
  <1>2. TypeOK /\ [Next]_vars => TypeOK'
    <2> SUFFICES ASSUME TypeOK, [Next]_vars PROVE TypeOK'
      OBVIOUS
    <2>0. health \in [Target -> Health] /\ \A c \in Calls : Sound(chain[c])
      BY SoundChains
    <2>1. ASSUME NEW c \in Calls, Route(c) PROVE TypeOK'
      <3>1. CASE \E m \in Models : chain' = [chain EXCEPT ![c] = Routed(<<m>>, None)]
        <4>1. PICK m \in Models : chain' = [chain EXCEPT ![c] = Routed(<<m>>, None)]
          BY <3>1
        <4>2. <<m>> \in Seq(Models) /\ DOMAIN <<m>> = {1}
          OBVIOUS
        <4>3. Sound(Routed(<<m>>, None))
          BY <4>2, RoutedSound
        <4> QED
          BY <2>0, <2>1, <4>1, <4>3, ChainStep DEF Route
      <3>2. CASE \E q \in Rankings : \E explored \in {None, q[1]} :
                   explored \in Models \cup {None}
                   /\ chain' = [chain EXCEPT ![c] = Routed(q, explored)]
        <4>1. PICK q \in Rankings, explored \in Models \cup {None} :
                chain' = [chain EXCEPT ![c] = Routed(q, explored)]
          BY <3>2
        <4>2. Sound(Routed(q, explored))
          BY RankingType, RoutedSound
        <4> QED
          BY <2>0, <2>1, <4>1, <4>2, ChainStep DEF Route
      <3>3. \A q \in Rankings : Len(q) > 1 => q[1] \in Models
        BY RankingType
      <3> QED
        BY <2>1, <3>1, <3>2, <3>3 DEF Route
    <2>2. ASSUME NEW c \in Calls, NEW m \in Models, Translate(c, m) PROVE TypeOK'
      <3>1. Sound([Idle EXCEPT !.at = "waiting", !.target = m, !.translated = TRUE])
        <4>1. Idle \in Chain
          BY IdleSound DEF Sound
        <4>2. DOMAIN <<>> = {}
          OBVIOUS
        <4> QED
          BY <4>1, <4>2 DEF Sound, Chain, Idle
      <3> QED
        BY <2>2, <3>1, RegistryTypes, ChainStep DEF Translate
    <2>3. ASSUME NEW c \in Calls, Retry(c) PROVE TypeOK'
      <3>1. chain[c].target \in Models /\ Sound(chain[c])
        BY <2>0, <2>3 DEF Sound, Retry
      <3>2. Sound([chain[c] EXCEPT !.at = "waiting", !.retry = FALSE])
        BY <3>1 DEF Sound, Chain
      <3> QED
        BY <2>3, <3>1, <3>2, RegistryTypes, ChainStep DEF Retry
    <2>4. ASSUME NEW c \in Calls, NextPermitted(c) PROVE TypeOK'
      <3>1. PICK i \in DOMAIN chain[c].queue :
              /\ chain' = [chain EXCEPT ![c] = [chain[c] EXCEPT
                   !.at = "waiting", !.target = chain[c].queue[i],
                   !.queue = SubSeq(chain[c].queue, i + 1, Len(chain[c].queue)),
                   !.retried = FALSE, !.explored = IF chain[c].queue[i] = @ THEN @ ELSE None,
                   !.attempts = @ + (i - 1), !.skipped = @ + (i - 1)]]
              /\ health' = Begun(chain[c].queue[i])
        BY <2>4 DEF NextPermitted
      <3> DEFINE t == [chain[c] EXCEPT
                   !.at = "waiting", !.target = chain[c].queue[i],
                   !.queue = SubSeq(chain[c].queue, i + 1, Len(chain[c].queue)),
                   !.retried = FALSE, !.explored = IF chain[c].queue[i] = @ THEN @ ELSE None,
                   !.attempts = @ + (i - 1), !.skipped = @ + (i - 1)]
      <3>2. Sound(t)
        BY <2>0, <2>4, TakenSound DEF NextPermitted, MayContinue
      <3>3. chain[c].queue[i] \in Models
        BY <2>0 DEF Sound, Chain
      <3>4. calm' = calm /\ chain' = [chain EXCEPT ![c] = t]
        BY <2>4, <3>1 DEF NextPermitted
      <3> HIDE DEF t
      <3> QED
        BY <3>1, <3>2, <3>3, <3>4, RegistryTypes, ChainStep
    <2>5. ASSUME NEW c \in Calls, Exhausted(c) \/ EndsEarly(c) PROVE TypeOK'
      BY <2>0, <2>5, IdleSound, ChainStep DEF Exhausted, EndsEarly
    <2>6. ASSUME NEW c \in Calls, Answers(c) PROVE TypeOK'
      <3>1. chain[c].target \in Models
        BY <2>0, <2>6 DEF Sound, Answers
      <3> QED
        BY <2>6, <3>1, IdleSound, RegistryTypes, ChainStep DEF Answers
    <2>7. ASSUME NEW c \in Calls, NEW k, Fails(c, k) PROVE TypeOK'
      <3> DEFINE retry == k \in RetriedOnce /\ ~ chain[c].retried
                 t == [chain[c] EXCEPT !.at = "choosing", !.attempts = @ + 1,
                         !.onward = MayFallBack(c, k), !.retry = retry, !.retried = @ \/ retry]
      <3>1. chain[c].target \in Models /\ Sound(chain[c]) /\ chain[c].at = "waiting"
        BY <2>0, <2>7 DEF Sound, Fails
      <3>2. MayFallBack(c, k) \in BOOLEAN /\ retry \in BOOLEAN
        BY DEF MayFallBack
      <3>3. Sound(t)
        BY <3>1, <3>2, FailedSound
      <3>4. chain' = [chain EXCEPT ![c] = t] /\ calm' = calm
            /\ health' = Recorded(chain[c].target, k)
        BY <2>7 DEF Fails
      <3> HIDE DEF t
      <3> QED
        BY <3>1, <3>3, <3>4, RegistryTypes, ChainStep
    <2>8. ASSUME NEW c \in Calls, NEW k, AdapterFails(c, k) PROVE TypeOK'
      <3>1. chain[c].target \in Models
        BY <2>0, <2>8 DEF Sound, AdapterFails
      <3> QED
        BY <2>8, <3>1, IdleSound, RegistryTypes, ChainStep DEF AdapterFails
    <2>9. ASSUME NEW t \in Target, CoolsDown(t) PROVE TypeOK'
      <3>1. Cooled(health[t]) \in Health
        BY <2>0, BreakerTypes
      <3> QED
        BY <2>9, <3>1 DEF CoolsDown, TypeOK
    <2>10. CASE TroubleComesAndGoes
      BY <2>10 DEF TroubleComesAndGoes, TypeOK
    <2>11. CASE UNCHANGED vars
      BY <2>11 DEF vars, TypeOK
    <2> QED
      BY <2>1, <2>2, <2>3, <2>4, <2>5, <2>6, <2>7, <2>8, <2>9, <2>10, <2>11
         DEF Next, Choose, Fate
  <1> QED
    BY <1>1, <1>2, PTL DEF Spec

-----------------------------------------------------------------------------
(* A circuit is closed exactly while its count is below the threshold.    *)

Matches(h) == h.circuit = "closed" <=> h.fails < Threshold

\* Each method keeps the two together; only an open circuit cools down.
LEMMA BreakerMatches ==
  ASSUME NEW h \in Health, Matches(h)
  PROVE  /\ Matches(Begin(h)) /\ Matches(Succeeded(h))
         /\ Matches(BlamedElsewhere(h)) /\ Matches(Failed(h))
         /\ h.circuit = "open" => Matches(Cooled(h))
  <1>1. h.fails \in 0 .. Threshold /\ h.circuit \in {"closed", "open", "halfOpen"}
        /\ h = [fails |-> h.fails, circuit |-> h.circuit, probing |-> h.probing]
    BY DEF Health
  <1>2. Matches(Begin(h)) /\ Matches(BlamedElsewhere(h))
    BY <1>1 DEF Matches, Begin, BlamedElsewhere, Health
  <1>3. Matches(Succeeded(h))
    BY ThresholdAssumption DEF Matches, Succeeded, Untried
  <1>4. h.circuit = "open" => Matches(Cooled(h))
    BY <1>1 DEF Matches, Cooled, Health
  <1>5. Matches(Failed(h))
    <2>1. CASE h.circuit = "closed"
      <3>1. h.fails < Threshold
        BY <2>1 DEF Matches
      <3>2. /\ Failed(h).fails = h.fails + 1
            /\ Failed(h).circuit = IF h.fails + 1 = Threshold THEN "open" ELSE "closed"
        BY <2>1, <3>1 DEF Failed
      <3> QED
        BY <1>1, <3>1, <3>2, ThresholdAssumption DEF Matches
    <2>2. CASE h.circuit # "closed"
      <3>1. ~ h.fails < Threshold
        BY <2>2 DEF Matches
      <3>2. Failed(h).fails = Threshold /\ Failed(h).circuit = "open"
        BY <3>1 DEF Failed
      <3> QED
        BY <3>2, ThresholdAssumption DEF Matches
    <2> QED
      BY <2>1, <2>2
  <1> QED
    BY <1>2, <1>3, <1>4, <1>5

AllMatch(f) == \A t \in Target : Matches(f[t])

LEMMA RegistryMatches ==
  ASSUME TypeOK, AllMatch(health), NEW m
  PROVE  /\ AllMatch(Begun(m)) /\ AllMatch(Credited(m))
         /\ \A k : AllMatch(Recorded(m, k))
  BY BreakerMatches DEF TypeOK, AllMatch, Begun, Credited, Recorded

\* Whatever order failures, late answers, probes and cooldowns come in, a
\* circuit is closed exactly while its consecutive failures are below the
\* threshold.
THEOREM CircuitsAlwaysMatchCounts == Spec => []CircuitMatchesCount
  <1>1. Init => CircuitMatchesCount
    BY ThresholdAssumption DEF Init, CircuitMatchesCount, Untried
  <1>2. TypeOK /\ CircuitMatchesCount /\ [Next]_vars => CircuitMatchesCount'
    <2> SUFFICES ASSUME TypeOK, AllMatch(health), [Next]_vars PROVE AllMatch(health')
      BY DEF CircuitMatchesCount, AllMatch, Matches
    <2>1. ASSUME NEW c \in Calls, Retry(c) PROVE AllMatch(health')
      BY <2>1, RegistryMatches DEF Retry
    <2>2. ASSUME NEW c \in Calls, NextPermitted(c) PROVE AllMatch(health')
      BY <2>2, RegistryMatches DEF NextPermitted
    <2>3. ASSUME NEW c \in Calls, NEW m \in Models, Translate(c, m) PROVE AllMatch(health')
      BY <2>3, RegistryMatches DEF Translate
    <2>4. ASSUME NEW c \in Calls, Answers(c) PROVE AllMatch(health')
      BY <2>4, RegistryMatches DEF Answers
    <2>5. ASSUME NEW c \in Calls, NEW k, Fails(c, k) \/ AdapterFails(c, k)
          PROVE  AllMatch(health')
      BY <2>5, RegistryMatches DEF Fails, AdapterFails
    <2>6. ASSUME NEW c \in Calls, Route(c) \/ Exhausted(c) \/ EndsEarly(c)
          PROVE  AllMatch(health')
      BY <2>6 DEF Route, Exhausted, EndsEarly
    <2>7. ASSUME NEW t \in Target, CoolsDown(t) PROVE AllMatch(health')
      <3>1. Matches(Cooled(health[t]))
        BY <2>7, BreakerMatches DEF TypeOK, AllMatch, CoolsDown
      <3> QED
        BY <2>7, <3>1 DEF CoolsDown, TypeOK, AllMatch
    <2>8. CASE TroubleComesAndGoes \/ UNCHANGED vars
      BY <2>8 DEF TroubleComesAndGoes, vars
    <2> QED
      BY <2>1, <2>2, <2>3, <2>4, <2>5, <2>6, <2>7, <2>8 DEF Next, Choose, Fate
  <1> QED
    BY <1>1, <1>2, TypeCorrect, PTL DEF Spec

\* The registry of breakers and the chains beside it are well formed (RegistryHolds), whatever fails.
THEOREM RegistryAlwaysHolds == Spec => []RegistryHolds
BY TypeCorrect, CircuitsAlwaysMatchCounts, PTL DEF RegistryHolds

-----------------------------------------------------------------------------
(* A probe in flight is somebody's.                                       *)

\* Does request c carry an attempt on t?
Carries(c, t) == chain[c].at = "waiting" /\ t \in Touched(chain[c].target)

\* No method but begin marks a probe, and an attempt that ends lets go of its
\* targets.
LEMMA ProbesOf ==
  ASSUME TypeOK, NEW m \in Models, NEW t \in Target
  PROVE  /\ Begun(m)[t].probing => health[t].probing \/ t \in Touched(m)
         /\ Credited(m)[t].probing => health[t].probing /\ t \notin Touched(m)
         /\ \A k : Recorded(m, k)[t].probing => health[t].probing /\ t \notin Touched(m)
  <1>1. health[t] \in Health
    BY DEF TypeOK
  <1>2. Begun(m)[t].probing => health[t].probing \/ t \in Touched(m)
    BY DEF Begun
  <1>3. ~ Succeeded(health[t]).probing /\ ~ Failed(health[t]).probing
        /\ ~ BlamedElsewhere(health[t]).probing
    BY <1>1 DEF Succeeded, Untried, Failed, BlamedElsewhere, Health
  <1> QED
    BY <1>2, <1>3 DEF Credited, Recorded

\* A step of request c that ends no attempt of c, or lets go of its targets,
\* leaves every probe with a carrier: another's attempt is not disturbed, and
\* what c begins it carries.
LEMMA ProbeStep ==
  ASSUME TypeOK, ProbeIsCarried, NEW c \in Calls,
         \A d \in Calls \ {c} : chain'[d] = chain[d],
         \A t \in Target : health'[t].probing =>
           \/ Carries(c, t)'
           \/ health[t].probing /\ ~ Carries(c, t)
  PROVE  ProbeIsCarried'
  <1> SUFFICES ASSUME NEW t \in Target, health'[t].probing
               PROVE  \E d \in Calls : Carries(d, t)'
    BY DEF ProbeIsCarried, Carries
  <1>1. CASE Carries(c, t)'
    BY <1>1
  <1>2. CASE health[t].probing /\ ~ Carries(c, t)
    <2>1. PICK d \in Calls : Carries(d, t)
      BY <1>2 DEF ProbeIsCarried, Carries
    <2>2. d # c
      BY <1>2, <2>1
    <2> QED
      BY <2>1, <2>2 DEF Carries, Touched
  <1> QED
    BY <1>1, <1>2

\* As long as no stream ends before its upstream has answered, a probe in flight
\* is the attempt of a request that will end it: no breaker is left half-open
\* and refusing for ever.
THEOREM ProbesAreAlwaysCarried == ~ EarlyEnds => (Spec => []ProbeIsCarried)
  <1> SUFFICES ASSUME ~ EarlyEnds PROVE Spec => []ProbeIsCarried
    OBVIOUS
  <1>1. Init => ProbeIsCarried
    BY DEF Init, ProbeIsCarried, Untried
  <1>2. TypeOK /\ ProbeIsCarried /\ [Next]_vars => ProbeIsCarried'
    <2> SUFFICES ASSUME TypeOK, ProbeIsCarried, [Next]_vars PROVE ProbeIsCarried'
      OBVIOUS
    <2>0. \A c \in Calls : chain[c].at = "waiting" \/ chain[c].retry => chain[c].target \in Models
      BY DEF TypeOK
    <2>1. ASSUME NEW c \in Calls, Retry(c) PROVE ProbeIsCarried'
      <3> DEFINE m == chain[c].target
      <3>1. m \in Models /\ health' = Begun(m) /\ chain[c].at = "choosing"
        BY <2>0, <2>1 DEF Retry
      <3>2. /\ \A d \in Calls \ {c} : chain'[d] = chain[d]
            /\ chain'[c].at = "waiting" /\ chain'[c].target = m
        BY <2>1 DEF Retry, TypeOK, Chain
      <3>3. \A t \in Target : Carries(c, t)' <=> t \in Touched(m)
        BY <3>2 DEF Carries, Touched
      <3> QED
        BY <3>1, <3>2, <3>3, ProbesOf, ProbeStep DEF Carries
    <2>2. ASSUME NEW c \in Calls, NextPermitted(c) PROVE ProbeIsCarried'
      <3>1. PICK i \in DOMAIN chain[c].queue :
              /\ chain' = [chain EXCEPT ![c] = [chain[c] EXCEPT
                   !.at = "waiting", !.target = chain[c].queue[i],
                   !.queue = SubSeq(chain[c].queue, i + 1, Len(chain[c].queue)),
                   !.retried = FALSE, !.explored = IF chain[c].queue[i] = @ THEN @ ELSE None,
                   !.attempts = @ + (i - 1), !.skipped = @ + (i - 1)]]
              /\ health' = Begun(chain[c].queue[i])
        BY <2>2 DEF NextPermitted
      <3> DEFINE m == chain[c].queue[i]
      <3>2. m \in Models /\ chain[c].at = "choosing"
        BY <2>2 DEF TypeOK, Chain, NextPermitted
      <3>3. /\ \A d \in Calls \ {c} : chain'[d] = chain[d]
            /\ chain'[c].at = "waiting" /\ chain'[c].target = m
        BY <3>1 DEF TypeOK, Chain
      <3>4. \A t \in Target : Carries(c, t)' <=> t \in Touched(m)
        BY <3>3 DEF Carries, Touched
      <3> QED
        BY <3>1, <3>2, <3>3, <3>4, ProbesOf, ProbeStep DEF Carries
    <2>3. ASSUME NEW c \in Calls, NEW m \in Models, Translate(c, m) PROVE ProbeIsCarried'
      <3>1. chain[c].at = "idle" /\ health' = Begun(m)
        BY <2>3 DEF Translate
      <3>2. /\ \A d \in Calls \ {c} : chain'[d] = chain[d]
            /\ chain'[c].at = "waiting" /\ chain'[c].target = m
        BY <2>3 DEF Translate, TypeOK, Idle
      <3>3. \A t \in Target : Carries(c, t)' <=> t \in Touched(m)
        BY <3>2 DEF Carries, Touched
      <3> QED
        BY <3>1, <3>2, <3>3, ProbesOf, ProbeStep DEF Carries
    <2>4. ASSUME NEW c \in Calls, NEW k, Answers(c) \/ Fails(c, k) \/ AdapterFails(c, k)
          PROVE  ProbeIsCarried'
      <3> DEFINE m == chain[c].target
      <3>1. m \in Models /\ chain[c].at = "waiting"
        BY <2>0, <2>4 DEF Answers, Fails, AdapterFails
      <3>2. health' = Credited(m) \/ health' = Recorded(m, k)
        BY <2>4 DEF Answers, Fails, AdapterFails
      <3>3. \A d \in Calls \ {c} : chain'[d] = chain[d]
        BY <2>4 DEF Answers, Fails, AdapterFails, TypeOK
      <3>4. \A t \in Target : Carries(c, t) <=> t \in Touched(m)
        BY <3>1 DEF Carries
      <3>5. \A t \in Target : health'[t].probing => health[t].probing /\ ~ Carries(c, t)
        BY <3>1, <3>2, <3>4, ProbesOf
      <3> QED
        BY <3>3, <3>5, ProbeStep
    <2>5. ASSUME NEW c \in Calls, Route(c) \/ Exhausted(c) \/ EndsEarly(c)
          PROVE  ProbeIsCarried'
      <3>1. chain[c].at # "waiting" /\ health' = health
        BY <2>5 DEF Route, Exhausted, EndsEarly
      <3>2. \A d \in Calls \ {c} : chain'[d] = chain[d]
        BY <2>5 DEF Route, Exhausted, EndsEarly, TypeOK
      <3> QED
        BY <3>1, <3>2, ProbeStep DEF Carries
    <2>6. ASSUME NEW t \in Target, CoolsDown(t) PROVE ProbeIsCarried'
      <3>1. \A u \in Target : health'[u].probing = health[u].probing
        BY <2>6 DEF CoolsDown, Cooled, TypeOK, Health
      <3> QED
        BY <2>6, <3>1 DEF CoolsDown, ProbeIsCarried, Touched
    <2>7. CASE TroubleComesAndGoes \/ UNCHANGED vars
      BY <2>7 DEF TroubleComesAndGoes, vars, ProbeIsCarried, Touched
    <2> QED
      BY <2>1, <2>2, <2>3, <2>4, <2>5, <2>6, <2>7 DEF Next, Choose, Fate
  <1> QED
    BY <1>1, <1>2, TypeCorrect, PTL DEF Spec

-----------------------------------------------------------------------------
(* The budget.                                                            *)

\* What a request in this place has sent.
SentBy(r) == r.attempts - r.skipped + IF r.at = "waiting" THEN 1 ELSE 0

LEMMA BudgetStep ==
  ASSUME TypeOK, BudgetHolds, NEW c \in Calls, NEW r, SentBy(r) <= MaxAttempts,
         chain' = [chain EXCEPT ![c] = r]
  PROVE  BudgetHolds'
  BY DEF TypeOK, BudgetHolds, Sent, SentBy

\* However the refusals, the retries and the candidates skipped come, a request
\* sends no more than max_attempts upstream.
THEOREM BudgetAlwaysHolds == Spec => []BudgetHolds
  <1>0. SentBy(Idle) <= MaxAttempts /\ MaxAttempts \in Nat \ {0}
    BY ChainAssumption DEF SentBy, Idle
  <1>1. Init => BudgetHolds
    BY <1>0 DEF Init, BudgetHolds, Sent, SentBy
  <1>2. TypeOK /\ BudgetHolds /\ [Next]_vars => BudgetHolds'
    <2> SUFFICES ASSUME TypeOK, BudgetHolds, [Next]_vars PROVE BudgetHolds'
      OBVIOUS
    <2>0. \A c \in Calls : /\ chain[c] \in Chain /\ chain[c].attempts \in Nat
                          /\ chain[c].skipped \in Nat
                          /\ SentBy(chain[c]) <= MaxAttempts
      BY DEF TypeOK, Chain, BudgetHolds, Sent, SentBy
    <2>1. ASSUME NEW c \in Calls, Retry(c) PROVE BudgetHolds'
      <3> DEFINE r == [chain[c] EXCEPT !.at = "waiting", !.retry = FALSE]
      <3>1. r.attempts = chain[c].attempts /\ r.skipped = chain[c].skipped /\ r.at = "waiting"
        BY <2>0 DEF Chain
      <3>2. chain[c].attempts < MaxAttempts
        BY <1>0, <2>0, <2>1 DEF Retry, Spent
      <3>3. chain' = [chain EXCEPT ![c] = r]
        BY <2>1 DEF Retry
      <3> HIDE DEF r
      <3>4. SentBy(r) <= MaxAttempts
        BY <1>0, <2>0, <3>1, <3>2 DEF SentBy
      <3> QED
        BY <3>3, <3>4, BudgetStep
    <2>2. ASSUME NEW c \in Calls, NextPermitted(c) PROVE BudgetHolds'
      <3>1. PICK i \in DOMAIN chain[c].queue :
              chain' = [chain EXCEPT ![c] = [chain[c] EXCEPT
                !.at = "waiting", !.target = chain[c].queue[i],
                !.queue = SubSeq(chain[c].queue, i + 1, Len(chain[c].queue)),
                !.retried = FALSE, !.explored = IF chain[c].queue[i] = @ THEN @ ELSE None,
                !.attempts = @ + (i - 1), !.skipped = @ + (i - 1)]]
        BY <2>2 DEF NextPermitted
      <3> DEFINE r == [chain[c] EXCEPT
                !.at = "waiting", !.target = chain[c].queue[i],
                !.queue = SubSeq(chain[c].queue, i + 1, Len(chain[c].queue)),
                !.retried = FALSE, !.explored = IF chain[c].queue[i] = @ THEN @ ELSE None,
                !.attempts = @ + (i - 1), !.skipped = @ + (i - 1)]
      <3>2. /\ r.attempts = chain[c].attempts + (i - 1)
            /\ r.skipped = chain[c].skipped + (i - 1)
            /\ r.at = "waiting"
        BY <2>0 DEF Chain
      <3>3. chain[c].attempts < MaxAttempts /\ i \in Nat
        BY <1>0, <2>0, <2>2 DEF NextPermitted, MayContinue, Spent, Chain
      <3>4. chain' = [chain EXCEPT ![c] = r]
        BY <3>1
      <3> HIDE DEF r
      <3>5. SentBy(r) <= MaxAttempts
        BY <1>0, <2>0, <3>2, <3>3 DEF SentBy
      <3> QED
        BY <3>4, <3>5, BudgetStep
    <2>3. ASSUME NEW c \in Calls, NEW k, Fails(c, k) PROVE BudgetHolds'
      <3> DEFINE retry == k \in RetriedOnce /\ ~ chain[c].retried
                 r == [chain[c] EXCEPT !.at = "choosing", !.attempts = @ + 1,
                         !.onward = MayFallBack(c, k), !.retry = retry, !.retried = @ \/ retry]
      <3>1. /\ r.attempts = chain[c].attempts + 1 /\ r.skipped = chain[c].skipped
            /\ r.at = "choosing" /\ chain[c].at = "waiting"
        BY <2>0, <2>3 DEF Chain, Fails
      <3>2. chain' = [chain EXCEPT ![c] = r]
        BY <2>3 DEF Fails
      <3> HIDE DEF r
      <3>3. SentBy(r) <= MaxAttempts
        <4>1. chain[c].attempts - chain[c].skipped + 1 <= MaxAttempts
          BY <2>0, <3>1 DEF SentBy
        <4> QED
          BY <2>0, <3>1, <4>1, <1>0 DEF SentBy
      <3> QED
        BY <3>2, <3>3, BudgetStep
    <2>4. ASSUME NEW c \in Calls, NEW m \in Models, Translate(c, m) PROVE BudgetHolds'
      <3> DEFINE r == [Idle EXCEPT !.at = "waiting", !.target = m, !.translated = TRUE]
      <3>1. SentBy(r) <= MaxAttempts
        BY <1>0 DEF SentBy, Idle
      <3>2. chain' = [chain EXCEPT ![c] = r]
        BY <2>4 DEF Translate
      <3> QED
        BY <3>1, <3>2, BudgetStep
    <2>5. ASSUME NEW c \in Calls, NEW k,
                 Answers(c) \/ AdapterFails(c, k) \/ Exhausted(c) \/ EndsEarly(c)
          PROVE  BudgetHolds'
      BY <1>0, <2>5, BudgetStep DEF Answers, AdapterFails, Exhausted, EndsEarly
    <2>6. ASSUME NEW c \in Calls, Route(c) PROVE BudgetHolds'
      <3>1. \A q, e : SentBy(Routed(q, e)) <= MaxAttempts
        BY <1>0 DEF SentBy, Routed, Idle
      <3>2. PICK q, e : chain' = [chain EXCEPT ![c] = Routed(q, e)]
        BY <2>6 DEF Route
      <3> QED
        BY <3>1, <3>2, BudgetStep
    <2>7. CASE (\E t \in Target : CoolsDown(t)) \/ TroubleComesAndGoes \/ UNCHANGED vars
      BY <2>7 DEF CoolsDown, TroubleComesAndGoes, vars, BudgetHolds, Sent
    <2> QED
      BY <2>1, <2>2, <2>3, <2>4, <2>5, <2>6, <2>7 DEF Next, Choose, Fate
  <1> QED
    BY <1>1, <1>2, TypeCorrect, PTL DEF Spec
=============================================================================
