------------------------ MODULE ResourceManager_proofs ------------------------
(***************************************************************************)
(* Theorems about ResourceManager and about its stop, for every set of     *)
(* sessions and models, every ceiling and every combination of faults a    *)
(* theorem does not exclude by name.                                       *)
(***************************************************************************)
EXTENDS ResourceManagerStop, FiniteSetTheorems, TLAPS

-----------------------------------------------------------------------------
(* What _drop_references and _unload_all do to the books.                 *)

\* Dropping sessions keeps the counts typed, and zeroes theirs only.
LEMMA DroppedCounts ==
  ASSUME TypeOK, NEW S \in SUBSET Session
  PROVE  /\ Dropped(S) \in [Model -> [Session -> Nat]]
         /\ \A m \in Model, s \in Session :
              Dropped(S)[m][s] = IF s \in S /\ m \in leased[s] /\ m \in held
                                   THEN 0 ELSE refs[m][s]
BY DEF TypeOK, Dropped

\* One pass of the unload loop: it drops holdings nobody references, and
\* either ends or marks one more orphan and awaits its unload.
LEMMA UnloadPassFacts ==
  ASSUME TypeOK,
         NEW T \in SUBSET Model, NEW r \in [Model -> [Session -> Nat]],
         NEW marks \in SUBSET Model, NEW p \in UnloadPasses(T, r, marks)
  PROVE  /\ p.held \subseteq held /\ p.owned \subseteq p.held
         /\ \A m \in held \ p.held : ~ Referenced(r, m)
         /\ p.todo \in SUBSET Model
         /\ \/ p.busy = NoModel /\ p.marks = marks
            \/ p.busy \in Model \ marks /\ p.marks = marks \cup {p.busy}
<1>1. CASE p = LastPass(T, r, marks) /\ Asked(T, r, marks) = {}
  <2>1. \A m \in Forgotten(T, r, marks) : m \in held => ~ Referenced(r, m) /\ m \notin owned
    BY <1>1 DEF Spared, Asked, Forgotten
  <2> QED
    BY <1>1, <2>1 DEF TypeOK, LastPass
<1>2. ASSUME NEW m \in Asked(T, r, marks), NEW P \in SUBSET (T \ Asked(T, r, marks)),
             p = PassTo(m, P, T, r, marks)
      PROVE  /\ p.held \subseteq held /\ p.owned \subseteq p.held
             /\ \A k \in held \ p.held : ~ Referenced(r, k)
             /\ p.todo \in SUBSET Model
             /\ p.busy \in Model \ marks /\ p.marks = marks \cup {p.busy}
  <2>1. \A k \in Forgotten(P, r, marks) : k \in held => ~ Referenced(r, k) /\ k \notin owned
    BY DEF Spared, Asked, Forgotten
  <2>2. m \in Model \ marks /\ (m \in held => ~ Referenced(r, m))
    BY DEF Spared, Asked
  <2> QED
    BY <1>2, <2>1, <2>2 DEF TypeOK, PassTo
<1>3. \/ p = LastPass(T, r, marks) /\ Asked(T, r, marks) = {}
      \/ \E m \in Asked(T, r, marks), P \in SUBSET (T \ Asked(T, r, marks)) :
           p = PassTo(m, P, T, r, marks)
  BY DEF UnloadPasses
<1> QED
  BY <1>1, <1>2, <1>3

-----------------------------------------------------------------------------
(* Type correctness.                                                      *)

LEMMA IdleTyped == Idle \in CallType
BY DEF Idle, CallType, Point

LEMMA CallTyped ==
  ASSUME NEW at \in Point, NEW m \in Model, NEW k \in Model
  PROVE  /\ [Idle EXCEPT !.at = at, !.model = m] \in CallType
         /\ [Idle EXCEPT !.at = at, !.model = m, !.busy = k] \in CallType
BY DEF Idle, CallType

LEMMA ReleaseTyped == [Idle EXCEPT !.at = "release"] \in CallType
BY DEF Idle, CallType, Point

LEMMA WokenTyped ==
  ASSUME TypeOK, NEW m
  PROVE  Woken(m) \in [Session -> CallType]
<1>1. ASSUME NEW s \in Session, call[s].at = "blocked"
      PROVE  [Idle EXCEPT !.at = "woken", !.model = call[s].model] \in CallType
  <2>1. call[s].model \in Model
    BY <1>1 DEF TypeOK, CallType
  <2> QED
    BY <2>1, CallTyped DEF Point
<1> QED
  BY <1>1 DEF Woken, TypeOK

\* A pass of the unload loop keeps the books, the marks and the calls typed.
LEMMA UnloadPassTyped ==
  ASSUME TypeOK,
         NEW T \in SUBSET Model, NEW r \in [Model -> [Session -> Nat]],
         NEW marks \in SUBSET Model, NEW p \in UnloadPasses(T, r, marks),
         NEW c \in [Session -> CallType], NEW done \in CallType, NEW s \in Session
  PROVE  /\ p.held \subseteq Model /\ p.owned \subseteq p.held
         /\ p.marks \subseteq Model
         /\ [c EXCEPT ![s] = IF p.busy = NoModel THEN done
                             ELSE [@ EXCEPT !.busy = p.busy, !.todo = p.todo]]
              \in [Session -> CallType]
<1>1. /\ p.held \subseteq held /\ p.owned \subseteq p.held
      /\ p.todo \in SUBSET Model
      /\ \/ p.busy = NoModel /\ p.marks = marks
         \/ p.busy \in Model \ marks /\ p.marks = marks \cup {p.busy}
  BY UnloadPassFacts
<1>2. [c[s] EXCEPT !.busy = p.busy, !.todo = p.todo] \in CallType
  BY <1>1 DEF CallType
<1> QED
  BY <1>1, <1>2 DEF TypeOK

LEMMA OneGoesTyped ==
  ASSUME TypeOK, NEW m \in Model \cup {NoModel}, OneGoes(m)
  PROVE  resident' \in [Model -> Copies]
<1>1. \A k \in Model : resident[k] \in Copies
  BY DEF TypeOK
<1>2. ASSUME m \in Model, Here(m) PROVE [resident[m] EXCEPT !.here = @ - 1] \in Copies
  BY <1>1, <1>2 DEF Copies, Here
<1>3. ASSUME m \in Model PROVE [resident[m] EXCEPT !.theirs = FALSE] \in Copies
  BY <1>1, <1>3 DEF Copies
<1> QED
  BY <1>2, <1>3 DEF OneGoes, TypeOK

LEMMA AnsweredTyped ==
  ASSUME TypeOK, NEW m \in Model \cup {NoModel}, Answered(m)
  PROVE  resident' \in [Model -> Copies] /\ loadedHere' \subseteq Model
BY OneGoesTyped DEF TypeOK, Answered

\* A copy more of m in memory, this manager's own.
LEMMA OneMoreAdds ==
  ASSUME TypeOK, NEW m \in Model, OneMore(m)
  PROVE  /\ resident' \in [Model -> Copies]
         /\ resident'[m].here = resident[m].here + 1 /\ resident'[m].here > 0
         /\ resident'[m].theirs = resident[m].theirs
         /\ \A k \in Model \ {m} : resident'[k] = resident[k]
<1>1. resident[m] \in Copies /\ resident \in [Model -> Copies]
  BY DEF TypeOK
<1>2. [resident[m] EXCEPT !.here = @ + 1] \in Copies
  BY <1>1 DEF Copies
<1> QED
  BY <1>1, <1>2 DEF OneMore, Copies

\* An answer says nothing of the other models.
LEMMA AnsweredLeavesOthers ==
  ASSUME TypeOK, NEW m, Answered(m)
  PROVE  \A k \in Model \ {m} : resident'[k] = resident[k]
BY DEF TypeOK, Answered, OneGoes

\* What others do leaves this manager's copies where they are.
LEMMA OutsideKeepsOurs ==
  ASSUME TypeOK, NEW m \in Model, OutsideLoads(m) \/ OutsideUnloads(m)
  PROVE  /\ resident' \in [Model -> Copies]
         /\ \A k \in Model : resident'[k].here = resident[k].here
<1>1. \A k \in Model : resident[k] \in Copies
  BY DEF TypeOK
<1>2. ASSUME NEW b \in BOOLEAN PROVE [resident[m] EXCEPT !.theirs = b] \in Copies
  BY <1>1 DEF Copies
<1>3. PICK b \in BOOLEAN : resident' = [resident EXCEPT ![m].theirs = b]
  BY DEF OutsideLoads, OutsideUnloads
<1> QED
  BY <1>1, <1>2, <1>3 DEF TypeOK, Copies

LEMMA GiveBackTyped ==
  ASSUME TypeOK, NEW m \in Model, NEW w, GiveBackIfAbandoned(m, w)
  PROVE  unloading' \subseteq Model /\ givingBack' \subseteq Model
BY DEF TypeOK, GiveBackIfAbandoned

\* A call that loops through orphans stays typed, whatever it is doing.
LEMMA UnloadAllTyped ==
  ASSUME TypeOK,
         NEW T \in SUBSET Model, NEW r \in [Model -> [Session -> Nat]],
         NEW marks \in SUBSET Model, NEW c \in [Session -> CallType],
         NEW done \in CallType, NEW s \in Session, NEW p \in UnloadPasses(T, r, marks),
         held' = p.held, owned' = p.owned, unloading' = p.marks, refs' = r,
         call' = [c EXCEPT ![s] = IF p.busy = NoModel THEN done
                                  ELSE [@ EXCEPT !.busy = p.busy, !.todo = p.todo]]
  PROVE  /\ held' \subseteq Model /\ owned' \subseteq held'
         /\ refs' \in [Model -> [Session -> Nat]]
         /\ unloading' \subseteq Model
         /\ call' \in [Session -> CallType]
BY UnloadPassTyped

\* Waking up and moving on keep every call typed.
LEMMA ThenTyped ==
  ASSUME TypeOK, NEW s \in Session PROVE Then(s) \in CallType
<1>1. call[s].at = "expire" => call[s].model \in Model
  BY DEF TypeOK, CallType
<1> QED
  BY <1>1, IdleTyped, CallTyped DEF Then, Point

\* Every step keeps the type invariant.
LEMMA TypeStep == TypeOK /\ [Next]_vars => TypeOK'
<1> SUFFICES ASSUME TypeOK, [Next]_vars PROVE TypeOK'
  OBVIOUS
<1>1. ASSUME NEW s \in Session, NEW m \in Model, Acquire(s, m) PROVE TypeOK'
  <2> DEFINE lapsed == {x \in Session : lease[x] = "lapsed"}
             start(at) == [Idle EXCEPT !.at = at, !.model = m]
             c == [call EXCEPT ![s] = start("expire")]
  <2>1. start("expire") \in CallType /\ start("survey") \in CallType
    BY CallTyped DEF Point
  <2>2. c \in [Session -> CallType]
    BY <2>1 DEF TypeOK
  <2>3. Dropped(lapsed) \in [Model -> [Session -> Nat]]
    BY DroppedCounts
  <2>4. Orphans(lapsed) \in SUBSET Model /\ unloading \in SUBSET Model
    BY DEF Orphans, TypeOK
  <2> HIDE DEF start, c
  <2>5. PICK p \in UnloadPasses(Orphans(lapsed), Dropped(lapsed), unloading) :
          /\ held' = p.held /\ owned' = p.owned /\ unloading' = p.marks
          /\ refs' = Dropped(lapsed)
          /\ call' = [c EXCEPT ![s] = IF p.busy = NoModel THEN start("survey")
                                 ELSE [@ EXCEPT !.busy = p.busy, !.todo = p.todo]]
    BY <1>1 DEF Acquire, UnloadAll, c, start
  <2>6. /\ held' \subseteq Model /\ owned' \subseteq held'
        /\ refs' \in [Model -> [Session -> Nat]]
        /\ unloading' \subseteq Model /\ call' \in [Session -> CallType]
    BY <2>1, <2>2, <2>3, <2>4, <2>5, UnloadAllTyped
  <2> QED
    BY <1>1, <2>6 DEF Acquire, TypeOK, loads
<1>2. ASSUME NEW s \in Session, Release(s) PROVE TypeOK'
  <2> DEFINE c == [call EXCEPT ![s] = [Idle EXCEPT !.at = "release"]]
  <2>1. c \in [Session -> CallType]
    BY ReleaseTyped DEF TypeOK
  <2>2. Dropped({s}) \in [Model -> [Session -> Nat]]
    BY DroppedCounts
  <2>3. Orphans({s}) \in SUBSET Model /\ unloading \in SUBSET Model
    BY DEF Orphans, TypeOK
  <2> HIDE DEF c
  <2>4. PICK p \in UnloadPasses(Orphans({s}), Dropped({s}), unloading) :
          /\ held' = p.held /\ owned' = p.owned /\ unloading' = p.marks
          /\ refs' = Dropped({s})
          /\ call' = [c EXCEPT ![s] = IF p.busy = NoModel THEN Idle
                                 ELSE [@ EXCEPT !.busy = p.busy, !.todo = p.todo]]
    BY <1>2 DEF Release, UnloadAll, c
  <2>5. /\ held' \subseteq Model /\ owned' \subseteq held'
        /\ refs' \in [Model -> [Session -> Nat]]
        /\ unloading' \subseteq Model /\ call' \in [Session -> CallType]
    BY <2>1, <2>2, <2>3, <2>4, IdleTyped, UnloadAllTyped
  <2> QED
    BY <1>2, <2>5 DEF Release, TypeOK, loads
<1>3. ASSUME NEW s \in Session, UnloadAnswered(s) PROVE TypeOK'
  <2> DEFINE k == call[s].busy
  <2>1. k \in Model \cup {NoModel} /\ call[s].todo \in SUBSET Model
    BY DEF TypeOK, CallType
  <2>2. /\ Woken(k) \in [Session -> CallType] /\ Then(s) \in CallType
        /\ refs \in [Model -> [Session -> Nat]] /\ unloading \ {k} \in SUBSET Model
    BY <2>1, WokenTyped, ThenTyped DEF TypeOK
  <2>3. resident' \in [Model -> Copies] /\ loadedHere' \subseteq Model
    BY <1>3, <2>1, AnsweredTyped DEF UnloadAnswered
  <2>4. PICK p \in UnloadPasses(call[s].todo, refs, unloading \ {k}) :
          /\ held' = p.held /\ owned' = p.owned /\ unloading' = p.marks
          /\ refs' = refs
          /\ call' = [Woken(k) EXCEPT ![s] = IF p.busy = NoModel THEN Then(s)
                                 ELSE [@ EXCEPT !.busy = p.busy, !.todo = p.todo]]
    BY <1>3 DEF UnloadAnswered, UnloadAll
  <2>5. /\ held' \subseteq Model /\ owned' \subseteq held'
        /\ refs' \in [Model -> [Session -> Nat]]
        /\ unloading' \subseteq Model /\ call' \in [Session -> CallType]
    BY <2>1, <2>2, <2>4, UnloadAllTyped
  <2> QED
    BY <1>3, <2>3, <2>5 DEF UnloadAnswered, TypeOK, loads
<1>4. ASSUME NEW s \in Session, Renew(s) \/ LeaseLapses(s) PROVE TypeOK'
  BY <1>4 DEF Renew, LeaseLapses, TypeOK, loads, unloads
<1>5. ASSUME NEW s \in Session, GiveUp(s) PROVE TypeOK'
  <2>1. call' \in [Session -> CallType]
    BY <1>5, IdleTyped DEF GiveUp, TypeOK
  <2>2. waiters' \in [Model -> Int]
    <3>1. call[s].at = "load" => call[s].model \in Model
      BY DEF TypeOK, CallType
    <3> DEFINE k == call[s].model
    <3>2. k \in Model => [waiters EXCEPT ![k] = @ - 1] \in [Model -> Int]
      BY DEF TypeOK
    <3>3. waiters \in [Model -> Int]
      BY DEF TypeOK
    <3>4. waiters' = IF call[s].at = "load" THEN [waiters EXCEPT ![k] = @ - 1] ELSE waiters
      BY <1>5 DEF GiveUp
    <3> HIDE DEF k
    <3> QED
      BY <3>1, <3>2, <3>3, <3>4 DEF k
  <2> QED
    BY <1>5, <2>1, <2>2 DEF GiveUp, TypeOK, books, unloads
<1>6. ASSUME NEW s \in Session, SurveyAnswers(s) PROVE TypeOK'
  <2>1. PICK seen \in SUBSET Model :
          call' = [call EXCEPT ![s].at = "surveyed", ![s].seen = seen]
    BY <1>6 DEF SurveyAnswers, Listed
  <2>2. [call[s] EXCEPT !.at = "surveyed", !.seen = seen] \in CallType
    <3>1. call[s] \in CallType /\ call[s].model \in Model
      BY <1>6 DEF TypeOK, CallType, SurveyAnswers
    <3> QED
      BY <3>1 DEF CallType, Point
  <2>3. call' \in [Session -> CallType]
    BY <2>1, <2>2 DEF TypeOK
  <2> QED
    BY <1>6, <2>3 DEF SurveyAnswers, TypeOK, books, loads, unloads
<1>7. ASSUME NEW s \in Session, Proceed(s) PROVE TypeOK'
  <2> DEFINE m == call[s].model
             o == Surveyed(s)
  <2>1. o \subseteq Model
    BY DEF Surveyed, Foreign, Listed, TypeOK, CallType
  <2>2. m \in Model
    BY <1>7 DEF Proceed, Looks, TypeOK, CallType
  <2>3. /\ outside' = o /\ UNCHANGED <<unloads, resident>>
        /\ \/ Blocked(s, m, o) \/ Share(s, m, o) \/ Join(s, m, o)
           \/ JoinLanded(s, m, o) \/ StartLoad(s, m, o)
           \/ Refuse(s, m, o) \/ Preempt(s, m, o)
    BY <1>7 DEF Proceed
  <2> HIDE DEF m, o
  <2>4. Takes(s, m) => /\ refs' \in [Model -> [Session -> Nat]]
                       /\ lease' \in [Session -> {"none", "live", "lapsed"}]
                       /\ leased' \in [Session -> SUBSET Model]
                       /\ call' \in [Session -> CallType]
    BY <2>2, IdleTyped DEF Takes, TypeOK
  <2>5. Waits(s, m) => /\ waiters' \in [Model -> Int]
                       /\ call' \in [Session -> CallType]
    <3>1. [Idle EXCEPT !.at = "load", !.model = m] \in CallType
      BY <2>2, CallTyped DEF Point
    <3> QED
      BY <2>2, <3>1 DEF Waits, TypeOK
  <2>6. CASE Blocked(s, m, o)
    <3>1. PICK k \in InTheWay(m, o) : call' =
            [call EXCEPT ![s] = [Idle EXCEPT !.at = "blocked", !.model = m, !.busy = k]]
      BY <2>6 DEF Blocked
    <3>2. k \in Model
      BY <2>2, <3>1 DEF InTheWay, TypeOK
    <3>3. call' \in [Session -> CallType]
      BY <2>2, <3>1, <3>2, CallTyped DEF TypeOK, Point
    <3> QED
      BY <2>1, <2>3, <2>6, <3>3 DEF Blocked, TypeOK, books, loads, unloads
  <2>7. CASE Share(s, m, o)
    BY <2>1, <2>2, <2>3, <2>4, <2>7 DEF Share, Takes, TypeOK, loads, unloads
  <2>8. CASE Join(s, m, o)
    BY <2>1, <2>2, <2>3, <2>5, <2>8 DEF Join, TypeOK, books, unloads
  <2>9. CASE JoinLanded(s, m, o)
    <3>1. held' \subseteq Model /\ owned' \subseteq held' /\ load' \in [Model -> LoadStage]
      BY <2>2, <2>9 DEF JoinLanded, Takes, TypeOK, LoadStage
    <3> QED
      BY <2>1, <2>2, <2>3, <2>4, <2>9, <3>1 DEF JoinLanded, TypeOK, unloads
  <2>10. CASE StartLoad(s, m, o)
    BY <2>1, <2>2, <2>3, <2>5, <2>10 DEF StartLoad, TypeOK, books, unloads, LoadStage
  <2>11. CASE Refuse(s, m, o)
    BY <2>1, <2>3, <2>11, IdleTyped DEF Refuse, TypeOK, books, loads, unloads
  <2>12. CASE Preempt(s, m, o)
    <3>1. held' \subseteq Model /\ owned' \subseteq held'
      BY <2>12 DEF Preempt, TypeOK
    <3> QED
      BY <2>1, <2>2, <2>3, <2>5, <2>12, <3>1 DEF Preempt, TypeOK, unloads, LoadStage
  <2> QED
    BY <2>3, <2>6, <2>7, <2>8, <2>9, <2>10, <2>11, <2>12
<1>8. ASSUME NEW m \in Model, Task(m) PROVE TypeOK'
  <2>1. ASSUME NEW stage \in LoadStage, Land(m, stage)
        PROVE  /\ load' \in [Model -> LoadStage] /\ waiters' \in [Model -> Int]
               /\ held' \subseteq Model /\ owned' \subseteq held'
               /\ refs' \in [Model -> [Session -> Nat]]
               /\ lease' \in [Session -> {"none", "live", "lapsed"}]
               /\ leased' \in [Session -> SUBSET Model]
               /\ call' \in [Session -> CallType]
    <3>1. load' \in [Model -> LoadStage] /\ waiters' \in [Model -> Int]
      BY <2>1 DEF Land, TypeOK, LoadStage
    <3>2. held' \subseteq Model /\ owned' \subseteq held'
      BY <2>1 DEF Land, TypeOK
    <3>3. refs' \in [Model -> [Session -> Nat]]
      BY <2>1 DEF Land, TypeOK
    <3>4. /\ lease' \in [Session -> {"none", "live", "lapsed"}]
          /\ leased' \in [Session -> SUBSET Model]
      BY <2>1 DEF Land, TypeOK
    <3>5. call' \in [Session -> CallType]
      BY <2>1, IdleTyped DEF Land, TypeOK
    <3> QED
      BY <3>1, <3>2, <3>3, <3>4, <3>5
  <2>2. CASE AskLoad(m)
    BY <2>2 DEF AskLoad, TypeOK, books, unloads, LoadStage
  <2>3. CASE Adopt(m)
    <3>1. Land(m, "adopted") /\ "adopted" \in LoadStage
      BY <2>3 DEF Adopt, LoadStage
    <3> QED
      BY <2>1, <2>3, <3>1 DEF Adopt, Land, TypeOK
  <2>4. CASE LoadLands(m)
    <3>1. Land(m, "landed") /\ "landed" \in LoadStage
      BY <2>4 DEF LoadLands, LoadStage
    <3> QED
      BY <2>1, <2>4, <3>1, OneMoreAdds DEF LoadLands, Land, TypeOK
  <2>5. CASE LoadFails(m)
    <3>1. unloading' \subseteq Model /\ givingBack' \subseteq Model
      BY <2>5, GiveBackTyped DEF LoadFails
    <3>2. resident' \in [Model -> Copies]
      BY <2>5, OneMoreAdds DEF LoadFails, TypeOK
    <3>3. call' \in [Session -> CallType] /\ waiters' \in [Model -> Int]
      BY <2>5, IdleTyped DEF LoadFails, TypeOK
    <3> QED
      BY <2>5, <3>1, <3>2, <3>3 DEF LoadFails, TypeOK, books, LoadStage
  <2>6. CASE ForgetLoad(m)
    <3>1. unloading' \subseteq Model /\ givingBack' \subseteq Model
      BY <2>6, GiveBackTyped DEF ForgetLoad
    <3> QED
      BY <2>6, <3>1 DEF ForgetLoad, TypeOK, books, LoadStage
  <2>7. CASE GiveBackAnswered(m)
    <3>1. resident' \in [Model -> Copies] /\ loadedHere' \subseteq Model
      BY <2>7, AnsweredTyped DEF GiveBackAnswered
    <3>2. call' \in [Session -> CallType]
      BY <2>7, WokenTyped DEF GiveBackAnswered
    <3> QED
      BY <2>7, <3>1, <3>2 DEF GiveBackAnswered, TypeOK, books, loads
  <2> QED
    BY <1>8, <2>2, <2>3, <2>4, <2>5, <2>6, <2>7 DEF Task
<1>9. ASSUME NEW m \in Model, OutsideLoads(m) \/ OutsideUnloads(m) PROVE TypeOK'
  BY <1>9, OutsideKeepsOurs DEF OutsideLoads, OutsideUnloads, TypeOK, books, loads, unloads
<1>10. CASE UNCHANGED vars
  BY <1>10 DEF vars, TypeOK, books, loads, unloads
<1> QED
  BY <1>1, <1>2, <1>3, <1>4, <1>5, <1>6, <1>7, <1>8, <1>9, <1>10 DEF Next, Client, Runs

\* Every variable stays within its type (TypeOK), in every instance.
THEOREM TypeCorrect == Spec => []TypeOK
<1>1. Init => TypeOK
  BY IdleTyped DEF Init, TypeOK, LoadStage, Copies, Absent
<1> QED
  BY <1>1, TypeStep, PTL DEF Spec

-----------------------------------------------------------------------------
(* The books: leases and references agree, and no model is both held and   *)
(* loading.  Nothing but the books and the load table matters, so the two  *)
(* are inductive together with the types.                                  *)

\* What an unload pass leaves: it drops no reference and no referenced
\* holding, so books that matched with the counts r still match.
LEMMA PassKeepsBooks ==
  ASSUME Books,
         NEW T \in SUBSET Model, NEW r \in [Model -> [Session -> Nat]],
         NEW marks \in SUBSET Model, NEW p \in UnloadPasses(T, r, marks),
         NEW L \in [Session -> {"none", "live", "lapsed"}],
         NEW K \in [Session -> SUBSET Model],
         \A s \in Session :
           /\ L[s] = "none" => K[s] = {}
           /\ \A m \in Model : (r[m][s] > 0 <=> m \in K[s]) /\ (r[m][s] > 0 => m \in held),
         held' = p.held, refs' = r, lease' = L, leased' = K, load' = load
  PROVE  LeasesMatchReferences' /\ TablesDisjoint'
<1>1. p.held \subseteq held /\ \A m \in held \ p.held : ~ Referenced(r, m)
  BY UnloadPassFacts DEF Books
<1>2. \A m \in Model, s \in Session : r[m][s] > 0 => m \in p.held
  BY <1>1 DEF Referenced
<1> QED
  BY <1>1, <1>2 DEF Books, LeasesMatchReferences, TablesDisjoint, InFlight

\* An acquire that takes a reference takes a lease naming the model.
LEMMA TakesKeepsBooks ==
  ASSUME Books, NEW s \in Session, NEW m \in Model, Takes(s, m)
  PROVE  LeasesMatchReferences'
<1>1. \A t \in Session, k \in Model :
        /\ refs'[k][t] > 0 <=> k \in leased'[t]
        /\ refs'[k][t] > 0 => k \in held'
  BY DEF Takes, Books, TypeOK, LeasesMatchReferences
<1>2. \A t \in Session : lease'[t] = "none" => leased'[t] = {}
  BY DEF Takes, Books, TypeOK, LeasesMatchReferences
<1> QED
  BY <1>1, <1>2 DEF LeasesMatchReferences

\* So does every acquire that a landing wakes.
LEMMA LandKeepsBooks ==
  ASSUME Books, NEW m \in Model, NEW stage \in {"landed", "adopted"},
         load[m] \in Under, Land(m, stage)
  PROVE  LeasesMatchReferences' /\ TablesDisjoint'
<1> DEFINE W == Waiting(m)
<1>1. \A t \in Session, k \in Model :
        refs'[k][t] = IF k = m /\ t \in W THEN refs[k][t] + 1 ELSE refs[k][t]
  BY DEF Land, Books, TypeOK
<1>2. \A t \in Session :
        /\ leased'[t] = IF t \in W THEN leased[t] \cup {m} ELSE leased[t]
        /\ lease'[t] = IF t \in W THEN "live" ELSE lease[t]
  BY DEF Land
<1>3. held' = IF W = {} THEN held ELSE held \cup {m}
  BY DEF Land
<1>4. LeasesMatchReferences'
  <2>1. \A t \in Session, k \in Model :
          /\ refs[k][t] \in Nat
          /\ refs[k][t] > 0 <=> k \in leased[t]
          /\ refs[k][t] > 0 => k \in held
    BY DEF Books, TypeOK, LeasesMatchReferences
  <2>2. \A t \in Session : lease[t] = "none" => leased[t] = {}
    BY DEF Books, LeasesMatchReferences
  <2> HIDE DEF W
  <2>3. held \subseteq held' /\ (W # {} => m \in held')
    BY <1>3
  <2>4. \A t \in Session, k \in Model :
          /\ refs'[k][t] > 0 <=> k \in leased'[t]
          /\ refs'[k][t] > 0 => k \in held'
    <3>1. ASSUME NEW t \in Session, NEW k \in Model, t \in W
          PROVE  /\ refs'[k][t] > 0 <=> k \in leased'[t]
                 /\ refs'[k][t] > 0 => k \in held'
      <4>1. m \in held' /\ leased'[t] = leased[t] \cup {m}
        BY <1>2, <2>3, <3>1
      <4>2. CASE k = m
        <5>1. refs'[k][t] = refs[k][t] + 1 /\ refs[k][t] \in Nat
          BY <1>1, <2>1, <3>1, <4>2
        <5> QED
          BY <4>1, <4>2, <5>1
      <4>3. CASE k # m
        <5>1. refs'[k][t] = refs[k][t]
          BY <1>1, <4>3
        <5> QED
          BY <2>1, <2>3, <4>1, <4>3, <5>1
      <4> QED
        BY <4>2, <4>3
    <3>2. ASSUME NEW t \in Session, NEW k \in Model, t \notin W
          PROVE  /\ refs'[k][t] > 0 <=> k \in leased'[t]
                 /\ refs'[k][t] > 0 => k \in held'
      BY <1>1, <1>2, <2>1, <2>3, <3>2
    <3> QED
      BY <3>1, <3>2
  <2>5. \A t \in Session : lease'[t] = "none" => leased'[t] = {}
    BY <1>2, <2>2
  <2> QED
    BY <2>4, <2>5 DEF LeasesMatchReferences
<1>5. TablesDisjoint'
  <2>1. load' = [load EXCEPT ![m] = IF W = {} THEN stage ELSE "none"]
    BY DEF Land
  <2>2. m \notin held /\ load \in [Model -> LoadStage]
    BY DEF Books, TablesDisjoint, InFlight, Under, TypeOK
  <2> HIDE DEF W
  <2> QED
    BY <1>3, <2>1, <2>2 DEF TablesDisjoint, InFlight, Books
<1> QED
  BY <1>4, <1>5

\* Every step keeps the books.
LEMMA BooksStep == Books /\ [Next]_vars => Books'
<1> SUFFICES ASSUME Books, [Next]_vars PROVE LeasesMatchReferences' /\ TablesDisjoint'
  BY TypeStep DEF Books
<1> USE DEF Books
<1>1. ASSUME NEW S \in SUBSET Session, NEW T \in SUBSET Model,
             NEW p \in UnloadPasses(T, Dropped(S), unloading),
             held' = p.held, refs' = Dropped(S), load' = load,
             lease' = [x \in Session |-> IF x \in S THEN "none" ELSE lease[x]],
             leased' = [x \in Session |-> IF x \in S THEN {} ELSE leased[x]]
      PROVE  LeasesMatchReferences' /\ TablesDisjoint'
  <2> DEFINE L == [x \in Session |-> IF x \in S THEN "none" ELSE lease[x]]
             K == [x \in Session |-> IF x \in S THEN {} ELSE leased[x]]
             r == Dropped(S)
  <2>1. L \in [Session -> {"none", "live", "lapsed"}] /\ K \in [Session -> SUBSET Model]
    BY DEF TypeOK
  <2>2. /\ r \in [Model -> [Session -> Nat]]
        /\ \A m \in Model, s \in Session :
             r[m][s] = IF s \in S /\ m \in leased[s] /\ m \in held THEN 0 ELSE refs[m][s]
    BY DroppedCounts
  <2>3. \A s \in Session :
          /\ L[s] = "none" => K[s] = {}
          /\ \A m \in Model : (r[m][s] > 0 <=> m \in K[s]) /\ (r[m][s] > 0 => m \in held)
    <3> HIDE DEF r
    <3> QED
      BY <2>2 DEF LeasesMatchReferences, TypeOK
  <2>4. unloading \in SUBSET Model
    BY DEF TypeOK
  <2> HIDE DEF L, K, r
  <2>5. /\ held' = p.held /\ refs' = r /\ lease' = L /\ leased' = K
        /\ p \in UnloadPasses(T, r, unloading)
    BY <1>1 DEF L, K, r
  <2> QED
    BY <1>1, <2>1, <2>2, <2>3, <2>4, <2>5, PassKeepsBooks
<1>2. ASSUME NEW s \in Session, NEW m \in Model, Acquire(s, m)
      PROVE  LeasesMatchReferences' /\ TablesDisjoint'
  <2> DEFINE lapsed == {x \in Session : lease[x] = "lapsed"}
  <2>1. PICK p \in UnloadPasses(Orphans(lapsed), Dropped(lapsed), unloading) :
          held' = p.held /\ refs' = Dropped(lapsed)
    BY <1>2 DEF Acquire, UnloadAll
  <2>2. Orphans(lapsed) \in SUBSET Model /\ lapsed \in SUBSET Session
    BY DEF Orphans, TypeOK
  <2>3. /\ lease' = [x \in Session |-> IF x \in lapsed THEN "none" ELSE lease[x]]
        /\ leased' = [x \in Session |-> IF x \in lapsed THEN {} ELSE leased[x]]
        /\ load' = load
    BY <1>2 DEF Acquire, loads
  <2> HIDE DEF lapsed
  <2> QED
    BY <1>1, <2>1, <2>2, <2>3
<1>3. ASSUME NEW s \in Session, Release(s)
      PROVE  LeasesMatchReferences' /\ TablesDisjoint'
  <2>1. PICK p \in UnloadPasses(Orphans({s}), Dropped({s}), unloading) :
          held' = p.held /\ refs' = Dropped({s})
    BY <1>3 DEF Release, UnloadAll
  <2>2. Orphans({s}) \in SUBSET Model
    BY DEF Orphans, TypeOK
  <2>3. /\ lease' = [x \in Session |-> IF x \in {s} THEN "none" ELSE lease[x]]
        /\ leased' = [x \in Session |-> IF x \in {s} THEN {} ELSE leased[x]]
        /\ load' = load
    BY <1>3 DEF Release, loads, TypeOK
  <2> QED
    BY <1>1, <2>1, <2>2, <2>3
<1>4. ASSUME NEW s \in Session, UnloadAnswered(s)
      PROVE  LeasesMatchReferences' /\ TablesDisjoint'
  <2> DEFINE marks == unloading \ {call[s].busy}
             T == call[s].todo
  <2>1. PICK p \in UnloadPasses(T, refs, marks) : held' = p.held /\ refs' = refs
    BY <1>4 DEF UnloadAnswered, UnloadAll
  <2>2. T \in SUBSET Model /\ marks \in SUBSET Model
    BY DEF TypeOK, CallType
  <2>3. lease' = lease /\ leased' = leased /\ load' = load
    BY <1>4 DEF UnloadAnswered, loads
  <2>4. /\ refs \in [Model -> [Session -> Nat]]
        /\ lease \in [Session -> {"none", "live", "lapsed"}]
        /\ leased \in [Session -> SUBSET Model]
    BY DEF TypeOK
  <2>5. \A x \in Session :
          /\ lease[x] = "none" => leased[x] = {}
          /\ \A m \in Model : /\ refs[m][x] > 0 <=> m \in leased[x]
                              /\ refs[m][x] > 0 => m \in held
    BY DEF LeasesMatchReferences
  <2> HIDE DEF marks, T
  <2> QED
    BY <2>1, <2>2, <2>3, <2>4, <2>5, PassKeepsBooks
<1>5. ASSUME NEW s \in Session, Renew(s) \/ LeaseLapses(s)
      PROVE  LeasesMatchReferences' /\ TablesDisjoint'
  BY <1>5 DEF Renew, LeaseLapses, LeasesMatchReferences, TablesDisjoint, InFlight, TypeOK, loads
<1>6. ASSUME UNCHANGED <<books, load>>
      PROVE  LeasesMatchReferences' /\ TablesDisjoint'
  BY <1>6 DEF books, LeasesMatchReferences, TablesDisjoint, InFlight
<1>7. ASSUME NEW s \in Session, Proceed(s)
      PROVE  LeasesMatchReferences' /\ TablesDisjoint'
  <2> DEFINE m == call[s].model
             o == Surveyed(s)
  <2>1. m \in Model
    BY <1>7 DEF Proceed, Looks, TypeOK, CallType
  <2>2. \/ Blocked(s, m, o) \/ Share(s, m, o) \/ Join(s, m, o)
        \/ JoinLanded(s, m, o) \/ StartLoad(s, m, o)
        \/ Refuse(s, m, o) \/ Preempt(s, m, o)
    BY <1>7 DEF Proceed
  <2> HIDE DEF m, o
  <2>3. CASE Blocked(s, m, o) \/ Join(s, m, o) \/ Refuse(s, m, o)
    BY <1>6, <2>3 DEF Blocked, Join, Refuse, loads
  <2>4. CASE Share(s, m, o)
    BY <2>1, <2>4, TakesKeepsBooks DEF Share, Takes, TablesDisjoint, InFlight, loads
  <2>5. CASE JoinLanded(s, m, o)
    <3>1. TablesDisjoint'
      BY <2>1, <2>5 DEF JoinLanded, Takes, TablesDisjoint, InFlight, TypeOK
    <3> QED
      BY <2>1, <2>5, <3>1, TakesKeepsBooks DEF JoinLanded
  <2>6. CASE StartLoad(s, m, o)
    BY <2>1, <2>6 DEF StartLoad, LeasesMatchReferences, TablesDisjoint, InFlight, TypeOK, books
  <2>7. CASE Preempt(s, m, o)
    <3>1. PICK k \in Reclaimable : held' = held \ {k}
      BY <2>7 DEF Preempt
    <3>2. m \notin held
      BY <2>7 DEF Preempt, Full
    <3>3. \A x \in Session : ~ (refs[k][x] > 0)
      BY <3>1 DEF Reclaimable, Referenced
    <3>4. LeasesMatchReferences'
      BY <2>7, <3>1, <3>3 DEF Preempt, LeasesMatchReferences
    <3>5. TablesDisjoint'
      BY <2>1, <2>7, <3>1, <3>2 DEF Preempt, TablesDisjoint, InFlight, TypeOK
    <3> QED
      BY <3>4, <3>5
  <2> QED
    BY <2>2, <2>3, <2>4, <2>5, <2>6, <2>7
<1>8. ASSUME NEW m \in Model, Task(m)
      PROVE  LeasesMatchReferences' /\ TablesDisjoint'
  <2>1. CASE Adopt(m) \/ LoadLands(m)
    BY <2>1, LandKeepsBooks DEF Adopt, LoadLands, Under
  <2>2. CASE AskLoad(m) \/ LoadFails(m) \/ ForgetLoad(m)
    <3>1. UNCHANGED books /\ load[m] # "none" /\ \E x : load' = [load EXCEPT ![m] = x]
      BY <2>2 DEF AskLoad, LoadFails, ForgetLoad
    <3> QED
      BY <3>1 DEF books, LeasesMatchReferences, TablesDisjoint, InFlight, TypeOK
  <2>3. CASE GiveBackAnswered(m)
    BY <1>6, <2>3 DEF GiveBackAnswered, loads
  <2> QED
    BY <1>8, <2>1, <2>2, <2>3 DEF Task
<1>9. ASSUME NEW s \in Session, GiveUp(s) \/ SurveyAnswers(s)
      PROVE  LeasesMatchReferences' /\ TablesDisjoint'
  BY <1>6, <1>9 DEF GiveUp, SurveyAnswers, loads
<1>10. ASSUME NEW m \in Model, OutsideLoads(m) \/ OutsideUnloads(m)
       PROVE  LeasesMatchReferences' /\ TablesDisjoint'
  BY <1>6, <1>10 DEF OutsideLoads, OutsideUnloads, loads
<1>11. CASE UNCHANGED vars
  BY <1>6, <1>11 DEF vars, loads
<1> QED
  BY <1>2, <1>3, <1>4, <1>5, <1>7, <1>8, <1>9, <1>10, <1>11 DEF Next, Client, Runs

\* The books agree (Books: leases, references, holdings and loads of manager.py), for every set
\* of sessions and models, every ceiling and every combination of faults.
THEOREM BooksAlwaysHold == Spec => []Books
<1>1. Init => Books
  BY IdleTyped DEF Init, Books, TypeOK, LoadStage, Copies, Absent, LeasesMatchReferences,
                   TablesDisjoint, InFlight
<1> QED
  BY <1>1, BooksStep, PTL DEF Spec

\* "A reference is only ever taken together with a lease"
\* (LeasesMatchReferences, what _drop_every_lease relies on), for any number
\* of sessions and models and any faults.
THEOREM LeasesAlwaysMatchReferences == Spec => []LeasesMatchReferences
BY BooksAlwaysHold, PTL DEF Books

\* "The two tables never overlap" (TablesDisjoint, what the ceiling's count
\* relies on).
THEOREM TablesNeverOverlap == Spec => []TablesDisjoint
BY BooksAlwaysHold, PTL DEF Books
-----------------------------------------------------------------------------
(* Marks and waits.  What the answers of the runtime clear, and who waits  *)
(* for them, is told by the calls, the marks and the waits' counts alone;  *)
(* with the types the property is inductive as it stands.                  *)

\* The part of EveryMarkIsAnswered about the marks, of any calls c, marks u
\* and give-backs g.
LoopsOf(c) == {s \in Session : c[s].at \in {"expire", "release"}}

MarksAnswered(c, u, g) ==
  /\ \A s \in LoopsOf(c) :
       /\ c[s].busy \in u \ g
       /\ \A t \in LoopsOf(c) : c[s].busy = c[t].busy => s = t
  /\ \A m \in u : m \in g \/ \E s \in LoopsOf(c) : c[s].busy = m
  /\ g \subseteq u
  /\ \A s \in Session : c[s].at = "blocked" => c[s].busy \in u

LEMMA MarkParts ==
  EveryMarkIsAnswered <=> WaitersExact /\ MarksAnswered(call, unloading, givingBack)
BY DEF EveryMarkIsAnswered, MarksAnswered, UnloadLoops, LoopsOf

\* An unload loop's pass: when every mark but those of s is answered, the
\* pass of s leaves every mark answered, and s either owns the mark it added
\* or waits for none.
LEMMA PassKeepsMarks ==
  ASSUME TypeOK, NEW s \in Session, NEW c \in [Session -> CallType],
         NEW T \in SUBSET Model, NEW r \in [Model -> [Session -> Nat]],
         NEW marks \in SUBSET Model, NEW p \in UnloadPasses(T, r, marks),
         NEW done \in CallType, done.at \notin {"expire", "release", "blocked"},
         c[s].at \in {"expire", "release"},
         MarksAnswered([c EXCEPT ![s] = done], marks, givingBack)
  PROVE  MarksAnswered([c EXCEPT ![s] = IF p.busy = NoModel THEN done
                                        ELSE [@ EXCEPT !.busy = p.busy, !.todo = p.todo]],
                       p.marks, givingBack)
<1> DEFINE e == [c EXCEPT ![s] = done]
           d == [c EXCEPT ![s] = [c[s] EXCEPT !.busy = p.busy, !.todo = p.todo]]
<1>1. \/ p.busy = NoModel /\ p.marks = marks
      \/ p.busy \in Model \ marks /\ p.marks = marks \cup {p.busy}
  BY UnloadPassFacts
<1>2. CASE p.busy = NoModel /\ p.marks = marks
  BY <1>2
<1>3. CASE p.busy \in Model \ marks /\ p.marks = marks \cup {p.busy}
  <2>1. \A t \in Session \ {s} : d[t] = c[t] /\ e[t] = c[t]
    OBVIOUS
  <2>2. e[s] = done /\ d[s].at = c[s].at /\ d[s].busy = p.busy
    BY DEF CallType
  <2> HIDE DEF d, e
  <2>3. LoopsOf(d) = LoopsOf(e) \cup {s} /\ s \notin LoopsOf(e)
    BY <2>1, <2>2 DEF LoopsOf
  <2>4. MarksAnswered(e, marks, givingBack)
    BY DEF e
  <2>5. \A t \in LoopsOf(e) : d[t].busy = e[t].busy /\ d[t].busy \in marks \ givingBack
    BY <2>1, <2>3, <2>4 DEF MarksAnswered, LoopsOf
  <2>6. givingBack \subseteq marks /\ d[s].busy \notin marks
    BY <1>3, <2>2, <2>4 DEF MarksAnswered
  <2>7. \A t \in LoopsOf(d) :
          /\ d[t].busy \in p.marks \ givingBack
          /\ \A x \in LoopsOf(d) : d[t].busy = d[x].busy => t = x
    BY <1>3, <2>2, <2>3, <2>4, <2>5, <2>6 DEF MarksAnswered
  <2>8. \A m \in p.marks : m \in givingBack \/ \E t \in LoopsOf(d) : d[t].busy = m
    BY <1>3, <2>2, <2>3, <2>4, <2>5 DEF MarksAnswered
  <2>9. \A t \in Session : d[t].at = "blocked" => d[t].busy \in p.marks
    BY <1>3, <2>1, <2>2, <2>4 DEF MarksAnswered
  <2>10. MarksAnswered(d, p.marks, givingBack)
    BY <1>3, <2>6, <2>7, <2>8, <2>9 DEF MarksAnswered
  <2>11. p.busy # NoModel
    BY <1>3, ManagerAssumption
  <2> QED
    BY <2>10, <2>11 DEF d
<1> QED
  BY <1>1, <1>2, <1>3

\* The answer to the unload of m clears its mark and wakes who waited for it;
\* the marks left are those of the other loops and give-backs.
LEMMA AnswerKeepsMarks ==
  ASSUME TypeOK, MarksAnswered(call, unloading, givingBack), NEW s \in LoopsOf(call),
         NEW done \in CallType, done.at \notin {"expire", "release", "blocked"}
  PROVE  MarksAnswered([Woken(call[s].busy) EXCEPT ![s] = done],
                       unloading \ {call[s].busy}, givingBack)
<1> DEFINE k == call[s].busy
           e == [Woken(k) EXCEPT ![s] = done]
<1>1. \A t \in Session : e[t] = IF t = s THEN done
                                ELSE IF call[t].at = "blocked" /\ call[t].busy = k
                                  THEN [Idle EXCEPT !.at = "woken", !.model = call[t].model]
                                  ELSE call[t]
  BY DEF Woken, LoopsOf
<1>2. \A t : [Idle EXCEPT !.at = "woken", !.model = call[t].model].at = "woken"
  BY DEF Idle
<1> HIDE DEF e
<1>3. LoopsOf(e) = LoopsOf(call) \ {s} /\ \A t \in LoopsOf(e) : e[t] = call[t]
  BY <1>1, <1>2 DEF LoopsOf
<1>4. k \in unloading \ givingBack
  BY DEF MarksAnswered
<1>5. \A t \in LoopsOf(e) : e[t].busy # k
  BY <1>3 DEF MarksAnswered
<1>6. \A t \in Session : e[t].at = "blocked" => e[t].busy \in unloading \ {k}
  BY <1>1, <1>2 DEF MarksAnswered
<1>7. \A m \in unloading \ {k} : m \in givingBack \/ \E t \in LoopsOf(e) : e[t].busy = m
  BY <1>3 DEF MarksAnswered
<1>8. MarksAnswered(e, unloading \ {k}, givingBack)
  BY <1>3, <1>4, <1>5, <1>6, <1>7 DEF MarksAnswered
<1> QED
  BY <1>8 DEF e

\* Calls that neither loop nor wait for a mark, before and after, may change.
LEMMA OtherCallsKeepMarks ==
  ASSUME NEW c, NEW d, NEW u, NEW g, MarksAnswered(c, u, g),
         \A s \in Session :
           \/ d[s] = c[s]
           \/ /\ c[s].at \notin {"expire", "release"}
              /\ d[s].at \notin {"expire", "release", "blocked"}
  PROVE  MarksAnswered(d, u, g)
<1>1. LoopsOf(d) = LoopsOf(c) /\ \A s \in LoopsOf(c) : d[s] = c[s]
  BY DEF LoopsOf
<1> QED
  BY <1>1 DEF MarksAnswered

\* A call that was not waiting for a load and does not start to leaves the
\* counts of waits exact.
LEMMA OtherCallsKeepWaits ==
  ASSUME WaitersExact, waiters' = waiters,
         \A s \in Session :
           \/ call'[s].at = "load" /\ call[s].at = "load" /\ call'[s].model = call[s].model
           \/ call'[s].at # "load" /\ call[s].at # "load"
  PROVE  WaitersExact'
<1>1. \A m \in Model : Waiting(m)' = Waiting(m)
  BY DEF Waiting
<1> QED
  BY <1>1 DEF WaitersExact

LEMMA WaitingFinite ==
  ASSUME NEW m PROVE IsFiniteSet(Waiting(m)) /\ Cardinality(Waiting(m)) \in Nat
<1>1. IsFiniteSet(Waiting(m))
  BY ManagerAssumption, FS_Subset DEF Waiting
<1> QED
  BY <1>1, FS_CardinalityType

\* Giving back an abandoned load adds a mark and its answer at once.
LEMMA GiveBackKeepsMarks ==
  ASSUME NEW m \in Model, NEW w, MarksAnswered(call, unloading, givingBack),
         GiveBackIfAbandoned(m, w)
  PROVE  MarksAnswered(call, unloading', givingBack')
BY DEF GiveBackIfAbandoned, MarksAnswered, LoopsOf

\* Every step keeps the counts of waits exact.
LEMMA WaitsStep ==
  TypeOK /\ WaitersExact /\ [Next]_vars => WaitersExact'
<1> SUFFICES ASSUME TypeOK, WaitersExact, [Next]_vars PROVE WaitersExact'
  OBVIOUS
<1> DEFINE SameWaits == \A x \in Session :
      \/ call'[x].at = "load" /\ call[x].at = "load" /\ call'[x].model = call[x].model
      \/ call'[x].at # "load" /\ call[x].at # "load"
<1>0. Idle.at = "idle" /\ \A a, m : /\ [Idle EXCEPT !.at = a].at = a
                                    /\ [Idle EXCEPT !.at = a, !.model = m].at = a
                                    /\ [Idle EXCEPT !.at = a, !.model = m].model = m
  BY DEF Idle
\* A loop of unloads goes on, or ends, in a call that waits for no load.
<1>1. ASSUME NEW s \in Session, NEW c, NEW done, NEW p, done.at # "load",
             c \in [Session -> CallType], c[s].at \in {"expire", "release"},
             \A x \in Session \ {s} :
               \/ c[x] = call[x]
               \/ c[x].at # "load" /\ call[x].at # "load",
             call[s].at # "load", waiters' = waiters,
             call' = [c EXCEPT ![s] = IF p.busy = NoModel THEN done
                                      ELSE [@ EXCEPT !.busy = p.busy, !.todo = p.todo]]
      PROVE  WaitersExact'
  <2>1. [c[s] EXCEPT !.busy = p.busy, !.todo = p.todo].at = c[s].at
    BY <1>1 DEF CallType
  <2>2. call'[s].at # "load" /\ \A x \in Session \ {s} : call'[x] = c[x]
    BY <1>1, <2>1
  <2>3. SameWaits
    BY <1>1, <2>2
  <2> QED
    BY <1>1, <2>3, OtherCallsKeepWaits
<1>2. ASSUME NEW s \in Session, NEW m \in Model, Acquire(s, m) PROVE WaitersExact'
  <2> DEFINE lapsed == {x \in Session : lease[x] = "lapsed"}
             start(at) == [Idle EXCEPT !.at = at, !.model = m]
             c == [call EXCEPT ![s] = start("expire")]
  <2>1. start("expire") \in CallType
    BY CallTyped DEF Point
  <2>2. c \in [Session -> CallType] /\ call[s].at = "idle"
    BY <1>2, <1>0, <2>1 DEF TypeOK, Acquire
  <2>3. c[s].at = "expire" /\ start("survey").at = "survey"
    BY <1>0 DEF TypeOK
  <2>4. waiters' = waiters
    BY <1>2 DEF Acquire, loads
  <2>5. \A x \in Session \ {s} : c[x] = call[x]
    BY DEF TypeOK
  <2> HIDE DEF start, c
  <2>6. PICK p \in UnloadPasses(Orphans(lapsed), Dropped(lapsed), unloading) :
          call' = [c EXCEPT ![s] = IF p.busy = NoModel THEN start("survey")
                                   ELSE [@ EXCEPT !.busy = p.busy, !.todo = p.todo]]
    BY <1>2 DEF Acquire, UnloadAll, c, start
  <2> QED
    BY <1>1, <2>2, <2>3, <2>4, <2>5, <2>6
<1>3. ASSUME NEW s \in Session, Release(s) PROVE WaitersExact'
  <2> DEFINE c == [call EXCEPT ![s] = [Idle EXCEPT !.at = "release"]]
  <2>1. c \in [Session -> CallType] /\ call[s].at = "idle" /\ c[s].at = "release"
    BY <1>3, <1>0, ReleaseTyped DEF TypeOK, Release
  <2>2. waiters' = waiters /\ \A x \in Session \ {s} : c[x] = call[x]
    BY <1>3 DEF Release, loads, TypeOK
  <2> HIDE DEF c
  <2>3. PICK p \in UnloadPasses(Orphans({s}), Dropped({s}), unloading) :
          call' = [c EXCEPT ![s] = IF p.busy = NoModel THEN Idle
                                   ELSE [@ EXCEPT !.busy = p.busy, !.todo = p.todo]]
    BY <1>3 DEF Release, UnloadAll, c
  <2> QED
    BY <1>0, <1>1, <2>1, <2>2, <2>3
<1>4. ASSUME NEW s \in Session, UnloadAnswered(s) PROVE WaitersExact'
  <2> DEFINE k == call[s].busy
             c == Woken(k)
  <2>1. c \in [Session -> CallType]
    BY WokenTyped
  <2>2. call[s].at \in {"expire", "release"} /\ waiters' = waiters
    BY <1>4 DEF UnloadAnswered, loads
  <2>3. \A x \in Session : \/ c[x] = call[x]
                           \/ c[x].at # "load" /\ call[x].at # "load"
    BY <1>0 DEF Woken
  <2>4. c[s] = call[s] /\ Then(s).at # "load"
    BY <1>0, <2>2 DEF Woken, Then
  <2>5. PICK p \in UnloadPasses(call[s].todo, refs, unloading \ {k}) :
          call' = [c EXCEPT ![s] = IF p.busy = NoModel THEN Then(s)
                                   ELSE [@ EXCEPT !.busy = p.busy, !.todo = p.todo]]
    BY <1>4 DEF UnloadAnswered, UnloadAll
  <2> HIDE DEF c
  <2> QED
    BY <1>1, <2>1, <2>2, <2>3, <2>4, <2>5
<1>5. ASSUME UNCHANGED <<waiters, call>> PROVE WaitersExact'
  BY <1>5 DEF WaitersExact, Waiting
<1>6. ASSUME NEW s \in Session, GiveUp(s) PROVE WaitersExact'
  <2>1. call' = [call EXCEPT ![s] = Idle]
    BY <1>6 DEF GiveUp
  <2>2. CASE call[s].at # "load"
    <3>1. SameWaits /\ waiters' = waiters
      BY <1>0, <1>6, <2>1, <2>2 DEF GiveUp, TypeOK
    <3> QED
      BY <3>1, OtherCallsKeepWaits
  <2>3. CASE call[s].at = "load"
    <3> DEFINE k == call[s].model
    <3>1. k \in Model
      BY <2>3 DEF TypeOK, CallType
    <3>5. \A x \in Session : call'[x] = IF x = s THEN Idle ELSE call[x]
      BY <2>1 DEF TypeOK
    <3>2. /\ s \in Waiting(k)
          /\ \A m \in Model : Waiting(m)' = IF m = k THEN Waiting(m) \ {s} ELSE Waiting(m)
      BY <1>0, <2>3, <3>5 DEF Waiting
    <3>3. waiters' = [waiters EXCEPT ![k] = @ - 1] /\ waiters \in [Model -> Int]
      BY <1>6, <2>3 DEF GiveUp, TypeOK
    <3> HIDE DEF k
    <3>4. ASSUME NEW m \in Model PROVE waiters'[m] = Cardinality(Waiting(m)')
      <4>1. CASE m = k
        <5>1. Cardinality(Waiting(m)') = Cardinality(Waiting(m)) - 1
          BY <3>2, <4>1, WaitingFinite, FS_RemoveElement
        <5> QED
          BY <3>3, <4>1, <5>1 DEF WaitersExact
      <4>2. CASE m # k
        BY <3>2, <3>3, <4>2 DEF WaitersExact
      <4> QED
        BY <4>1, <4>2
    <3> QED
      BY <3>4 DEF WaitersExact
  <2> QED
    BY <2>2, <2>3
<1>7. ASSUME NEW s \in Session, SurveyAnswers(s) PROVE WaitersExact'
  <2>1. PICK seen : call' = [call EXCEPT ![s].at = "surveyed", ![s].seen = seen]
    BY <1>7 DEF SurveyAnswers
  <2>2. call[s].at = "survey" /\ call[s] \in CallType /\ waiters' = waiters
    BY <1>7 DEF SurveyAnswers, TypeOK, loads
  <2>3. call'[s].at = "surveyed" /\ \A x \in Session \ {s} : call'[x] = call[x]
    BY <2>1, <2>2 DEF TypeOK, CallType
  <2>4. SameWaits
    BY <2>2, <2>3
  <2> QED
    BY <2>2, <2>4, OtherCallsKeepWaits
<1>8. ASSUME NEW s \in Session, Proceed(s) PROVE WaitersExact'
  <2> DEFINE m == call[s].model
             o == Surveyed(s)
  <2>1. m \in Model /\ call[s].at # "load"
    BY <1>8 DEF Proceed, Looks, TypeOK, CallType
  <2>2. \/ Blocked(s, m, o) \/ Share(s, m, o) \/ Join(s, m, o)
        \/ JoinLanded(s, m, o) \/ StartLoad(s, m, o)
        \/ Refuse(s, m, o) \/ Preempt(s, m, o)
    BY <1>8 DEF Proceed
  <2> HIDE DEF m, o
  <2>3. ASSUME NEW y, y.at # "load", call' = [call EXCEPT ![s] = y], waiters' = waiters
        PROVE  WaitersExact'
    <3>1. SameWaits
      BY <2>1, <2>3 DEF TypeOK
    <3> QED
      BY <2>3, <3>1, OtherCallsKeepWaits
  <2>4. CASE Blocked(s, m, o)
    <3>1. PICK k \in InTheWay(m, o) : call' =
            [call EXCEPT ![s] = [Idle EXCEPT !.at = "blocked", !.model = m, !.busy = k]]
      BY <2>4 DEF Blocked
    <3>2. [Idle EXCEPT !.at = "blocked", !.model = m, !.busy = k].at = "blocked"
      BY DEF Idle
    <3> QED
      BY <2>3, <2>4, <3>1, <3>2 DEF Blocked, loads
  <2>5. CASE Share(s, m, o) \/ JoinLanded(s, m, o) \/ Refuse(s, m, o)
    BY <1>0, <2>3, <2>5 DEF Share, JoinLanded, Refuse, Takes, loads
  <2>6. CASE Waits(s, m)
    <3> DEFINE y == [Idle EXCEPT !.at = "load", !.model = m]
    <3>5. \A x \in Session : call'[x] = IF x = s THEN y ELSE call[x]
      BY <2>6 DEF Waits, TypeOK
    <3>6. y.at = "load" /\ y.model = m
      BY <1>0
    <3> HIDE DEF y
    <3>1. /\ s \notin Waiting(m)
          /\ \A k \in Model : Waiting(k)' = IF k = m THEN Waiting(k) \cup {s} ELSE Waiting(k)
      BY <2>1, <3>5, <3>6 DEF Waiting
    <3>2. waiters' = [waiters EXCEPT ![m] = @ + 1] /\ waiters \in [Model -> Int]
      BY <2>6 DEF Waits, TypeOK
    <3>3. ASSUME NEW k \in Model PROVE waiters'[k] = Cardinality(Waiting(k)')
      <4>1. CASE k = m
        <5>1. Cardinality(Waiting(k)') = Cardinality(Waiting(k)) + 1
          BY <3>1, <4>1, WaitingFinite, FS_AddElement
        <5> QED
          BY <3>2, <4>1, <5>1 DEF WaitersExact
      <4>2. CASE k # m
        BY <3>1, <3>2, <4>2 DEF WaitersExact
      <4> QED
        BY <4>1, <4>2
    <3> QED
      BY <3>3 DEF WaitersExact
  <2> QED
    BY <2>2, <2>4, <2>5, <2>6 DEF Join, StartLoad, Preempt
\* A load ends: whoever waited for it is idle, and nobody is counted.
<1>9. ASSUME NEW m \in Model, waiters' = [waiters EXCEPT ![m] = 0],
             call' = [s \in Session |-> IF s \in Waiting(m) THEN Idle ELSE call[s]]
      PROVE  WaitersExact'
  <2>1. Waiting(m)' = {} /\ \A k \in Model \ {m} : Waiting(k)' = Waiting(k)
    BY <1>0, <1>9 DEF Waiting
  <2>2. \A k \in Model : waiters'[k] = Cardinality(Waiting(k)')
    BY <1>9, <2>1, FS_EmptySet DEF WaitersExact, TypeOK
  <2> QED
    BY <2>2 DEF WaitersExact
<1>10. ASSUME NEW m \in Model, GiveBackAnswered(m) PROVE WaitersExact'
  <2>1. \A x \in Session :
          call'[x] = IF call[x].at = "blocked" /\ call[x].busy = m
                       THEN [Idle EXCEPT !.at = "woken", !.model = call[x].model]
                       ELSE call[x]
    BY <1>10 DEF GiveBackAnswered, Woken
  <2>2. \A x \in Session : \/ call'[x] = call[x]
                           \/ call'[x].at = "woken" /\ call[x].at = "blocked"
    <3>1. \A x \in Session :
            [Idle EXCEPT !.at = "woken", !.model = call[x].model].at = "woken"
      BY <1>0
    <3> QED
      BY <2>1, <3>1
  <2>3. SameWaits
    BY <2>2
  <2> QED
    BY <1>10, <2>3, OtherCallsKeepWaits DEF GiveBackAnswered, loads
<1>11. ASSUME NEW m \in Model, Task(m) PROVE WaitersExact'
  <2>1. CASE AskLoad(m) \/ ForgetLoad(m)
    BY <1>5, <2>1 DEF AskLoad, ForgetLoad
  <2>2. CASE Adopt(m) \/ LoadLands(m) \/ LoadFails(m)
    BY <1>9, <2>2 DEF Adopt, LoadLands, LoadFails, Land
  <2> QED
    BY <1>10, <1>11, <2>1, <2>2 DEF Task
<1>12. ASSUME NEW s \in Session, Renew(s) \/ LeaseLapses(s) PROVE WaitersExact'
  BY <1>5, <1>12 DEF Renew, LeaseLapses, loads
<1>13. ASSUME NEW m \in Model, OutsideLoads(m) \/ OutsideUnloads(m) PROVE WaitersExact'
  BY <1>5, <1>13 DEF OutsideLoads, OutsideUnloads, loads
<1>14. CASE UNCHANGED vars
  BY <1>5, <1>14 DEF vars, loads
<1> QED
  BY <1>2, <1>3, <1>4, <1>6, <1>7, <1>8, <1>11, <1>12, <1>13, <1>14 DEF Next, Client, Runs

\* Every step leaves every mark answered.
LEMMA MarksStep ==
  TypeOK /\ MarksAnswered(call, unloading, givingBack) /\ [Next]_vars
    => MarksAnswered(call, unloading, givingBack)'
<1> SUFFICES ASSUME TypeOK, MarksAnswered(call, unloading, givingBack), [Next]_vars
             PROVE  MarksAnswered(call', unloading', givingBack')
  BY DEF MarksAnswered, LoopsOf
<1>0. Idle.at = "idle" /\ \A a, m : /\ [Idle EXCEPT !.at = a].at = a
                                    /\ [Idle EXCEPT !.at = a, !.model = m].at = a
  BY DEF Idle
<1>1. ASSUME NEW s \in Session, NEW m \in Model, Acquire(s, m)
      PROVE  MarksAnswered(call', unloading', givingBack')
  <2> DEFINE lapsed == {x \in Session : lease[x] = "lapsed"}
             start(at) == [Idle EXCEPT !.at = at, !.model = m]
             c == [call EXCEPT ![s] = start("expire")]
             done == start("survey")
  <2>1. start("expire") \in CallType /\ done \in CallType
    BY CallTyped DEF Point
  <2>2. c \in [Session -> CallType] /\ c[s].at = "expire" /\ done.at = "survey"
    BY <1>0, <2>1 DEF TypeOK
  <2>3. Dropped(lapsed) \in [Model -> [Session -> Nat]]
    BY DroppedCounts
  <2>4. Orphans(lapsed) \in SUBSET Model /\ unloading \in SUBSET Model
    BY DEF Orphans, TypeOK
  <2>5. call[s].at = "idle" /\ givingBack' = givingBack
    BY <1>0, <1>1 DEF Acquire
  <2>6. \A x \in Session : [c EXCEPT ![s] = done][x] = IF x = s THEN done ELSE call[x]
    BY DEF TypeOK
  <2> HIDE DEF start, c, done
  <2>7. MarksAnswered([c EXCEPT ![s] = done], unloading, givingBack)
    BY <2>2, <2>5, <2>6, OtherCallsKeepMarks
  <2>8. PICK p \in UnloadPasses(Orphans(lapsed), Dropped(lapsed), unloading) :
          /\ unloading' = p.marks
          /\ call' = [c EXCEPT ![s] = IF p.busy = NoModel THEN done
                                      ELSE [@ EXCEPT !.busy = p.busy, !.todo = p.todo]]
    BY <1>1 DEF Acquire, UnloadAll, c, start, done
  <2> QED
    BY <2>1, <2>2, <2>3, <2>4, <2>5, <2>7, <2>8, PassKeepsMarks
<1>2. ASSUME NEW s \in Session, Release(s)
      PROVE  MarksAnswered(call', unloading', givingBack')
  <2> DEFINE c == [call EXCEPT ![s] = [Idle EXCEPT !.at = "release"]]
  <2>1. c \in [Session -> CallType] /\ c[s].at = "release"
    BY <1>0, ReleaseTyped DEF TypeOK
  <2>2. Dropped({s}) \in [Model -> [Session -> Nat]]
    BY DroppedCounts
  <2>3. Orphans({s}) \in SUBSET Model /\ unloading \in SUBSET Model
    BY DEF Orphans, TypeOK
  <2>4. call[s].at = "idle" /\ givingBack' = givingBack
    BY <1>0, <1>2 DEF Release
  <2>5. \A x \in Session : [c EXCEPT ![s] = Idle][x] = IF x = s THEN Idle ELSE call[x]
    BY DEF TypeOK
  <2> HIDE DEF c
  <2>6. MarksAnswered([c EXCEPT ![s] = Idle], unloading, givingBack)
    <3> DEFINE e == [c EXCEPT ![s] = Idle]
    <3>1. /\ Idle.at \notin {"expire", "release", "blocked"}
          /\ call[s].at \notin {"expire", "release"}
      BY <1>0, <2>4
    <3>2. \A x \in Session : \/ e[x] = call[x]
                             \/ /\ call[x].at \notin {"expire", "release"}
                                /\ e[x].at \notin {"expire", "release", "blocked"}
      BY <2>5, <3>1
    <3> HIDE DEF e
    <3>3. MarksAnswered(e, unloading, givingBack)
      BY <3>2, OtherCallsKeepMarks
    <3> QED
      BY <3>3 DEF e
  <2>7. PICK p \in UnloadPasses(Orphans({s}), Dropped({s}), unloading) :
          /\ unloading' = p.marks
          /\ call' = [c EXCEPT ![s] = IF p.busy = NoModel THEN Idle
                                      ELSE [@ EXCEPT !.busy = p.busy, !.todo = p.todo]]
    BY <1>2 DEF Release, UnloadAll, c
  <2> QED
    BY <1>0, <2>1, <2>2, <2>3, <2>4, <2>6, <2>7, IdleTyped, PassKeepsMarks
<1>3. ASSUME NEW s \in Session, UnloadAnswered(s)
      PROVE  MarksAnswered(call', unloading', givingBack')
  <2> DEFINE k == call[s].busy
             c == Woken(k)
             T == call[s].todo
  <2>1. c \in [Session -> CallType] /\ Then(s) \in CallType
    BY WokenTyped, ThenTyped
  <2>2. call[s].at \in {"expire", "release"} /\ givingBack' = givingBack
    BY <1>3 DEF UnloadAnswered
  <2>3. c[s].at \in {"expire", "release"}
    BY <2>2 DEF Woken
  <2>4. Then(s).at \notin {"expire", "release", "blocked"}
    BY <1>0 DEF Then
  <2>5. MarksAnswered([c EXCEPT ![s] = Then(s)], unloading \ {k}, givingBack)
    BY <2>1, <2>2, <2>4, AnswerKeepsMarks DEF LoopsOf
  <2>6. T \in SUBSET Model /\ refs \in [Model -> [Session -> Nat]]
        /\ unloading \ {k} \in SUBSET Model
    BY DEF TypeOK, CallType
  <2>7. PICK p \in UnloadPasses(T, refs, unloading \ {k}) :
          /\ unloading' = p.marks
          /\ call' = [c EXCEPT ![s] = IF p.busy = NoModel THEN Then(s)
                                      ELSE [@ EXCEPT !.busy = p.busy, !.todo = p.todo]]
    BY <1>3 DEF UnloadAnswered, UnloadAll
  <2> HIDE DEF c, T, k
  <2> QED
    BY <2>1, <2>2, <2>3, <2>4, <2>5, <2>6, <2>7, PassKeepsMarks
<1>4. ASSUME UNCHANGED <<unloads, call>>
      PROVE  MarksAnswered(call', unloading', givingBack')
  BY <1>4 DEF unloads
\* A call that neither loops nor waits for a mark after it.
<1>5. ASSUME NEW s \in Session, NEW y, call[s].at \notin {"expire", "release"},
             y.at \notin {"expire", "release", "blocked"},
             call' = [call EXCEPT ![s] = y], UNCHANGED <<unloading, givingBack>>
      PROVE  MarksAnswered(call', unloading', givingBack')
  BY <1>5, OtherCallsKeepMarks DEF TypeOK
<1>6. ASSUME NEW s \in Session, GiveUp(s)
      PROVE  MarksAnswered(call', unloading', givingBack')
  BY <1>0, <1>5, <1>6 DEF GiveUp, unloads
<1>7. ASSUME NEW s \in Session, SurveyAnswers(s)
      PROVE  MarksAnswered(call', unloading', givingBack')
  <2>1. PICK seen : call' = [call EXCEPT ![s].at = "surveyed", ![s].seen = seen]
    BY <1>7 DEF SurveyAnswers
  <2> DEFINE y == [call[s] EXCEPT !.at = "surveyed", !.seen = seen]
  <2>2. y.at = "surveyed" /\ call' = [call EXCEPT ![s] = y]
    BY <2>1 DEF TypeOK, CallType
  <2>3. call[s].at = "survey" /\ UNCHANGED unloads
    BY <1>7 DEF SurveyAnswers
  <2> HIDE DEF y
  <2> QED
    BY <1>5, <2>2, <2>3 DEF unloads
<1>8. ASSUME NEW s \in Session, Proceed(s)
      PROVE  MarksAnswered(call', unloading', givingBack')
  <2> DEFINE m == call[s].model
             o == Surveyed(s)
  <2>1. call[s].at \notin {"expire", "release"} /\ UNCHANGED <<unloading, givingBack>>
    BY <1>8 DEF Proceed, Looks, unloads
  <2>2. \/ Blocked(s, m, o) \/ Share(s, m, o) \/ Join(s, m, o)
        \/ JoinLanded(s, m, o) \/ StartLoad(s, m, o)
        \/ Refuse(s, m, o) \/ Preempt(s, m, o)
    BY <1>8 DEF Proceed
  <2> HIDE DEF m, o
  <2>3. CASE Blocked(s, m, o)
    <3>1. PICK k \in InTheWay(m, o) : call' =
            [call EXCEPT ![s] = [Idle EXCEPT !.at = "blocked", !.model = m, !.busy = k]]
      BY <2>3 DEF Blocked
    <3> DEFINE y == [Idle EXCEPT !.at = "blocked", !.model = m, !.busy = k]
    <3>2. k \in unloading
      BY <3>1 DEF InTheWay
    <3>3. y.at = "blocked" /\ y.busy = k
      BY DEF Idle
    <3>4. \A x \in Session : call'[x] = IF x = s THEN y ELSE call[x]
      BY <3>1 DEF TypeOK
    <3> HIDE DEF y
    <3>5. LoopsOf(call') = LoopsOf(call) /\ \A x \in LoopsOf(call) : call'[x] = call[x]
      BY <2>1, <3>3, <3>4 DEF LoopsOf
    <3>6. \A x \in Session : call'[x].at = "blocked" => call'[x].busy \in unloading
      BY <3>2, <3>3, <3>4 DEF MarksAnswered
    <3> QED
      BY <2>1, <3>5, <3>6 DEF MarksAnswered
  <2>4. CASE Takes(s, m) \/ Waits(s, m) \/ Refuse(s, m, o)
    <3>1. \/ call' = [call EXCEPT ![s] = Idle]
          \/ call' = [call EXCEPT ![s] = [Idle EXCEPT !.at = "load", !.model = m]]
      BY <2>4 DEF Takes, Waits, Refuse
    <3>2. /\ Idle.at \notin {"expire", "release", "blocked"}
          /\ [Idle EXCEPT !.at = "load", !.model = m].at \notin {"expire", "release", "blocked"}
      BY DEF Idle
    <3> QED
      BY <1>5, <2>1, <3>1, <3>2
  <2> QED
    BY <2>2, <2>3, <2>4 DEF Share, Join, JoinLanded, StartLoad, Preempt
<1>9. ASSUME NEW m \in Model,
             call' = [s \in Session |-> IF s \in Waiting(m) THEN Idle ELSE call[s]]
      PROVE  MarksAnswered(call', unloading, givingBack)
  <2>1. \A s \in Session : \/ call'[s] = call[s]
                           \/ call[s].at = "load" /\ call'[s].at = "idle"
    BY <1>0, <1>9 DEF Waiting
  <2> QED
    BY <2>1, OtherCallsKeepMarks
<1>10. ASSUME NEW m \in Model, LoadFails(m)
       PROVE  MarksAnswered(call', unloading', givingBack')
  <2>1. MarksAnswered(call', unloading, givingBack)
    BY <1>9, <1>10 DEF LoadFails
  <2>2. GiveBackIfAbandoned(m, waiters')
    BY <1>10 DEF LoadFails
  <2> QED
    BY <2>1, <2>2 DEF GiveBackIfAbandoned, MarksAnswered
<1>11. ASSUME NEW m \in Model, GiveBackAnswered(m)
       PROVE  MarksAnswered(call', unloading', givingBack')
  <2>1. /\ m \in givingBack /\ unloading' = unloading \ {m} /\ givingBack' = givingBack \ {m}
        /\ call' = Woken(m)
    BY <1>11 DEF GiveBackAnswered
  <2>2. \A s \in Session : \/ call'[s] = call[s] /\ ~ (call[s].at = "blocked" /\ call[s].busy = m)
                           \/ call[s].at = "blocked" /\ call'[s].at = "woken"
    BY <1>0, <2>1 DEF Woken
  <2>3. LoopsOf(call') = LoopsOf(call) /\ \A s \in LoopsOf(call) : call'[s] = call[s]
    BY <2>2 DEF LoopsOf
  <2>4. \A s \in Session : call'[s].at = "blocked" => call'[s].busy \in unloading \ {m}
    BY <2>2 DEF MarksAnswered
  <2>5. \A k \in unloading \ {m} : k \in givingBack \ {m} \/ \E s \in LoopsOf(call) : call[s].busy = k
    BY DEF MarksAnswered
  <2>6. \A s \in LoopsOf(call) : call[s].busy \in (unloading \ {m}) \ (givingBack \ {m})
    BY <2>1 DEF MarksAnswered
  <2> QED
    BY <2>1, <2>3, <2>4, <2>5, <2>6 DEF MarksAnswered
<1>12. ASSUME NEW m \in Model, Task(m)
       PROVE  MarksAnswered(call', unloading', givingBack')
  <2>1. CASE AskLoad(m)
    BY <1>4, <2>1 DEF AskLoad
  <2>2. CASE Adopt(m) \/ LoadLands(m)
    BY <1>9, <2>2 DEF Adopt, LoadLands, Land
  <2>3. CASE ForgetLoad(m)
    BY <2>3, GiveBackKeepsMarks DEF ForgetLoad
  <2> QED
    BY <1>10, <1>11, <1>12, <2>1, <2>2, <2>3 DEF Task
<1>13. ASSUME NEW s \in Session, Renew(s) \/ LeaseLapses(s)
       PROVE  MarksAnswered(call', unloading', givingBack')
  BY <1>4, <1>13 DEF Renew, LeaseLapses
<1>14. ASSUME NEW m \in Model, OutsideLoads(m) \/ OutsideUnloads(m)
       PROVE  MarksAnswered(call', unloading', givingBack')
  BY <1>4, <1>14 DEF OutsideLoads, OutsideUnloads
<1>15. CASE UNCHANGED vars
  BY <1>4, <1>15 DEF vars, unloads
<1> QED
  BY <1>1, <1>2, <1>3, <1>6, <1>7, <1>8, <1>12, <1>13, <1>14, <1>15 DEF Next, Client, Runs

\* One unload of a model at a time, an answer for every mark, a mark for
\* every wait and an exact count of who waits for each load
\* (EveryMarkIsAnswered: _unload_all, _finish_unload and _waiters of
\* manager.py), for any number of sessions and models, any ceiling and any
\* faults.
THEOREM MarksAlwaysAnswered == Spec => []EveryMarkIsAnswered
<1>1. Init => TypeOK /\ WaitersExact /\ MarksAnswered(call, unloading, givingBack)
  <2> SUFFICES ASSUME Init
               PROVE  TypeOK /\ WaitersExact /\ MarksAnswered(call, unloading, givingBack)
    OBVIOUS
  <2>1. \A s \in Session : call[s].at = "idle"
    BY DEF Init, Idle
  <2>2. \A m \in Model : waiters[m] = 0 /\ Waiting(m) = {}
    BY <2>1 DEF Init, Waiting
  <2>3. TypeOK
    BY IdleTyped DEF Init, TypeOK, LoadStage, Copies, Absent
  <2> QED
    BY <2>1, <2>2, <2>3, FS_EmptySet DEF Init, WaitersExact, MarksAnswered, LoopsOf
<1>2. /\ TypeOK /\ WaitersExact /\ MarksAnswered(call, unloading, givingBack)
      /\ [Next]_vars
      => (TypeOK /\ WaitersExact /\ MarksAnswered(call, unloading, givingBack))'
  BY TypeStep, WaitsStep, MarksStep
<1> QED
  BY <1>1, <1>2, MarkParts, PTL DEF Spec

-----------------------------------------------------------------------------
(* Never a model mid-unload.  A loop of unloads that goes on to a second   *)
(* orphan after an await may find it dropped, unloaded and loading again   *)
(* for somebody else, and asks for its unload all the same.  Without such  *)
(* a loop, nothing held or on its way in is ever on its way out.           *)

Kept ==
  /\ (held \cup InFlight) \cap unloading = {}
  /\ \A m \in owned : resident[m].here > 0
  /\ \A m \in Model : load[m] = "landed" => resident[m].here > 0

\* What a pass over orphans that are still on the books asks for: nothing,
\* or one model that was held and owned and is dropped.
LEMMA PassAsksForOwned ==
  ASSUME TypeOK,
         NEW T \in SUBSET held, NEW r \in [Model -> [Session -> Nat]],
         NEW marks \in SUBSET Model, NEW p \in UnloadPasses(T, r, marks)
  PROVE  /\ p.held \subseteq held /\ p.owned \subseteq owned
         /\ \/ p.marks = marks
            \/ \E m \in owned : p.marks = marks \cup {m} /\ m \notin p.held
<1>1. CASE p = LastPass(T, r, marks)
  BY <1>1 DEF LastPass
<1>2. ASSUME NEW m \in Asked(T, r, marks), NEW P \in SUBSET (T \ Asked(T, r, marks)),
             p = PassTo(m, P, T, r, marks)
      PROVE  /\ p.held \subseteq held /\ p.owned \subseteq owned
             /\ m \in owned /\ p.marks = marks \cup {m} /\ m \notin p.held
  BY <1>2 DEF Asked, PassTo
<1>3. \/ p = LastPass(T, r, marks)
      \/ \E m \in Asked(T, r, marks), P \in SUBSET (T \ Asked(T, r, marks)) :
           p = PassTo(m, P, T, r, marks)
  BY DEF UnloadPasses
<1> QED
  BY <1>1, <1>2, <1>3

\* A loop of unloads that starts, or goes on with nothing left to look at.
LEMMA LoopAsksForOwned ==
  ASSUME TypeOK, OneOrphanAtATime, NEW s \in Session,
         \/ \E m \in Model : Acquire(s, m)
         \/ Release(s)
         \/ UnloadAnswered(s)
  PROVE  /\ held' \subseteq held /\ owned' \subseteq owned
         /\ \/ unloading' \subseteq unloading
            \/ \E m \in owned : unloading' = unloading \cup {m} /\ m \notin held'
<1>1. ASSUME NEW m \in Model, Acquire(s, m)
      PROVE  /\ held' \subseteq held /\ owned' \subseteq owned
             /\ \/ unloading' \subseteq unloading
                \/ \E k \in owned : unloading' = unloading \cup {k} /\ k \notin held'
  <2> DEFINE lapsed == {x \in Session : lease[x] = "lapsed"}
  <2>1. PICK p \in UnloadPasses(Orphans(lapsed), Dropped(lapsed), unloading) :
          held' = p.held /\ owned' = p.owned /\ unloading' = p.marks
    BY <1>1 DEF Acquire, UnloadAll
  <2>2. /\ Orphans(lapsed) \in SUBSET held /\ unloading \in SUBSET Model
        /\ Dropped(lapsed) \in [Model -> [Session -> Nat]]
    BY DroppedCounts DEF Orphans, TypeOK
  <2> HIDE DEF lapsed
  <2> QED
    BY <2>1, <2>2, PassAsksForOwned
<1>2. CASE Release(s)
  <2>1. PICK p \in UnloadPasses(Orphans({s}), Dropped({s}), unloading) :
          held' = p.held /\ owned' = p.owned /\ unloading' = p.marks
    BY <1>2 DEF Release, UnloadAll
  <2>2. /\ Orphans({s}) \in SUBSET held /\ unloading \in SUBSET Model
        /\ Dropped({s}) \in [Model -> [Session -> Nat]]
    BY DroppedCounts, ZenonT(50) DEF Orphans, TypeOK
  <2> QED
    BY <2>1, <2>2, PassAsksForOwned
<1>3. CASE UnloadAnswered(s)
  <2>1. call[s].todo = {} /\ unloading \in SUBSET Model
    BY DEF OneOrphanAtATime, TypeOK
  <2>2. PICK p \in UnloadPasses({}, refs, unloading \ {call[s].busy}) :
          held' = p.held /\ owned' = p.owned /\ unloading' = p.marks
    BY <1>3, <2>1 DEF UnloadAnswered, UnloadAll
  <2>3. p = LastPass({}, refs, unloading \ {call[s].busy})
    BY <2>2 DEF UnloadPasses, Asked
  <2> QED
    BY <2>1, <2>2, <2>3, PassAsksForOwned DEF LastPass
<1> QED
  BY <1>1, <1>2, <1>3

\* A load or give-back that runs on keeps what is held, and what is on its
\* way in, out of the unloads.
LEMMA TaskKeeps ==
  ASSUME TypeOK, TablesDisjoint, givingBack \subseteq unloading, Kept,
         NEW m \in Model, Task(m)
  PROVE  Kept'
<1>1. CASE AskLoad(m)
  BY <1>1 DEF AskLoad, books, unloads, Kept, InFlight, TypeOK
<1>2. ASSUME NEW stage \in {"landed", "adopted"}, Land(m, stage), load[m] \in Under,
             stage = "landed" => resident'[m].here > 0,
             \A k \in Model \ {m} : resident'[k] = resident[k]
      PROVE  Kept'
  <2>1. /\ m \in InFlight /\ m \notin held /\ m \notin unloading
        /\ unloading' = unloading
    BY <1>2 DEF Land, Under, InFlight, Kept, TablesDisjoint
  <2>2. /\ held' \subseteq held \cup {m} /\ owned' \subseteq owned \cup {m}
        /\ m \in owned' => stage = "landed"
    BY <1>2, <2>1 DEF Land, TypeOK
  <2>3. \A k \in Model \ {m} : load'[k] = load[k]
    BY <1>2 DEF Land, TypeOK
  <2>4. load'[m] = "landed" => stage = "landed"
    BY <1>2 DEF Land, TypeOK
  <2>5. (held \cup InFlight)' \cap unloading' = {}
    BY <2>1, <2>2, <2>3 DEF Kept, InFlight
  <2>6. \A k \in owned' : resident'[k].here > 0
    BY <1>2, <2>2 DEF Kept, TypeOK
  <2>7. \A k \in Model : load'[k] = "landed" => resident'[k].here > 0
    BY <1>2, <2>3, <2>4 DEF Kept
  <2> QED
    BY <2>5, <2>6, <2>7 DEF Kept
<1>3. CASE Adopt(m)
  BY <1>2, <1>3 DEF Adopt, Under
<1>4. CASE LoadLands(m)
  <2>1. load[m] \in Under
    BY <1>4 DEF LoadLands, Under
  <2> QED
    BY <1>2, <1>4, <2>1, OneMoreAdds DEF LoadLands
<1>5. CASE LoadFails(m) \/ ForgetLoad(m)
  <2>1. /\ UNCHANGED books /\ load' = [load EXCEPT ![m] = "none"]
        /\ m \in InFlight /\ GiveBackIfAbandoned(m, waiters')
    BY <1>5 DEF LoadFails, ForgetLoad, InFlight
  <2>2. \A k \in Model : resident[k].here > 0 => resident'[k].here > 0
    BY <1>5, OneMoreAdds DEF LoadFails, ForgetLoad
  <2>3. unloading' \subseteq unloading \cup {m} /\ m \notin held
    BY <2>1 DEF GiveBackIfAbandoned, TablesDisjoint
  <2>4. \A k \in Model : load'[k] = IF k = m THEN "none" ELSE load[k]
    BY <2>1 DEF TypeOK
  <2>5. (held \cup InFlight)' \cap unloading' = {}
    BY <2>1, <2>3, <2>4 DEF Kept, InFlight, books
  <2> QED
    BY <2>1, <2>2, <2>4, <2>5 DEF Kept, TypeOK, books
<1>6. CASE GiveBackAnswered(m)
  <2>1. m \in unloading /\ Answered(m) /\ UNCHANGED <<books, loads>>
        /\ unloading' = unloading \ {m}
    BY <1>6 DEF GiveBackAnswered
  <2>2. \A k \in Model \ unloading : resident'[k] = resident[k]
    BY <2>1, AnsweredLeavesOthers
  <2> QED
    BY <2>1, <2>2 DEF Kept, InFlight, TypeOK, books, loads
<1> QED
  BY <1>1, <1>3, <1>4, <1>5, <1>6 DEF Task

\* With loops that have one orphan at a time, every step keeps what is held,
\* and what is on its way in, out of the unloads.
LEMMA KeptStep ==
  ASSUME Books, MarksAnswered(call, unloading, givingBack), Kept, OneOrphanAtATime,
         [Next]_vars
  PROVE  Kept'
<1> USE DEF Books
<1>1. ASSUME NEW s \in Session,
             \/ \E m \in Model : Acquire(s, m)
             \/ Release(s)
             \/ UnloadAnswered(s)
      PROVE  Kept'
  <2>1. /\ held' \subseteq held /\ owned' \subseteq owned
        /\ \/ unloading' \subseteq unloading
           \/ \E m \in owned : unloading' = unloading \cup {m} /\ m \notin held'
    BY <1>1, LoopAsksForOwned
  <2>2. load' = load /\ InFlight' = InFlight
    BY <1>1 DEF Acquire, Release, UnloadAnswered, loads, InFlight
  <2>3. owned \cap InFlight = {}
    BY DEF TypeOK, TablesDisjoint
  <2>4. (held \cup InFlight)' \cap unloading' = {}
    BY <2>1, <2>2, <2>3 DEF Kept
  <2>5. \A m \in Model \ unloading : resident'[m] = resident[m]
    <3>1. CASE UnloadAnswered(s)
      <4>1. call[s].busy \in unloading /\ Answered(call[s].busy)
        BY <3>1 DEF UnloadAnswered, MarksAnswered, LoopsOf
      <4> QED
        BY <4>1, AnsweredLeavesOthers
    <3>2. CASE ~ UnloadAnswered(s)
      BY <1>1, <3>2 DEF Acquire, Release
    <3> QED
      BY <3>1, <3>2
  <2>6. /\ \A m \in owned' : resident'[m].here > 0
        /\ \A m \in Model : load'[m] = "landed" => resident'[m].here > 0
    BY <2>1, <2>2, <2>5 DEF Kept, TypeOK, InFlight
  <2> QED
    BY <2>4, <2>6 DEF Kept
<1>2. ASSUME NEW s \in Session, Proceed(s) PROVE Kept'
  <2> DEFINE m == call[s].model
             o == Surveyed(s)
  <2>1. m \in Model /\ UNCHANGED <<unloading, resident>>
    BY <1>2 DEF Proceed, Looks, TypeOK, CallType, unloads
  <2>2. \/ Blocked(s, m, o) \/ Share(s, m, o) \/ Join(s, m, o)
        \/ JoinLanded(s, m, o) \/ StartLoad(s, m, o)
        \/ Refuse(s, m, o) \/ Preempt(s, m, o)
    BY <1>2 DEF Proceed
  <2>3. InTheWay(m, o) = {} => m \notin unloading
    BY DEF InTheWay
  <2> HIDE DEF m, o
  <2>4. CASE Blocked(s, m, o) \/ Join(s, m, o) \/ Refuse(s, m, o)
    BY <2>1, <2>4 DEF Blocked, Join, Refuse, books, loads, Kept, InFlight
  <2>5. CASE Share(s, m, o)
    BY <2>1, <2>5 DEF Share, Takes, loads, Kept, InFlight
  <2>6. CASE JoinLanded(s, m, o)
    BY <2>1, <2>3, <2>6 DEF JoinLanded, Takes, Kept, InFlight, TypeOK
  <2>7. CASE StartLoad(s, m, o)
    BY <2>1, <2>3, <2>7 DEF StartLoad, books, Kept, InFlight, TypeOK
  <2>8. CASE Preempt(s, m, o)
    <3>1. held' \subseteq held /\ owned' \subseteq owned /\ InTheWay(m, o) = {}
      BY <2>8 DEF Preempt, Full
    <3>2. load' = [load EXCEPT ![m] = "listing"]
      BY <2>8 DEF Preempt
    <3> QED
      BY <2>1, <2>3, <3>1, <3>2 DEF Kept, InFlight, TypeOK
  <2> QED
    BY <2>2, <2>4, <2>5, <2>6, <2>7, <2>8
<1>3. ASSUME NEW m \in Model, Task(m) PROVE Kept'
  BY <1>3, TaskKeeps DEF MarksAnswered
<1>4. ASSUME UNCHANGED <<held, owned, load, unloading>>,
             \A m \in Model : resident[m].here > 0 => resident'[m].here > 0
      PROVE  Kept'
  BY <1>4 DEF Kept, InFlight, TypeOK
<1>5. ASSUME NEW m \in Model, OutsideLoads(m) \/ OutsideUnloads(m) PROVE Kept'
  <2>1. \A k \in Model : resident[k].here > 0 => resident'[k].here > 0
    BY <1>5, OutsideKeepsOurs
  <2> QED
    BY <1>4, <1>5, <2>1 DEF OutsideLoads, OutsideUnloads, books, loads, unloads
<1>6. ASSUME NEW s \in Session,
             Renew(s) \/ LeaseLapses(s) \/ GiveUp(s) \/ SurveyAnswers(s)
      PROVE  Kept'
  BY <1>4, <1>6 DEF Renew, LeaseLapses, GiveUp, SurveyAnswers, books, loads, unloads
<1>7. CASE UNCHANGED vars
  BY <1>4, <1>7 DEF vars, books, loads, unloads
<1> QED
  BY <1>1, <1>2, <1>3, <1>5, <1>6, <1>7 DEF Next, Client, Runs

\* "Never a model mid-unload" (HeldStays, what _holding_or_load promises), in
\* every behaviour whose releases and expiries never wait for one unload with
\* another orphan still to look at, whatever fails and whoever else loads.
THEOREM HeldStaysOneOrphanAtATime == Spec /\ []OneOrphanAtATime => []HeldStays
<1>1. Init => Kept
  BY DEF Init, Kept, InFlight
<1>2. Kept => HeldStays
  BY DEF Kept, HeldStays, Here
<1>3. Books /\ MarksAnswered(call, unloading, givingBack) /\ Kept /\ OneOrphanAtATime
        /\ [Next]_vars => Kept'
  BY KeptStep
<1>4. EveryMarkIsAnswered => MarksAnswered(call, unloading, givingBack)
  BY MarkParts
<1> QED
  BY <1>1, <1>2, <1>3, <1>4, BooksAlwaysHold, MarksAlwaysAnswered, PTL DEF Spec

\* What is remembered as loaded here is this manager's instance: only a
\* runtime that unloads and says it did not makes the memory of it stale.
OwnRemembered == \A m \in loadedHere : resident[m].here > 0

LEMMA OwnStep ==
  ASSUME "unloadLost" \notin Faults, TypeOK, OwnRemembered, [Next]_vars
  PROVE  OwnRemembered'
<1>1. ASSUME NEW m, Answered(m) PROVE OwnRemembered'
  <2>1. \A k \in Model \ {m} : resident'[k] = resident[k]
    BY <1>1, AnsweredLeavesOthers
  <2>2. \/ loadedHere' = loadedHere \ {m}
        \/ UNCHANGED <<resident, loadedHere>>
    BY <1>1 DEF Answered
  <2> QED
    BY <2>1, <2>2 DEF OwnRemembered, TypeOK
<1>2. ASSUME loadedHere' = loadedHere,
             \A m \in Model : resident[m].here > 0 => resident'[m].here > 0
      PROVE  OwnRemembered'
  BY <1>2 DEF OwnRemembered, TypeOK
<1>3. ASSUME NEW s \in Session, UnloadAnswered(s) PROVE OwnRemembered'
  BY <1>1, <1>3 DEF UnloadAnswered
<1>4. ASSUME NEW s \in Session, Client(s) \/ SurveyAnswers(s) \/ Proceed(s)
      PROVE  OwnRemembered'
  BY <1>2, <1>4 DEF Client, Acquire, Release, Renew, LeaseLapses, GiveUp, SurveyAnswers,
                    Proceed, unloads
<1>5. ASSUME NEW m \in Model, Task(m) PROVE OwnRemembered'
  <2>1. CASE AskLoad(m) \/ Adopt(m) \/ ForgetLoad(m)
    BY <1>2, <2>1 DEF AskLoad, Adopt, ForgetLoad, unloads
  <2>2. CASE LoadLands(m)
    BY <1>5, <2>2, OneMoreAdds DEF LoadLands, OwnRemembered, TypeOK
  <2>3. CASE LoadFails(m)
    BY <1>2, <1>5, <2>3, OneMoreAdds DEF LoadFails
  <2>4. CASE GiveBackAnswered(m)
    BY <1>1, <2>4 DEF GiveBackAnswered
  <2> QED
    BY <1>5, <2>1, <2>2, <2>3, <2>4 DEF Task
<1>6. ASSUME NEW m \in Model, OutsideLoads(m) \/ OutsideUnloads(m) PROVE OwnRemembered'
  BY <1>2, <1>6, OutsideKeepsOurs DEF OutsideLoads, OutsideUnloads, unloads
<1>7. CASE UNCHANGED vars
  BY <1>2, <1>7 DEF vars, unloads
<1> QED
  BY <1>3, <1>4, <1>5, <1>6, <1>7 DEF Next, Runs

\* Every unload asked for is of a model in memory as this manager's own.
LEMMA AsksForItsOwn ==
  ASSUME Books, Kept, OwnRemembered, OneOrphanAtATime, [Next]_vars
  PROVE  \A m \in Model : m \in unloading' \ unloading /\ resident[m].theirs => Here(m)
<1> USE DEF Books
<1> DEFINE AsksOwn == \A k \in unloading' \ unloading : resident[k].here > 0
<1>1. ASSUME NEW s \in Session,
             \/ \E m \in Model : Acquire(s, m)
             \/ Release(s)
             \/ UnloadAnswered(s)
      PROVE  AsksOwn
  BY <1>1, LoopAsksForOwned DEF Kept
<1>2. ASSUME NEW m \in Model, Task(m)
      PROVE  AsksOwn
  <2>1. CASE AskLoad(m) \/ Adopt(m) \/ LoadLands(m) \/ GiveBackAnswered(m)
    BY <2>1 DEF AskLoad, Adopt, LoadLands, Land, GiveBackAnswered, unloads
  <2>2. CASE LoadFails(m) \/ ForgetLoad(m)
    <3>1. GiveBackIfAbandoned(m, waiters')
      BY <2>2 DEF LoadFails, ForgetLoad
    <3> QED
      BY <3>1 DEF GiveBackIfAbandoned, OwnRemembered
  <2> QED
    BY <1>2, <2>1, <2>2 DEF Task
<1>3. ASSUME UNCHANGED unloading
      PROVE  AsksOwn
  BY <1>3
<1>4. ASSUME NEW s \in Session,
             \/ Renew(s) \/ LeaseLapses(s) \/ GiveUp(s) \/ SurveyAnswers(s) \/ Proceed(s)
      PROVE  AsksOwn
  BY <1>3, <1>4 DEF Renew, LeaseLapses, GiveUp, SurveyAnswers, Proceed, unloads
<1>5. ASSUME NEW m \in Model, OutsideLoads(m) \/ OutsideUnloads(m)
      PROVE  AsksOwn
  BY <1>3, <1>5 DEF OutsideLoads, OutsideUnloads, unloads
<1>6. ASSUME UNCHANGED vars PROVE AsksOwn
  BY <1>3, <1>6 DEF vars, unloads
<1> HIDE DEF AsksOwn
<1>7. AsksOwn
  BY <1>1, <1>2, <1>4, <1>5, <1>6 DEF Next, Client, Runs
<1> QED
  BY <1>7 DEF AsksOwn, Here

\* "Never unload a resource owned by another client" (NeverUnloadsOthers): no
\* unload is asked for of a model of which every copy in memory is somebody
\* else's, whoever loads beside the manager and whether it knew of it, in
\* every behaviour whose loops have one orphan at a time, when the runtime
\* does not unload a model and say it did not.
THEOREM NeverUnloadsOthersOneOrphanAtATime ==
  ASSUME "unloadLost" \notin Faults
  PROVE  Spec /\ []OneOrphanAtATime => NeverUnloadsOthers
<1>1. Init => Kept /\ OwnRemembered
  BY DEF Init, Kept, InFlight, OwnRemembered
<1>2. Books /\ MarksAnswered(call, unloading, givingBack) /\ Kept /\ OneOrphanAtATime
        /\ [Next]_vars => Kept'
  BY KeptStep
<1>3. Books /\ OwnRemembered /\ [Next]_vars => OwnRemembered'
  BY OwnStep DEF Books
<1>4. Books /\ Kept /\ OwnRemembered /\ OneOrphanAtATime /\ [Next]_vars
        => [\A m \in Model :
              m \in unloading' \ unloading /\ resident[m].theirs => Here(m)]_vars
  BY AsksForItsOwn
<1>5. EveryMarkIsAnswered => MarksAnswered(call, unloading, givingBack)
  BY MarkParts
<1> QED
  BY <1>1, <1>2, <1>3, <1>4, <1>5, BooksAlwaysHold, MarksAlwaysAnswered, PTL
     DEF Spec, NeverUnloadsOthers

-----------------------------------------------------------------------------
(* "PREEMPT refuses exactly as REJECT does".  An unreferenced holding is   *)
(* one that a loop of unloads has still to look at, and there is none when *)
(* loops have one orphan at a time.                                        *)

HoldingsReferenced == \A m \in held : Referenced(refs, m)

\* A pass that leaves no orphan for later drops them all, and marks them all
\* when they were all loaded here.
LEMMA PassTakesAll ==
  ASSUME TypeOK,
         NEW T \in SUBSET held, NEW r \in [Model -> [Session -> Nat]],
         NEW marks \in SUBSET Model, NEW p \in UnloadPasses(T, r, marks),
         T \cap marks = {}, \A m \in T : ~ Referenced(r, m), p.todo = {}
  PROVE  /\ p.held = held \ T
         /\ T \subseteq owned => p.owned = owned \ T /\ p.marks = marks \cup T
<1>1. \A P \in SUBSET T : Forgotten(P, r, marks) = P
  BY DEF Forgotten, Spared
<1>2. Asked(T, r, marks) = T \cap owned
  BY DEF Asked, Spared, TypeOK
<1>3. CASE p = LastPass(T, r, marks) /\ Asked(T, r, marks) = {}
  BY <1>1, <1>2, <1>3 DEF LastPass
<1>4. ASSUME NEW m \in Asked(T, r, marks), NEW P \in SUBSET (T \ Asked(T, r, marks)),
             p = PassTo(m, P, T, r, marks)
      PROVE  /\ p.held = held \ T
             /\ T \subseteq owned => p.owned = owned \ T /\ p.marks = marks \cup T
  <2>1. T = P \cup {m}
    BY <1>4 DEF PassTo, Asked
  <2> QED
    BY <1>1, <1>2, <1>4, <2>1 DEF PassTo
<1> QED
  BY <1>3, <1>4 DEF UnloadPasses

\* What a release, or the expiry an acquire begins with, drops at once.
LEMMA LoopTakesAll ==
  ASSUME Books, Kept, OneOrphanAtATime', NEW s \in Session,
         (\E m \in Model : Acquire(s, m)) \/ Release(s)
  PROVE  \E S \in SUBSET Session :
           /\ refs' = Dropped(S) /\ held' = held \ Orphans(S)
           /\ owned = held => owned' = held' /\ unloading' = unloading \cup Orphans(S)
<1> USE DEF Books
<1>1. \A S \in SUBSET Session :
        /\ Orphans(S) \in SUBSET held /\ Orphans(S) \cap unloading = {}
        /\ \A m \in Orphans(S) : ~ Referenced(Dropped(S), m)
        /\ Dropped(S) \in [Model -> [Session -> Nat]]
  BY DroppedCounts DEF Orphans, Kept
<1>2. ASSUME NEW S \in SUBSET Session, NEW c \in [Session -> CallType], NEW done,
             NEW p \in UnloadPasses(Orphans(S), Dropped(S), unloading),
             held' = p.held, owned' = p.owned, unloading' = p.marks, refs' = Dropped(S),
             call' = [c EXCEPT ![s] = IF p.busy = NoModel THEN done
                                      ELSE [@ EXCEPT !.busy = p.busy, !.todo = p.todo]]
      PROVE  /\ held' = held \ Orphans(S)
             /\ owned = held => owned' = held' /\ unloading' = unloading \cup Orphans(S)
  <2>1. p.todo = {}
    <3>1. CASE p.busy = NoModel
      <4>1. p = LastPass(Orphans(S), Dropped(S), unloading)
        BY <1>1, <3>1, ManagerAssumption DEF UnloadPasses, PassTo, Asked, TypeOK
      <4> QED
        BY <4>1 DEF LastPass
    <3>2. CASE p.busy # NoModel
      <4>1. call'[s] = [c[s] EXCEPT !.busy = p.busy, !.todo = p.todo]
        BY <1>2, <3>2
      <4>2. call'[s].todo = p.todo
        BY <4>1 DEF CallType
      <4> QED
        BY <4>2 DEF OneOrphanAtATime
    <3> QED
      BY <3>1, <3>2
  <2>2. unloading \in SUBSET Model
    BY DEF TypeOK
  <2> QED
    <3> DEFINE T == Orphans(S)
               r == Dropped(S)
    <3>1. /\ T \in SUBSET held /\ T \cap unloading = {} /\ r \in [Model -> [Session -> Nat]]
          /\ \A m \in T : ~ Referenced(r, m)
      BY <1>1
    <3>2. p \in UnloadPasses(T, r, unloading)
      BY <1>2
    <3> HIDE DEF T, r
    <3>3. /\ p.held = held \ T
          /\ T \subseteq owned => p.owned = owned \ T /\ p.marks = unloading \cup T
      BY <2>1, <2>2, <3>1, <3>2, PassTakesAll
    <3> QED
      BY <1>2, <3>1, <3>3 DEF T
<1>3. ASSUME NEW m \in Model, Acquire(s, m)
      PROVE  \E S \in SUBSET Session :
               /\ refs' = Dropped(S) /\ held' = held \ Orphans(S)
               /\ owned = held => owned' = held' /\ unloading' = unloading \cup Orphans(S)
  <2> DEFINE S == {x \in Session : lease[x] = "lapsed"}
             start(at) == [Idle EXCEPT !.at = at, !.model = m]
             c == [call EXCEPT ![s] = start("expire")]
  <2>1. c \in [Session -> CallType]
    BY CallTyped DEF Point, TypeOK
  <2> HIDE DEF start, c
  <2>2. PICK p \in UnloadPasses(Orphans(S), Dropped(S), unloading) :
          /\ held' = p.held /\ owned' = p.owned /\ unloading' = p.marks
          /\ refs' = Dropped(S)
          /\ call' = [c EXCEPT ![s] = IF p.busy = NoModel THEN start("survey")
                                      ELSE [@ EXCEPT !.busy = p.busy, !.todo = p.todo]]
    BY <1>3 DEF Acquire, UnloadAll, c, start
  <2>3. S \in SUBSET Session
    OBVIOUS
  <2> HIDE DEF S
  <2>4. /\ held' = held \ Orphans(S)
        /\ owned = held => owned' = held' /\ unloading' = unloading \cup Orphans(S)
    BY <1>2, <2>1, <2>2, <2>3
  <2> QED
    BY <2>2, <2>3, <2>4
<1>4. CASE Release(s)
  <2> DEFINE c == [call EXCEPT ![s] = [Idle EXCEPT !.at = "release"]]
  <2>1. c \in [Session -> CallType]
    BY ReleaseTyped DEF TypeOK
  <2> HIDE DEF c
  <2>2. PICK p \in UnloadPasses(Orphans({s}), Dropped({s}), unloading) :
          /\ held' = p.held /\ owned' = p.owned /\ unloading' = p.marks
          /\ refs' = Dropped({s})
          /\ call' = [c EXCEPT ![s] = IF p.busy = NoModel THEN Idle
                                      ELSE [@ EXCEPT !.busy = p.busy, !.todo = p.todo]]
    BY <1>4 DEF Release, UnloadAll, c
  <2>3. {s} \in SUBSET Session
    OBVIOUS
  <2>4. /\ held' = held \ Orphans({s})
        /\ owned = held => owned' = held' /\ unloading' = unloading \cup Orphans({s})
    BY <1>2, <2>1, <2>2, <2>3
  <2> QED
    BY <2>2, <2>3, <2>4
<1> QED
  BY <1>3, <1>4

\* A loop that goes on has nothing left to look at.
LEMMA LoopEnds ==
  ASSUME TypeOK, OneOrphanAtATime, NEW s \in Session, UnloadAnswered(s)
  PROVE  /\ held' = held /\ owned' = owned /\ refs' = refs
         /\ unloading' = unloading \ {call[s].busy}
<1>1. call[s].todo = {}
  BY DEF OneOrphanAtATime
<1>2. PICK p \in UnloadPasses({}, refs, unloading \ {call[s].busy}) :
        held' = p.held /\ owned' = p.owned /\ unloading' = p.marks /\ refs' = refs
  BY <1>1 DEF UnloadAnswered, UnloadAll
<1>3. p = LastPass({}, refs, unloading \ {call[s].busy})
  BY <1>2 DEF UnloadPasses, Asked
<1> QED
  BY <1>2, <1>3 DEF LastPass, Forgotten

LEMMA ReferencedStep ==
  ASSUME Books, Kept, HoldingsReferenced, OneOrphanAtATime, OneOrphanAtATime', [Next]_vars
  PROVE  HoldingsReferenced'
<1> USE DEF Books
<1>1. ASSUME NEW s \in Session, (\E m \in Model : Acquire(s, m)) \/ Release(s)
      PROVE  HoldingsReferenced'
  <2>1. PICK S \in SUBSET Session : refs' = Dropped(S) /\ held' = held \ Orphans(S)
    BY <1>1, LoopTakesAll
  <2>2. \A m \in Model, x \in Session :
          Dropped(S)[m][x] = IF x \in S /\ m \in leased[x] /\ m \in held THEN 0 ELSE refs[m][x]
    BY DroppedCounts
  <2>3. ASSUME NEW m \in held \ Orphans(S) PROVE Referenced(Dropped(S), m)
    <3>1. m \in Model
      BY DEF TypeOK
    <3>2. PICK x \in Session : refs[m][x] > 0
      BY DEF HoldingsReferenced, Referenced
    <3>3. CASE x \in S /\ m \in leased[x]
      BY <3>3 DEF Orphans
    <3>4. CASE ~ (x \in S /\ m \in leased[x])
      BY <2>2, <3>1, <3>2, <3>4 DEF Referenced
    <3> QED
      BY <3>3, <3>4
  <2> QED
    BY <2>1, <2>3 DEF HoldingsReferenced, Referenced
<1>2. ASSUME NEW s \in Session, UnloadAnswered(s) PROVE HoldingsReferenced'
  BY <1>2, LoopEnds DEF HoldingsReferenced, Referenced
<1>3. ASSUME UNCHANGED <<held, refs>> PROVE HoldingsReferenced'
  BY <1>3 DEF HoldingsReferenced, Referenced
<1>4. ASSUME NEW s \in Session, Proceed(s) PROVE HoldingsReferenced'
  <2> DEFINE m == call[s].model
             o == Surveyed(s)
  <2>1. m \in Model
    BY <1>4 DEF Proceed, Looks, TypeOK, CallType
  <2>2. \/ Blocked(s, m, o) \/ Share(s, m, o) \/ Join(s, m, o)
        \/ JoinLanded(s, m, o) \/ StartLoad(s, m, o)
        \/ Refuse(s, m, o) \/ Preempt(s, m, o)
    BY <1>4 DEF Proceed
  <2> HIDE DEF m, o
  <2>3. CASE Takes(s, m)
    <3>1. held' = held \cup {m} /\ refs' = [refs EXCEPT ![m][s] = @ + 1]
      BY <2>3 DEF Takes
    <3>2. \A k \in Model, x \in Session : refs'[k][x] >= refs[k][x]
      BY <2>1, <3>1 DEF TypeOK
    <3>3. refs'[m][s] > 0
      BY <2>1, <3>1 DEF TypeOK
    <3>4. \A k \in Model, x \in Session : refs[k][x] \in Nat /\ refs'[k][x] \in Nat
      BY <2>1, <3>1 DEF TypeOK
    <3>5. ASSUME NEW k \in held PROVE \E x \in Session : refs'[k][x] > 0
      <4>1. PICK x \in Session : refs[k][x] > 0
        BY DEF HoldingsReferenced, Referenced
      <4>2. k \in Model
        BY DEF TypeOK
      <4> QED
        BY <3>2, <3>4, <4>1, <4>2
    <3> QED
      BY <3>1, <3>3, <3>5 DEF HoldingsReferenced, Referenced
  <2>4. ~ Preempt(s, m, o)
    BY DEF Preempt, Reclaimable, HoldingsReferenced
  <2> QED
    BY <1>3, <2>2, <2>3, <2>4
       DEF Blocked, Share, Join, JoinLanded, StartLoad, Refuse, books
<1>5. ASSUME NEW m \in Model, NEW stage, Land(m, stage) PROVE HoldingsReferenced'
  <2> DEFINE W == Waiting(m)
  <2>1. \A k \in Model, x \in Session :
          refs'[k][x] = IF k = m /\ x \in W THEN refs[k][x] + 1 ELSE refs[k][x]
    BY <1>5 DEF Land, TypeOK
  <2>2. held' = IF W = {} THEN held ELSE held \cup {m}
    BY <1>5 DEF Land
  <2>3. W \subseteq Session
    BY DEF Waiting
  <2> HIDE DEF W
  <2>4. \A k \in Model, x \in Session : refs[k][x] \in Nat
    BY DEF TypeOK
  <2>5. ASSUME NEW k \in held PROVE \E x \in Session : refs'[k][x] > 0
    <3>1. PICK x \in Session : refs[k][x] > 0
      BY DEF HoldingsReferenced, Referenced
    <3>2. k \in Model
      BY DEF TypeOK
    <3> QED
      BY <2>1, <2>4, <3>1, <3>2
  <2>6. ASSUME NEW x \in W PROVE refs'[m][x] > 0
    BY <2>1, <2>3, <2>4
  <2> QED
    BY <2>2, <2>3, <2>5, <2>6 DEF HoldingsReferenced, Referenced
<1>6. ASSUME NEW m \in Model, Task(m) PROVE HoldingsReferenced'
  BY <1>3, <1>5, <1>6 DEF Task, AskLoad, Adopt, LoadLands, LoadFails, ForgetLoad,
                          GiveBackAnswered, books
<1>7. ASSUME NEW s \in Session,
             Renew(s) \/ LeaseLapses(s) \/ GiveUp(s) \/ SurveyAnswers(s)
      PROVE  HoldingsReferenced'
  BY <1>3, <1>7 DEF Renew, LeaseLapses, GiveUp, SurveyAnswers, books
<1>8. ASSUME NEW m \in Model, OutsideLoads(m) \/ OutsideUnloads(m) PROVE HoldingsReferenced'
  BY <1>3, <1>8 DEF OutsideLoads, OutsideUnloads, books
<1>9. CASE UNCHANGED vars
  BY <1>3, <1>9 DEF vars, books
<1> QED
  BY <1>1, <1>2, <1>4, <1>6, <1>7, <1>8, <1>9 DEF Next, Client, Runs

\* "PREEMPT refuses exactly as REJECT does" (PreemptFindsNothing, _make_room):
\* with loops that have one orphan at a time every holding is referenced, so a
\* full ceiling has nothing to reclaim, whatever fails and whoever else loads.
THEOREM PreemptNeverReclaims == Spec /\ []OneOrphanAtATime => []PreemptFindsNothing
<1>1. Init => Kept /\ HoldingsReferenced
  BY DEF Init, Kept, InFlight, HoldingsReferenced
<1>2. Books /\ MarksAnswered(call, unloading, givingBack) /\ Kept /\ OneOrphanAtATime
        /\ [Next]_vars => Kept'
  BY KeptStep
<1>3. Books /\ Kept /\ HoldingsReferenced /\ OneOrphanAtATime /\ OneOrphanAtATime'
        /\ [Next]_vars => HoldingsReferenced'
  BY ReferencedStep
<1>4. HoldingsReferenced => PreemptFindsNothing
  BY DEF HoldingsReferenced, PreemptFindsNothing, Reclaimable
<1>5. EveryMarkIsAnswered => MarksAnswered(call, unloading, givingBack)
  BY MarkParts
<1> QED
  BY <1>1, <1>2, <1>3, <1>4, <1>5, BooksAlwaysHold, MarksAlwaysAnswered, PTL DEF Spec

-----------------------------------------------------------------------------
(* The service stopping (ResourceManagerStop): one unload per model.  The  *)
(* jobs' marks and the give-backs' are told apart by the marks themselves, *)
(* and before a stop there is neither a job nor an unload it confirmed.    *)

StopMarks ==
  /\ stop = "no" => /\ MarksAnswered(call, unloading, givingBack)
                    /\ jobs = {} /\ confirmed = {}
  /\ stop = "running" => jobs \cup givingBack \subseteq unloading
  /\ jobs \cap givingBack = {}

\* The unloads that calls await are those marked and not given back.
LEMMA CutIsMarked ==
  ASSUME MarksAnswered(call, unloading, givingBack)
  PROVE  CutOff \subseteq unloading /\ unloading \ CutOff = givingBack
BY DEF MarksAnswered, LoopsOf, CutOff, UnloadLoops

\* What the steps of a stop do to the types.
LEMMA StopTypeStep ==
  ASSUME StopTypeOK, StopMarks, [StopNext]_allVars
  PROVE  StopTypeOK'
<1> USE DEF StopTypeOK
<1>1. CASE ServiceRuns
  BY <1>1, TypeStep DEF ServiceRuns, stopVars
<1>2. CASE Stop
  <2>1. Dropped(Session) \in [Model -> [Session -> Nat]]
    BY DroppedCounts
  <2>2. TypeOK'
    BY <1>2, <2>1, IdleTyped DEF Stop, TypeOK
  <2>3. held \subseteq Model /\ owned \subseteq Model /\ givingBack \subseteq Model
    BY DEF TypeOK
  <2>4. /\ stop' = "running" /\ jobs' \subseteq Model /\ awaited' \subseteq Model
        /\ ours' \subseteq Model /\ left' \subseteq Model /\ handed' \subseteq Model
    BY <1>2, <2>3 DEF Stop, InFlight
  <2>5. confirmed' \subseteq ours' /\ landed' \subseteq Model /\ cut' \subseteq Model
    BY <1>2, CutIsMarked DEF Stop, StopMarks, TypeOK
  <2> QED
    BY <2>2, <2>4, <2>5
<1>3. CASE Settled \/ OutOfTime
  <2>1. TypeOK'
    BY <1>3 DEF Settled, OutOfTime, vars, TypeOK, books, loads, unloads
  <2> QED
    BY <1>3, <2>1 DEF Settled, OutOfTime
<1>4. ASSUME NEW m \in Model, JobAnswered(m) PROVE StopTypeOK'
  <2>1. resident' \in [Model -> Copies] /\ loadedHere' \subseteq Model
    BY <1>4, AnsweredTyped DEF JobAnswered
  <2>2. TypeOK'
    BY <1>4, <2>1 DEF JobAnswered, TypeOK, books, loads
  <2>3. confirmed' \subseteq ours /\ landed' \subseteq Model /\ jobs' \subseteq Model
    BY <1>4 DEF JobAnswered
  <2>4. UNCHANGED <<stop, awaited, ours, left, handed, cut>>
    BY <1>4 DEF JobAnswered
  <2> QED
    BY <2>2, <2>3, <2>4
<1>5. ASSUME NEW m \in Model, UnloadLanded(m) PROVE StopTypeOK'
  <2>1. TypeOK'
    BY <1>5 DEF UnloadLanded, TypeOK, books, loads
  <2> QED
    BY <1>5, <2>1 DEF UnloadLanded
<1>6. ASSUME NEW m \in Model, TaskWhileStopping(m) PROVE StopTypeOK'
  <2>1. Next
    BY <1>6 DEF TaskWhileStopping, Next
  <2>2. TypeOK'
    BY <2>1, TypeStep
  <2> QED
    BY <1>6, <2>2 DEF TaskWhileStopping
<1>7. CASE UNCHANGED allVars
  BY <1>7 DEF allVars, vars, stopVars, TypeOK, books, loads, unloads
<1>8. ASSUME NEW m \in Model, CutTakesEffect(m) PROVE StopTypeOK'
  <2>1. resident' \in [Model -> Copies]
    BY <1>8, OneGoesTyped DEF CutTakesEffect
  <2>2. TypeOK'
    BY <1>8, <2>1 DEF CutTakesEffect, TypeOK, books, loads, unloads
  <2> QED
    BY <1>8, <2>2 DEF CutTakesEffect
<1> QED
  BY <1>1, <1>2, <1>3, <1>4, <1>5, <1>6, <1>7, <1>8 DEF StopNext

\* A give-back starts only for a model without a mark, and ends its own.
LEMMA TaskMarks ==
  ASSUME NEW m \in Model, Task(m)
  PROVE  \/ UNCHANGED <<unloading, givingBack>>
         \/ /\ m \notin unloading
            /\ unloading' = unloading \cup {m} /\ givingBack' = givingBack \cup {m}
         \/ /\ m \in givingBack
            /\ unloading' = unloading \ {m} /\ givingBack' = givingBack \ {m}
BY DEF Task, AskLoad, Adopt, LoadLands, Land, LoadFails, ForgetLoad, GiveBackAnswered,
       GiveBackIfAbandoned, unloads

LEMMA StopMarksStep ==
  ASSUME StopTypeOK, StopMarks, [StopNext]_allVars
  PROVE  StopMarks'
<1>1. CASE ServiceRuns
  <2>1. /\ MarksAnswered(call, unloading, givingBack)'
        /\ jobs' = {} /\ confirmed' = {} /\ stop' = "no"
    BY <1>1, MarksStep DEF ServiceRuns, stopVars, StopMarks, StopTypeOK
  <2> QED
    BY <2>1 DEF StopMarks
<1>2. CASE Stop
  <2>1. owned \subseteq held /\ jobs' = owned \ givingBack
    BY <1>2, CutIsMarked DEF Stop, StopMarks, StopTypeOK, TypeOK
  <2>2. unloading' = givingBack \cup owned /\ givingBack' = givingBack
    BY <1>2, CutIsMarked DEF Stop, StopMarks
  <2> QED
    BY <1>2, <2>1, <2>2 DEF Stop, StopMarks
<1>3. CASE Settled \/ OutOfTime
  BY <1>3 DEF Settled, OutOfTime, vars, unloads, StopMarks
<1>4. ASSUME NEW m \in Model, JobAnswered(m) \/ UnloadLanded(m) PROVE StopMarks'
  BY <1>4 DEF JobAnswered, UnloadLanded, StopMarks
<1>5. ASSUME NEW m \in Model, TaskWhileStopping(m) PROVE StopMarks'
  <2>1. stop = "running" /\ stop' = stop /\ jobs' = jobs /\ Task(m)
    BY <1>5 DEF TaskWhileStopping
  <2>2. jobs \cup givingBack \subseteq unloading /\ jobs \cap givingBack = {}
    BY <2>1 DEF StopMarks
  <2>3. jobs \cup givingBack' \subseteq unloading' /\ jobs \cap givingBack' = {}
    BY <2>1, <2>2, TaskMarks
  <2> QED
    BY <2>1, <2>3 DEF StopMarks
<1>6. CASE UNCHANGED allVars
  BY <1>6 DEF allVars, vars, stopVars, unloads, StopMarks, MarksAnswered, LoopsOf
<1>7. ASSUME NEW m \in Model, CutTakesEffect(m) PROVE StopMarks'
  BY <1>7 DEF CutTakesEffect, unloads, StopMarks
<1> QED
  BY <1>1, <1>2, <1>3, <1>4, <1>5, <1>6, <1>7 DEF StopNext

\* "One unload per model, whichever of the two gets there first"
\* (OneUnloadPerModel, _unload_landed): a landed load's give-back and the
\* stop's own unload of it are never both under way, for any number of
\* sessions and models and any faults.
THEOREM OneUnloadEver == StopSpec => []OneUnloadPerModel
<1>1. StopInit => StopTypeOK /\ StopMarks
  <2> SUFFICES ASSUME StopInit PROVE StopTypeOK /\ StopMarks
    OBVIOUS
  <2>1. TypeOK
    BY IdleTyped DEF StopInit, Init, TypeOK, LoadStage, Copies, Absent
  <2>2. \A s \in Session : call[s].at = "idle"
    BY DEF StopInit, Init, Idle
  <2> QED
    BY <2>1, <2>2 DEF StopInit, Init, StopTypeOK, StopMarks, MarksAnswered, LoopsOf
<1>2. StopTypeOK /\ StopMarks /\ [StopNext]_allVars => (StopTypeOK /\ StopMarks)'
  BY StopTypeStep, StopMarksStep
<1>3. StopTypeOK /\ StopMarks => OneUnloadPerModel
  BY DEF StopMarks, OneUnloadPerModel
<1> QED
  BY <1>1, <1>2, <1>3, PTL DEF StopSpec

-----------------------------------------------------------------------------
(* The report.  While nobody else loads, and the runtime neither loads a   *)
(* model it says it did not nor refuses an unload, what is in memory is    *)
(* always on the books: held, being unloaded, or landed and not yet taken. *)

NobodyWaitsForLanded ==
  \A m \in Model : load[m] \in {"landed", "adopted"} => Waiting(m) = {}

\* In memory is one copy at most, and that this manager's own.
Ours == [here |-> 1, theirs |-> FALSE]

OneOfOurs == \A m \in Model : resident[m] \in {Absent, Ours}

Traced ==
  /\ owned = held
  /\ \A m \in Model :
       /\ resident[m] \in {Absent, Ours} /\ load[m] # "adopted"
       /\ load[m] \in Under => resident[m] = Absent
       /\ resident[m] = Ours => /\ m \in loadedHere
                                /\ m \in held \cup unloading \/ load[m] = "landed"

LEMMA CopiesOfOne ==
  /\ Absent \in Copies /\ Absent.here = 0 /\ Absent.theirs = FALSE
  /\ Ours \in Copies /\ Ours.here = 1 /\ Ours.theirs = FALSE
BY DEF Absent, Ours, Copies

\* An unload that is answered has gone.
LEMMA OneCopyGone ==
  ASSUME TypeOK, NEW m \in Model, resident[m] \in {Absent, Ours}, OneGoes(m)
  PROVE  resident' = [resident EXCEPT ![m] = Absent]
<1>1. resident \in [Model -> Copies] /\ 1 - 1 = 0
  BY DEF TypeOK
<1>2. CASE resident[m] = Absent
  <2>1. UNCHANGED resident
    BY <1>2 DEF OneGoes, Here, Absent
  <2> QED
    BY <1>1, <1>2, <2>1
<1>3. CASE resident[m] = Ours
  <2>1. resident' = [resident EXCEPT ![m].here = @ - 1]
    BY <1>3 DEF OneGoes, Ours, Absent
  <2> DEFINE c == [resident[m] EXCEPT !.here = @ - 1]
  <2>2. resident[m] \in Copies /\ resident[m].here = 1 /\ resident[m].theirs = FALSE
    BY <1>3, CopiesOfOne
  <2>3. c.here = 0 /\ c.theirs = FALSE /\ c \in Copies
    BY <2>2 DEF Copies
  <2> HIDE DEF c
  <2>4. c = Absent
    BY <2>3 DEF Absent, Copies
  <2> QED
    BY <1>1, <2>1, <2>4 DEF c
<1> QED
  BY <1>2, <1>3

LEMMA OneOursMore ==
  ASSUME TypeOK, NEW m \in Model, resident[m] = Absent, OneMore(m)
  PROVE  resident' = [resident EXCEPT ![m] = Ours]
<1> DEFINE c == [resident[m] EXCEPT !.here = @ + 1]
<1>0. resident[m] \in Copies /\ resident[m].here = 0 /\ resident[m].theirs = FALSE
  BY CopiesOfOne
<1>1. c.here = 1 /\ c.theirs = FALSE /\ c \in Copies
  BY <1>0 DEF Copies
<1> HIDE DEF c
<1>2. c = Ours
  BY <1>1 DEF Ours, Copies
<1> QED
  BY <1>2 DEF OneMore, TypeOK, c

LEMMA AnsweredGone ==
  ASSUME "unloadFails" \notin Faults, TypeOK, NEW m \in Model,
         resident[m] \in {Absent, Ours}, Answered(m)
  PROVE  /\ resident' = [resident EXCEPT ![m] = Absent]
         /\ \A k \in Model \ {m} : k \in loadedHere' <=> k \in loadedHere
BY OneCopyGone DEF Answered, TypeOK

\* Nobody starts to wait for a load that has landed.
LEMMA NobodyWaitsStep ==
  ASSUME TypeOK, NobodyWaitsForLanded, [Next]_vars
  PROVE  NobodyWaitsForLanded'
<1>0. Idle.at = "idle" /\ \A a, m : [Idle EXCEPT !.at = a, !.model = m].at = a
  BY DEF Idle
<1>1. ASSUME UNCHANGED load,
             \A x \in Session : call'[x].at = "load" =>
                                  call[x].at = "load" /\ call'[x].model = call[x].model
      PROVE  NobodyWaitsForLanded'
  BY <1>1 DEF NobodyWaitsForLanded, Waiting
\* Only the call of s changes, and it does not wait for a load after it.
<1>2. ASSUME NEW s \in Session, NEW y, y.at # "load", call' = [call EXCEPT ![s] = y],
             \A k \in Model : load'[k] \in {"landed", "adopted"} => load[k] = load'[k]
      PROVE  NobodyWaitsForLanded'
  <2>1. \A x \in Session : call'[x] = IF x = s THEN y ELSE call[x]
    BY <1>2 DEF TypeOK
  <2>2. \A k \in Model : Waiting(k)' \subseteq Waiting(k)
    BY <1>2, <2>1 DEF Waiting
  <2> QED
    BY <1>2, <2>2 DEF NobodyWaitsForLanded
<1>3. ASSUME NEW s \in Session, NEW c, NEW done, NEW p, done.at # "load",
             c \in [Session -> CallType], c[s].at \in {"expire", "release"},
             \A x \in Session \ {s} : c[x] = call[x] \/ c[x].at # "load",
             call' = [c EXCEPT ![s] = IF p.busy = NoModel THEN done
                                      ELSE [@ EXCEPT !.busy = p.busy, !.todo = p.todo]],
             UNCHANGED load
      PROVE  NobodyWaitsForLanded'
  <2>1. [c[s] EXCEPT !.busy = p.busy, !.todo = p.todo].at = c[s].at
    BY <1>3 DEF CallType
  <2>2. call'[s].at # "load" /\ \A x \in Session \ {s} : call'[x] = c[x]
    BY <1>3, <2>1
  <2> QED
    BY <1>1, <1>3, <2>2
<1>4. ASSUME NEW s \in Session, NEW m \in Model, Acquire(s, m) PROVE NobodyWaitsForLanded'
  <2> DEFINE lapsed == {x \in Session : lease[x] = "lapsed"}
             start(at) == [Idle EXCEPT !.at = at, !.model = m]
             c == [call EXCEPT ![s] = start("expire")]
  <2>1. c \in [Session -> CallType]
    BY CallTyped DEF Point, TypeOK
  <2>2. c[s].at = "expire" /\ start("survey").at = "survey"
    BY <1>0 DEF TypeOK
  <2>3. load' = load /\ \A x \in Session \ {s} : c[x] = call[x]
    BY <1>4 DEF Acquire, loads, TypeOK
  <2> HIDE DEF start, c
  <2>4. PICK p \in UnloadPasses(Orphans(lapsed), Dropped(lapsed), unloading) :
          call' = [c EXCEPT ![s] = IF p.busy = NoModel THEN start("survey")
                                   ELSE [@ EXCEPT !.busy = p.busy, !.todo = p.todo]]
    BY <1>4 DEF Acquire, UnloadAll, c, start
  <2> QED
    BY <1>3, <2>1, <2>2, <2>3, <2>4
<1>5. ASSUME NEW s \in Session, Release(s) PROVE NobodyWaitsForLanded'
  <2> DEFINE c == [call EXCEPT ![s] = [Idle EXCEPT !.at = "release"]]
  <2>1. c \in [Session -> CallType] /\ c[s].at = "release"
    BY <1>0, ReleaseTyped DEF TypeOK, Idle
  <2>2. load' = load /\ \A x \in Session \ {s} : c[x] = call[x]
    BY <1>5 DEF Release, loads, TypeOK
  <2> HIDE DEF c
  <2>3. PICK p \in UnloadPasses(Orphans({s}), Dropped({s}), unloading) :
          call' = [c EXCEPT ![s] = IF p.busy = NoModel THEN Idle
                                   ELSE [@ EXCEPT !.busy = p.busy, !.todo = p.todo]]
    BY <1>5 DEF Release, UnloadAll, c
  <2> QED
    BY <1>0, <1>3, <2>1, <2>2, <2>3
<1>6. ASSUME NEW k, NEW x \in Session
      PROVE  Woken(k)[x] = call[x] \/ Woken(k)[x].at = "woken"
  BY <1>0 DEF Woken
<1>7. ASSUME NEW s \in Session, UnloadAnswered(s) PROVE NobodyWaitsForLanded'
  <2> DEFINE c == Woken(call[s].busy)
  <2>1. c \in [Session -> CallType]
    BY WokenTyped
  <2>2. call[s].at \in {"expire", "release"} /\ load' = load
    BY <1>7 DEF UnloadAnswered, loads
  <2>3. c[s].at \in {"expire", "release"} /\ Then(s).at # "load"
    BY <1>0, <2>2 DEF Woken, Then
  <2>4. \A x \in Session \ {s} : c[x] = call[x] \/ c[x].at # "load"
    BY <1>6
  <2>5. PICK p \in UnloadPasses(call[s].todo, refs, unloading \ {call[s].busy}) :
          call' = [c EXCEPT ![s] = IF p.busy = NoModel THEN Then(s)
                                   ELSE [@ EXCEPT !.busy = p.busy, !.todo = p.todo]]
    BY <1>7 DEF UnloadAnswered, UnloadAll
  <2> HIDE DEF c
  <2> QED
    BY <1>3, <2>1, <2>2, <2>3, <2>4, <2>5
<1>8. ASSUME NEW s \in Session, GiveUp(s) PROVE NobodyWaitsForLanded'
  BY <1>0, <1>2, <1>8 DEF GiveUp
<1>9. ASSUME NEW s \in Session, SurveyAnswers(s) PROVE NobodyWaitsForLanded'
  <2>1. PICK seen : call' = [call EXCEPT ![s].at = "surveyed", ![s].seen = seen]
    BY <1>9 DEF SurveyAnswers
  <2> DEFINE y == [call[s] EXCEPT !.at = "surveyed", !.seen = seen]
  <2>2. y.at # "load" /\ call' = [call EXCEPT ![s] = y]
    BY <2>1 DEF TypeOK, CallType
  <2>3. load' = load
    BY <1>9 DEF SurveyAnswers, loads
  <2> HIDE DEF y
  <2> QED
    BY <1>2, <2>2, <2>3
<1>10. ASSUME NEW s \in Session, Proceed(s) PROVE NobodyWaitsForLanded'
  <2> DEFINE m == call[s].model
             o == Surveyed(s)
  <2>1. m \in Model
    BY <1>10 DEF Proceed, Looks, TypeOK, CallType
  <2>2. \/ Blocked(s, m, o) \/ Share(s, m, o) \/ Join(s, m, o)
        \/ JoinLanded(s, m, o) \/ StartLoad(s, m, o)
        \/ Refuse(s, m, o) \/ Preempt(s, m, o)
    BY <1>10 DEF Proceed
  <2> HIDE DEF m, o
  <2>3. CASE Blocked(s, m, o)
    BY <1>0, <1>2, <2>3 DEF Blocked, loads, Idle
  <2>4. CASE Share(s, m, o) \/ Refuse(s, m, o)
    BY <1>0, <1>2, <2>4 DEF Share, Refuse, Takes, loads
  <2>5. CASE JoinLanded(s, m, o)
    BY <1>0, <1>2, <2>5 DEF JoinLanded, Takes, TypeOK
  <2>6. CASE Join(s, m, o) \/ StartLoad(s, m, o) \/ Preempt(s, m, o)
    <3>1. call' = [call EXCEPT ![s] = [Idle EXCEPT !.at = "load", !.model = m]]
      BY <2>6 DEF Join, StartLoad, Preempt, Waits
    <3>2. [Idle EXCEPT !.at = "load", !.model = m].model = m
      BY DEF Idle
    <3>3. \A k \in Model : Waiting(k)' \subseteq IF k = m THEN Waiting(k) \cup {s} ELSE Waiting(k)
      BY <3>1, <3>2 DEF Waiting, TypeOK
    <3>4. /\ load'[m] \in Under
          /\ \A k \in Model \ {m} : load'[k] = load[k]
      BY <2>1, <2>6 DEF Join, StartLoad, Preempt, Under, TypeOK
    <3> QED
      BY <3>3, <3>4 DEF NobodyWaitsForLanded, Under
  <2> QED
    BY <2>2, <2>3, <2>4, <2>5, <2>6
<1>11. ASSUME NEW m \in Model, NEW x,
              call' = [s \in Session |-> IF s \in Waiting(m) THEN Idle ELSE call[s]],
              load' = [load EXCEPT ![m] = x]
       PROVE  NobodyWaitsForLanded'
  <2>1. Waiting(m)' = {} /\ \A k \in Model \ {m} : Waiting(k)' = Waiting(k)
    BY <1>0, <1>11 DEF Waiting
  <2>2. \A k \in Model \ {m} : load'[k] = load[k]
    BY <1>11 DEF TypeOK
  <2> QED
    BY <2>1, <2>2 DEF NobodyWaitsForLanded
<1>12. ASSUME NEW m \in Model, Task(m) PROVE NobodyWaitsForLanded'
  <2>1. CASE AskLoad(m) \/ ForgetLoad(m)
    BY <2>1 DEF AskLoad, ForgetLoad, NobodyWaitsForLanded, Waiting, TypeOK
  <2>2. CASE Adopt(m) \/ LoadLands(m) \/ LoadFails(m)
    BY <1>11, <2>2 DEF Adopt, LoadLands, LoadFails, Land
  <2>3. CASE GiveBackAnswered(m)
    BY <1>1, <1>6, <2>3 DEF GiveBackAnswered, loads
  <2> QED
    BY <1>12, <2>1, <2>2, <2>3 DEF Task
<1>13. ASSUME NEW s \in Session, Renew(s) \/ LeaseLapses(s) PROVE NobodyWaitsForLanded'
  BY <1>1, <1>13 DEF Renew, LeaseLapses, loads
<1>14. ASSUME NEW m \in Model, OutsideLoads(m) \/ OutsideUnloads(m)
       PROVE  NobodyWaitsForLanded'
  BY <1>1, <1>14 DEF OutsideLoads, OutsideUnloads, loads
<1>15. CASE UNCHANGED vars
  BY <1>1, <1>15 DEF vars, loads
<1> QED
  BY <1>4, <1>5, <1>7, <1>8, <1>9, <1>10, <1>12, <1>13, <1>14, <1>15
     DEF Next, Client, Runs


\* An answer to the unload of a marked model leaves the others as they were.
LEMMA AnswerTraces ==
  ASSUME "unloadFails" \notin Faults, Books, Kept, Traced,
         NEW m \in unloading, Answered(m), UNCHANGED <<held, owned, load>>,
         unloading' = unloading \ {m}
  PROVE  Traced'
<1>1. m \in Model /\ resident' = [resident EXCEPT ![m] = Absent]
      /\ \A k \in Model \ {m} : k \in loadedHere' <=> k \in loadedHere
  BY AnsweredGone DEF Books, TypeOK, Traced
<1>2. \A k \in Model : resident'[k] = IF k = m THEN Absent ELSE resident[k]
  BY <1>1 DEF Books, TypeOK
<1> QED
  BY <1>1, <1>2 DEF Traced, Absent, Ours

LEMMA TracedStep ==
  ASSUME ~ OutsideActs, "loadLost" \notin Faults, "unloadFails" \notin Faults,
         Books, WaitersExact, MarksAnswered(call, unloading, givingBack), Kept,
         HoldingsReferenced, NobodyWaitsForLanded, Traced,
         OneOrphanAtATime, OneOrphanAtATime', [Next]_vars
  PROVE  Traced'
<1> USE DEF Books
<1>1. ASSUME NEW s \in Session, (\E m \in Model : Acquire(s, m)) \/ Release(s)
      PROVE  Traced'
  <2>1. PICK S \in SUBSET Session :
          /\ held' = held \ Orphans(S)
          /\ owned = held => owned' = held' /\ unloading' = unloading \cup Orphans(S)
    BY <1>1, LoopTakesAll
  <2>2. UNCHANGED <<load, loadedHere, resident>>
    BY <1>1 DEF Acquire, Release, loads
  <2> QED
    BY <2>1, <2>2 DEF Traced
<1>2. ASSUME NEW s \in Session, UnloadAnswered(s) PROVE Traced'
  <2>1. /\ UNCHANGED <<held, owned, load>> /\ Answered(call[s].busy)
        /\ unloading' = unloading \ {call[s].busy}
    BY <1>2, LoopEnds DEF UnloadAnswered, loads
  <2>2. call[s].busy \in unloading
    BY <1>2 DEF UnloadAnswered, MarksAnswered, LoopsOf
  <2> QED
    BY <2>1, <2>2, AnswerTraces
<1>3. ASSUME UNCHANGED <<held, owned, load, unloading, loadedHere, resident>> PROVE Traced'
  BY <1>3 DEF Traced
<1>4. ASSUME NEW s \in Session, Proceed(s) PROVE Traced'
  <2> DEFINE m == call[s].model
             o == Surveyed(s)
  <2>1. m \in Model /\ UNCHANGED <<unloading, loadedHere, resident>>
    BY <1>4 DEF Proceed, Looks, TypeOK, CallType, unloads
  <2>2. \/ Blocked(s, m, o) \/ Share(s, m, o) \/ Join(s, m, o)
        \/ JoinLanded(s, m, o) \/ StartLoad(s, m, o)
        \/ Refuse(s, m, o) \/ Preempt(s, m, o)
    BY <1>4 DEF Proceed
  <2>3. InTheWay(m, o) = {} => m \notin unloading
    BY DEF InTheWay
  <2> HIDE DEF m, o
  <2>4. CASE Blocked(s, m, o) \/ Join(s, m, o) \/ Refuse(s, m, o)
    BY <1>3, <2>1, <2>4 DEF Blocked, Join, Refuse, books, loads
  <2>5. CASE Share(s, m, o)
    <3>1. held' = held /\ UNCHANGED <<owned, load>>
      BY <2>5 DEF Share, Takes, loads
    <3> QED
      BY <1>3, <2>1, <3>1
  <2>6. CASE JoinLanded(s, m, o)
    <3>1. /\ held' = held \cup {m} /\ load' = [load EXCEPT ![m] = "none"]
          /\ owned' = IF load[m] = "landed" THEN owned \cup {m} ELSE owned
          /\ load[m] \in {"landed", "adopted"}
      BY <2>6 DEF JoinLanded, Takes
    <3>2. owned' = held'
      BY <2>1, <3>1 DEF Traced
    <3>3. \A k \in Model : load'[k] = IF k = m THEN "none" ELSE load[k]
      BY <3>1 DEF TypeOK
    <3>4. ASSUME NEW k \in Model
          PROVE  /\ resident'[k] \in {Absent, Ours} /\ load'[k] # "adopted"
                 /\ load'[k] \in Under => resident'[k] = Absent
                 /\ resident'[k] = Ours => /\ k \in loadedHere'
                                           /\ k \in held' \cup unloading' \/ load'[k] = "landed"
      <4>1. CASE k = m
        BY <2>1, <3>1, <3>3, <4>1 DEF Traced, Under
      <4>2. CASE k # m
        BY <2>1, <3>1, <3>3, <4>2 DEF Traced
      <4> QED
        BY <4>1, <4>2
    <3> QED
      BY <3>2, <3>4 DEF Traced
  <2>7. CASE StartLoad(s, m, o)
    <3>1. /\ UNCHANGED <<held, owned>> /\ m \notin held /\ m \notin unloading
          /\ load[m] = "none" /\ load' = [load EXCEPT ![m] = "listing"]
      BY <2>3, <2>7 DEF StartLoad, books
    <3>2. resident[m] = Absent
      BY <2>1, <3>1 DEF Traced, TypeOK
    <3>3. \A k \in Model : load'[k] = IF k = m THEN "listing" ELSE load[k]
      BY <3>1 DEF TypeOK
    <3> QED
      BY <2>1, <3>1, <3>2, <3>3 DEF Traced
  <2>8. ~ Preempt(s, m, o)
    BY DEF Preempt, Reclaimable, HoldingsReferenced
  <2> QED
    BY <2>2, <2>4, <2>5, <2>6, <2>7, <2>8
<1>5. ASSUME NEW s \in Session,
             Renew(s) \/ LeaseLapses(s) \/ GiveUp(s) \/ SurveyAnswers(s)
      PROVE  Traced'
  BY <1>3, <1>5 DEF Renew, LeaseLapses, GiveUp, SurveyAnswers, books, loads, unloads
<1>6. ASSUME NEW m \in Model, Task(m) PROVE Traced'
  <2>1. CASE AskLoad(m)
    <3>1. /\ UNCHANGED <<held, owned, unloading, loadedHere, resident>>
          /\ load[m] = "listing" /\ load' = [load EXCEPT ![m] = "loading"]
      BY <2>1 DEF AskLoad, books, unloads
    <3>2. \A k \in Model : load'[k] = IF k = m THEN "loading" ELSE load[k]
      BY <3>1 DEF TypeOK
    <3> QED
      BY <3>1, <3>2 DEF Traced, Under
  <2>2. ~ Adopt(m)
    BY DEF Adopt, Traced, Under
  <2>3. CASE LoadLands(m)
    <3>1. /\ m \in InFlight /\ load[m] \in Under
          /\ resident' = [resident EXCEPT ![m] = Ours] /\ loadedHere' = loadedHere \cup {m}
          /\ Land(m, "landed")
      BY <2>3, OneOursMore DEF LoadLands, InFlight, Under, Traced
    <3>2. m \notin held
      BY <3>1 DEF TablesDisjoint
    <3>3. /\ unloading' = unloading
          /\ held' = IF Waiting(m) = {} THEN held ELSE held \cup {m}
          /\ owned' = IF Waiting(m) # {} THEN owned \cup {m} ELSE owned
          /\ load' = [load EXCEPT ![m] = IF Waiting(m) = {} THEN "landed" ELSE "none"]
      BY <3>1, <3>2 DEF Land
    <3>4. \A k \in Model :
            /\ load'[k] = IF k = m THEN IF Waiting(m) = {} THEN "landed" ELSE "none" ELSE load[k]
            /\ resident'[k] = IF k = m THEN Ours ELSE resident[k]
      BY <3>1, <3>3 DEF TypeOK
    <3>5. owned' = held'
      BY <3>3 DEF Traced
    <3> QED
      BY <3>1, <3>3, <3>4, <3>5 DEF Traced, Under
  <2>4. CASE LoadFails(m)
    <3>1. /\ UNCHANGED <<held, owned, resident, loadedHere>> /\ load[m] \in Under
          /\ load' = [load EXCEPT ![m] = "none"] /\ GiveBackIfAbandoned(m, waiters')
      BY <2>4 DEF LoadFails, books, Under
    <3>2. unloading \subseteq unloading'
      BY <3>1 DEF GiveBackIfAbandoned
    <3>3. \A k \in Model : load'[k] = IF k = m THEN "none" ELSE load[k]
      BY <3>1 DEF TypeOK
    <3> QED
      BY <3>1, <3>2, <3>3 DEF Traced, Under
  <2>5. CASE ForgetLoad(m)
    <3>1. /\ UNCHANGED <<held, owned, resident, loadedHere>>
          /\ load[m] \in {"landed", "adopted"}
          /\ load' = [load EXCEPT ![m] = "none"] /\ GiveBackIfAbandoned(m, waiters)
      BY <2>5 DEF ForgetLoad, books, unloads
    <3>2. waiters[m] = 0
      BY <3>1, FS_EmptySet DEF NobodyWaitsForLanded, WaitersExact
    <3>3. m \notin held /\ m \notin unloading
      BY <3>1 DEF Kept, InFlight, TablesDisjoint
    <3>4. unloading \subseteq unloading' /\ (m \in loadedHere => m \in unloading')
      BY <3>1, <3>2, <3>3 DEF GiveBackIfAbandoned
    <3>5. \A k \in Model : load'[k] = IF k = m THEN "none" ELSE load[k]
      BY <3>1 DEF TypeOK
    <3>6. ASSUME NEW k \in Model
          PROVE  /\ resident'[k] \in {Absent, Ours} /\ load'[k] # "adopted"
                 /\ load'[k] \in Under => resident'[k] = Absent
                 /\ resident'[k] = Ours => /\ k \in loadedHere'
                                           /\ k \in held' \cup unloading' \/ load'[k] = "landed"
      <4>1. CASE k = m
        BY <3>1, <3>4, <3>5, <4>1 DEF Traced, Under
      <4>2. CASE k # m
        BY <3>1, <3>4, <3>5, <4>2 DEF Traced
      <4> QED
        BY <4>1, <4>2
    <3> QED
      BY <3>1, <3>6 DEF Traced
  <2>6. CASE GiveBackAnswered(m)
    BY <2>6, AnswerTraces DEF GiveBackAnswered, MarksAnswered, books, loads
  <2> QED
    BY <1>6, <2>1, <2>2, <2>3, <2>4, <2>5, <2>6 DEF Task
<1>7. ASSUME NEW m \in Model PROVE ~ OutsideLoads(m) /\ ~ OutsideUnloads(m)
  BY DEF OutsideLoads, OutsideUnloads
<1>8. CASE UNCHANGED vars
  BY <1>3, <1>8 DEF vars, books, loads, unloads
<1> QED
  BY <1>1, <1>2, <1>4, <1>5, <1>6, <1>7, <1>8 DEF Next, Client, Runs


\* What holds while the service runs: every model of this manager's own that
\* is in memory is held, is marked mid-unload, or has just landed.
Serving ==
  /\ Books /\ WaitersExact /\ MarksAnswered(call, unloading, givingBack)
  /\ Kept /\ HoldingsReferenced /\ NobodyWaitsForLanded /\ Traced

\* What holds while it stops: no call is left and nothing is held, a mark is
\* a job's or a give-back's, what is in memory awaits an unload whose caller
\* was cut off, or is marked or has just landed and is named by the report,
\* and so is every load under way.
Stopping ==
  /\ \A s \in Session : call[s] = Idle
  /\ held = {} /\ owned = {}
  /\ \A m \in Model : waiters[m] = 0
  /\ unloading = jobs \cup givingBack /\ InFlight \cap unloading = {}
  /\ \A m \in Model :
       /\ resident[m] \in {Absent, Ours} /\ load[m] # "adopted"
       /\ load[m] \in Under => resident[m] = Absent /\ m \in awaited
       /\ load[m] # "none" => m \notin confirmed \cup landed
       /\ resident[m] = Ours /\ m \notin cut =>
            /\ m \in loadedHere
            /\ m \in unloading \/ load[m] = "landed"
            /\ m \in (ours \cup handed) \ (confirmed \cup landed)

ReportInv ==
  /\ stop = "no" => Serving /\ confirmed = {} /\ landed = {}
  /\ stop = "running" => Stopping
  /\ Over => ReportNamesWhatStays /\ OneOfOurs

LEMMA ServingAtFirst == ASSUME Init PROVE Serving
<1>1. TypeOK
  BY IdleTyped DEF Init, TypeOK, LoadStage, Copies, Absent
<1>2. \A s \in Session : call[s].at = "idle"
  BY DEF Init, Idle
<1>3. Books
  BY <1>1 DEF Init, Books, LeasesMatchReferences, TablesDisjoint, InFlight
<1>4. WaitersExact
  <2>1. \A m \in Model : waiters[m] = 0 /\ Waiting(m) = {}
    BY <1>2 DEF Init, Waiting
  <2> QED
    BY <2>1, FS_EmptySet DEF WaitersExact
<1>5. MarksAnswered(call, unloading, givingBack)
  BY <1>2 DEF Init, MarksAnswered, LoopsOf
<1>6. Kept /\ HoldingsReferenced /\ NobodyWaitsForLanded /\ Traced
  BY DEF Init, Kept, InFlight, HoldingsReferenced, NobodyWaitsForLanded, Traced, Under,
         Absent, Ours
<1> QED
  BY <1>3, <1>4, <1>5, <1>6 DEF Serving

LEMMA ServingStep ==
  ASSUME ~ OutsideActs, "loadLost" \notin Faults, "unloadFails" \notin Faults,
         Serving, OneOrphanAtATime, OneOrphanAtATime', [Next]_vars
  PROVE  Serving'
<1>1. Books'
  BY BooksStep DEF Serving
<1>2. WaitersExact' /\ MarksAnswered(call, unloading, givingBack)'
  BY WaitsStep, MarksStep DEF Serving, Books
<1>3. Kept' /\ HoldingsReferenced'
  BY KeptStep, ReferencedStep DEF Serving
<1>4. NobodyWaitsForLanded' /\ Traced'
  BY NobodyWaitsStep, TracedStep DEF Serving, Books
<1> QED
  BY <1>1, <1>2, <1>3, <1>4 DEF Serving

\* The stop takes over what the service left.
LEMMA StopBegins ==
  ASSUME Serving, confirmed = {}, landed = {}, Stop
  PROVE  Stopping'
<1> USE DEF Serving, Books
<1>1. /\ UNCHANGED <<load, givingBack, loadedHere, resident, confirmed, landed>>
      /\ held' = held \cap (unloading \ CutOff) /\ owned' = owned \cap (unloading \ CutOff)
      /\ ours' = owned /\ jobs' = owned \ (unloading \ CutOff)
      /\ unloading' = (unloading \ CutOff) \cup owned
      /\ awaited' = {m \in InFlight : load[m] # "adopted"}
      /\ handed' = givingBack \cup {m \in Model : load[m] = "landed"}
      /\ cut' = CutOff
  BY DEF Stop
<1>2. /\ \A s \in Session : call'[s] = Idle
      /\ \A m \in Model : waiters'[m] = 0
  BY DEF Stop
<1>3. CutOff \subseteq unloading /\ unloading \ CutOff = givingBack
  BY CutIsMarked
<1>4. owned = held /\ held \cap unloading = {} /\ held \subseteq Model
  BY DEF Traced, Kept, TypeOK
<1>5. unloading' = jobs' \cup givingBack' /\ held' = {} /\ owned' = {}
  BY <1>1, <1>3, <1>4
<1>6. InFlight' = InFlight /\ InFlight \cap unloading' = {}
  BY <1>1, <1>4 DEF InFlight, Kept, TablesDisjoint
<1>7. ASSUME NEW m \in Model
      PROVE  /\ resident'[m] \in {Absent, Ours} /\ load'[m] # "adopted"
             /\ load'[m] \in Under => resident'[m] = Absent /\ m \in awaited'
             /\ load'[m] # "none" => m \notin confirmed' \cup landed'
             /\ resident'[m] = Ours /\ m \notin cut' =>
                  /\ m \in loadedHere'
                  /\ m \in unloading' \/ load'[m] = "landed"
                  /\ m \in (ours' \cup handed') \ (confirmed' \cup landed')
  <2>1. load[m] \in Under => m \in awaited'
    BY <1>1 DEF InFlight, Under
  <2>2. resident[m] = Ours /\ m \notin cut' => m \in unloading' \/ load[m] = "landed"
    BY <1>1, <1>4 DEF Traced
  <2>3. m \in unloading' \/ load[m] = "landed" => m \in ours' \cup handed'
    BY <1>1, <1>3
  <2>4. /\ resident[m] \in {Absent, Ours} /\ load[m] # "adopted"
        /\ load[m] \in Under => resident[m] = Absent
        /\ resident[m] = Ours => m \in loadedHere
    BY DEF Traced
  <2>5. confirmed' = {} /\ landed' = {}
    BY <1>1
  <2> QED
    BY <1>1, <2>1, <2>2, <2>3, <2>4, <2>5
<1> QED
  BY <1>2, <1>5, <1>6, <1>7 DEF Stopping

\* An unload that a call cut off had asked for takes effect.
LEMMA CutStep ==
  ASSUME TypeOK, OneOfOurs, NEW m \in Model, CutTakesEffect(m)
  PROVE  /\ OneOfOurs'
         /\ \A k \in Model : resident'[k] = IF k = m THEN Absent ELSE resident[k]
<1>1. resident' = [resident EXCEPT ![m] = Absent]
  BY OneCopyGone DEF OneOfOurs, CutTakesEffect
<1> QED
  BY <1>1 DEF OneOfOurs, TypeOK

LEMMA CutStopping ==
  ASSUME TypeOK, Stopping, NEW m \in Model, CutTakesEffect(m)
  PROVE  Stopping'
<1>1. /\ UNCHANGED <<held, owned, load, waiters, unloading, givingBack, loadedHere, call>>
      /\ UNCHANGED <<jobs, awaited, ours, handed, confirmed, landed>>
      /\ cut' = cut \ {m}
  BY DEF CutTakesEffect, books, loads, unloads
<1>2. \A k \in Model : resident'[k] = IF k = m THEN Absent ELSE resident[k]
  BY CutStep DEF Stopping, OneOfOurs
<1>3. Absent # Ours
  BY DEF Absent, Ours
<1> QED
  BY <1>1, <1>2, <1>3 DEF Stopping, InFlight

\* The report goes on naming what stays.
LEMMA CutReported ==
  ASSUME TypeOK, ReportNamesWhatStays, OneOfOurs, Over, NEW m \in Model, CutTakesEffect(m)
  PROVE  ReportNamesWhatStays' /\ OneOfOurs'
<1>1. /\ UNCHANGED <<stop, load, awaited, ours, handed, confirmed, landed>>
      /\ cut' = cut \ {m}
  BY DEF CutTakesEffect, loads
<1>2. /\ OneOfOurs'
      /\ \A k \in Model : resident'[k] = IF k = m THEN Absent ELSE resident[k]
  BY CutStep
<1>3. \A k \in Model : Here(k)' => Here(k) /\ k # m
  BY <1>2 DEF Here, Absent
<1>4. NotUnloaded' = NotUnloaded /\ StillLoading' = StillLoading
  BY <1>1 DEF NotUnloaded, StillLoading
<1> QED
  BY <1>1, <1>2, <1>3, <1>4 DEF ReportNamesWhatStays, Over

\* A job is answered, or a landed load is come to.
LEMMA JobsStep ==
  ASSUME "unloadFails" \notin Faults, StopTypeOK, StopMarks, stop = "running", Stopping,
         NEW m \in Model, JobAnswered(m) \/ UnloadLanded(m)
  PROVE  Stopping'
<1>0. Absent # Ours
  BY DEF Absent, Ours
<1>1. UNCHANGED <<held, owned, load, waiters, givingBack, call, ours, handed, cut>>
  BY DEF JobAnswered, UnloadLanded, books, loads
<1>2. InFlight' = InFlight
  BY <1>1 DEF InFlight
<1>3. CASE JobAnswered(m)
  <2>1. /\ m \in jobs /\ jobs' = jobs \ {m} /\ unloading' = unloading \ {m}
        /\ confirmed' \cup landed' \subseteq confirmed \cup landed \cup {m}
        /\ awaited' = awaited
    BY <1>3 DEF JobAnswered
  <2>2. /\ resident' = [resident EXCEPT ![m] = Absent]
        /\ \A k \in Model \ {m} : k \in loadedHere' <=> k \in loadedHere
    BY <1>3, AnsweredGone DEF JobAnswered, StopTypeOK, Stopping
  <2>3. \A k \in Model : resident'[k] = IF k = m THEN Absent ELSE resident[k]
    BY <2>2 DEF StopTypeOK, TypeOK
  <2>4. m \notin givingBack /\ m \notin InFlight
    BY <2>1 DEF StopMarks, Stopping
  <2>5. unloading' = jobs' \cup givingBack'
    BY <1>1, <2>1, <2>4 DEF Stopping
  <2>6. load[m] = "none"
    BY <2>4 DEF InFlight
  <2>7. ASSUME NEW k \in Model
        PROVE  /\ resident'[k] \in {Absent, Ours} /\ load'[k] # "adopted"
               /\ load'[k] \in Under => resident'[k] = Absent /\ k \in awaited'
               /\ load'[k] # "none" => k \notin confirmed' \cup landed'
               /\ resident'[k] = Ours /\ k \notin cut' =>
                    /\ k \in loadedHere'
                    /\ k \in unloading' \/ load'[k] = "landed"
                    /\ k \in (ours' \cup handed') \ (confirmed' \cup landed')
    <3>1. CASE k = m
      BY <1>0, <1>1, <2>3, <2>6, <3>1 DEF Stopping, Under
    <3>2. CASE k # m
      BY <1>1, <2>1, <2>2, <2>3, <3>2 DEF Stopping
    <3> QED
      BY <3>1, <3>2
  <2> QED
    BY <1>1, <1>2, <2>1, <2>5, <2>7 DEF Stopping
<1>4. CASE UnloadLanded(m)
  <2>1. /\ UNCHANGED <<resident, loadedHere, confirmed>> /\ InFlight = {} /\ givingBack = {}
        /\ IF m \in loadedHere
             THEN jobs' = jobs \cup {m} /\ unloading' = unloading \cup {m} /\ UNCHANGED landed
             ELSE landed' = landed \cup {m} /\ UNCHANGED <<jobs, unloading>>
    BY <1>4 DEF UnloadLanded
  <2>2. \A k \in Model : load[k] = "none"
    BY <2>1 DEF InFlight
  <2>3. unloading' = jobs' \cup givingBack' /\ InFlight' \cap unloading' = {}
    BY <1>1, <1>2, <2>1 DEF Stopping
  <2>4. unloading \subseteq unloading'
    BY <2>1
  <2>5. \A k \in Model : resident[k] = Ours /\ k \notin cut /\ k \in landed' => k \in landed
    BY <2>1 DEF Stopping
  <2>6. ASSUME NEW k \in Model
        PROVE  /\ resident'[k] \in {Absent, Ours} /\ load'[k] # "adopted"
               /\ load'[k] \in Under => resident'[k] = Absent /\ k \in awaited'
               /\ load'[k] # "none" => k \notin confirmed' \cup landed'
               /\ resident'[k] = Ours /\ k \notin cut' =>
                    /\ k \in loadedHere'
                    /\ k \in unloading' \/ load'[k] = "landed"
                    /\ k \in (ours' \cup handed') \ (confirmed' \cup landed')
    BY <1>1, <2>1, <2>2, <2>4, <2>5 DEF Stopping, Under
  <2> QED
    BY <1>1, <2>3, <2>6 DEF Stopping
<1> QED
  BY <1>3, <1>4

\* A load or a give-back runs on.
LEMMA TaskStopping ==
  ASSUME "loadLost" \notin Faults, "unloadFails" \notin Faults,
         StopTypeOK, StopMarks, stop = "running", Stopping,
         NEW m \in Model, TaskWhileStopping(m)
  PROVE  Stopping'
<1> USE DEF StopTypeOK
<1> DEFINE Named(k) ==
      /\ resident'[k] \in {Absent, Ours} /\ load'[k] # "adopted"
      /\ load'[k] \in Under => resident'[k] = Absent /\ k \in awaited'
      /\ load'[k] # "none" => k \notin confirmed' \cup landed'
      /\ resident'[k] = Ours /\ k \notin cut' =>
           /\ k \in loadedHere'
           /\ k \in unloading' \/ load'[k] = "landed"
           /\ k \in (ours' \cup handed') \ (confirmed' \cup landed')
<1>0. Absent # Ours
  BY DEF Absent, Ours
<1>1. /\ UNCHANGED <<jobs, ours, confirmed, cut>> /\ Task(m)
      /\ awaited' = IF load[m] \in Under /\ load'[m] \in {"none", "adopted"}
                      THEN awaited \ {m} ELSE awaited
      /\ handed' = IF load'[m] = "landed" THEN handed \cup {m} ELSE handed
      /\ landed' = IF m \in givingBack \ givingBack' /\ m \notin loadedHere'
                     THEN landed \cup {m} ELSE landed
  BY DEF TaskWhileStopping
<1>2. Waiting(m) = {} /\ \A s \in Session : call[s].at = "idle"
  BY DEF Stopping, Waiting, Idle
<1>3. CASE AskLoad(m)
  <2>1. /\ UNCHANGED <<held, owned, waiters, unloading, givingBack, loadedHere, resident, call>>
        /\ load[m] = "listing" /\ load' = [load EXCEPT ![m] = "loading"]
    BY <1>3 DEF AskLoad, books, unloads
  <2>2. \A k \in Model : load'[k] = IF k = m THEN "loading" ELSE load[k]
    BY <2>1 DEF TypeOK
  <2>3. InFlight' = InFlight
    BY <2>1, <2>2 DEF InFlight
  <2>4. awaited' = awaited /\ handed' = handed /\ landed' = landed
    BY <1>1, <2>1, <2>2
  <2>5. \A k \in Model : Named(k)
    BY <1>1, <2>1, <2>2, <2>4 DEF Stopping, Under
  <2> QED
    BY <1>1, <2>1, <2>3, <2>5 DEF Stopping
<1>4. ~ Adopt(m)
  BY DEF Adopt, Stopping, Under
<1>5. CASE LoadLands(m)
  <2>1. /\ load[m] \in Under
        /\ resident' = [resident EXCEPT ![m] = Ours] /\ loadedHere' = loadedHere \cup {m}
        /\ Land(m, "landed")
    BY <1>5, OneOursMore DEF LoadLands, Under, Stopping
  <2>2. /\ UNCHANGED <<held, owned, unloading, givingBack>>
        /\ load' = [load EXCEPT ![m] = "landed"] /\ waiters' = [waiters EXCEPT ![m] = 0]
        /\ \A s \in Session : call'[s] = call[s]
    BY <1>2, <2>1 DEF Land
  <2>3. \A k \in Model : /\ load'[k] = IF k = m THEN "landed" ELSE load[k]
                         /\ resident'[k] = IF k = m THEN Ours ELSE resident[k]
                         /\ waiters'[k] = IF k = m THEN 0 ELSE waiters[k]
    BY <2>1, <2>2 DEF TypeOK
  <2>4. InFlight' = InFlight
    BY <2>1, <2>3 DEF InFlight, Under
  <2>5. awaited' = awaited /\ handed' = handed \cup {m} /\ landed' = landed
    BY <1>1, <2>2, <2>3
  <2>6. \A k \in Model : Named(k)
    BY <1>1, <2>1, <2>2, <2>3, <2>5 DEF Stopping, Under
  <2> QED
    BY <1>1, <2>2, <2>3, <2>4, <2>6 DEF Stopping
<1>6. CASE LoadFails(m) \/ ForgetLoad(m)
  <2>1. /\ UNCHANGED <<held, owned, resident, loadedHere>> /\ load[m] # "none"
        /\ load' = [load EXCEPT ![m] = "none"] /\ GiveBackIfAbandoned(m, waiters')
        /\ \A k \in Model : waiters'[k] = 0
        /\ \A s \in Session : call'[s] = call[s]
    BY <1>2, <1>6 DEF LoadFails, ForgetLoad, books, unloads, Stopping, TypeOK
  <2>2. m \notin unloading /\ m \notin held
    BY <2>1 DEF Stopping, InFlight
  <2>3. /\ unloading' = IF m \in loadedHere THEN unloading \cup {m} ELSE unloading
        /\ givingBack' = IF m \in loadedHere THEN givingBack \cup {m} ELSE givingBack
    BY <2>1, <2>2 DEF GiveBackIfAbandoned
  <2>4. \A k \in Model : load'[k] = IF k = m THEN "none" ELSE load[k]
    BY <2>1 DEF TypeOK
  <2>5. handed' = handed /\ landed' = landed /\ awaited \ {m} \subseteq awaited'
    BY <1>1, <2>3, <2>4
  <2>6. unloading' = jobs' \cup givingBack' /\ InFlight' \cap unloading' = {}
    BY <1>1, <2>3, <2>4 DEF Stopping, InFlight
  <2>7. \A k \in Model : Named(k)
    BY <1>1, <2>1, <2>3, <2>4, <2>5 DEF Stopping, Under
  <2> QED
    BY <2>1, <2>6, <2>7 DEF Stopping
<1>7. CASE GiveBackAnswered(m)
  <2>1. /\ UNCHANGED <<held, owned, load, waiters>> /\ m \in givingBack /\ Answered(m)
        /\ unloading' = unloading \ {m} /\ givingBack' = givingBack \ {m}
        /\ call' = Woken(m)
    BY <1>7 DEF GiveBackAnswered, books, loads
  <2>2. /\ resident' = [resident EXCEPT ![m] = Absent]
        /\ \A k \in Model \ {m} : k \in loadedHere' <=> k \in loadedHere
    BY <2>1, AnsweredGone DEF Stopping
  <2>3. \A k \in Model : resident'[k] = IF k = m THEN Absent ELSE resident[k]
    BY <2>2 DEF TypeOK
  <2>4. \A s \in Session : call'[s] = call[s]
    BY <1>2, <2>1 DEF Woken
  <2>5. m \notin jobs /\ load[m] = "none"
    BY <2>1 DEF StopMarks, Stopping, InFlight
  <2>6. awaited' = awaited /\ handed' = handed /\ landed' \subseteq landed \cup {m}
    BY <1>1, <2>1, <2>5 DEF Under
  <2>7. unloading' = jobs' \cup givingBack' /\ InFlight' = InFlight
    BY <1>1, <2>1, <2>5 DEF Stopping, InFlight
  <2>8. ASSUME NEW k \in Model PROVE Named(k)
    <3>1. CASE k = m
      BY <1>0, <1>1, <2>1, <2>3, <2>5, <3>1 DEF Under
    <3>2. CASE k # m
      BY <1>1, <2>1, <2>2, <2>3, <2>6, <3>2 DEF Stopping
    <3> QED
      BY <3>1, <3>2
  <2> QED
    BY <2>1, <2>4, <2>7, <2>8 DEF Stopping
<1> QED
  BY <1>1, <1>3, <1>4, <1>5, <1>6, <1>7 DEF Task

LEMMA ReportStep ==
  ASSUME ~ OutsideActs, "loadLost" \notin Faults, "unloadFails" \notin Faults,
         StopTypeOK, StopMarks, ReportInv, OneOrphanAtATime, OneOrphanAtATime',
         [StopNext]_allVars
  PROVE  ReportInv'
<1>1. CASE ServiceRuns
  <2>1. stop = "no" /\ [Next]_vars /\ UNCHANGED <<stop, confirmed, landed>>
    BY <1>1 DEF ServiceRuns, stopVars
  <2>2. Serving'
    BY <2>1, ServingStep DEF ReportInv
  <2> QED
    BY <2>1, <2>2 DEF ReportInv, Over
<1>2. CASE Stop
  <2>1. Stopping' /\ stop' = "running"
    BY <1>2, StopBegins DEF ReportInv, Stop
  <2> QED
    BY <2>1 DEF ReportInv, Over
<1>3. CASE Settled
  <2>1. /\ stop = "running" /\ stop' = "done" /\ AllSettled
        /\ UNCHANGED <<resident, load, unloading, cut>>
    BY <1>3 DEF Settled, vars, loads, unloads
  <2>2. Stopping /\ unloading = {}
    BY <2>1 DEF ReportInv, AllSettled, Stopping
  <2>3. \A m \in Model : /\ resident[m] \in {Absent, Ours} /\ load[m] = "none"
                         /\ resident[m] = Ours => m \in cut
    BY <2>1, <2>2 DEF AllSettled, Stopping, InFlight
  <2>4. \A m \in Model : Here(m)' => m \in cut'
    BY <2>1, <2>3 DEF Here, Absent
  <2>5. ReportNamesWhatStays' /\ OneOfOurs'
    BY <2>1, <2>3, <2>4 DEF ReportNamesWhatStays, OneOfOurs, Under
  <2> QED
    BY <2>1, <2>5 DEF ReportInv
<1>4. CASE OutOfTime
  <2>1. /\ stop = "running" /\ stop' = "outOfTime" /\ Stopping
        /\ UNCHANGED <<resident, load, ours, handed, confirmed, awaited, cut>>
    BY <1>4 DEF OutOfTime, ReportInv, loads
  <2>2. \A m \in Model :
          /\ resident[m] \in {Absent, Ours}
          /\ resident[m] = Ours => m \in ((ours \cup handed) \ confirmed) \cup cut
          /\ load[m] \in Under => m \in awaited
    BY <2>1 DEF Stopping
  <2>3. \A m \in Model : Here(m)' => resident[m] = Ours
    BY <2>1, <2>2 DEF Here, Absent
  <2>4. ReportNamesWhatStays' /\ OneOfOurs'
    BY <2>1, <2>2, <2>3 DEF ReportNamesWhatStays, OneOfOurs, NotUnloaded, StillLoading
  <2> QED
    BY <2>1, <2>4 DEF ReportInv
<1>5. ASSUME NEW m \in Model, JobAnswered(m) \/ UnloadLanded(m) \/ TaskWhileStopping(m)
      PROVE  ReportInv'
  <2>1. stop = "running" /\ stop' = "running"
    BY <1>5 DEF JobAnswered, UnloadLanded, TaskWhileStopping
  <2>2. Stopping'
    BY <1>5, <2>1, JobsStep, TaskStopping DEF ReportInv
  <2> QED
    BY <2>1, <2>2 DEF ReportInv, Over
<1>6. CASE UNCHANGED allVars
  <2>1. UNCHANGED vars /\ UNCHANGED stopVars
    BY <1>6 DEF allVars
  <2>2. stop = "no" => Serving'
    BY <2>1, ServingStep DEF ReportInv
  <2>3. stop = "running" => Stopping'
    BY <2>1 DEF ReportInv, Stopping, vars, stopVars, books, loads, unloads, InFlight
  <2>4. Over => ReportNamesWhatStays' /\ OneOfOurs'
    BY <2>1 DEF ReportInv, ReportNamesWhatStays, OneOfOurs, Over, NotUnloaded, StillLoading,
                Here, vars, stopVars, loads
  <2> QED
    BY <2>1, <2>2, <2>3, <2>4 DEF ReportInv, Over, stopVars
<1>7. ASSUME NEW m \in Model, CutTakesEffect(m) PROVE ReportInv'
  <2>1. stop # "no" /\ stop' = stop /\ TypeOK
    BY <1>7 DEF CutTakesEffect, StopTypeOK
  <2>2. stop = "running" => Stopping'
    BY <1>7, <2>1, CutStopping DEF ReportInv
  <2>3. Over => ReportNamesWhatStays' /\ OneOfOurs'
    BY <1>7, <2>1, CutReported DEF ReportInv
  <2> QED
    BY <2>1, <2>2, <2>3 DEF ReportInv, Over
<1> QED
  BY <1>1, <1>2, <1>3, <1>4, <1>5, <1>6, <1>7 DEF StopNext

LEMMA StopAtFirst == ASSUME StopInit PROVE StopTypeOK /\ StopMarks /\ ReportInv
<1>1. TypeOK
  BY IdleTyped DEF StopInit, Init, TypeOK, LoadStage, Copies, Absent
<1>2. Serving
  BY ServingAtFirst DEF StopInit
<1>3. StopTypeOK /\ StopMarks
  BY <1>1, <1>2 DEF StopInit, StopTypeOK, StopMarks, Serving
<1> QED
  BY <1>2, <1>3 DEF StopInit, ReportInv, Over

\* "The report names what was not confirmed" and "Stopping unloads what
\* SIRVIS loaded" (ReportNamesWhatStays, release_on_stop): when a stop ends,
\* whatever this manager loaded and is still in memory is named, so is every
\* load that may still land, and a stop that had the time leaves nothing,
\* but for an unload a release or an expiry had asked for when it was cut off.
\* Nobody else loads; a load that fails has loaded nothing and an unload
\* that raises has unloaded; loops have one orphan at a time.
THEOREM ReportAlwaysNamesWhatStays ==
  ASSUME ~ OutsideActs, "loadLost" \notin Faults, "unloadFails" \notin Faults
  PROVE  StopSpec /\ []OneOrphanAtATime => []ReportNamesWhatStays
<1>1. StopInit => StopTypeOK /\ StopMarks /\ ReportInv
  BY StopAtFirst
<1>2. StopTypeOK /\ StopMarks /\ ReportInv /\ OneOrphanAtATime /\ OneOrphanAtATime'
        /\ [StopNext]_allVars => (StopTypeOK /\ StopMarks /\ ReportInv)'
  <2> SUFFICES ASSUME StopTypeOK, StopMarks, ReportInv, OneOrphanAtATime, OneOrphanAtATime',
                      [StopNext]_allVars
               PROVE  StopTypeOK' /\ StopMarks' /\ ReportInv'
    OBVIOUS
  <2>1. StopTypeOK' /\ StopMarks'
    BY StopTypeStep, StopMarksStep
  <2>2. ReportInv'
    BY ReportStep
  <2> QED
    BY <2>1, <2>2
<1>3. ReportInv => ReportNamesWhatStays
  BY DEF ReportInv, ReportNamesWhatStays
<1> QED
  BY <1>1, <1>2, <1>3, PTL DEF StopSpec


-----------------------------------------------------------------------------
(* When loops have one orphan at a time: sessions that name one model each *)
(* and leases that are released, or renewed in time, never orphan two at   *)
(* once.                                                                   *)

\* The models a session has to do with: those its lease names, and the one
\* its acquire is for.
Naming(s) == leased[s] \cup (IF call[s].at \in {"idle", "release"} THEN {} ELSE {call[s].model})

NamesOne ==
  /\ OneOrphanAtATime
  /\ \A s \in Session : /\ lease[s] # "lapsed"
                        /\ \A m, k \in Naming(s) : m = k

\* A pass over at most one orphan leaves none for later.
LEMMA PassOfOne ==
  ASSUME NEW T \in SUBSET Model, \A m, k \in T : m = k, NEW r, NEW marks,
         NEW p \in UnloadPasses(T, r, marks)
  PROVE  p.todo = {}
<1>1. CASE p = LastPass(T, r, marks)
  BY <1>1 DEF LastPass
<1>2. ASSUME NEW m \in Asked(T, r, marks), NEW P, p = PassTo(m, P, T, r, marks)
      PROVE  p.todo = {}
  BY <1>2 DEF PassTo, Asked
<1> QED
  BY <1>1, <1>2 DEF UnloadPasses

LEMMA PassOfNone ==
  ASSUME NEW r, NEW marks, NEW p \in UnloadPasses({}, r, marks)
  PROVE  p.busy = NoModel
BY DEF UnloadPasses, Asked, LastPass

\* No step makes a session name a second model.
LEMMA NamesOneStep ==
  ASSUME MaxPerSession = 1, ~ LeasesLapse, TypeOK, NamesOne, [Next]_vars
  PROVE  NamesOne'
<1>0. /\ Idle.at = "idle" /\ Idle.todo = {}
      /\ \A at, m : /\ [Idle EXCEPT !.at = at, !.model = m].at = at
                    /\ [Idle EXCEPT !.at = at, !.model = m].model = m
                    /\ [Idle EXCEPT !.at = at, !.model = m].todo = {}
  BY DEF Idle
\* Calls that move on without changing what they are for.
<1>1. ASSUME \A x \in Session :
               /\ lease'[x] # "lapsed" /\ call'[x].todo = {}
               /\ \/ Naming(x)' \subseteq Naming(x)
                  \/ \A m, k \in Naming(x)' : m = k
      PROVE  NamesOne'
  <2>1. \A x \in Session : \A m, k \in Naming(x)' : m = k
    BY <1>1 DEF NamesOne
  <2> QED
    BY <1>1, <2>1 DEF NamesOne, OneOrphanAtATime
<1>2. \A x \in Session : lease[x] # "lapsed" /\ call[x].todo = {}
  BY DEF NamesOne, OneOrphanAtATime
<1>3. ASSUME NEW s \in Session, NEW y, y.todo = {}, call' = [call EXCEPT ![s] = y],
             UNCHANGED <<lease, leased>>,
             leased[s] \cup (IF y.at \in {"idle", "release"} THEN {} ELSE {y.model})
               \subseteq Naming(s)
      PROVE  NamesOne'
  <2>1. \A x \in Session : call'[x] = IF x = s THEN y ELSE call[x]
    BY <1>3 DEF TypeOK
  <2>2. \A x \in Session : Naming(x)' \subseteq Naming(x)
    BY <1>3, <2>1 DEF Naming
  <2> QED
    BY <1>1, <1>2, <1>3, <2>1, <2>2
<1>4. ASSUME NEW s \in Session, NEW m \in Model, Acquire(s, m) PROVE NamesOne'
  <2> DEFINE start(at) == [Idle EXCEPT !.at = at, !.model = m]
  <2>1. {x \in Session : lease[x] = "lapsed"} = {} /\ Orphans({}) = {}
    BY <1>2 DEF Orphans
  <2>2. PICK p \in UnloadPasses({}, Dropped({}), unloading) :
          call' = [[call EXCEPT ![s] = start("expire")] EXCEPT
                     ![s] = IF p.busy = NoModel THEN start("survey")
                            ELSE [@ EXCEPT !.busy = p.busy, !.todo = p.todo]]
    BY <1>4, <2>1 DEF Acquire, UnloadAll
  <2>3. p.busy = NoModel
    BY <2>2, PassOfNone
  <2>4. \A x \in Session : call'[x] = IF x = s THEN start("survey") ELSE call[x]
    BY <2>2, <2>3 DEF TypeOK
  <2>5. \A x \in Session : lease'[x] = lease[x] /\ leased'[x] = leased[x]
    BY <1>2, <1>4 DEF Acquire
  <2>6. start("survey").at = "survey" /\ start("survey").model = m /\ start("survey").todo = {}
    BY <1>0
  <2> HIDE DEF start
  <2>7. \A k \in leased[s] \cup {m} : k = m
    <3> SUFFICES ASSUME NEW k \in leased[s], k # m PROVE FALSE
      OBVIOUS
    <3> DEFINE L == leased[s] \cup {m}
    <3>1. IsFiniteSet(L) /\ {k, m} \subseteq L
      BY ManagerAssumption, FS_Subset DEF TypeOK
    <3>2. Cardinality({k, m}) = 2
      <4>1. IsFiniteSet({k}) /\ Cardinality({k}) = 1
        BY FS_Singleton
      <4>2. Cardinality({k} \cup {m}) = Cardinality({k}) + 1
        BY <4>1, FS_AddElement
      <4>3. {k} \cup {m} = {k, m}
        OBVIOUS
      <4> QED
        BY <4>1, <4>2, <4>3
    <3>3. Cardinality({k, m}) <= Cardinality(L) /\ Cardinality(L) \in Nat
      BY <3>1, FS_Subset, FS_CardinalityType
    <3>4. Cardinality(L) <= 1
      BY <1>4 DEF Acquire
    <3> HIDE DEF L
    <3> QED
      BY <3>2, <3>3, <3>4
  <2>8. Naming(s)' = leased[s] \cup {m}
    BY <2>4, <2>5, <2>6 DEF Naming
  <2>9. \A x \in Session \ {s} : Naming(x)' = Naming(x)
    BY <2>4, <2>5 DEF Naming
  <2> QED
    BY <1>1, <1>2, <2>4, <2>5, <2>6, <2>7, <2>8, <2>9
<1>5. ASSUME NEW s \in Session, Release(s) PROVE NamesOne'
  <2> DEFINE c == [call EXCEPT ![s] = [Idle EXCEPT !.at = "release"]]
  <2>1. Orphans({s}) \in SUBSET Model /\ \A m, k \in Orphans({s}) : m = k
    BY DEF Orphans, NamesOne, Naming, TypeOK
  <2>2. PICK p \in UnloadPasses(Orphans({s}), Dropped({s}), unloading) :
          call' = [c EXCEPT ![s] = IF p.busy = NoModel THEN Idle
                                   ELSE [@ EXCEPT !.busy = p.busy, !.todo = p.todo]]
    BY <1>5 DEF Release, UnloadAll
  <2>3. p.todo = {}
    BY <2>1, <2>2, PassOfOne
  <2>4. c \in [Session -> CallType] /\ c[s].at = "release"
    BY <1>0, ReleaseTyped DEF TypeOK, Idle
  <2>5. \A x \in Session \ {s} : c[x] = call[x]
    BY DEF TypeOK
  <2> HIDE DEF c
  <2>6. /\ [c[s] EXCEPT !.busy = p.busy, !.todo = p.todo].todo = {}
        /\ [c[s] EXCEPT !.busy = p.busy, !.todo = p.todo].at = "release"
    BY <2>3, <2>4 DEF CallType
  <2>7. /\ call'[s].todo = {} /\ call'[s].at \in {"idle", "release"}
        /\ \A x \in Session \ {s} : call'[x] = call[x]
    BY <1>0, <2>2, <2>4, <2>5, <2>6
  <2>8. /\ leased' = [leased EXCEPT ![s] = {}] /\ lease' = [lease EXCEPT ![s] = "none"]
    BY <1>5 DEF Release
  <2>9. \A x \in Session : Naming(x)' \subseteq Naming(x)
    BY <2>7, <2>8 DEF Naming, TypeOK
  <2> QED
    BY <1>1, <1>2, <2>7, <2>8, <2>9 DEF TypeOK
<1>6. ASSUME NEW s \in Session, GiveUp(s) PROVE NamesOne'
  BY <1>0, <1>3, <1>6 DEF GiveUp, books, Naming
<1>7. ASSUME NEW s \in Session, SurveyAnswers(s) PROVE NamesOne'
  <2>1. PICK seen : call' = [call EXCEPT ![s].at = "surveyed", ![s].seen = seen]
    BY <1>7 DEF SurveyAnswers
  <2> DEFINE y == [call[s] EXCEPT !.at = "surveyed", !.seen = seen]
  <2>2. /\ y.todo = call[s].todo /\ y.model = call[s].model /\ y.at = "surveyed"
        /\ call' = [call EXCEPT ![s] = y]
    BY <2>1 DEF TypeOK, CallType
  <2>3. call[s].at = "survey" /\ UNCHANGED <<lease, leased>>
    BY <1>7 DEF SurveyAnswers, books
  <2> HIDE DEF y
  <2> QED
    BY <1>2, <1>3, <2>2, <2>3 DEF Naming
<1>8. ASSUME NEW s \in Session, Proceed(s) PROVE NamesOne'
  <2> DEFINE m == call[s].model
             o == Surveyed(s)
  <2>1. m \in Model /\ m \in Naming(s)
    BY <1>8 DEF Proceed, Looks, TypeOK, CallType, Naming
  <2>2. \/ Blocked(s, m, o) \/ Share(s, m, o) \/ Join(s, m, o)
        \/ JoinLanded(s, m, o) \/ StartLoad(s, m, o)
        \/ Refuse(s, m, o) \/ Preempt(s, m, o)
    BY <1>8 DEF Proceed
  <2>3. leased[s] \cup {m} \subseteq Naming(s)
    BY <2>1 DEF Naming
  <2> HIDE DEF m, o
  <2>4. CASE Blocked(s, m, o)
    <3>1. PICK k \in InTheWay(m, o) : call' =
            [call EXCEPT ![s] = [Idle EXCEPT !.at = "blocked", !.model = m, !.busy = k]]
      BY <2>4 DEF Blocked
    <3> DEFINE y == [Idle EXCEPT !.at = "blocked", !.model = m, !.busy = k]
    <3>2. y.todo = {} /\ y.model = m
      BY DEF Idle
    <3> HIDE DEF y
    <3>3. leased[s] \cup (IF y.at \in {"idle", "release"} THEN {} ELSE {y.model}) \subseteq Naming(s)
      BY <2>3, <3>2
    <3>4. call' = [call EXCEPT ![s] = y]
      BY <3>1 DEF y
    <3> QED
      BY <1>3, <2>4, <3>2, <3>3, <3>4 DEF Blocked, books
  <2>5. CASE Refuse(s, m, o)
    BY <1>0, <1>3, <2>3, <2>5 DEF Refuse, books
  <2>6. CASE Takes(s, m)
    <3>1. \A x \in Session : /\ call'[x] = IF x = s THEN Idle ELSE call[x]
                             /\ leased'[x] = IF x = s THEN leased[x] \cup {m} ELSE leased[x]
                             /\ lease'[x] = IF x = s THEN "live" ELSE lease[x]
      BY <2>6 DEF Takes, TypeOK
    <3>2. \A x \in Session : Naming(x)' \subseteq Naming(x)
      BY <1>0, <2>3, <3>1 DEF Naming
    <3> QED
      BY <1>0, <1>1, <1>2, <3>1, <3>2
  <2>7. CASE Waits(s, m) /\ UNCHANGED <<lease, leased>>
    <3> DEFINE y == [Idle EXCEPT !.at = "load", !.model = m]
    <3>1. y.todo = {} /\ y.model = m /\ call' = [call EXCEPT ![s] = y]
      BY <1>0, <2>7 DEF Waits
    <3> HIDE DEF y
    <3> QED
      BY <1>3, <2>3, <2>7, <3>1
  <2> QED
    BY <2>2, <2>4, <2>5, <2>6, <2>7 DEF Share, Join, JoinLanded, StartLoad, Preempt, books
\* Whoever waits for the unload of m wakes, for the model it came for.
<1>9. ASSUME NEW m, NEW x \in Session
      PROVE  /\ Woken(m)[x].todo = {}
             /\ (IF Woken(m)[x].at \in {"idle", "release"} THEN {} ELSE {Woken(m)[x].model})
                  = (IF call[x].at \in {"idle", "release"} THEN {} ELSE {call[x].model})
  BY <1>0, <1>2 DEF Woken
<1>10. ASSUME NEW s \in Session, UnloadAnswered(s) PROVE NamesOne'
  <2> DEFINE c == Woken(call[s].busy)
  <2>1. PICK p \in UnloadPasses({}, refs, unloading \ {call[s].busy}) :
          call' = [c EXCEPT ![s] = IF p.busy = NoModel THEN Then(s)
                                   ELSE [@ EXCEPT !.busy = p.busy, !.todo = p.todo]]
    BY <1>2, <1>10 DEF UnloadAnswered, UnloadAll
  <2>2. p.busy = NoModel /\ c \in [Session -> CallType]
    BY <2>1, PassOfNone, WokenTyped
  <2>3. \A x \in Session : call'[x] = IF x = s THEN Then(s) ELSE c[x]
    BY <2>1, <2>2
  <2>4. /\ call[s].at \in {"expire", "release"} /\ UNCHANGED <<lease, leased>>
    BY <1>10 DEF UnloadAnswered
  <2>5. Then(s).todo = {} /\ (Then(s).at = "idle" \/ (Then(s).model = call[s].model /\ call[s].at = "expire"))
    BY <1>0 DEF Then
  <2>6. Naming(s)' \subseteq Naming(s)
    BY <2>3, <2>4, <2>5 DEF Naming
  <2>7. ASSUME NEW x \in Session \ {s} PROVE Naming(x)' = Naming(x) /\ call'[x].todo = {}
    <3> DEFINE w == Woken(call[s].busy)[x]
               what(r) == IF r.at \in {"idle", "release"} THEN {} ELSE {r.model}
    <3>1. call'[x] = w /\ leased'[x] = leased[x]
      BY <2>3, <2>4
    <3>2. w.todo = {} /\ what(w) = what(call[x])
      BY <1>9
    <3>3. Naming(x) = leased[x] \cup what(call[x]) /\ Naming(x)' = leased'[x] \cup what(call'[x])
      BY DEF Naming
    <3> HIDE DEF w, what
    <3> QED
      BY <3>1, <3>2, <3>3
  <2> QED
    BY <1>1, <1>2, <2>3, <2>4, <2>5, <2>6, <2>7
<1>11. ASSUME UNCHANGED <<lease, leased, call>> PROVE NamesOne'
  BY <1>1, <1>2, <1>11 DEF Naming
<1>12. ASSUME NEW m \in Model, NEW stage, Land(m, stage) PROVE NamesOne'
  <2>1. \A x \in Session :
          /\ call'[x] = IF x \in Waiting(m) THEN Idle ELSE call[x]
          /\ leased'[x] = IF x \in Waiting(m) THEN leased[x] \cup {m} ELSE leased[x]
          /\ lease'[x] = IF x \in Waiting(m) THEN "live" ELSE lease[x]
    BY <1>12 DEF Land
  <2>2. ASSUME NEW x \in Session PROVE Naming(x)' \subseteq Naming(x)
    <3>1. CASE x \in Waiting(m)
      <4>1. Naming(x) = leased[x] \cup {m}
        BY <3>1 DEF Waiting, Naming
      <4>2. Naming(x)' = leased[x] \cup {m}
        BY <1>0, <2>1, <3>1 DEF Naming
      <4> QED
        BY <4>1, <4>2
    <3>2. CASE x \notin Waiting(m)
      BY <2>1, <3>2 DEF Naming
    <3> QED
      BY <3>1, <3>2
  <2> QED
    BY <1>0, <1>1, <1>2, <2>1, <2>2
<1>13. ASSUME NEW m \in Model, Task(m) PROVE NamesOne'
  <2>1. CASE AskLoad(m) \/ ForgetLoad(m)
    BY <1>11, <2>1 DEF AskLoad, ForgetLoad, books
  <2>2. CASE Adopt(m) \/ LoadLands(m)
    BY <1>12, <2>2 DEF Adopt, LoadLands
  <2>3. CASE LoadFails(m)
    <3>1. \A x \in Session :
            call'[x] = IF x \in Waiting(m) THEN Idle ELSE call[x]
      BY <2>3 DEF LoadFails
    <3>2. UNCHANGED <<lease, leased>>
      BY <2>3 DEF LoadFails, books
    <3>3. \A x \in Session : Naming(x)' \subseteq Naming(x)
      BY <1>0, <3>1, <3>2 DEF Naming
    <3> QED
      BY <1>0, <1>1, <1>2, <3>1, <3>2, <3>3
  <2>4. CASE GiveBackAnswered(m)
    <3>1. call' = Woken(m) /\ UNCHANGED <<lease, leased>>
      BY <2>4 DEF GiveBackAnswered, books
    <3>2. \A x \in Session : Naming(x)' = Naming(x) /\ call'[x].todo = {}
      BY <1>9, <3>1 DEF Naming
    <3> QED
      BY <1>1, <1>2, <3>1, <3>2
  <2> QED
    BY <1>13, <2>1, <2>2, <2>3, <2>4 DEF Task
<1>14. ASSUME NEW s \in Session PROVE ~ Renew(s) /\ ~ LeaseLapses(s)
  BY <1>2 DEF Renew, LeaseLapses
<1>15. ASSUME NEW m \in Model, OutsideLoads(m) \/ OutsideUnloads(m) PROVE NamesOne'
  BY <1>11, <1>15 DEF OutsideLoads, OutsideUnloads, books
<1>16. CASE UNCHANGED vars
  BY <1>11, <1>16 DEF vars, books
<1> QED
  BY <1>4, <1>5, <1>6, <1>7, <1>8, <1>10, <1>13, <1>14, <1>15, <1>16 DEF Next, Client, Runs

LEMMA NamesOneAtFirst == Init => NamesOne
<1> SUFFICES ASSUME Init PROVE NamesOne
  OBVIOUS
<1>1. \A s \in Session : call[s].at = "idle" /\ call[s].todo = {}
  BY DEF Init, Idle
<1> QED
  BY <1>1 DEF Init, NamesOne, OneOrphanAtATime, Naming

\* Where every session names one model and no lease lapses, no loop of unloads ever has a second
\* orphan (OneOrphanAtATime): what the theorems above ask of a behaviour, its clients can see to.
THEOREM OneModelOneOrphan ==
  ASSUME MaxPerSession = 1, ~ LeasesLapse
  PROVE  Spec => []OneOrphanAtATime
<1>1. TypeOK /\ NamesOne /\ [Next]_vars => NamesOne'
  BY NamesOneStep
<1>2. NamesOne => OneOrphanAtATime
  BY DEF NamesOne
<1> QED
  BY <1>1, <1>2, NamesOneAtFirst, TypeCorrect, PTL DEF Spec

\* For such sessions what is held stays where it is, whatever the runtime does:
\* no release of one of them takes another's model away (_unload_all).
COROLLARY HeldStaysWithOneModelPerSession ==
  ASSUME MaxPerSession = 1, ~ LeasesLapse
  PROVE  Spec => []HeldStays
<1>1. Spec => []OneOrphanAtATime
  BY OneModelOneOrphan
<1> QED
  BY <1>1, HeldStaysOneOrphanAtATime, PTL

\* For such sessions an acquire that finds the ceiling full never finds an
\* unreferenced holding to reclaim: PREEMPT refuses as REJECT does (_make_room).
COROLLARY PreemptWithOneModelPerSession ==
  ASSUME MaxPerSession = 1, ~ LeasesLapse
  PROVE  Spec => []PreemptFindsNothing
<1>1. Spec => []OneOrphanAtATime
  BY OneModelOneOrphan
<1> QED
  BY <1>1, PreemptNeverReclaims, PTL

\* For such sessions the manager never asks for the unload of what somebody else
\* has loaded, unless an unload that worked may be said to have failed
\* (_unload_all).
COROLLARY NeverUnloadsOthersWithOneModelPerSession ==
  ASSUME MaxPerSession = 1, ~ LeasesLapse, "unloadLost" \notin Faults
  PROVE  Spec => NeverUnloadsOthers
<1>1. Spec => []OneOrphanAtATime
  BY OneModelOneOrphan
<1>2. Spec /\ []OneOrphanAtATime => NeverUnloadsOthers
  BY NeverUnloadsOthersOneOrphanAtATime
<1> QED
  BY <1>1, <1>2, PTL

\* While no call is under way, tasks bring none about.
LEMMA TasksCallNobody ==
  ASSUME NEW m \in Model, Task(m), \A s \in Session : call[s] = Idle
  PROVE  \A s \in Session : call'[s] = Idle
<1>1. \A s \in Session : call[s].at = "idle"
  BY DEF Idle
<1> QED
  BY <1>1 DEF Task, AskLoad, Adopt, LoadLands, LoadFails, ForgetLoad, GiveBackAnswered,
              Land, Woken, Waiting

\* The same while the service stops.
LEMMA OneOrphanThroughAStop ==
  ASSUME MaxPerSession = 1, ~ LeasesLapse
  PROVE  StopSpec => []OneOrphanAtATime
<1> DEFINE I == /\ stop = "no" => NamesOne
                /\ stop # "no" => \A s \in Session : call[s] = Idle
<1>1. StopInit => I
  BY NamesOneAtFirst DEF StopInit
<1>2. StopTypeOK /\ I /\ [StopNext]_allVars => I'
  <2> SUFFICES ASSUME StopTypeOK, I, [StopNext]_allVars PROVE I'
    OBVIOUS
  <2>1. CASE ServiceRuns
    <3>1. [Next]_vars /\ stop = "no" /\ stop' = stop
      BY <2>1 DEF ServiceRuns, stopVars
    <3> QED
      BY <3>1, NamesOneStep DEF StopTypeOK
  <2>2. CASE Stop \/ Settled \/ OutOfTime
    BY <2>2 DEF Stop, Settled, OutOfTime, vars
  <2>3. ASSUME NEW m \in Model, JobAnswered(m) \/ UnloadLanded(m) \/ CutTakesEffect(m)
        PROVE  I'
    BY <2>3 DEF JobAnswered, UnloadLanded, CutTakesEffect
  <2>4. ASSUME NEW m \in Model, TaskWhileStopping(m) PROVE I'
    <3>1. Task(m) /\ stop = "running" /\ stop' = stop
      BY <2>4 DEF TaskWhileStopping
    <3>2. \A s \in Session : call'[s] = Idle
      BY <3>1, TasksCallNobody
    <3> QED
      BY <3>1, <3>2
  <2>5. CASE UNCHANGED allVars
    <3>1. UNCHANGED vars /\ stop' = stop
      BY <2>5 DEF allVars, stopVars
    <3>2. stop = "no" => NamesOne'
      BY <3>1, NamesOneStep DEF StopTypeOK
    <3> QED
      BY <3>1, <3>2 DEF vars
  <2> QED
    BY <2>1, <2>2, <2>3, <2>4, <2>5 DEF StopNext
<1>3. I => OneOrphanAtATime
  BY DEF NamesOne, OneOrphanAtATime, Idle
<1>4. OneUnloadPerModel => StopTypeOK
  BY DEF OneUnloadPerModel
<1> HIDE DEF I
<1> QED
  BY <1>1, <1>2, <1>3, <1>4, OneUnloadEver, PTL DEF StopSpec

\* So the report is right without more ado (ReportNamesWhatStays), whoever stops it and when, for
\* any number of such sessions and of models, and any ceiling.
THEOREM ReportWithOneModelPerSession ==
  ASSUME MaxPerSession = 1, ~ LeasesLapse,
         ~ OutsideActs, "loadLost" \notin Faults, "unloadFails" \notin Faults
  PROVE  StopSpec => []ReportNamesWhatStays
BY OneOrphanThroughAStop, ReportAlwaysNamesWhatStays, PTL


-----------------------------------------------------------------------------
(* The ceiling.  An acquire counts what is held, on its way in, on its way *)
(* out, and what the last survey took for somebody else's (OccupiedSoon).  *)
(* A survey that is read when it is taken sees nobody else's there: only   *)
(* this manager's own loads under way, which it counts again, and which it *)
(* goes on counting, so that an acquire that was woken and takes such a    *)
(* model for somebody else's finds its room counted already.               *)

Counted(o) == (held \cup InFlight \cup unloading \cup o) \ Remote
Within     == Cardinality(Counted(outside)) <= MaxLoaded

\* A listing that failed shows nothing.
NothingKept == \A s \in Session : call[s].at = "surveyed" => call[s].seen = {}

LEMMA NothingKeptStep ==
  ASSUME "listStale" \notin Faults, TypeOK, NothingKept, [Next]_vars
  PROVE  NothingKept'
<1>0. /\ Idle.at = "idle"
      /\ \A at, m : [Idle EXCEPT !.at = at, !.model = m].at = at
  BY DEF Idle
<1>1. ASSUME \A x \in Session : call'[x] = call[x] \/ call'[x].at # "surveyed"
      PROVE  NothingKept'
  BY <1>1 DEF NothingKept
<1>2. ASSUME NEW s \in Session, NEW y, y.at # "surveyed", call' = [call EXCEPT ![s] = y]
      PROVE  NothingKept'
  <2>1. \A x \in Session : call'[x] = IF x = s THEN y ELSE call[x]
    BY <1>2 DEF TypeOK
  <2> QED
    BY <1>1, <1>2, <2>1
<1>3. ASSUME NEW s \in Session, NEW c, NEW done, NEW p, done.at # "surveyed",
             c \in [Session -> CallType], c[s].at \in {"expire", "release"},
             \A x \in Session \ {s} : c[x] = call[x] \/ c[x].at # "surveyed",
             call' = [c EXCEPT ![s] = IF p.busy = NoModel THEN done
                                      ELSE [@ EXCEPT !.busy = p.busy, !.todo = p.todo]]
      PROVE  NothingKept'
  <2>1. [c[s] EXCEPT !.busy = p.busy, !.todo = p.todo].at = c[s].at
    BY <1>3 DEF CallType
  <2>2. call'[s].at # "surveyed" /\ \A x \in Session \ {s} : call'[x] = c[x]
    BY <1>3, <2>1
  <2> QED
    BY <1>1, <1>3, <2>2
<1>4. ASSUME NEW s \in Session, NEW m \in Model, Acquire(s, m) PROVE NothingKept'
  <2> DEFINE lapsed == {x \in Session : lease[x] = "lapsed"}
             start(at) == [Idle EXCEPT !.at = at, !.model = m]
             c == [call EXCEPT ![s] = start("expire")]
  <2>1. c \in [Session -> CallType]
    BY CallTyped DEF Point, TypeOK
  <2>2. c[s].at = "expire" /\ start("survey").at = "survey"
    BY <1>0 DEF TypeOK
  <2>3. \A x \in Session \ {s} : c[x] = call[x]
    BY DEF TypeOK
  <2> HIDE DEF start, c
  <2>4. PICK p \in UnloadPasses(Orphans(lapsed), Dropped(lapsed), unloading) :
          call' = [c EXCEPT ![s] = IF p.busy = NoModel THEN start("survey")
                                   ELSE [@ EXCEPT !.busy = p.busy, !.todo = p.todo]]
    BY <1>4 DEF Acquire, UnloadAll, c, start
  <2> QED
    BY <1>3, <2>1, <2>2, <2>3, <2>4
<1>5. ASSUME NEW s \in Session, Release(s) PROVE NothingKept'
  <2> DEFINE c == [call EXCEPT ![s] = [Idle EXCEPT !.at = "release"]]
  <2>1. c \in [Session -> CallType] /\ c[s].at = "release"
    BY <1>0, ReleaseTyped DEF TypeOK, Idle
  <2>2. \A x \in Session \ {s} : c[x] = call[x]
    BY DEF TypeOK
  <2> HIDE DEF c
  <2>3. PICK p \in UnloadPasses(Orphans({s}), Dropped({s}), unloading) :
          call' = [c EXCEPT ![s] = IF p.busy = NoModel THEN Idle
                                   ELSE [@ EXCEPT !.busy = p.busy, !.todo = p.todo]]
    BY <1>5 DEF Release, UnloadAll, c
  <2> QED
    BY <1>0, <1>3, <2>1, <2>2, <2>3
<1>6. ASSUME NEW k, NEW x \in Session
      PROVE  Woken(k)[x] = call[x] \/ Woken(k)[x].at = "woken"
  BY <1>0 DEF Woken
<1>7. ASSUME NEW s \in Session, UnloadAnswered(s) PROVE NothingKept'
  <2> DEFINE c == Woken(call[s].busy)
  <2>1. c \in [Session -> CallType]
    BY WokenTyped
  <2>2. call[s].at \in {"expire", "release"}
    BY <1>7 DEF UnloadAnswered
  <2>3. c[s].at \in {"expire", "release"} /\ Then(s).at # "surveyed"
    BY <1>0, <2>2 DEF Woken, Then
  <2>4. \A x \in Session \ {s} : c[x] = call[x] \/ c[x].at # "surveyed"
    BY <1>6
  <2>5. PICK p \in UnloadPasses(call[s].todo, refs, unloading \ {call[s].busy}) :
          call' = [c EXCEPT ![s] = IF p.busy = NoModel THEN Then(s)
                                   ELSE [@ EXCEPT !.busy = p.busy, !.todo = p.todo]]
    BY <1>7 DEF UnloadAnswered, UnloadAll
  <2> HIDE DEF c
  <2> QED
    BY <1>3, <2>1, <2>2, <2>3, <2>4, <2>5
<1>8. ASSUME NEW s \in Session, GiveUp(s) PROVE NothingKept'
  BY <1>0, <1>2, <1>8 DEF GiveUp
<1>9. ASSUME NEW s \in Session, SurveyAnswers(s) PROVE NothingKept'
  <2>1. call' = [call EXCEPT ![s].at = "surveyed", ![s].seen = {}]
    BY <1>9 DEF SurveyAnswers
  <2>2. \A x \in Session \ {s} : call'[x] = call[x]
    BY <2>1 DEF TypeOK
  <2>3. call'[s].seen = {}
    BY <2>1 DEF TypeOK, CallType
  <2> QED
    BY <2>2, <2>3 DEF NothingKept
<1>10. ASSUME NEW s \in Session, Proceed(s) PROVE NothingKept'
  <2> DEFINE m == call[s].model
             o == Surveyed(s)
  <2>1. \/ Blocked(s, m, o) \/ Share(s, m, o) \/ Join(s, m, o)
        \/ JoinLanded(s, m, o) \/ StartLoad(s, m, o)
        \/ Refuse(s, m, o) \/ Preempt(s, m, o)
    BY <1>10 DEF Proceed
  <2> HIDE DEF m, o
  <2>2. CASE Blocked(s, m, o)
    BY <1>0, <1>2, <2>2 DEF Blocked, Idle
  <2>3. CASE Share(s, m, o) \/ JoinLanded(s, m, o) \/ Refuse(s, m, o)
    BY <1>0, <1>2, <2>3 DEF Share, JoinLanded, Refuse, Takes
  <2>4. CASE Join(s, m, o) \/ StartLoad(s, m, o) \/ Preempt(s, m, o)
    <3>1. call' = [call EXCEPT ![s] = [Idle EXCEPT !.at = "load", !.model = m]]
      BY <2>4 DEF Join, StartLoad, Preempt, Waits
    <3> QED
      BY <1>0, <1>2, <3>1
  <2> QED
    BY <2>1, <2>2, <2>3, <2>4
<1>11. ASSUME NEW m \in Model, Task(m) PROVE NothingKept'
  <2>1. CASE AskLoad(m) \/ ForgetLoad(m)
    BY <1>1, <2>1 DEF AskLoad, ForgetLoad
  <2>2. CASE Adopt(m) \/ LoadLands(m) \/ LoadFails(m)
    BY <1>0, <1>1, <2>2 DEF Adopt, LoadLands, LoadFails, Land
  <2>3. CASE GiveBackAnswered(m)
    BY <1>1, <1>6, <2>3 DEF GiveBackAnswered
  <2> QED
    BY <1>11, <2>1, <2>2, <2>3 DEF Task
<1>12. ASSUME NEW s \in Session, Renew(s) \/ LeaseLapses(s) PROVE NothingKept'
  BY <1>1, <1>12 DEF Renew, LeaseLapses
<1>13. ASSUME NEW m \in Model, OutsideLoads(m) \/ OutsideUnloads(m) PROVE NothingKept'
  BY <1>1, <1>13 DEF OutsideLoads, OutsideUnloads
<1>14. CASE UNCHANGED vars
  BY <1>1, <1>14 DEF vars
<1> QED
  BY <1>4, <1>5, <1>7, <1>8, <1>9, <1>10, <1>11, <1>12, <1>13, <1>14 DEF Next, Client, Runs

\* Sets of models have cardinalities, which grow by one element at a time.
LEMMA ModelsCounted ==
  ASSUME NEW S \in SUBSET Model, NEW T \in SUBSET S
  PROVE  /\ Cardinality(S) \in Nat /\ Cardinality(T) \in Nat
         /\ Cardinality(T) <= Cardinality(S)
<1>1. IsFiniteSet(S)
  BY ManagerAssumption, FS_Subset
<1> QED
  BY <1>1, FS_Subset, FS_CardinalityType

LEMMA OneMoreCounted ==
  ASSUME NEW S \in SUBSET Model, NEW m \in Model, NEW T \in SUBSET (S \cup {m})
  PROVE  Cardinality(T) <= Cardinality(S) + 1
<1>1. IsFiniteSet(S)
  BY ManagerAssumption, FS_Subset
<1>2. Cardinality(S \cup {m}) \in {Cardinality(S), Cardinality(S) + 1}
  BY <1>1, FS_AddElement
<1>3. S \cup {m} \in SUBSET Model
  OBVIOUS
<1> QED
  BY <1>2, <1>3, ModelsCounted

\* What an acquire takes for somebody else's, when nobody else loads.
LEMMA SurveyCounts ==
  ASSUME "listStale" \notin Faults, TypeOK, Traced, NothingKept, NEW s \in Session, Looks(s)
  PROVE  Surveyed(s) \subseteq Model /\ Counted(Surveyed(s)) \subseteq Counted(outside)
<1>1. CASE call[s].at = "survey"
  <2>1. Surveyed(s) = Foreign(Listed)
    BY <1>1 DEF Surveyed
  <2>2. Surveyed(s) \subseteq InFlight
    BY <2>1 DEF Foreign, Listed, Traced, TypeOK, InFlight, Ours, Absent
  <2> QED
    BY <2>2 DEF Counted, InFlight
<1>2. CASE call[s].at = "surveyed"
  BY <1>2 DEF Surveyed, Foreign, NothingKept, Counted
<1>3. CASE call[s].at = "woken"
  BY <1>3 DEF Surveyed, TypeOK
<1> QED
  BY <1>1, <1>2, <1>3 DEF Looks

\* A load that needs room starts with room for it.
LEMMA RoomIsCounted ==
  ASSUME TypeOK, NEW m \in Model, NEW o \in SUBSET Model, m \notin held, load[m] = "none",
         InTheWay(m, o) = {}, ~ Full(m, o), ~ NeedsNoRoom(o, m)
  PROVE  Cardinality(Counted(o)) < MaxLoaded
<1>1. Counted(o) \in SUBSET Model
  BY DEF Counted, TypeOK, InFlight
<1>2. Cardinality(Counted(o)) \in Nat
  BY <1>1, ModelsCounted
<1>3. (held \cup InFlight \cup o \cup unloading) \ Remote = Counted(o)
  BY DEF Counted
<1>4. OccupiedSoon(o) = Cardinality(Counted(o))
  BY <1>3 DEF OccupiedSoon
<1>5. CASE ~ (OccupiedSoon(o) < MaxLoaded)
  <2>1. unloading = {}
    BY <1>5 DEF InTheWay
  <2>2. Occupied(o) = Cardinality(Counted(o))
    BY <1>3, <2>1 DEF Occupied
  <2>3. ~ (Occupied(o) >= MaxLoaded)
    BY DEF Full
  <2> QED
    BY <1>2, <2>2, <2>3, ManagerAssumption
<1> QED
  BY <1>4, <1>5

LEMMA WithinStep ==
  ASSUME ~ OutsideActs, "loadLost" \notin Faults, "unloadFails" \notin Faults,
         "listStale" \notin Faults, Serving, NothingKept, Within,
         OneOrphanAtATime, OneOrphanAtATime', [Next]_vars
  PROVE  Within'
<1> USE DEF Serving, Books
<1>0. Counted(outside) \in SUBSET Model
  BY DEF Counted, TypeOK, InFlight
\* Nothing more is counted.
<1>1. ASSUME Counted(outside)' \subseteq Counted(outside) PROVE Within'
  <2>1. Cardinality(Counted(outside)') <= Cardinality(Counted(outside))
        /\ Cardinality(Counted(outside)') \in Nat /\ Cardinality(Counted(outside)) \in Nat
    BY <1>0, <1>1, ModelsCounted
  <2> QED
    BY <2>1, ManagerAssumption DEF Within
<1>2. ASSUME outside' = outside, InFlight' \subseteq InFlight,
             held' \cup unloading' \subseteq held \cup InFlight \cup unloading
      PROVE  Within'
  BY <1>1, <1>2 DEF Counted
<1>3. ASSUME NEW s \in Session, (\E m \in Model : Acquire(s, m)) \/ Release(s) PROVE Within'
  <2>1. PICK S \in SUBSET Session :
          /\ held' = held \ Orphans(S)
          /\ owned = held => unloading' = unloading \cup Orphans(S)
    BY <1>3, LoopTakesAll
  <2>2. UNCHANGED <<load, outside>> /\ Orphans(S) \subseteq held
    BY <1>3 DEF Acquire, Release, loads, Orphans
  <2> QED
    BY <1>2, <2>1, <2>2 DEF Traced, InFlight
<1>4. ASSUME NEW s \in Session, UnloadAnswered(s) PROVE Within'
  <2>1. UNCHANGED <<held, load, outside>> /\ unloading' \subseteq unloading
    BY <1>4, LoopEnds DEF UnloadAnswered, loads
  <2> QED
    BY <1>2, <2>1 DEF InFlight
<1>5. ASSUME NEW s \in Session, Proceed(s) PROVE Within'
  <2> DEFINE m == call[s].model
             o == Surveyed(s)
  <2>1. m \in Model /\ UNCHANGED unloading /\ outside' = o
    BY <1>5 DEF Proceed, Looks, TypeOK, CallType, unloads
  <2>2. \/ Blocked(s, m, o) \/ Share(s, m, o) \/ Join(s, m, o)
        \/ JoinLanded(s, m, o) \/ StartLoad(s, m, o)
        \/ Refuse(s, m, o) \/ Preempt(s, m, o)
    BY <1>5 DEF Proceed
  <2>3. o \in SUBSET Model /\ Counted(o) \subseteq Counted(outside)
    BY <1>5, SurveyCounts DEF Proceed
  <2>4. InTheWay(m, o) = {} => m \notin unloading
    BY DEF InTheWay
  <2> HIDE DEF m, o
  <2>5. ASSUME Counted(outside)' \subseteq Counted(o) PROVE Within'
    BY <1>1, <2>3, <2>5
  <2>6. CASE Blocked(s, m, o) \/ Join(s, m, o) \/ Refuse(s, m, o)
    <3>1. held' = held /\ load' = load
      BY <2>6 DEF Blocked, Join, Refuse, books, loads
    <3> QED
      BY <2>1, <2>5, <3>1 DEF Counted, InFlight
  <2>7. CASE Share(s, m, o)
    <3>1. held' = held /\ load' = load
      BY <2>7 DEF Share, Takes, loads
    <3> QED
      BY <2>1, <2>5, <3>1 DEF Counted, InFlight
  <2>8. CASE JoinLanded(s, m, o)
    <3>1. /\ held' = held \cup {m} /\ m \in InFlight
          /\ load' = [load EXCEPT ![m] = "none"]
      BY <2>1, <2>8 DEF JoinLanded, Takes, InFlight
    <3>2. InFlight' \subseteq InFlight
      BY <3>1 DEF InFlight, TypeOK
    <3> QED
      BY <2>1, <2>5, <3>1, <3>2 DEF Counted
  <2>9. CASE StartLoad(s, m, o)
    <3>1. /\ held' = held /\ m \notin held
          /\ load[m] = "none" /\ load' = [load EXCEPT ![m] = "listing"]
          /\ InTheWay(m, o) = {} /\ ~ Full(m, o)
      BY <2>9 DEF StartLoad, books
    <3>2. InFlight' \subseteq InFlight \cup {m}
      BY <3>1 DEF InFlight, TypeOK
    <3>3. CASE NeedsNoRoom(o, m)
      BY <2>1, <2>5, <3>1, <3>2, <3>3 DEF NeedsNoRoom, Counted
    <3>4. CASE ~ NeedsNoRoom(o, m)
      <4>1. Cardinality(Counted(o)) < MaxLoaded
        BY <2>1, <2>3, <3>1, <3>4, RoomIsCounted
      <4>2. Counted(o) \in SUBSET Model /\ Counted(outside)' \in SUBSET (Counted(o) \cup {m})
        BY <1>0, <2>1, <2>3, <3>1, <3>2 DEF Counted
      <4>3. Cardinality(Counted(outside)') <= Cardinality(Counted(o)) + 1
        BY <2>1, <4>2, OneMoreCounted
      <4>4. Counted(outside)' \in SUBSET Model
        BY <2>1, <4>2
      <4>5. Cardinality(Counted(o)) \in Nat /\ Cardinality(Counted(outside)') \in Nat
        BY <4>2, <4>4, ModelsCounted
      <4> QED
        BY <4>1, <4>3, <4>5, ManagerAssumption DEF Within
    <3> QED
      BY <3>3, <3>4
  <2>10. ~ Preempt(s, m, o)
    BY DEF Preempt, Reclaimable, HoldingsReferenced
  <2> QED
    BY <2>2, <2>6, <2>7, <2>8, <2>9, <2>10
<1>6. ASSUME UNCHANGED <<held, load, unloading, outside>> PROVE Within'
  BY <1>2, <1>6 DEF InFlight
<1>7. ASSUME NEW s \in Session,
             Renew(s) \/ LeaseLapses(s) \/ GiveUp(s) \/ SurveyAnswers(s)
      PROVE  Within'
  BY <1>6, <1>7 DEF Renew, LeaseLapses, GiveUp, SurveyAnswers, books, loads, unloads
<1>8. ASSUME NEW m \in Model, Task(m) PROVE Within'
  <2>1. ASSUME m \in InFlight, NEW x, load' = [load EXCEPT ![m] = x], outside' = outside,
               held' \subseteq held \cup {m}, unloading' \subseteq unloading \cup {m}
        PROVE  Within'
    <3>1. InFlight' \subseteq InFlight
      BY <2>1 DEF InFlight, TypeOK
    <3> QED
      BY <1>2, <2>1, <3>1
  <2>2. CASE AskLoad(m)
    BY <2>1, <2>2 DEF AskLoad, books, unloads, InFlight
  <2>3. CASE Adopt(m) \/ LoadLands(m)
    <3>1. PICK stage \in {"landed", "adopted"} : Land(m, stage)
      BY <2>3 DEF Adopt, LoadLands
    <3>2. load' = [load EXCEPT ![m] = IF Waiting(m) = {} THEN stage ELSE "none"]
      BY <3>1 DEF Land
    <3>3. held' \subseteq held \cup {m} /\ unloading' = unloading /\ outside' = outside
      BY <3>1 DEF Land
    <3>4. m \in InFlight
      BY <2>3 DEF Adopt, LoadLands, InFlight
    <3> QED
      BY <2>1, <3>2, <3>3, <3>4
  <2>4. CASE LoadFails(m) \/ ForgetLoad(m)
    <3>1. /\ held' = held /\ outside' = outside /\ m \in InFlight
          /\ load' = [load EXCEPT ![m] = "none"] /\ GiveBackIfAbandoned(m, waiters')
      BY <2>4 DEF LoadFails, ForgetLoad, books, InFlight
    <3>2. unloading' \subseteq unloading \cup {m}
      BY <3>1 DEF GiveBackIfAbandoned
    <3> QED
      BY <2>1, <3>1, <3>2
  <2>5. CASE GiveBackAnswered(m)
    BY <1>2, <2>5 DEF GiveBackAnswered, books, loads, InFlight
  <2> QED
    BY <1>8, <2>2, <2>3, <2>4, <2>5 DEF Task
<1>9. ASSUME NEW m \in Model PROVE ~ OutsideLoads(m) /\ ~ OutsideUnloads(m)
  BY DEF OutsideLoads, OutsideUnloads
<1>10. CASE UNCHANGED vars
  BY <1>6, <1>10 DEF vars, books, loads, unloads
<1> QED
  BY <1>3, <1>4, <1>5, <1>7, <1>8, <1>9, <1>10 DEF Next, Client, Runs

\* While the service stops, what is in memory and on its way in gets less.
Coming == {m \in Model \ Remote : Here(m) \/ load[m] \in Under}

CeilingInv ==
  /\ stop = "no" => NothingKept /\ Within
  /\ stop # "no" => /\ Cardinality(Coming) <= MaxLoaded
                    /\ \A s \in Session : call[s] = Idle

\* An unload leaves no more in memory than there was.
LEMMA FewerHere ==
  ASSUME TypeOK, NEW m \in Model, OneGoes(m), NEW k \in Model, Here(k)' PROVE Here(k)
<1>1. CASE Here(m) /\ resident' = [resident EXCEPT ![m].here = @ - 1]
  BY <1>1 DEF Here, TypeOK
<1>2. CASE resident' = [resident EXCEPT ![m].theirs = FALSE]
  BY <1>2 DEF Here, TypeOK, Copies
<1>3. CASE UNCHANGED resident
  BY <1>3 DEF Here
<1> QED
  BY <1>1, <1>2, <1>3 DEF OneGoes

LEMMA StoppingBringsNothing ==
  ASSUME StopTypeOK, StopMarks, stop = "running", NEW m \in Model,
         JobAnswered(m) \/ UnloadLanded(m) \/ TaskWhileStopping(m),
         \A s \in Session : call[s] = Idle
  PROVE  Coming' \subseteq Coming /\ \A s \in Session : call'[s] = Idle
<1> USE DEF StopTypeOK
<1>1. ASSUME \A k \in Model : /\ Here(k)' => Here(k)
                              /\ load'[k] \in Under => load[k] \in Under
      PROVE  Coming' \subseteq Coming
  BY <1>1 DEF Coming
<1>2. ASSUME NEW k \in Model, Answered(k), load' = load PROVE Coming' \subseteq Coming
  <2>1. \A x \in Model : Here(x)' => Here(x)
    BY <1>2, FewerHere DEF Answered, Here
  <2> QED
    BY <1>1, <1>2, <2>1
<1>3. CASE JobAnswered(m)
  BY <1>2, <1>3 DEF JobAnswered, loads
<1>4. CASE UnloadLanded(m)
  BY <1>1, <1>4 DEF UnloadLanded, loads, Here
<1>5. CASE TaskWhileStopping(m)
  <2>1. Task(m)
    BY <1>5 DEF TaskWhileStopping
  <2>2. \A s \in Session : call'[s] = Idle
    BY <2>1, TasksCallNobody
  <2>3. CASE AskLoad(m)
    BY <1>1, <2>2, <2>3 DEF AskLoad, Under, Here, TypeOK
  <2>4. CASE Adopt(m) \/ ForgetLoad(m)
    BY <1>1, <2>2, <2>4 DEF Adopt, ForgetLoad, Land, Under, Here, TypeOK
  <2>5. CASE LoadLands(m) \/ LoadFails(m)
    <3>1. /\ load[m] \in Under /\ \A k \in Model \ {m} : load'[k] = load[k]
          /\ \A k \in Model \ {m} : resident'[k] = resident[k]
      BY <2>5 DEF LoadLands, LoadFails, OneMore, Land, Under, TypeOK
    <3> QED
      BY <2>2, <3>1 DEF Coming, Here
  <2>6. CASE GiveBackAnswered(m)
    BY <1>2, <2>2, <2>6 DEF GiveBackAnswered, loads
  <2> QED
    BY <2>1, <2>2, <2>3, <2>4, <2>5, <2>6 DEF Task
<1> QED
  BY <1>3, <1>4, <1>5 DEF JobAnswered, UnloadLanded

LEMMA CeilingInvStep ==
  ASSUME ~ OutsideActs, "loadLost" \notin Faults, "unloadFails" \notin Faults,
         "listStale" \notin Faults, StopTypeOK, StopMarks, ReportInv, CeilingInv,
         OneOrphanAtATime, OneOrphanAtATime', [StopNext]_allVars
  PROVE  CeilingInv'
<1>1. ASSUME stop = "no", stop' = "no", [Next]_vars PROVE CeilingInv'
  <2>1. Serving /\ NothingKept /\ Within
    BY <1>1 DEF ReportInv, CeilingInv
  <2>2. NothingKept' /\ Within'
    BY <1>1, <2>1, NothingKeptStep, WithinStep DEF StopTypeOK
  <2> QED
    BY <1>1, <2>2 DEF CeilingInv
\* Nothing comes any more.
<1>2. ASSUME stop' # "no", NEW S \in SUBSET Model, Cardinality(S) <= MaxLoaded,
             Coming' \subseteq S, \A s \in Session : call'[s] = Idle
      PROVE  CeilingInv'
  <2>1. /\ Cardinality(S) \in Nat /\ Cardinality(Coming') \in Nat
        /\ Cardinality(Coming') <= Cardinality(S)
    BY <1>2, ModelsCounted
  <2> QED
    BY <1>2, <2>1, ManagerAssumption DEF CeilingInv
<1>3. CASE Stop
  <2>1. /\ Serving /\ Within /\ stop' = "running" /\ UNCHANGED <<resident, load>>
        /\ \A s \in Session : call'[s] = Idle
    BY <1>3 DEF Stop, ReportInv, CeilingInv
  <2>2. Counted(outside) \in SUBSET Model
    BY <2>1 DEF Serving, Books, TypeOK, Counted, InFlight
  <2>3. Coming' \subseteq Counted(outside)
    BY <2>1 DEF Coming, Counted, Serving, Traced, InFlight, Under, Here, Absent
  <2> QED
    BY <1>2, <2>1, <2>2, <2>3 DEF Within
<1>4. Coming \in SUBSET Model
  BY DEF Coming
<1>5. CASE Settled \/ OutOfTime \/ (stop # "no" /\ UNCHANGED allVars)
  <2>1. /\ stop # "no" /\ stop' # "no" /\ UNCHANGED <<resident, load, call>>
    BY <1>5 DEF Settled, OutOfTime, allVars, stopVars, vars, loads
  <2> QED
    BY <1>2, <1>4, <2>1 DEF CeilingInv, Coming, Here
<1>6. ASSUME NEW m \in Model, JobAnswered(m) \/ UnloadLanded(m) \/ TaskWhileStopping(m)
      PROVE  CeilingInv'
  <2>1. stop = "running" /\ stop' = "running"
    BY <1>6 DEF JobAnswered, UnloadLanded, TaskWhileStopping
  <2>2. Coming' \subseteq Coming /\ \A s \in Session : call'[s] = Idle
    BY <1>6, <2>1, StoppingBringsNothing DEF CeilingInv
  <2> QED
    BY <1>2, <1>4, <2>1, <2>2 DEF CeilingInv
<1>8. ASSUME NEW m \in Model, CutTakesEffect(m) PROVE CeilingInv'
  <2>1. stop # "no" /\ stop' # "no" /\ UNCHANGED <<load, call>> /\ OneGoes(m)
    BY <1>8 DEF CutTakesEffect, loads
  <2>2. Coming' \subseteq Coming
    BY <2>1, FewerHere DEF Coming, StopTypeOK
  <2> QED
    BY <1>2, <1>4, <2>1, <2>2 DEF CeilingInv
<1>7. CASE ServiceRuns \/ (stop = "no" /\ UNCHANGED allVars)
  BY <1>1, <1>7 DEF ServiceRuns, allVars, stopVars
<1> QED
  BY <1>3, <1>5, <1>6, <1>7, <1>8 DEF StopNext

LEMMA CeilingFollows ==
  ASSUME StopTypeOK, ReportInv, CeilingInv PROVE CeilingHolds
<1>1. ASSUME NEW S \in SUBSET Model, InMemory \subseteq S, Cardinality(S) <= MaxLoaded
      PROVE  Cardinality(InMemory) <= MaxLoaded
  <2>1. /\ Cardinality(S) \in Nat /\ Cardinality(InMemory) \in Nat
        /\ Cardinality(InMemory) <= Cardinality(S)
    BY <1>1, ModelsCounted
  <2> QED
    BY <1>1, <2>1, ManagerAssumption
<1>2. CASE stop = "no"
  <2>1. Serving /\ Within
    BY <1>2 DEF ReportInv, CeilingInv
  <2>2. Counted(outside) \in SUBSET Model
    BY <2>1 DEF Serving, Books, TypeOK, Counted, InFlight
  <2>3. InMemory \subseteq Counted(outside)
    BY <2>1 DEF InMemory, Counted, Serving, Traced, InFlight, Here, Absent
  <2>4. PreemptFindsNothing
    BY <2>1 DEF Serving, HoldingsReferenced, PreemptFindsNothing, Reclaimable
  <2> QED
    BY <1>1, <2>1, <2>2, <2>3, <2>4 DEF Within, CeilingHolds
<1>3. CASE stop # "no"
  <2>1. \A s \in Session : ~ Looks(s)
    BY <1>3 DEF CeilingInv, Looks, Idle
  <2>2. Coming \in SUBSET Model /\ InMemory \subseteq Coming
    BY DEF Coming, InMemory, Under
  <2> QED
    BY <1>1, <1>3, <2>1, <2>2 DEF CeilingInv, CeilingHolds, PreemptFindsNothing
<1> QED
  BY <1>2, <1>3

\* The ceiling (CeilingHolds, _make_room): however many acquires check it and
\* await at once, whoever gives up, fails or is unloaded meanwhile, and
\* whenever the service stops, no more local models are in memory or on their
\* way in than max_loaded, and a full ceiling has nothing to reclaim.  Nobody
\* else loads; a load that fails has loaded nothing, an unload that raises has
\* unloaded, and a listing is as old as it is; loops have one orphan at a time.
THEOREM CeilingAlwaysHolds ==
  ASSUME ~ OutsideActs, "loadLost" \notin Faults, "unloadFails" \notin Faults,
         "listStale" \notin Faults
  PROVE  StopSpec /\ []OneOrphanAtATime => []CeilingHolds
<1>1. StopInit => StopTypeOK /\ StopMarks /\ ReportInv /\ CeilingInv
  <2> SUFFICES ASSUME StopInit PROVE StopTypeOK /\ StopMarks /\ ReportInv /\ CeilingInv
    OBVIOUS
  <2>1. NothingKept
    BY DEF StopInit, Init, NothingKept, Idle
  <2>2. Counted(outside) = {}
    BY DEF StopInit, Init, Counted, InFlight
  <2>3. CeilingInv
    BY <2>1, <2>2, FS_EmptySet, ManagerAssumption DEF StopInit, CeilingInv, Within
  <2> QED
    BY <2>3, StopAtFirst
<1>2. StopTypeOK /\ StopMarks /\ ReportInv /\ CeilingInv /\ OneOrphanAtATime
        /\ OneOrphanAtATime' /\ [StopNext]_allVars
        => (StopTypeOK /\ StopMarks /\ ReportInv /\ CeilingInv)'
  <2> SUFFICES ASSUME StopTypeOK, StopMarks, ReportInv, CeilingInv, OneOrphanAtATime,
                      OneOrphanAtATime', [StopNext]_allVars
               PROVE  StopTypeOK' /\ StopMarks' /\ ReportInv' /\ CeilingInv'
    OBVIOUS
  <2>1. StopTypeOK' /\ StopMarks'
    BY StopTypeStep, StopMarksStep
  <2>2. ReportInv' /\ CeilingInv'
    BY ReportStep, CeilingInvStep
  <2> QED
    BY <2>1, <2>2
<1>3. StopTypeOK /\ ReportInv /\ CeilingInv => CeilingHolds
  BY CeilingFollows
<1> QED
  BY <1>1, <1>2, <1>3, PTL DEF StopSpec

\* And so is the ceiling (CeilingHolds), for any number of such sessions and of models.
THEOREM CeilingWithOneModelPerSession ==
  ASSUME MaxPerSession = 1, ~ LeasesLapse,
         ~ OutsideActs, "loadLost" \notin Faults, "unloadFails" \notin Faults,
         "listStale" \notin Faults
  PROVE  StopSpec => []CeilingHolds
BY OneOrphanThroughAStop, CeilingAlwaysHolds, PTL

=============================================================================
