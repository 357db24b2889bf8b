--------------------------- MODULE ResourceManager ---------------------------
(***************************************************************************)
(* SIRVIS's Resource Manager (sirvis/resources/manager.py): the one owner  *)
(* of every model load and unload.  Sessions acquire models under leases,  *)
(* share what is already held, join loads already under way, and a model   *)
(* is unloaded when its last reference goes.                               *)
(*                                                                         *)
(* The code is asyncio on one event loop and no critical section of        *)
(* self._lock contains an await, so an action here is what runs between    *)
(* two awaits.  What interleaves is therefore the runtime's answers: a     *)
(* listing, a load, an unload.  call[s] says which await session s is at.  *)
(* Stopping the service is ResourceManagerStop.                            *)
(***************************************************************************)
EXTENDS Integers, FiniteSets

CONSTANTS
  Session,        \* the runtime sessions clients may open
  Model,          \* the models they may name
  NoModel,        \* "none of them"
  MaxLoaded,      \* the ceiling (max_loaded)
  Remote,         \* models LM Link runs on another device (runs_elsewhere)
  MaxRefs,        \* bound: times one session may hold one model
  MaxPerSession,  \* bound: models one session may name
  MaxCopies,      \* bound: copies of one model loaded here (stops failing listings)
  LeasesLapse,    \* may time pass beyond expires_at?
  OutsideActs,    \* do people and LM Studio itself load models?
  Faults          \* what the runtime may do wrong, of AllFaults

AllFaults ==
  {"loadFails",    \* runtime.load raises, nothing was loaded
   "loadLost",     \* it raises after the model was loaded
   "unloadFails",  \* runtime.unload raises, the model stays
   "unloadLost",   \* it raises and yet the model goes
   "listFails",    \* a listing raises
   "listStale"}    \* a listing is read later than it was true

ASSUME ManagerAssumption ==
  /\ IsFiniteSet(Session) /\ IsFiniteSet(Model) /\ NoModel \notin Model
  /\ MaxLoaded \in Nat \ {0}
  /\ MaxRefs \in Nat \ {0} /\ MaxPerSession \in Nat \ {0} /\ MaxCopies \in Nat
  /\ Remote \subseteq Model
  /\ LeasesLapse \in BOOLEAN /\ OutsideActs \in BOOLEAN
  /\ Faults \subseteq AllFaults

VARIABLES
  held,        \* keys of _holdings
  owned,       \* the holdings this manager loaded (Holding.owned)
  refs,        \* refs[m][s]: Holding.references
  lease,       \* _leases: "none", "live", or "lapsed" (expires_at <= now)
  leased,      \* Lease.model_keys
  load,        \* _loading: how far the task of each model is
  waiters,     \* _waiters: acquires counted as waiting on each load
  unloading,   \* keys of _unloading: models marked mid-unload
  givingBack,  \* keys of _giving_back
  loadedHere,  \* _loaded_here
  outside,     \* _outside, as of the last survey
  resident,    \* the runtime: the copies of each model in memory, by who loaded them
  call         \* the await each session's call is at

books   == <<held, owned, refs, lease, leased>>
loads   == <<load, waiters>>
unloads == <<unloading, givingBack, loadedHere>>
vars    == <<books, loads, unloads, outside, resident, call>>

\* A call: the await it is at, the model it wants, the model whose unload it
\* awaits, the orphans its unload loop has still to look at, and what the
\* survey's listing showed.
Idle == [at |-> "idle", model |-> NoModel, busy |-> NoModel, todo |-> {}, seen |-> {}]
Point == {"idle", "expire", "survey", "surveyed", "blocked", "woken", "load", "release"}

\* A landed task that nobody has taken yet is remembered as loaded here
\* ("landed") or as found resident ("adopted").
LoadStage == {"none", "listing", "loading", "landed", "adopted"}
Under     == {"listing", "loading"}

\* What is in memory of a model: copies this manager's loads made, and whether
\* somebody else has one (one of theirs is enough).  A load over a copy makes
\* another, and an unload names the model, not the copy.
Copies == [here : Nat, theirs : BOOLEAN]
Absent == [here |-> 0, theirs |-> FALSE]
Here(m) == resident[m].here > 0

Init ==
  /\ held = {} /\ owned = {}
  /\ refs = [m \in Model |-> [s \in Session |-> 0]]
  /\ lease = [s \in Session |-> "none"]
  /\ leased = [s \in Session |-> {}]
  /\ load = [m \in Model |-> "none"]
  /\ waiters = [m \in Model |-> 0]
  /\ unloading = {} /\ givingBack = {} /\ loadedHere = {}
  /\ outside = {}
  /\ resident = [m \in Model |-> Absent]
  /\ call = [s \in Session |-> Idle]

-----------------------------------------------------------------------------
(* The ledger: who holds what, and what the ceiling counts.               *)

Referenced(r, m) == \E s \in Session : r[m][s] > 0

\* Reference counts once the sessions of S have let go of every model.
Dropped(S) ==
  [m \in Model |-> [s \in Session |->
     IF s \in S /\ m \in leased[s] /\ m \in held THEN 0 ELSE refs[m][s]]]

\* What _drop_references reports as fallen to zero.
Orphans(S) ==
  {m \in held : /\ \E s \in S : m \in leased[s]
                /\ ~ Referenced(Dropped(S), m)}

InFlight == {m \in Model : load[m] # "none"}

\* Mutant of Occupied: loads under way do not count.
OccupiedByHoldings(o) == Cardinality((held \cup o) \ Remote)

Occupied(o)     == Cardinality((held \cup InFlight \cup o) \ Remote)
OccupiedSoon(o) == Cardinality((held \cup InFlight \cup o \cup unloading) \ Remote)

NeedsNoRoom(o, m) == m \in Remote \/ m \in o

\* Everything a listing shows: loaded, or still loading.
Listed == {m \in Model : resident[m] # Absent \/ load[m] = "loading"}

\* _outside_here: not held, not mid-unload, not loaded here, on this device.
Foreign(listing) == listing \ (held \cup unloading \cup loadedHere \cup Remote)

\* Mutant of GiveBackIfAbandoned: nobody gives back an abandoned load.
NoGiveBack(m, w) == UNCHANGED <<unloading, givingBack>>

\* _give_back_if_abandoned: a load of this manager's own has landed, no
\* acquire waits on it, nobody holds it and no unload of it has started.
\* The model is marked mid-unload at once.
GiveBackIfAbandoned(m, w) ==
  IF w[m] = 0 /\ m \notin held /\ m \notin unloading /\ m \in loadedHere
    THEN /\ unloading' = unloading \cup {m}
         /\ givingBack' = givingBack \cup {m}
    ELSE UNCHANGED <<unloading, givingBack>>

-----------------------------------------------------------------------------
(* _unload_all over the orphans T, up to its next await, given the         *)
(* reference counts r and the marks as they stand.  A key that is mid-      *)
(* unload or referenced again is left alone, an adopted holding is only    *)
(* forgotten, anything else is dropped, marked mid-unload and asked of the *)
(* runtime.  A key whose holding somebody else has dropped since has no    *)
(* holding to consult: it is asked of the runtime too.  Orphans are taken  *)
(* in any order (the code's follows the leases' order).                    *)

Spared(m, r, marks)    == m \in marks \/ (m \in held /\ Referenced(r, m))
\* Mutant of Asked: an adopted holding is unloaded too.
AskedWhoeverLoaded(T, r, marks) == {m \in T : ~ Spared(m, r, marks)}

Asked(T, r, marks)     == {m \in T : ~ Spared(m, r, marks) /\ (m \in held => m \in owned)}
Forgotten(P, r, marks) == {m \in P : ~ Spared(m, r, marks)}

\* A pass ends at the unload of m, having looked at P on its way there, or
\* with nothing to ask of the runtime.
PassTo(m, P, T, r, marks) ==
  [held |-> held \ ({m} \cup Forgotten(P, r, marks)), owned |-> owned \ {m},
   marks |-> marks \cup {m}, busy |-> m, todo |-> T \ (P \cup {m})]

LastPass(T, r, marks) ==
  [held |-> held \ Forgotten(T, r, marks), owned |-> owned, marks |-> marks,
   busy |-> NoModel, todo |-> {}]

UnloadPasses(T, r, marks) ==
  LET asked == Asked(T, r, marks)
  IN IF asked = {} THEN {LastPass(T, r, marks)}
     ELSE {PassTo(m, P, T, r, marks) : m \in asked, P \in SUBSET (T \ asked)}

UnloadAll(s, T, r, marks, c, done) ==
  \E p \in UnloadPasses(T, r, marks) :
    /\ held' = p.held /\ owned' = p.owned /\ unloading' = p.marks
    /\ refs' = r
    /\ call' = [c EXCEPT ![s] = IF p.busy = NoModel THEN done
                                ELSE [@ EXCEPT !.busy = p.busy, !.todo = p.todo]]

\* Mutant of Then: the expiry loses what the acquire came for.
ThenForgetting(s) ==
  IF call[s].at = "expire" THEN [Idle EXCEPT !.at = "survey"] ELSE Idle

\* Where a call goes when its unload loop is done.
Then(s) == IF call[s].at = "expire"
             THEN [Idle EXCEPT !.at = "survey", !.model = call[s].model]
             ELSE Idle

-----------------------------------------------------------------------------
(* acquire                                                                *)

\* The call begins: _expire_stale drops every lapsed lease, then unloads
\* what that orphaned before the acquire goes on.
Acquire(s, m) ==
  LET lapsed == {x \in Session : lease[x] = "lapsed"}
      start(at) == [Idle EXCEPT !.at = at, !.model = m]
  IN
  /\ call[s] = Idle
  /\ refs[m][s] < MaxRefs
  /\ Cardinality(leased[s] \cup {m}) <= MaxPerSession
  /\ lease' = [x \in Session |-> IF x \in lapsed THEN "none" ELSE lease[x]]
  /\ leased' = [x \in Session |-> IF x \in lapsed THEN {} ELSE leased[x]]
  /\ UnloadAll(s, Orphans(lapsed), Dropped(lapsed), unloading,
               [call EXCEPT ![s] = start("expire")], start("survey"))
  /\ UNCHANGED <<loads, givingBack, loadedHere, outside, resident>>

\* The survey's listing is taken: a picture of the runtime at one instant,
\* which the call reads only when it next runs; nothing when it fails.
SurveyAnswers(s) ==
  /\ call[s].at = "survey"
  /\ \E seen \in (IF "listStale" \in Faults THEN {Listed} ELSE {})
                   \cup (IF "listFails" \in Faults THEN {{}} ELSE {}) :
       call' = [call EXCEPT ![s].at = "surveyed", ![s].seen = seen]
  /\ UNCHANGED <<books, loads, unloads, outside, resident>>

\* _survey records what it saw, once; a woken acquire finds the books as the
\* last survey left them.
Surveyed(s) ==
  CASE call[s].at = "survey"   -> Foreign(Listed)
    [] call[s].at = "surveyed" -> Foreign(call[s].seen)
    [] OTHER                   -> outside

\* The acquire of s comes to _holding_or_load.
Looks(s) ==
  \/ call[s].at = "survey" /\ "listStale" \notin Faults
  \/ call[s].at \in {"surveyed", "woken"}

\* Mutant of InTheWay: its own model's unload does not hold an acquire up.
InTheWayOfOthers(m, o) ==
  IF m \in held \/ load[m] # "none" \/ NeedsNoRoom(o, m)
       \/ OccupiedSoon(o) < MaxLoaded THEN {}
  ELSE unloading

\* _unload_in_the_way: its own model's unload, or, when it would start a
\* load under a full ceiling, another's whose memory is still counted (the
\* first marked; here any).
InTheWay(m, o) ==
  IF m \in unloading THEN {m}
  ELSE IF m \in held \/ load[m] # "none" \/ NeedsNoRoom(o, m)
          \/ OccupiedSoon(o) < MaxLoaded THEN {}
  ELSE unloading

\* Nothing to share or join, room needed and none left (_make_room).
Full(m, o) ==
  /\ InTheWay(m, o) = {}
  /\ m \notin held /\ load[m] = "none"
  /\ ~ NeedsNoRoom(o, m) /\ Occupied(o) >= MaxLoaded

\* What the preempt policy may reclaim.
Reclaimable == {k \in held \ Remote : ~ Referenced(refs, k)}

\* The acquire takes its reference and its lease, and returns.
Takes(s, m) ==
  /\ held' = held \cup {m}
  /\ refs' = [refs EXCEPT ![m][s] = @ + 1]
  /\ lease' = [lease EXCEPT ![s] = "live"]
  /\ leased' = [leased EXCEPT ![s] = @ \cup {m}]
  /\ call' = [call EXCEPT ![s] = Idle]

\* It waits on m's load.
Waits(s, m) ==
  /\ waiters' = [waiters EXCEPT ![m] = @ + 1]
  /\ call' = [call EXCEPT ![s] = [Idle EXCEPT !.at = "load", !.model = m]]

Blocked(s, m, o) ==
  /\ \E k \in InTheWay(m, o) :
       call' = [call EXCEPT ![s] = [Idle EXCEPT !.at = "blocked", !.model = m, !.busy = k]]
  /\ UNCHANGED <<books, loads>>

Share(s, m, o) ==
  /\ InTheWay(m, o) = {} /\ m \in held
  /\ Takes(s, m)
  /\ UNCHANGED <<owned, loads>>

Join(s, m, o) ==
  /\ InTheWay(m, o) = {} /\ m \notin held /\ load[m] \in Under
  /\ Waits(s, m)
  /\ UNCHANGED <<books, load>>

\* Mutant of JoinLanded: the landed load stays in the table.
JoinLandedKeeping(s, m, o) ==
  /\ InTheWay(m, o) = {} /\ m \notin held /\ load[m] \in {"landed", "adopted"}
  /\ Takes(s, m)
  /\ owned' = IF load[m] = "landed" THEN owned \cup {m} ELSE owned
  /\ UNCHANGED loads

\* A load that has landed but is not yet forgotten is taken at once.
JoinLanded(s, m, o) ==
  /\ InTheWay(m, o) = {} /\ m \notin held /\ load[m] \in {"landed", "adopted"}
  /\ Takes(s, m)
  /\ owned' = IF load[m] = "landed" THEN owned \cup {m} ELSE owned
  /\ load' = [load EXCEPT ![m] = "none"]
  /\ UNCHANGED waiters

\* There is room, or none is needed: a new load, registered at once.
StartLoad(s, m, o) ==
  /\ InTheWay(m, o) = {} /\ m \notin held /\ load[m] = "none"
  /\ ~ Full(m, o)
  /\ load' = [load EXCEPT ![m] = "listing"]
  /\ Waits(s, m)
  /\ UNCHANGED books

\* ResourceExhaustedError: nothing to reclaim, or a policy that reclaims
\* nothing.
Refuse(s, m, o) ==
  /\ Full(m, o)
  /\ call' = [call EXCEPT ![s] = Idle]
  /\ UNCHANGED <<books, loads>>

\* The preempt policy forgets an unreferenced holding (the oldest; here any)
\* and loads in its place.
Preempt(s, m, o) ==
  /\ Full(m, o)
  /\ \E k \in Reclaimable : held' = held \ {k} /\ owned' = owned \ {k}
  /\ load' = [load EXCEPT ![m] = "listing"]
  /\ Waits(s, m)
  /\ UNCHANGED <<refs, lease, leased>>

Proceed(s) ==
  LET m == call[s].model
      o == Surveyed(s)
  IN
  /\ Looks(s) /\ outside' = o
  /\ \/ Blocked(s, m, o) \/ Share(s, m, o) \/ Join(s, m, o)
     \/ JoinLanded(s, m, o) \/ StartLoad(s, m, o)
     \/ Refuse(s, m, o) \/ Preempt(s, m, o)
  /\ UNCHANGED <<unloads, resident>>

\* The caller gives up: cancelled or disconnected.  The load is shielded and
\* carries on.
GiveUp(s) ==
  /\ call[s].at \in {"survey", "surveyed", "blocked", "woken", "load"}
  /\ call' = [call EXCEPT ![s] = Idle]
  /\ waiters' = IF call[s].at = "load"
                  THEN [waiters EXCEPT ![call[s].model] = @ - 1] ELSE waiters
  /\ UNCHANGED <<books, load, unloads, outside, resident>>

-----------------------------------------------------------------------------
(* release, renew, and time passing.                                      *)

\* A session's claims go, all of them, and what nobody else holds is
\* unloaded.  An unknown session is a no-op, as in the code.
Release(s) ==
  /\ call[s] = Idle /\ lease[s] # "none"
  /\ lease' = [lease EXCEPT ![s] = "none"]
  /\ leased' = [leased EXCEPT ![s] = {}]
  /\ UnloadAll(s, Orphans({s}), Dropped({s}), unloading,
               [call EXCEPT ![s] = [Idle EXCEPT !.at = "release"]], Idle)
  /\ UNCHANGED <<loads, givingBack, loadedHere, outside, resident>>

\* renew extends whatever lease is still on the books, lapsed or not.
Renew(s) ==
  /\ lease[s] = "lapsed"
  /\ lease' = [lease EXCEPT ![s] = "live"]
  /\ UNCHANGED <<held, owned, refs, leased, loads, unloads, outside, resident, call>>

\* expires_at passes.  Nothing happens until somebody acquires.
LeaseLapses(s) ==
  /\ LeasesLapse /\ lease[s] = "live"
  /\ lease' = [lease EXCEPT ![s] = "lapsed"]
  /\ UNCHANGED <<held, owned, refs, leased, loads, unloads, outside, resident, call>>

-----------------------------------------------------------------------------
(* A load task: _acquire_instance, and what its landing sets off.         *)

\* The task asks what is resident: nothing of this model, or no answer, so
\* it loads, over whatever copies there are.
AskLoad(m) ==
  /\ load[m] = "listing"
  /\ resident[m] = Absent \/ ("listFails" \in Faults /\ resident[m].here < MaxCopies)
  /\ load' = [load EXCEPT ![m] = "loading"]
  /\ UNCHANGED <<books, waiters, unloads, outside, resident, call>>

Waiting(m) == {s \in Session : call[s].at = "load" /\ call[s].model = m}

\* The task ends with an instance.  Every acquire waiting on it is woken in
\* the same pass of the event loop, before any answer of the runtime can
\* arrive: the first records the holding, the others find it, each then
\* stops waiting.  With nobody waiting the task is left for ForgetLoad.
Land(m, stage) ==
  LET W == Waiting(m) IN
  /\ load' = [load EXCEPT ![m] = IF W = {} THEN stage ELSE "none"]
  /\ waiters' = [waiters EXCEPT ![m] = 0]
  /\ held' = IF W = {} THEN held ELSE held \cup {m}
  /\ owned' = IF W # {} /\ m \notin held /\ stage = "landed"
                THEN owned \cup {m} ELSE owned
  /\ refs' = [refs EXCEPT ![m] =
                [s \in Session |-> IF s \in W THEN @[s] + 1 ELSE @[s]]]
  /\ lease' = [s \in Session |-> IF s \in W THEN "live" ELSE lease[s]]
  /\ leased' = [s \in Session |-> IF s \in W THEN leased[s] \cup {m} ELSE leased[s]]
  /\ call' = [s \in Session |-> IF s \in W THEN Idle ELSE call[s]]
  /\ UNCHANGED <<unloading, givingBack, outside>>

\* The instance was resident already: adopted, not owned.
Adopt(m) ==
  /\ load[m] = "listing" /\ resident[m] # Absent
  /\ Land(m, "adopted")
  /\ UNCHANGED <<loadedHere, resident>>

OneMore(m) == resident' = [resident EXCEPT ![m].here = @ + 1]

LoadLands(m) ==
  /\ load[m] = "loading" /\ OneMore(m)
  /\ loadedHere' = loadedHere \cup {m}
  /\ Land(m, "landed")

\* runtime.load raises, with or without the model in memory (the adapter
\* lists again after loading, and that listing may fail).  Every waiter
\* raises and takes nothing.
LoadFails(m) ==
  /\ load[m] = "loading"
  /\ \/ "loadFails" \in Faults /\ UNCHANGED resident
     \/ "loadLost" \in Faults /\ OneMore(m)
  /\ load' = [load EXCEPT ![m] = "none"]
  /\ waiters' = [waiters EXCEPT ![m] = 0]
  /\ call' = [s \in Session |-> IF s \in Waiting(m) THEN Idle ELSE call[s]]
  /\ GiveBackIfAbandoned(m, waiters')
  /\ UNCHANGED <<books, loadedHere, outside>>

\* _forget_load: the callback of a task nobody was waiting on.
ForgetLoad(m) ==
  /\ load[m] \in {"landed", "adopted"}
  /\ load' = [load EXCEPT ![m] = "none"]
  /\ GiveBackIfAbandoned(m, waiters)
  /\ UNCHANGED <<books, waiters, loadedHere, outside, resident, call>>

-----------------------------------------------------------------------------
(* The runtime answers an unload (_finish_unload).                        *)

\* The unload takes one copy of the model, whichever the runtime picks.
OneGoes(m) ==
  \/ Here(m) /\ resident' = [resident EXCEPT ![m].here = @ - 1]
  \/ resident[m].theirs /\ resident' = [resident EXCEPT ![m].theirs = FALSE]
  \/ resident[m] = Absent /\ UNCHANGED resident

\* Gone and confirmed, gone although the call raised, or refused (as it may
\* always be when nothing of the model is there).
Answered(m) ==
  \/ OneGoes(m) /\ loadedHere' = loadedHere \ {m}
  \/ "unloadLost" \in Faults /\ OneGoes(m) /\ UNCHANGED loadedHere
  \/ /\ "unloadFails" \in Faults \/ resident[m] = Absent
     /\ UNCHANGED <<resident, loadedHere>>

\* Mutant of Woken: the answer wakes nobody.
WokenNobody(m) == call

\* The mark is cleared and every acquire waiting for it wakes.
Woken(m) == [s \in Session |->
               IF call[s].at = "blocked" /\ call[s].busy = m
                 THEN [Idle EXCEPT !.at = "woken", !.model = call[s].model]
                 ELSE call[s]]

GiveBackAnswered(m) ==
  /\ m \in givingBack /\ Answered(m)
  /\ unloading' = unloading \ {m}
  /\ givingBack' = givingBack \ {m}
  /\ call' = Woken(m)
  /\ UNCHANGED <<books, loads, outside>>

\* The unload a release or an expiry was waiting for: the loop goes on to
\* the orphans it has not looked at yet.
UnloadAnswered(s) ==
  /\ call[s].at \in {"expire", "release"}
  /\ Answered(call[s].busy)
  /\ UnloadAll(s, call[s].todo, refs, unloading \ {call[s].busy},
               Woken(call[s].busy), Then(s))
  /\ UNCHANGED <<lease, leased, loads, givingBack, outside>>

-----------------------------------------------------------------------------
(* People, and LM Studio itself, load models and unload their own: LM      *)
(* Studio loads another copy of a model by itself when a request wants     *)
(* more context than the running one has.                                  *)

OutsideLoads(m) ==
  /\ OutsideActs /\ ~ resident[m].theirs
  /\ resident' = [resident EXCEPT ![m].theirs = TRUE]
  /\ UNCHANGED <<books, loads, unloads, outside, call>>

OutsideUnloads(m) ==
  /\ OutsideActs /\ resident[m].theirs
  /\ resident' = [resident EXCEPT ![m].theirs = FALSE]
  /\ UNCHANGED <<books, loads, unloads, outside, call>>

-----------------------------------------------------------------------------
Client(s) ==
  \/ \E m \in Model : Acquire(s, m)
  \/ Release(s) \/ Renew(s) \/ LeaseLapses(s) \/ GiveUp(s)

\* A call runs on, or the runtime answers it.
Runs(s) == SurveyAnswers(s) \/ Proceed(s) \/ UnloadAnswered(s)

\* A load task or a give-back runs on.
Task(m) ==
  \/ AskLoad(m) \/ Adopt(m) \/ LoadLands(m) \/ LoadFails(m) \/ ForgetLoad(m)
  \/ GiveBackAnswered(m)

Next ==
  \/ \E s \in Session : Client(s) \/ Runs(s)
  \/ \E m \in Model : Task(m) \/ OutsideLoads(m) \/ OutsideUnloads(m)

Spec == Init /\ [][Next]_vars

\* The event loop runs what is ready and every runtime call has a timeout,
\* so calls and tasks go on; clients promise nothing.
Fairness == /\ \A s \in Session : WF_vars(Runs(s))
            /\ \A m \in Model : WF_vars(Task(m))

FairSpec == Spec /\ Fairness

-----------------------------------------------------------------------------
(* What must hold.                                                        *)

CallType ==
  {c \in [at : Point, model : Model \cup {NoModel}, busy : Model \cup {NoModel},
          todo : SUBSET Model, seen : SUBSET Model] :
     c.at \notin {"idle", "release"} => c.model \in Model}

\* Every variable stays within its type.
TypeOK ==
  /\ held \subseteq Model /\ owned \subseteq held
  /\ refs \in [Model -> [Session -> Nat]]
  /\ lease \in [Session -> {"none", "live", "lapsed"}]
  /\ leased \in [Session -> SUBSET Model]
  /\ load \in [Model -> LoadStage]
  /\ waiters \in [Model -> Int]
  /\ unloading \subseteq Model /\ givingBack \subseteq Model
  /\ loadedHere \subseteq Model /\ outside \subseteq Model
  /\ resident \in [Model -> Copies]
  /\ call \in [Session -> CallType]

\* "A reference is only ever taken together with a lease" (_drop_every_lease):
\* a session holds a reference to exactly the models its lease names, a lease
\* that is gone names none, and every referenced model is on the books.
LeasesMatchReferences ==
  \A s \in Session :
    /\ lease[s] = "none" => leased[s] = {}
    /\ \A m \in Model : /\ refs[m][s] > 0 <=> m \in leased[s]
                        /\ refs[m][s] > 0 => m \in held

\* "The two tables never overlap" (_make_room): a model is held or its load
\* is under way, never both, so the ceiling counts it once.
TablesDisjoint == held \cap InFlight = {}

\* The books: what sessions hold, what is held and what is loading are told alike by the leases,
\* the references, the holdings and the load table, whatever fails and whoever gives up.
Books == TypeOK /\ LeasesMatchReferences /\ TablesDisjoint

\* The count that keeps a landed load from being given back under an acquire
\* that joined it: exactly the calls waiting on that load.
WaitersExact ==
  \A m \in Model : waiters[m] = Cardinality(Waiting(m))

\* No unload loop has an orphan left to look at when its await ends.  A loop
\* that has may find it unloaded and loaded again by others meanwhile, with
\* no holding to show for it, and asks for its unload once more.
OneOrphanAtATime == \A s \in Session : call[s].todo = {}

\* "Never a model mid-unload" (_holding_or_load): what a lease names is not
\* on its way out, and what the manager says it loaded is in memory.
HeldStays ==
  /\ held \cap unloading = {}
  /\ \A m \in owned : Here(m)

\* "PREEMPT refuses exactly as REJECT does" (_make_room): an acquire that
\* finds the ceiling full never finds an unreferenced holding to reclaim.
PreemptFindsNothing ==
  \A s \in Session : Looks(s) /\ Full(call[s].model, Surveyed(s)) => Reclaimable = {}

\* The ceiling itself: no more local models in memory or on their way in
\* through this manager than max_loaded, and none to preempt when it is full.
InMemory == {m \in Model \ Remote : Here(m) \/ load[m] = "loading"}
CeilingHolds == Cardinality(InMemory) <= MaxLoaded /\ PreemptFindsNothing

\* "Never unload a resource owned by another client" (release_on_stop): no
\* unload is asked for of a model of which every copy in memory is somebody
\* else's.  The copy an unload takes is another matter: it names the model, so
\* once a load has made a second copy beside theirs it may take theirs.
NeverUnloadsOthers ==
  [][\A m \in Model :
       m \in unloading' \ unloading /\ resident[m].theirs => Here(m)]_vars

\* One unload of a model at a time, and one answer for each mark: the loop
\* of one release or expiry, or a give-back, is there to clear it, and
\* whoever waits for a mark waits for one that will be cleared.  Who waits
\* for a load is counted.
UnloadLoops == {s \in Session : call[s].at \in {"expire", "release"}}

EveryMarkIsAnswered ==
  /\ WaitersExact
  /\ \A s \in UnloadLoops :
       /\ call[s].busy \in unloading \ givingBack
       /\ \A t \in UnloadLoops : call[s].busy = call[t].busy => s = t
  /\ \A m \in unloading : m \in givingBack \/ \E s \in UnloadLoops : call[s].busy = m
  /\ givingBack \subseteq unloading
  /\ \A s \in Session : call[s].at = "blocked" => call[s].busy \in unloading

\* A model this manager loaded is held, or it leaves memory: a load whose
\* caller gave up, or whose last session released, strands nothing.  (Of a
\* model that never has two copies in memory: with two, the unload may take
\* the other and the manager counts its own as gone.)
OneCopy(m) == ~ (Here(m) /\ resident[m].theirs) /\ resident[m].here <= 1

NothingStranded ==
  \A m \in Model : []OneCopy(m) => (Here(m) ~> (~ Here(m) \/ m \in held))
=============================================================================
