# A TLA+ verification of the NERVIS ecosystem

NERVIS is a set of services that run on one person's machine.  **SIRVIS** loads
local models and benchmarks them; **RAVIS** is the gateway that routes a
completion to a model or a provider, and the relay through which editors drive
Codex tasks; **NERVIS** is the control room that observes the others, keeps
their events and supervises their processes; **protocol** is the package they
share.  Each service is one Python process on one asyncio event loop, with SQLite
behind it.

What a test hardly reaches in such code is not a computation but an order: what
another session did while this one was awaiting the runtime, what a caller that
left meant for the load it started, what is in the buffer when a post fails.
These modules model the parts where orders matter, as they are written, with one
action for what runs between two awaits (or under one lock).

- [Files](#files)
- [The system: components, state, interactions](#the-system)
- [The models](#the-models)
- [The runs](#the-runs)
- [What is proved](#what-is-proved)
- [Where the code departs from what it says](#where-the-code-departs-from-what-it-says)
- [Plan](#plan)
- [What is not modelled](#what-is-not-modelled)

## Files

| Module | What it is |
|---|---|
| `ResourceManager` | SIRVIS's owner of model loads and unloads (`sirvis/resources/manager.py`) |
| `ResourceManagerStop` | the same, when the service stops (`release_on_stop`) |
| `BenchmarkQueue` | the benchmark queue and its worker, composed with the manager (`sirvis/jobs.py`, `worker.py`, `benchmarks/engine.py`, `storage/repositories.py`, `app.py`) |
| `ResourceManager_proofs` | theorems of the manager and of its stop |
| `BenchmarkQueue_proofs` | theorems of the queue, on the manager's |
| `EventPublisher` | the bounded buffer a service publishes events from (`ecosystem_protocol/publisher.py`) |
| `EventPublisher_proofs` | its theorems |
| `FloodGuard` | the hub that stores them, behind its flood guard (`nervis/events.py`, `nervis/flood.py`) |
| `FloodGuard_proofs` | its theorems |
| `Feed` | what a reader of the live feed is promised: the abstract specification |
| `EventStream` | the live feed to one client, which implements it (`nervis/api/events.py`, `nervis/events.py`, `nervis/index.html`) |
| `EventStream_proofs` | its theorems, the refinement among them |
| `CircuitBreaker` | one target's breaker (`ravis/reliability/health.py`, `TargetHealth`) |
| `AttemptChain` | requests, their fallback chains, and the breakers they share (`ravis/reliability/attempts.py`, `health.py`, `api/openai/chat.py`) |
| `AttemptChain_proofs` | its theorems |
| `CodexTask` | one Codex task of the relay (`ravis/agent/session.py`, `sessions.py`, `cleanup.py`) |
| `CodexTask_proofs` | its theorems |
| `ProjectLock` | a project's lock, its row and its file (`ravis/agent/locks.py`, `lock_api.py`, `reconcile.py`) |
| `ProjectLock_proofs` | its theorems |
| `MC_*` | instances for TLC: model values, symmetry |

`tlc -config X.cfg MC_Y` checks a run, `tlapm Y_proofs.tla` the proofs.
`PROJECT.json` maps every definition to the lines it models and lists runs,
mutants, hazards and theorems.  A mutant is a definition with a plausible bug,
kept beside the one it mutates and named in its comment; each checked property
has one that breaks it.

## The system

For each part: what it keeps, what it does, what is hard about it, and what makes
it right.  "Planned" names the module it will get.

**Resource Manager** (SIRVIS).  *State*: holdings with reference counts, leases
with an expiry, load tasks in flight and how many acquires wait on each, unloads
under way, give-backs, what was loaded here, what others occupy.  *Operations*:
acquire, release, renew, the load task, the give-back of an abandoned load, stop.
*Called by* the session routes and the benchmark worker; *calls* the LM Studio
adapter, whose list, load and unload are awaits that take seconds to minutes and
fail in every way.  *Hard*: no lock is held across an await, so any number of
acquires and releases interleave with a load or an unload.  *Right* when
references follow leases, a held model is in memory and not on its way out, the
ceiling holds, nobody else's model is unloaded and none of its own is stranded.

**Event publisher** (protocol).  *State*: a bounded deque, counters, the wait.
*Operations*: emit, which never blocks; the background task that posts batches;
drain.  Every service has one; it posts to the hub.  *Hard*: the buffer fills
while a batch is out; an answer is lost; the task is cancelled in a post.
*Right* when every event is answered for, order survives an outage, the oldest
go first, and an outage ends.

**Event hub and flood guard** (NERVIS).  *State*: the event table; per source a
token bucket, the day's rows, the newest row and the held event of each type, the
episode.  *Operations*: ingest, settle, release, retention, restart.  *Hard*:
memory and table drift apart: rows pruned, counts unwritten, events replayed
that were never stored.  *Right* when the latest state of each type is kept,
every event is a row, a repeat or reported, and the allowance holds.

**Circuit breakers and fallback chains** (RAVIS).  *State*: per model and per
provider consecutive failures, the circuit, whether a probe is out; per request
its chain of candidates and its attempts.  *Operations*: route, next target,
begin, and the ways an attempt ends: answered, failed in one of fourteen classes,
cancelled, interrupted.  *Hard*: concurrent requests share breakers; an attempt
is claimed on two breakers and its outcome blames at most one; a stream may end
in ways that are neither success nor failure.  *Right* when a probe claimed is
always let go of, the budget covers retries, and circuits close by themselves.

**Benchmark queue and worker** (SIRVIS).  *State*: jobs and runs in SQLite, the one
worker, the session its run holds.  *Operations*: submit, claim, cancel, run,
finish, reconcile at a start.  *Calls* the manager like any session.  *Hard*: a
cancel against the end of a run; what raises after the acquire; the service ending
at any await or between two commits; a second process on the same database.
*Right* when one benchmark runs at a time, holds the model it measures and gives it
back, every claimed job ends, and a verdict stands.

**Project locks** (RAVIS relay).  *State*: one row for a project and one file in
its checkout.  Windows hold it by a lease, Codex tasks by their session.
*Operations*: acquire, take for a turn, release, heartbeat, transfer with a token,
take over, and what a restart and the reconciler make of both layers.  *Hard*: the
two layers are written one after the other; the takeover awaits the end of
processes; windows act without RAVIS.  *Right* when two writers never both believe
they hold a project, and the layers agree again after every crash.

**Codex task sessions** (RAVIS relay).  *State*: the session's record, its turn,
open requests, what a Stop left running, a claim to settle.  *Operations*: create,
turn, steer, answer, stop, cancel, settle, delete, what Codex says, restart.
*Hard*: three coroutines end a turn, and Codex ends it too; each awaits Codex or
`ps`, and reads again, or does not, what it knew before.  *Right* when a turn is
concluded once, nothing it started runs on unseen, the project stays locked until
its work is settled, and every Stop and every question ends.

**Event stream** (NERVIS).  *State*: the event table, a subscriber's bounded queue,
the client's cursor.  *Operations*: replay from a cursor, then live frames; a gap
frame ends a subscriber that fell behind; an expired cursor starts over.  *Hard*:
subscription, replay and the live part are read at different moments; the frame
that tells of a gap waits behind what overflowed.  *Right* when a client sees every
event after its cursor, in order, or is told of a gap.

**Codex process supervisor** (RAVIS; planned: `CodexSupervisor`).  One child
process with backoff, giving up and a health probe.

**Service supervision** (NERVIS; planned: `Supervision`).  Starts, stops and
restarts only what it started itself, by pid, executable and create time.

**Registry, probes, instances** (NERVIS; planned: `Registry`).  What a service's
state is said to be, from probes, registrations and heartbeats.

**Admission and budgets** (RAVIS; planned: `Admission`).  Budgets are read before
a request and charged after it.

**The rest** has little to order and is not modelled: benchmark engines and
evidence, downloads, runtime adapters, routing and scoring, wire formats, skills,
chat and documents, commands and notices, storage, the launcher.

*How they meet.*  The worker and the API are the manager's clients.  A task asks the
project's lock before a turn and lets it go when its work is settled.  Every
service's publisher posts to the hub, at least once and in order; the hub dedupes
by event id; the stream reads what the hub stored.  RAVIS reads SIRVIS's evidence
and its residents when it ranks.  NERVIS probes and supervises all of them.

## The models

### `ResourceManager`

One process per session.  `call[s]` names the await a session's call is at; no
critical section of `self._lock` contains an await, so an action is one stretch of
the event loop.  `held`, `owned`, `refs` are `_holdings`; `lease`, `leased` are
`_leases`; `load` and `waiters` are `_loading` and `_waiters`; `unloading`,
`givingBack`, `loadedHere`, `outside` carry the code's names.  `resident` is the
runtime's memory: of each model the copies this manager's loads made (`here`) and
whether somebody else has one (`theirs`).  A load whose listing failed makes a copy
beside those there are, as LM Studio does; an unload names the model, and takes
whichever copy the runtime picks (`OneGoes`).

| Code | Actions |
|---|---|
| `acquire`: `_expire_stale`, `_survey`, `_holding_or_load` | `Acquire`, `SurveyAnswers`, `Proceed` (`Share`, `Join`, `JoinLanded`, `StartLoad`, `Blocked`, `Refuse`, `Preempt`) |
| a cancelled acquire | `GiveUp` |
| `release`, `renew`, `_unload_all` | `Release`, `Renew`, `UnloadAll`, `UnloadAnswered` |
| `_acquire_instance`, `_forget_load`, `_give_back_if_abandoned` | `AskLoad`, `Adopt`, `LoadLands`, `LoadFails`, `ForgetLoad`, `GiveBackAnswered` |

`Faults` is what the runtime may do wrong: a load that raises with or without the
model in memory (the adapter lists again after `lms load`), an unload that raises
with or without effect, a listing that fails or is older than the books.

Choices, each an over-approximation unless said otherwise: a landing wakes all its
waiters in the same pass of the loop, before any answer can arrive, so `Land` does
them at once; a blocked acquire waits for any marked unload (code: the first);
orphans are unloaded in any order; `Preempt` takes any reclaimable holding (code:
the oldest).  Less than the code: other people touch only their own copies,
one of theirs stands for several, and before a stop no release or expiry is cancelled
in the middle of its unload (`ResourceManagerStop` has it at the stop).

### `ResourceManagerStop`

`ResourceManager` with `release_on_stop` composed: every lease dropped, one job
per holding, one that waits for loads and give-backs under way, a shared budget,
a report.  `app.py` cancels the requests still in flight after a second, and then the
worker, right before `release_on_stop`.  So `Stop` begins at any moment and cuts off
every call wherever it waits: no acquire goes on, and a release or an expiry inside its
unload clears its mark while the runtime still carries the unload out (`cut`,
`CutTakesEffect`), or never does.  The cancellations are taken as delivered together
with the first step of the stop.

### `BenchmarkQueue`

Composed with `ResourceManager`: its variables are the manager's and the queue's,
and the worker is the client of one of its sessions, `Worker`.  SQLite is written
between awaits, so a write and what decides on it are one action.

| Code | Actions |
|---|---|
| `jobs.submit`, `jobs.cancel`, `jobs.claim`, `serve_queue` | `Submit`, `Cancel`, `Claim` |
| `run_one`, `run_experiment`, `_execute` | `FailsBeforeRun`, `StartRun`, `AcquireModel`, `Follows` (where the acquire left the run), `Generate`, `Measured`, `BreaksOff`, `LetGo`, `End` |
| both `reconcile_interrupted`, `lifespan`, `sirvis bench` | `RunsReconciled`, `JobsReconciled`, `Start`, `GoDown`, `CommandLine` |

`worker.verdict` is how a run ended: "good", by a failure `run_experiment` makes an
outcome of ("caught"), or by one it lets through ("broke").  `GoDown` is a stop or a
kill at any moment, also between the commit of the run and that of the job; what
the manager had loaded is gone from its books and stays in memory or does not
(`ResourceManagerStop` models how a stop unloads it); an unload in flight is decided
there and then.  Left out: what is measured,
benchmarks over several models, deleting results.

### `EventPublisher`

Events are numbered.  `TakesBatch` and the answer (`Accepted`, `Refused`) are the
two halves of `flush`; `Wakes`, `PumpAccepted`, `PumpRefused` the background task,
`Stop`, `DrainAccepted`, `DrainRefused`, `DrainOutOfTime` the shutdown.  The
collector is up, down or flaky (it refuses some posts and loses some answers); it
keeps a known event once.  Without the task (`pump` "off" from the start) it is a
command-line benchmark.  Emits that queue nothing (disabled, no trace) and a post
that arrives after its timeout are left out.

### `FloodGuard`

One source.  Time is abstracted to what the guard compares it with: a token comes
back, a row is too old to match, a type is quiet, a day is over.  `Arrives` is the
ingest of one event, `Settle` a settle pass, `Final` and `StartsOver` a stop and a
start, or a source forgotten after an hour; `Prune` is retention; `AnswerLost`
makes the producer post again.  Both entry points run under one lock.  A kill that
loses what is held in memory is not modelled; wording and the count of collapsed
events are left out.  The rows a settle writes for several types come in any order
(code: the order of its table).

### `CircuitBreaker` and `AttemptChain`

`CircuitBreaker` is `TargetHealth` as a record and its methods as operators.
`AttemptChain` holds the registry and every request.  The transparent path
(`Route`, `Retry`, `NextPermitted`, `Exhausted`, `Fails`) asks the breakers as it
goes; the translated path (`Translate`, `AdapterFails`) begins its one attempt as
it is routed.  The fourteen failure classes are grouped by their policy row
(whom they blame, whether they fall back, whether they are retried).  `EndsEarly`
is `cancelled` and `interrupted`; `EarlyEnds` says whether it may happen while an
attempt is out.  `calm` says that upstreams answer, requests suit them and clients
wait; it comes and goes freely, and `Recovers` is about runs where it stays.

Over-approximations: after a refusal the chain is asked as a step of its own
(closing the response awaits; after a connection error it does not); the elapsed
budget may end a chain after any attempt; whether a request is a stream is left
open until it ends.  Left out: suppressions, remembered refused settings,
exploration's holds, congestion, usage.  Nothing touches a breaker after an
answer's first byte.

### `Feed` and `EventStream`

`Feed` is the promise in four actions: a reader joins at an event, is given the
next it is owed, or is told that it missed some.  `EventStream` is the code: `Store`
with `Broadcast`, `Prune`, the request (`Connect` with `ResumePoint`, `Expired`),
`Subscribe`, `Replay`, the frames (`SendReplayed`, `SendQueued`, `SendGap`), `Close`.
The client is the dashboard's, which keeps the id of its last frame.  `Promise ==
INSTANCE Feed WITH ...` maps the gap frame as told from when it is queued.

`Faults` lets the awkward moments happen: "stored", an event between the answer and
the subscription of a client without a cursor; "pruned", retention between the
check of a cursor and the replay; "closed", a connection lost with its gap frame
still queued.  Each breaks the promise (below); without them, and with a replay
limit that is not reached, the stream keeps it.  The filtered queries are left out,
and so is retention that leaves no row at all.

### `CodexTask`

One record for the `AgentSession`, one for Codex's process; each coroutine is split
where it awaits (`sends`, `ending`, `concluding`, `recheck`), the routes that await
with the action lock held are `holder`.  `TurnStarted`, `TurnCompleted`,
`CodexRequest`, `StepCap` are what Codex's messages do; `Stopped`, `Cancel`,
`PolicyFires`, `Interrupted`, `EndSequence`, `Conclude`, `FollowOn` end a turn;
`StopLeftovers`, `Recheck` look for what a Stop left; `ClaimSettle`, `Settle`,
`Delete`, `TaskTold`, `Restart` the rest.  The policy's timeout is two steps, as in
`sessions.py:720`: `PolicyDue` while the action lock is another's, then `PolicyFires`
without a second look at the request.  A request that is due belongs to the turn: the
lock is handed on in order, so the tick has it before a next turn can begin.

A command runs (`procs`) whether or not anything knows of it.  `recorded` is what the
database names (`Sample`, the clean-ups), `astray` what a look need not give to the
task any more: its parent is gone, it changed its folder, or a turn began after it
(`CommandStrays`).  A look finds all that is recorded or not astray, and what the owner
asked for by name (`CannotMiss`); with "found" it may find more.  A restart ends what is
recorded and looks for nothing else (`RecordedCleanups`): the other commands run on, and
are confirmed gone.  What a clean-up cannot find it cannot promise, so `GoneIsTrue` says
that what runs has slipped from the looks and is not on record.

Always possible: requests refused, processes that survive their signals, a lock
somebody else has.  `faults` names the rest; each property says which it survives,
and all survive "ends" (Codex's process ends, RAVIS restarts) and "found":

| Fault | What it is | Breaks |
|---|---|---|
| "late" | what Codex says of a turn comes after the turn's end | `LockCoversWork`, `OneConclusion`, `GoneIsTrue`, `NoTurnUnseen`, `ClaimIsForThisTurn`, `EndingsStand` |
| "deaf" | Codex goes on with an interrupted turn | `GoneIsTrue`, `NoTurnUnseen` |
| "blind" | `ps` does not answer | `GoneIsTrue` |
| "found" | a look gives the task a command that earlier ones missed | the half of `GoneIsTrue` about what is on record |
| "overtaken" | the tick's look is overtaken by another Stop | `LockCoversWork`, `OneConclusion` (with a third turn), `GoneIsTrue`, `NoTurnUnseen`, `ClaimIsForThisTurn`, `EndingsStand` |

A question is asked only in a thread RAVIS has loaded.  The types survive all five,
which is a theorem.  `AsksAreAnswered` is claimed without "late" and "overtaken" too,
though two turns do not break it.  The run has one fault at a time, and not "late",
which no property but the types claims to survive.  Left out: site requests and the
reopening of a thread for them, the temp folder, the transcript, the replay
buffers, superseded locks, processes that two tasks claim.  Codex's background
terminals are only seen in what they do: a clean-up that finds everything ended may
still not confirm it.

### `ProjectLock`

`row` is RAVIS's, `file` the checkout's.  RAVIS's operations carry the code's names
and are atomic, as they are (no await), but for the takeover: `TakeOver`, then
`TakenOver` or `LeftOver`.  `CrashHalfway` ends RAVIS between a file and its row.
The windows are not in this repository; they follow design/codex-engine/design.md
6.2 and 6.3, one file operation or request at a time, and are mapped as external.
`_paused`, the open descriptor and the heartbeat's clock are derived and not kept.

| Fault | What it is | Breaks |
|---|---|---|
| "readopt" | a window that is being taken over registers again and hands over to Codex | `TypeOK`, `OneWriter`, `LayersAgree` |
| "late" | a destination deletes a file it looked at earlier | `OneWriter`, `LayersAgree` |
| "owntoken" | a window gives a session's transfer back to that session | `OneWriter`, `LayersAgree`, `WindowFileStands` |

The runs have none of the three; a theorem is without those that break it.  Left out: projects inside one another,
unreadable files, unanswered probes, the verdict's arithmetic, replayed requests,
a deleted session with leftovers.

## The runs

| Run | Instance | What it shows |
|---|---|---|
| `rm_live` | 2 sessions of one model each, `a`,`b`, ceiling 1, leases lapse, others load and unload too, a copy beside theirs, failed loads, failed and stale listings, fairness | `Books`, `EveryMarkIsAnswered`, `NeverUnloadsOthers`, `NothingStranded` |
| `rm_orphans` | 2 sessions of two models each, ceiling 2, nothing fails | **violates** `HeldStays` |
| `rm_stop` | 3 sessions of one model each, `a`,`b` local and `c` remote, ceiling 1, failed loads, lost unload answers, a stop at any moment, also in the middle of an unload | `HeldStays`, `CeilingHolds`, `ReportNamesWhatStays`, `OneUnloadPerModel` |
| `bq_queue` | 2 jobs on `a`,`b`, another session, ceiling 1, failed loads, leases lapse, one end of the service, fairness | `OneJobRuns`, `BenchmarkHoldsItsModel`, `VerdictsStand`, `JobsEnd` |
| `ep_books` | buffer 3, batch 2, 6 events, fairness | `Accounted`, `InOrder`, `OutageEnds` |
| `fg_guard` | 2 types that say 2 things, burst and share 1, 3 events, one lost answer or retention, restarts, fairness | `LatestStateKept`, `EveryEventCounted`, `QuietStateIsStored`, `ShareHolds` |
| `es_stream` | 7 events, buffer 3, tail 2, 2 lost connections, fairness | `TypeOK`, `NoneMissed`, `ImplementsFeed`, `EveryEventGiven` |
| `rv_chain` | 2 requests, 2 models, 2 providers, one translated, threshold 2, budget 2, fairness | `RegistryHolds`, `ProbeIsCarried`, `BudgetHolds`, `Recovers` |
| `rv_latch` | 1 request, which may leave, 2 models, 2 transparent providers, budget 1 | **violates** `ProbeIsCarried` |
| `ct_task` | 2 turns, 1 command process, one end of a process, one other fault at a time, fairness | the nine properties of `CodexTask` |
| `pl_lock` | 2 sessions, 3 windows, 2 crashes | `TypeOK`, `OneWriter`, `LayersAgree`, `WindowFileStands` |
| `pl_superseded` | the same instance, asked about a restart | **violates** `SupersededNamesAnother` |

Each ends within five minutes on two workers; the largest are `ct_task` (818,100
states), `rm_live` (302,872), `bq_queue` (219,878) and `rm_stop` (113,348).

**Bounds, and why they are enough.**  Two sessions are what a race needs; three in
`rm_stop` because the ceiling's race is between two loads while a third releases.
Two models under a ceiling of one make every acquire after the first meet a full
ceiling.  Naming two in one session makes an unload loop await with an orphan left;
that is the case `rm_orphans` is about, in which `HeldStays` fails: `rm_live` and `rm_stop`, where no loop has a second orphan, show
them, and the theorems say the same of any number of models and references as long
as loops have one orphan at a time, and with every fault each survives.  Two jobs
are a queue: one runs while the other waits, and one end of the service falls into
either.  A buffer of 3 with batches of 2 lets a batch straddle a full buffer, and 6
events overflow it while one is out; `MaxDoublings` stands for the 30 s at which the
wait stops growing.  A burst and a share of 1 put the guard up at the second event.
Seven events overflow a queue of 3 behind a replay of 2, twice.  Threshold 2
separates "one failure" from "open"; a budget of 2 lets one retry or one fallback,
and their sum, meet its end.  Two turns let one end while the next begins.  Three
windows are one that holds, one that takes over and one that comes between; two
crashes let a restart meet what another left.  The code's values (threshold 3, 3
attempts, buffers of hundreds) only repeat these steps.

`rm_stop` leaves out what the ceiling is not the manager's to keep under: an unload
refused, a load that raised and stayed, others that load.  Runs that may rest say
`CHECK_DEADLOCK FALSE`: clients, producers and outsiders owe no step, and bounded
instances end.  Symmetry is used where only safety is asked.

**Fairness.**  `ResourceManager`: weak, for calls that run on and for tasks; every
runtime call has a timeout.  Clients owe nothing.  `BenchmarkQueue`: the same, weak
for the worker (a generation has a deadline), and strong for a woken acquire: it
runs in the loop's next pass, before another unload can be in its way each time;
nobody has to cancel or to start the service.  `EventPublisher`: weak for the task;
its sleep ends, its post has a timeout.  `FloodGuard`: weak for a settle that
includes a held type (the hub settles every second, arrivals or none; a type is
quiet when nothing comes) and for the day's end.  `EventStream`: weak for the
client's retry and for serving a connection.  `AttemptChain`: weak for a chain that
is to choose, for an attempt's outcome (upstream timeouts) and for a cooldown;
strong that each model goes on being asked for by name, an assumption about callers:
an open circuit closes only on a probe.  `CodexTask`: weak for RAVIS's coroutines,
strong for the interrupt and the end sequence, whose time limits pass whatever
Codex sends meanwhile; nothing of Codex, the windows or the commands.

## What is proved

By TLAPS, for any sets of sessions, models, providers, windows, requests and
processes and any limits, from the modules' assumptions on their constants alone.
Every safety property of a passing run has its theorem.

`ResourceManager_proofs`
: *The books.*  `BooksAlwaysHold`, and its parts `LeasesAlwaysMatchReferences` and
  `TablesNeverOverlap`: inductive together and not alone, as a landing adds to `held`
  what `load` had, and an unload pass drops a holding only when no reference is left.
: *The marks.*  `MarksAlwaysAnswered`, with every fault: by the calls, the marks and
  the waits' counts alone (`MarksAnswered`).
: *Held models.*  `HeldStaysOneOrphanAtATime`, `NeverUnloadsOthersOneOrphanAtATime`
  and `PreemptNeverReclaims` assume `[]OneOrphanAtATime`, that no loop of unloads goes
  on to a second orphan; `rm_orphans` shows why.  The first and the last hold with
  every fault.  The second says that no unload is asked for of a model of which every
  copy is somebody else's, whether the manager knew of theirs or not; it is without
  "unloadLost", after which the manager believes in a copy it no longer has.  Which
  copy an unload takes where there are two is the runtime's choice, and no property of
  the manager's.  The invariant is `Kept`: nothing held or coming in is marked, what is
  owned or has landed is in memory; and what is said to be loaded here is, too
  (`OwnRemembered`).
: *The stop.*  `OneUnloadEver`, with every fault.  `ReportAlwaysNamesWhatStays`, if
  moreover nobody else loads, no load that raised has loaded and no unload is
  refused: `Serving` says that what is here is held, marked or just landed, `Stopping`
  that it is then named.  The statement excepts an unload that was cut off with its
  call (`cut`): of it the report says nothing, and the model may still be there.
: *The ceiling.*  `CeilingAlwaysHolds`, if also listings are read when they are taken.
  Invariant is not the number of models in memory but what an acquire counts
  (`Within`): held, coming, leaving, and what the last survey took for somebody
  else's.  A survey may take a load of the manager's own for that; it then stays
  counted, so the acquire that lands it finds its room taken already.
: *The hypothesis.*  `OneModelOneOrphan` discharges `[]OneOrphanAtATime` for sessions
  of one model each whose leases do not lapse (`NamesOne`: all that a session's calls
  and lease name is one model), whatever the runtime does.  For them the theorems
  named `...WithOneModelPerSession` (held models, whose models are unloaded,
  `PREEMPT`, the report, the ceiling) assume nothing about the behaviour.

`BenchmarkQueue_proofs`
: `OneJobAlwaysRuns` and `VerdictsAlwaysStand`, for any number of jobs and any
  manager beneath: the invariant adds `WorkerInv` (the worker has a job exactly
  while it works and only while the service is up; a run is opened after the claim)
  and nothing about the manager's tables.  `BenchmarkAlwaysHoldsItsModel`, with every
  fault, while nobody else loads and loops have one orphan: a worker that measures has
  its model under its lease, what is under a lease is held (`Books`), and what is held
  is in memory (`HeldHere`, by `Kept` and `MarksAnswered`).
  `BenchmarkWithOneModelPerSession` needs no hypothesis on loops: `NamesOne` is
  inductive beneath the queue too, its worker being one more session of one model.

`EventPublisher_proofs`
: `EveryEventAccounted`: who posts what (`Posting`), and how much a stop may have left
  unanswered at each of its stages (`Answered`).  `OrderSurvives`: of what waits, in
  the buffer or in a batch, the collector has each event already (its answer was
  lost) or has nothing after it (`Flow`); a refused batch goes back in front.

`FloodGuard_proofs`
: `LatestStateAlwaysKept`, through restarts and retention, until an answer is lost:
  what is held of a type is its last event, what is remembered its last row, and with
  nothing held that row says the same as the last event (`KeptOf`).
  `EveryEventAlwaysCounted`, until a row is deleted or an answer is lost: `Counted`
  adds up rows with their repeats, events that wait, and what was thinned.  The rows'
  part is the cardinality of `Copies`, the pairs of a row and a number up to its
  count, so that no sum needs induction over data.
  `ShareAlwaysHolds`: an action property of `Arrives` and `Settle`, from the types.

`EventStream_proofs`
: `TypeCorrect`, for all faults: no queue outgrows its bound, the gap frame
  included.  `FeedHasNoHole`, and `StreamImplementsFeed` (`Spec => Promise!Safe`): a
  step of the stream is a step of `Feed` or a stutter.  Both rest on an invariant
  that says of every event that it was given, is excused, or waits in the replay or
  the queue in front of all later ones (`PhaseInv`, `QueueInv`, `ClientInv`,
  `BehindInv`, `AheadInv`).  They assume `Quiet`: nothing stored or deleted at a bad
  moment and a replay limit that reaches; the refinement moreover that no connection
  is lost in front of its gap frame.

`AttemptChain_proofs`
: `RegistryAlwaysHolds` (types, the queue's shape, *closed iff below the
  threshold*).  `ProbesAreAlwaysCarried`: if no stream ends before its upstream has
  answered, a probe is always some waiting request's; a step that ends an attempt
  lets go of all it carried.  `rv_latch` shows that the hypothesis is needed.
  `BudgetAlwaysHolds`: both ways to an upstream ask the budget, and a skipped
  candidate counts against it without being sent.

`CodexTask_proofs`
: All seven safety properties, for any number of turns and of ends of a process, under
  the faults each names; `TypesOfTheTask` under all.  One invariant, `TaskInvariant`,
  in layers that each need those above.  Without "late" and "overtaken", `Control`: a
  turn under way has one end coming and no other (`OneEnd`), a route that awaits finds
  the task as it left it (`Routes`), none is said to be completed before its
  conclusion (`Counted`); `LockCoversWork`, `OneConclusion`, `ClaimIsForThisTurn` and
  `EndingsStand` follow.  `Asks`: a question is open to the windows or in the inbox.
  Without "deaf", `Heeds`: Codex has one turn, the task's, and is silent after its
  end.  Without "blind", `Gone`: wherever the task is called clean, or on its way to a
  follow-on, what runs is astray and not on record, and a task with leftovers names
  all the others.

`ProjectLock_proofs`
: With every fault, `EveryFileHasARow`.  Its invariant `Sound` holds what no window can
  disturb: whose an old file is (`OldFiles`), what a takeover that waits knows
  (`Takeovers`), and what a window that hands over still has (`Keepers`).  Without
  "owntoken" it gives `WindowFileAlwaysStands`, an action property: a session takes
  only an absent file, one of a RAVIS that is gone, or one of a window that handed
  over.  `TypeCorrect`, without "readopt": `Lawful` adds whose a lease is.
  `OneWriterAlways` and `LayersAlwaysAgree`, for `Faults = {}`: each fault alone breaks
  both.  `OneWriter` follows from the layers' agreement, which is not inductive: `IInv`
  adds which rows there are (`Rows`), and more of the files, the takeovers and the
  hands between windows (`Files`, `Takes`, `Hands`).  One lemma per action.

**Only model-checked.**  The liveness properties (`NothingStranded`, `JobsEnd`,
`OutageEnds`, `QuietStateIsStored`, `EveryEventGiven`, `Recovers`, `StopEnds`,
`LeftoverClears`), as fairness and `ENABLED` are out of the prover's reach.

## Where the code departs from what it says

Three have a run; PROJECT.json quotes the lines.

- `rm_orphans`: a release walks a list of orphans it made before its first await.
  When it reaches the second, another session may have loaded and dropped that model
  and a third be loading it again; it is unloaded under the joiner
  (`manager.py:525`).  By the same list it may unload an instance somebody else has
  loaded since, and leave a model mid-unload that no lease names.
- `rv_latch`: a client that leaves, or a translated stream that breaks, during a
  half-open probe leaves the breaker probing with nothing in flight.
- `pl_superseded`: a restart that finds no file for a superseded lock creates
  RAVIS's own and keeps the lock superseded, by nobody.

Met while modelling, and without a run.  Resource manager:

- `manager.py:277`: a survey recorded after the books moved on may list a model
  loaded and unloaded here meanwhile as somebody else's; it then needs no room
  past a full ceiling.  `CeilingAlwaysHolds` excludes it ("listStale"), and shows
  that nothing else takes a load of the manager's own for room it has not counted.
- `manager.py:528`: an orphan already mid-unload is left on the books, so an
  unreferenced holding can exist (843 says none can).
- `manager.py:808`, `811`: after a failed unload the manager adopts its own
  instance as not owned; after a load that raised and stayed, it forgets that it
  loaded it.  After an unload that raised and took effect it goes on believing
  that it did.
- `manager.py:231`: lapsed leases are dropped by the next acquire only.  `sweep`
  and `force_unload` have no caller.
- `manager.py:493`: one release takes back every reference of its session; 225
  says two are needed.

Benchmark queue:

- `engine.py:493`: a `ResourceExhaustedError` (a full ceiling) or a
  `VariantUnconfirmedError` is not among what `run_experiment` catches.  The job
  fails and its run's row stays `running` until the next start, which 394-399 and
  501-503 say must not be.
- `worker.py:94`: a job that ends that way, or before its run, is `failed` also
  when somebody had cancelled it.
- `cli.py:429`: a benchmark from the command line fails the live service's run
  (`repositories.py:185` names the assumption); `finish_run` overwrites it later.
- `worker.py:10` says every exit path writes a terminal state; a cancelled worker
  writes none, and a kill between two commits leaves a run succeeded and its job
  failed.
- The engine never renews its lease: of a run longer than it, another session's
  acquire may take the model away.

Events:

- `publisher.py:203`: a failed batch put back into a full buffer discards the newest
  events; the docstring promises the oldest.  Cancelled in a post (196), a batch is
  lost and not counted.
- `flood.py:332`: an event counted as a repeat is not known by id; posted again after
  a lost answer it can be stored as the newest state although it is not.  Repeats of
  a row that retention deleted are counted onto nothing.
- `flood.py:425`: the day's window turns over on an arrival, so a state held past
  the allowance waits for as long as its source is silent.
- `api/events.py:299`: a client without a cursor misses an event stored between
  the answer and its subscription.  An event stored between subscription and replay
  (316) is delivered twice, and the cursor goes back to it.
- `api/events.py:322`: a replay that reaches RESUME_LIMIT leaves a hole before the
  live part, with no gap frame; so does retention between the check of a cursor
  (410) and its replay.
- `api/events.py:345`: a connection closed before its queued gap frame was sent
  loses the notice with it.
- `database.py:142`: when retention has deleted every row, numbering starts again
  and an old cursor is not refused.

Breakers:

- `attempts.py:290`: a retry of the same target does not ask the circuit its own
  failure may just have opened.  A late outcome lets go of another request's probe
  (`health.py:200`), so a second may go out.  A direct address on the translated
  path asks no circuit, and a translated stream that breaks is never a failure of
  its provider: its first frame is RAVIS's own.

Codex tasks and locks:

- `session.py:1351`: a look that could not look leaves nothing to look for, and
  the next one confirms it gone.
- `session.py:711`: a refusal of turn/start after a Stop concludes the turn again, as
  completed.  A thread that cannot be resumed after the lock was taken leaves a
  resting task with the project.  A steer that fails after its turn ended leaves
  its text queued.
- `session.py:1485`: a cancel, and what a task with leftovers was to become, are
  kept in memory and lost by a restart.
- `locks.py:152`: once a destination has deleted RAVIS's file and its token ran out,
  the session is refused its own project with PROJECT_LOCKED naming itself;
  `lock_api.py:41` says otherwise.
- `lock_api.py:410`: a takeover that waits writes its row whatever happened to the
  old one meanwhile, and meets an assertion if it was released.
- `locks.py:177`: a crash halfway leaves a file that only a session's acquire or a
  window's own reconciliation clears.

## Plan

Done: `ResourceManager`, its stop, `BenchmarkQueue` on it; `EventPublisher`;
`FloodGuard`; `Feed` and `EventStream`; `CircuitBreaker` and `AttemptChain`;
`CodexTask`; `ProjectLock`; proofs for all of them.

Next:

1. `CodexSupervisor` and `Supervision`: start, adopt, restart with backoff, give up;
   NERVIS dying between a start and its record.
2. `Admission`: budgets read before a request and charged after it, leases of the
   hourly share; `Registry`: a service's state from probes and heartbeats.
3. `EventPath`: `EventPublisher` and the hub composed into the log that `Feed`
   reads from.

Theorems to come: what survives of `CodexTask` with "late" and "overtaken";
`EventStream`'s refinement with each fault told as `Feed` would have to tell it; the
invariants of the modules above.

## What is not modelled

Parsing and wire formats, SQL and files, the arithmetic of scores and costs,
authentication, and what a model says.  Time is an order of events, never a
number.  Threads appear only where the code has a lock around them.  Each
component left out is listed in PROJECT.json with its reason.

Most of the repository's lines are of these kinds: routes and clients, prompts,
documents, rankings, measurement, the launcher.  The modules cover the parts whose
steps interleave or must survive a failure.
