--------------------------- MODULE BenchmarkQueue ---------------------------
(***************************************************************************)
(* SIRVIS's benchmark queue: the jobs (sirvis/jobs.py), the one worker     *)
(* that runs them (worker.py), the run each becomes (benchmarks/engine.py, *)
(* storage/repositories.py), and the service going down and coming up      *)
(* (app.py), composed with the ResourceManager the worker is a client of.  *)
(*                                                                         *)
(* SQLite is written between awaits, so a write and what decides on it are *)
(* one action.  What interleaves is the other sessions of the manager, the *)
(* runtime's answers, a request to cancel, and the process ending at any   *)
(* await, or between two commits.                                          *)
(*                                                                         *)
(* What a run measures is left out but for its generations, between which  *)
(* it may be stopped; so is a benchmark over several models.               *)
(***************************************************************************)
EXTENDS ResourceManager

CONSTANTS Jobs,         \* how many benchmarks are ever submitted
          ModelOf,      \* ModelOf[j]: the model job j measures
          Worker,       \* the session the worker's run of the moment holds
          Generations,  \* generations of a run
          MaxDowns      \* bound: times the service goes down

Job == 1 .. Jobs
NoJob == 0

ASSUME QueueAssumption == /\ Jobs \in Nat /\ Generations \in Nat /\ MaxDowns \in Nat
                          /\ Worker \in Session
                          /\ ModelOf \in [Job -> Model]

VARIABLES job,     \* benchmark_job.state, "none" before it is submitted
          asked,   \* the jobs with cancel_requested
          run,     \* benchmark_run.state of the run each job became, "none" without one
          worker,  \* where the worker is, with which job, how its run ended, what it has left
          up, downs

queue == <<job, asked, run, up, downs>>
queueVars == <<vars, queue, worker>>

Nobody == [at |-> "idle", job |-> NoJob, verdict |-> "good", left |-> 0]
Points == {"idle", "starting", "listing", "acquiring", "measuring", "finally", "ending"}

\* How a run ended: measured, by a failure run_experiment turns into an outcome, or by one that
\* it lets through.
Verdicts == {"good", "caught", "broke"}

JobStates == {"none", "queued", "running", "succeeded", "failed", "cancelled"}
Terminal == {"succeeded", "failed", "cancelled"}
RunStates == {"none", "running", "succeeded", "failed"}

QueueInit == /\ Init
             /\ job = [j \in Job |-> "none"] /\ asked = {}
             /\ run = [j \in Job |-> "none"]
             /\ worker = Nobody
             /\ up = TRUE /\ downs = 0

ManagerRests == UNCHANGED vars
Finish(j, state) == job' = [job EXCEPT ![j] = state]
WorkerGoes(at) == worker' = [worker EXCEPT !.at = at]
GoesBad(at, verdict) == worker' = [worker EXCEPT !.at = at, !.verdict = verdict]
-----------------------------------------------------------------------------
(* The clients of the queue.                                              *)

Submit(j) == /\ up
             /\ job[j] = "none" /\ \A i \in 1 .. j - 1 : job[i] # "none"
             /\ Finish(j, "queued")
             /\ UNCHANGED <<asked, run, worker, up, downs>> /\ ManagerRests

\* cancel: at once if it is queued, a flag if it runs, nothing if it is over.
Cancel(j) == /\ up
             /\ \/ job[j] = "queued" /\ Finish(j, "cancelled") /\ UNCHANGED asked
                \/ job[j] = "running" /\ asked' = asked \cup {j} /\ UNCHANGED job
             /\ UNCHANGED <<run, worker, up, downs>> /\ ManagerRests

\* Runs that a process which is gone left unfinished; whose they are is not asked.
RunsReconciled == run' = [j \in Job |-> IF run[j] = "running" THEN "failed" ELSE run[j]]

\* A benchmark started from the command line reconciles the runs of the same database.
CommandLine == /\ \E j \in Job : run[j] = "running"
               /\ RunsReconciled
               /\ UNCHANGED <<job, asked, worker, up, downs>> /\ ManagerRests
-----------------------------------------------------------------------------
(* The worker.                                                            *)

\* claim: the oldest queued job.  One whose specification cannot be read fails at once.
Claim(j) == /\ up /\ worker.at = "idle"
            /\ job[j] = "queued" /\ \A i \in 1 .. j - 1 : job[i] # "queued"
            /\ \/ /\ Finish(j, "running")
                  /\ worker' = [Nobody EXCEPT !.at = "starting", !.job = j, !.left = Generations]
               \/ Finish(j, "failed") /\ UNCHANGED worker
            /\ UNCHANGED <<asked, run, up, downs>> /\ ManagerRests

\* No runtime, or no such model: there is no run to say so.
FailsBeforeRun == /\ up /\ worker.at = "starting"
                  /\ Finish(worker.job, "failed") /\ worker' = Nobody
                  /\ UNCHANGED <<asked, run, up, downs>> /\ ManagerRests

\* start_run, written before the work.
StartRun == /\ up /\ worker.at = "starting"
            /\ run' = [run EXCEPT ![worker.job] = "running"]
            /\ WorkerGoes("listing")
            /\ UNCHANGED <<job, asked, up, downs>> /\ ManagerRests

\* What is resident is listed, then the model is acquired.
AcquireModel == /\ up /\ worker.at = "listing"
                /\ \/ Acquire(Worker, ModelOf[worker.job]) /\ WorkerGoes("acquiring")
                   \/ GoesBad("ending", "caught") /\ ManagerRests
                /\ UNCHANGED queue

\* The acquire returns with the model; or raises: a load that failed is a failure of the runtime,
\* ResourceExhaustedError, at a full ceiling, is not.
Follows ==
    IF ~(worker.at = "acquiring" /\ call'[Worker] = Idle) THEN UNCHANGED worker
    ELSE IF ModelOf[worker.job] \in leased'[Worker] THEN WorkerGoes("measuring")
    ELSE GoesBad("ending", IF call[Worker].at = "load" THEN "caught" ELSE "broke")

\* should_stop is read before every generation.
Generate == /\ up /\ worker.at = "measuring"
            /\ worker.left > 0 /\ worker.job \notin asked
            /\ worker' = [worker EXCEPT !.left = @ - 1]
            /\ UNCHANGED queue /\ ManagerRests

Measured == /\ up /\ worker.at = "measuring"
            /\ worker.left = 0 \/ worker.job \in asked
            /\ WorkerGoes("finally")
            /\ UNCHANGED queue /\ ManagerRests

\* Mutant of BreaksOff: what is raised after the acquire skips the release.
BreaksOffHolding == /\ up /\ worker.at = "measuring"
                    /\ \E verdict \in {"caught", "broke"} : GoesBad("ending", verdict)
                    /\ UNCHANGED queue /\ ManagerRests

\* The runtime fails, or cannot say which build answers (VariantUnconfirmedError).
BreaksOff == /\ up /\ worker.at = "measuring"
             /\ \E verdict \in {"caught", "broke"} : GoesBad("finally", verdict)
             /\ UNCHANGED queue /\ ManagerRests

\* The finally: a session that lapsed and was reclaimed is nothing to release.
LetGo == /\ up /\ worker.at = "finally"
         /\ WorkerGoes("ending")
         /\ IF lease[Worker] = "none" THEN ManagerRests ELSE Release(Worker)
         /\ UNCHANGED queue

\* Mutant of Verdict: the run's own verdict is the job's.
VerdictOfRun(j, state) == state

\* Cancelled beats the run's own verdict.
Verdict(j, state) == IF j \in asked THEN "cancelled" ELSE state

\* Mutant of RunEnds: a failure let through ends the job for nobody.
RunEndsUnlessBroke(j) ==
    \/ /\ worker.verdict = "good"
       /\ \E state \in {"succeeded", "failed"} :
             run' = [run EXCEPT ![j] = state] /\ Finish(j, Verdict(j, state))
    \/ /\ worker.verdict = "caught"
       /\ run' = [run EXCEPT ![j] = "failed"] /\ Finish(j, Verdict(j, "failed"))
    \/ /\ worker.verdict = "broke"
       /\ UNCHANGED <<job, run>>

\* finish_run, attach_run and finish.  Results that cannot be written fail the run; a failure let
\* through fails the job, and nobody has closed the run.
RunEnds(j) ==
    \/ /\ worker.verdict = "good"
       /\ \E state \in {"succeeded", "failed"} :
             run' = [run EXCEPT ![j] = state] /\ Finish(j, Verdict(j, state))
    \/ /\ worker.verdict = "caught"
       /\ run' = [run EXCEPT ![j] = "failed"] /\ Finish(j, Verdict(j, "failed"))
    \/ /\ worker.verdict = "broke"
       /\ Finish(j, "failed") /\ UNCHANGED run

End == /\ up /\ worker.at = "ending" /\ call[Worker] = Idle
       /\ RunEnds(worker.job)
       /\ worker' = Nobody
       /\ UNCHANGED <<asked, up, downs>> /\ ManagerRests

WorkerStep == \/ \E j \in Job : Claim(j)
              \/ FailsBeforeRun \/ StartRun \/ AcquireModel
              \/ Generate \/ Measured \/ BreaksOff \/ LetGo \/ End
-----------------------------------------------------------------------------
(* The manager's steps, the worker's part in them being its own.          *)

ClientStep == /\ up
              /\ \/ \E s \in Session \ {Worker} : Client(s)
                 \/ LeaseLapses(Worker)
                 \/ \E m \in Model : OutsideLoads(m) \/ OutsideUnloads(m)
              /\ UNCHANGED <<queue, worker>>

CallStep(s) == up /\ Runs(s) /\ Follows /\ UNCHANGED queue
TaskStep(m) == up /\ Task(m) /\ Follows /\ UNCHANGED queue

\* The worker's acquire, woken by the end of an unload, comes to where it shares, loads or raises.
GetsPast == call[Worker].at = "woken" /\ CallStep(Worker) /\ call'[Worker].at # "blocked"
-----------------------------------------------------------------------------
(* The service goes down, in order or not, and comes up again.            *)

\* What it loaded stays with nobody to hold it, or goes: its stop unloads what it can
\* (ResourceManagerStop), and a load that was asked for lands or does not.  What is left is
\* somebody else's to the next process.
LeftBehind == resident' \in
    {r \in [Model -> {Absent, [Absent EXCEPT !.theirs = TRUE]}] :
        \A m \in Model : Here(m) \/ load[m] = "loading" \/ r[m] = resident[m]}

ManagerForgets ==
    /\ held' = {} /\ owned' = {}
    /\ refs' = [m \in Model |-> [s \in Session |-> 0]]
    /\ lease' = [s \in Session |-> "none"]
    /\ leased' = [s \in Session |-> {}]
    /\ load' = [m \in Model |-> "none"]
    /\ waiters' = [m \in Model |-> 0]
    /\ unloading' = {} /\ givingBack' = {} /\ loadedHere' = {}
    /\ outside' = {}
    /\ call' = [s \in Session |-> Idle]
    /\ LeftBehind

\* The cancelled worker writes nothing; a kill may come between the run's commit and the job's.
GoDown == /\ up /\ downs < MaxDowns
          /\ up' = FALSE /\ downs' = downs + 1
          /\ worker' = Nobody
          /\ \/ UNCHANGED run
             \/ /\ worker.at = "ending" /\ call[Worker] = Idle /\ worker.verdict = "good"
                /\ run' = [run EXCEPT ![worker.job] = "succeeded"]
          /\ ManagerForgets
          /\ UNCHANGED <<job, asked>>

\* Mutant of JobsReconciled: only the runs are looked after.
JobsAsTheyWere == UNCHANGED job

JobsReconciled == job' = [j \in Job |-> IF job[j] = "running" THEN "failed" ELSE job[j]]

Start == /\ ~up
         /\ RunsReconciled /\ JobsReconciled
         /\ up' = TRUE
         /\ UNCHANGED <<asked, worker, downs>> /\ ManagerRests
-----------------------------------------------------------------------------
QueueNext == \/ \E j \in Job : Submit(j) \/ Cancel(j)
             \/ CommandLine \/ WorkerStep \/ ClientStep
             \/ \E s \in Session : CallStep(s)
             \/ \E m \in Model : TaskStep(m)
             \/ GoDown \/ Start

QueueSpec == QueueInit /\ [][QueueNext]_queueVars

\* The worker and the manager run on while the service is up: every generation has a deadline,
\* every runtime call a timeout.  A woken acquire runs in the loop's next pass, before another
\* unload can be in its way each time.  Nobody has to cancel, or to start the service again.
QueueFairness == /\ WF_queueVars(WorkerStep)
                 /\ \A s \in Session : WF_queueVars(CallStep(s))
                 /\ \A m \in Model : WF_queueVars(TaskStep(m))
                 /\ SF_queueVars(GetsPast)

FairQueueSpec == QueueSpec /\ QueueFairness
-----------------------------------------------------------------------------
QueueTypeOK == /\ job \in [Job -> JobStates]
               /\ asked \subseteq Job
               /\ run \in [Job -> RunStates]
               /\ worker \in [at : Points, job : Job \cup {NoJob}, verdict : Verdicts,
                              left : 0 .. Generations]
               /\ up \in BOOLEAN
               /\ downs \in 0 .. MaxDowns

\* "Every exit path writes a terminal state, because a row left reading `running` is the state
\* 11.10 exists to prevent" (worker.py): while the service is up, the job that runs is the one the
\* worker has, whatever its last one ended with.  A job succeeds with its run, and one cancelled
\* before it started has none.
OneJobRuns ==
    /\ QueueTypeOK
    /\ up => {j \in Job : job[j] = "running"} = {worker.job} \ {NoJob}
    /\ \A j \in Job : /\ job[j] = "succeeded" => run[j] = "succeeded"
                      /\ job[j] \in {"none", "queued"} => run[j] = "none"
                      /\ job[j] = "cancelled" /\ j \notin asked => run[j] = "none"

\* "Everything after the acquire is inside the block that releases it" (engine.py): a run that
\* measures, and has not let its lease lapse, has its model on the books and in memory; once it
\* has ended, its session holds nothing.
BenchmarkHoldsItsModel ==
    LET m == ModelOf[worker.job] IN
    /\ worker.at = "measuring" /\ lease[Worker] # "none" => m \in held /\ resident[m] # Absent
    /\ worker.at \notin {"acquiring", "measuring", "finally"} =>
         leased[Worker] = {} /\ \A k \in Model : refs[k][Worker] = 0

\* A job that is over stays what it is, results that were published are not taken back, and a job
\* somebody asked to stop is not said to have succeeded.
Stands == \A j \in Job : /\ job[j] \in Terminal => job'[j] = job[j]
                         /\ run[j] = "succeeded" => run'[j] = "succeeded"
                         /\ j \in asked => /\ j \in asked'
                                           /\ job[j] = "running" => job'[j] # "succeeded"

VerdictsStand == [][Stands]_queueVars

\* The queue moves: a job that waits or runs ends, unless the service goes down.
JobsEnd == \A j \in Job : job[j] \in {"queued", "running"} ~> job[j] \in Terminal \/ ~up
=============================================================================
