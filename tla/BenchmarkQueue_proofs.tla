------------------------ MODULE BenchmarkQueue_proofs ------------------------
(***************************************************************************)
(* Proofs about BenchmarkQueue, for any number of jobs and generations and *)
(* any manager beneath it.  The queue's own tables do not rest on what the *)
(* manager's hold; that a benchmark's model stays loaded does, and the     *)
(* last part builds on the manager's own proofs.                           *)
(***************************************************************************)
EXTENDS BenchmarkQueue, ResourceManager_proofs

\* The worker has a job exactly while it works, and only while the service is up; a run is opened
\* by the worker, after the claim and not before.
WorkerInv ==
    /\ worker.job = NoJob <=> worker.at = "idle"
    /\ ~up => worker.at = "idle"
    /\ worker.at = "starting" => run[worker.job] = "none"
    /\ worker.at \notin {"idle", "starting"} => run[worker.job] \in {"running", "failed"}

IInv == OneJobRuns /\ WorkerInv

LEMMA JobNumbers == NoJob \notin Job /\ Job \subseteq Nat
BY QueueAssumption DEF NoJob, Job

LEMMA QueueTyped ==
  ASSUME QueueTypeOK
  PROVE  /\ worker = [at |-> worker.at, job |-> worker.job, verdict |-> worker.verdict,
                      left |-> worker.left]
         /\ worker.at \in Points /\ worker.job \in Job \cup {NoJob}
         /\ worker.verdict \in Verdicts /\ worker.left \in 0 .. Generations
BY DEF QueueTypeOK

LEMMA NobodyTyped ==
  /\ Nobody \in [at : Points, job : Job \cup {NoJob}, verdict : Verdicts, left : 0 .. Generations]
  /\ Nobody.at = "idle" /\ Nobody.job = NoJob
<1>1. 0 \in 0 .. Generations
  BY QueueAssumption
<1> QED
  BY <1>1 DEF Nobody, Points, Verdicts

\* The worker going on with its run touches no table.
LEMMA RunGoesOn ==
  ASSUME IInv, UNCHANGED queue, worker.at \notin {"idle", "starting"},
         worker' \in [at : Points, job : Job \cup {NoJob}, verdict : Verdicts,
                      left : 0 .. Generations],
         worker'.job = worker.job, worker'.at \notin {"idle", "starting"}
  PROVE  IInv'
<1>1. QueueTypeOK'
  BY DEF IInv, OneJobRuns, QueueTypeOK, queue
<1>2. OneJobRuns'
  BY <1>1 DEF IInv, OneJobRuns, queue
<1>3. WorkerInv'
  BY DEF IInv, WorkerInv, queue
<1> QED
  BY <1>2, <1>3 DEF IInv

LEMMA GoesOnTyped ==
  ASSUME QueueTypeOK, NEW at \in Points,
         WorkerGoes(at) \/ \E verdict \in Verdicts : GoesBad(at, verdict)
  PROVE  /\ worker' \in [at : Points, job : Job \cup {NoJob}, verdict : Verdicts,
                         left : 0 .. Generations]
         /\ worker'.job = worker.job /\ worker'.at = at
BY QueueTyped DEF WorkerGoes, GoesBad

\* A step of the manager moves the worker only out of its acquire.
LEMMA FollowsKeeps ==
  ASSUME IInv, UNCHANGED queue, Follows
  PROVE  IInv'
<1>1. CASE UNCHANGED worker
  <2>1. QueueTypeOK'
    BY <1>1 DEF IInv, OneJobRuns, QueueTypeOK, queue
  <2> QED
    BY <1>1, <2>1 DEF IInv, OneJobRuns, WorkerInv, queue
<1>2. CASE worker.at = "acquiring" /\ \E at \in {"measuring", "ending"} :
             WorkerGoes(at) \/ \E verdict \in Verdicts : GoesBad(at, verdict)
  <2>1. PICK at \in {"measuring", "ending"} :
            WorkerGoes(at) \/ \E verdict \in Verdicts : GoesBad(at, verdict)
    BY <1>2
  <2>2. QueueTypeOK /\ at \in Points
    BY DEF IInv, OneJobRuns, Points
  <2> QED
    BY <1>2, <2>1, <2>2, GoesOnTyped, RunGoesOn
<1> QED
  BY <1>1, <1>2 DEF Follows, Verdicts
-----------------------------------------------------------------------------
(* The worker's steps.                                                    *)

LEMMA ClaimKeeps ==
  ASSUME IInv, NEW j \in Job, Claim(j)
  PROVE  IInv'
<1>1. /\ up /\ UNCHANGED <<asked, run, up, downs>>
      /\ worker.at = "idle" /\ worker.job = NoJob /\ job[j] = "queued" /\ run[j] = "none"
      /\ {i \in Job : job[i] = "running"} = {}
  BY DEF Claim, IInv, OneJobRuns, WorkerInv
<1>2. job \in [Job -> JobStates]
  BY DEF IInv, OneJobRuns, QueueTypeOK
<1>3. CASE Finish(j, "running") /\
           worker' = [Nobody EXCEPT !.at = "starting", !.job = j, !.left = Generations]
  <2>1. Generations \in 0 .. Generations
    BY QueueAssumption
  <2>2. /\ worker' \in [at : Points, job : Job \cup {NoJob}, verdict : Verdicts,
                        left : 0 .. Generations]
        /\ worker'.at = "starting" /\ worker'.job = j
    BY <1>3, <2>1 DEF Nobody, Points, Verdicts
  <2>3. job' \in [Job -> JobStates] /\ job' = [job EXCEPT ![j] = "running"]
    BY <1>2, <1>3 DEF Finish, JobStates
  <2>4. QueueTypeOK'
    BY <1>1, <2>2, <2>3 DEF IInv, OneJobRuns, QueueTypeOK
  <2>5. {i \in Job : job'[i] = "running"} = {worker'.job} \ {NoJob}
    BY <1>1, <1>2, <2>2, <2>3, JobNumbers
  <2>6. OneJobRuns'
    BY <1>1, <1>2, <2>3, <2>4, <2>5 DEF IInv, OneJobRuns
  <2>7. WorkerInv'
    BY <1>1, <2>2, JobNumbers DEF WorkerInv
  <2> QED
    BY <2>6, <2>7 DEF IInv
<1>4. CASE Finish(j, "failed") /\ UNCHANGED worker
  <2>1. job' \in [Job -> JobStates] /\ job' = [job EXCEPT ![j] = "failed"]
    BY <1>2, <1>4 DEF Finish, JobStates
  <2>2. QueueTypeOK'
    BY <1>1, <1>4, <2>1 DEF IInv, OneJobRuns, QueueTypeOK
  <2>3. OneJobRuns'
    BY <1>1, <1>2, <1>4, <2>1, <2>2 DEF IInv, OneJobRuns
  <2>4. WorkerInv'
    BY <1>1, <1>4 DEF IInv, WorkerInv
  <2> QED
    BY <2>3, <2>4 DEF IInv
<1> QED
  BY <1>3, <1>4 DEF Claim

\* A job that ends leaves the worker without one.
LEMMA JobEnds ==
  ASSUME IInv, up, worker.at # "idle", NEW state \in Terminal,
         Finish(worker.job, state), worker' = Nobody,
         run' \in [Job -> RunStates],
         \A i \in Job \ {worker.job} : run'[i] = run[i],
         state = "succeeded" => run'[worker.job] = "succeeded",
         state = "cancelled" => worker.job \in asked,
         UNCHANGED <<asked, up, downs>>
  PROVE  IInv'
<1> DEFINE j == worker.job
<1>1. j \in Job /\ job \in [Job -> JobStates] /\ {i \in Job : job[i] = "running"} = {j}
  BY DEF IInv, OneJobRuns, QueueTypeOK, WorkerInv
<1>2. job' = [job EXCEPT ![j] = state] /\ job' \in [Job -> JobStates]
  BY <1>1 DEF Finish, Terminal, JobStates
<1>3. QueueTypeOK'
  BY <1>2, NobodyTyped DEF IInv, OneJobRuns, QueueTypeOK
<1>4. {i \in Job : job'[i] = "running"} = {worker'.job} \ {NoJob}
  BY <1>1, <1>2, NobodyTyped DEF Terminal
<1>5. OneJobRuns'
  BY <1>1, <1>2, <1>3, <1>4 DEF IInv, OneJobRuns, Terminal
<1>6. WorkerInv'
  BY NobodyTyped DEF WorkerInv
<1> QED
  BY <1>5, <1>6 DEF IInv

LEMMA StartRunKeeps ==
  ASSUME IInv, StartRun
  PROVE  IInv'
<1>1. /\ up /\ worker.at = "starting" /\ worker.job \in Job /\ run \in [Job -> RunStates]
      /\ {i \in Job : job[i] = "running"} = {worker.job}
      /\ run' = [run EXCEPT ![worker.job] = "running"] /\ UNCHANGED <<job, asked, up, downs>>
  BY DEF StartRun, IInv, OneJobRuns, QueueTypeOK, WorkerInv
<1>2. /\ worker' \in [at : Points, job : Job \cup {NoJob}, verdict : Verdicts,
                      left : 0 .. Generations]
      /\ worker'.job = worker.job /\ worker'.at = "listing"
  <2>1. "listing" \in Points /\ QueueTypeOK /\ WorkerGoes("listing")
    BY DEF Points, IInv, OneJobRuns, StartRun
  <2> QED
    BY <2>1, GoesOnTyped
<1>3. run' \in [Job -> RunStates]
  BY <1>1 DEF RunStates
<1>4. QueueTypeOK'
  BY <1>1, <1>2, <1>3 DEF IInv, OneJobRuns, QueueTypeOK
<1>5. OneJobRuns'
  BY <1>1, <1>2, <1>4 DEF IInv, OneJobRuns
<1>6. WorkerInv'
  BY <1>1, <1>2, JobNumbers DEF WorkerInv
<1> QED
  BY <1>5, <1>6 DEF IInv

LEMMA EndKeeps ==
  ASSUME IInv, End
  PROVE  IInv'
<1>1. /\ up /\ worker.at = "ending" /\ worker.job \in Job /\ run \in [Job -> RunStates]
      /\ worker' = Nobody /\ UNCHANGED <<asked, up, downs>>
  BY DEF End, IInv, OneJobRuns, QueueTypeOK, WorkerInv
<1> DEFINE j == worker.job
<1>2. ASSUME NEW state \in {"succeeded", "failed"}, run' = [run EXCEPT ![j] = state],
             Finish(j, Verdict(j, state))
      PROVE  IInv'
  <2>1. run' \in [Job -> RunStates] /\ run'[j] = state /\ \A i \in Job \ {j} : run'[i] = run[i]
    BY <1>1, <1>2 DEF RunStates
  <2>2. /\ Verdict(j, state) \in Terminal
        /\ Verdict(j, state) = "succeeded" => state = "succeeded"
        /\ Verdict(j, state) = "cancelled" => j \in asked
    BY <1>2 DEF Verdict, Terminal
  <2> QED
    BY <1>1, <1>2, <2>1, <2>2, JobEnds
<1>3. CASE Finish(j, "failed") /\ UNCHANGED run
  <2>1. "failed" \in Terminal
    BY DEF Terminal
  <2> QED
    BY <1>1, <1>3, <2>1, JobEnds
<1> QED
  BY <1>2, <1>3 DEF End, RunEnds

LEMMA WorkerStepKeeps ==
  ASSUME IInv, WorkerStep
  PROVE  IInv'
<1>1. QueueTypeOK
  BY DEF IInv, OneJobRuns
<1>2. ASSUME NEW j \in Job, Claim(j) PROVE IInv'
  BY <1>2, ClaimKeeps
<1>3. CASE FailsBeforeRun
  <2>1. "failed" \in Terminal /\ run \in [Job -> RunStates]
    BY <1>1 DEF Terminal, QueueTypeOK
  <2> QED
    BY <1>3, <2>1, JobEnds DEF FailsBeforeRun
<1>4. CASE StartRun
  BY <1>4, StartRunKeeps
<1>5. CASE AcquireModel
  <2>1. UNCHANGED queue /\ worker.at = "listing"
        /\ \E at \in {"acquiring", "ending"} :
             WorkerGoes(at) \/ \E verdict \in Verdicts : GoesBad(at, verdict)
    BY <1>5 DEF AcquireModel, Verdicts
  <2> QED
    BY <1>1, <2>1, GoesOnTyped, RunGoesOn DEF Points
<1>6. CASE Generate
  <2>1. worker.left \in 0 .. Generations /\ worker.left > 0 => worker.left - 1 \in 0 .. Generations
    BY QueueAssumption
  <2>2. /\ worker' \in [at : Points, job : Job \cup {NoJob}, verdict : Verdicts,
                        left : 0 .. Generations]
        /\ worker'.job = worker.job /\ worker'.at = worker.at
    BY <1>1, <1>6, <2>1, QueueTyped DEF Generate
  <2> QED
    BY <1>6, <2>2, RunGoesOn DEF Generate
<1>7. CASE Measured
  BY <1>1, <1>7, GoesOnTyped, RunGoesOn DEF Measured, Points
<1>8. CASE BreaksOff
  <2>1. UNCHANGED queue /\ worker.at = "measuring"
        /\ \E verdict \in Verdicts : GoesBad("finally", verdict)
    BY <1>8 DEF BreaksOff, Verdicts
  <2> QED
    BY <1>1, <2>1, GoesOnTyped, RunGoesOn DEF Points
<1>9. CASE LetGo
  BY <1>1, <1>9, GoesOnTyped, RunGoesOn DEF LetGo, Points
<1>10. CASE End
  BY <1>10, EndKeeps
<1> QED
  BY <1>2, <1>3, <1>4, <1>5, <1>6, <1>7, <1>8, <1>9, <1>10 DEF WorkerStep
-----------------------------------------------------------------------------
(* Everybody else's.                                                      *)

LEMMA SubmitKeeps ==
  ASSUME IInv, NEW j \in Job, Submit(j)
  PROVE  IInv'
<1>1. /\ UNCHANGED <<asked, run, worker, up, downs>> /\ job \in [Job -> JobStates]
      /\ job[j] = "none" /\ job' = [job EXCEPT ![j] = "queued"]
  BY DEF Submit, Finish, IInv, OneJobRuns, QueueTypeOK
<1>2. QueueTypeOK'
  BY <1>1 DEF IInv, OneJobRuns, QueueTypeOK, JobStates
<1>3. OneJobRuns'
  BY <1>1, <1>2 DEF IInv, OneJobRuns
<1> QED
  BY <1>1, <1>3 DEF IInv, WorkerInv

LEMMA CancelKeeps ==
  ASSUME IInv, NEW j \in Job, Cancel(j)
  PROVE  IInv'
<1>1. UNCHANGED <<run, worker, up, downs>> /\ job \in [Job -> JobStates] /\ asked \subseteq Job
  BY DEF Cancel, IInv, OneJobRuns, QueueTypeOK
<1>2. CASE job[j] = "queued" /\ Finish(j, "cancelled") /\ UNCHANGED asked
  <2>1. job' = [job EXCEPT ![j] = "cancelled"]
    BY <1>2 DEF Finish
  <2>2. QueueTypeOK'
    BY <1>1, <1>2, <2>1 DEF IInv, OneJobRuns, QueueTypeOK, JobStates
  <2>3. OneJobRuns'
    BY <1>1, <1>2, <2>1, <2>2 DEF IInv, OneJobRuns
  <2> QED
    BY <1>1, <2>3 DEF IInv, WorkerInv
<1>3. CASE job[j] = "running" /\ asked' = asked \cup {j} /\ UNCHANGED job
  <2>1. QueueTypeOK'
    BY <1>1, <1>3 DEF IInv, OneJobRuns, QueueTypeOK
  <2>2. OneJobRuns'
    BY <1>1, <1>3, <2>1 DEF IInv, OneJobRuns
  <2> QED
    BY <1>1, <2>2 DEF IInv, WorkerInv
<1> QED
  BY <1>2, <1>3 DEF Cancel

LEMMA ReconciledRuns ==
  ASSUME QueueTypeOK, RunsReconciled
  PROVE  /\ run' \in [Job -> RunStates]
         /\ \A j \in Job : /\ run[j] \in {"none", "succeeded", "failed"} => run'[j] = run[j]
                           /\ run[j] = "running" => run'[j] = "failed"
BY DEF RunsReconciled, QueueTypeOK, RunStates

LEMMA CommandLineKeeps ==
  ASSUME IInv, CommandLine
  PROVE  IInv'
<1>1. /\ UNCHANGED <<job, asked, worker, up, downs>> /\ run' \in [Job -> RunStates]
      /\ \A j \in Job : /\ run[j] \in {"none", "succeeded", "failed"} => run'[j] = run[j]
                        /\ run[j] = "running" => run'[j] = "failed"
  BY ReconciledRuns DEF CommandLine, IInv, OneJobRuns
<1>2. QueueTypeOK'
  BY <1>1 DEF IInv, OneJobRuns, QueueTypeOK
<1>3. OneJobRuns'
  BY <1>1, <1>2 DEF IInv, OneJobRuns
<1>4. worker.job \in Job \cup {NoJob}
  BY QueueTyped DEF IInv, OneJobRuns
<1>5. WorkerInv'
  BY <1>1, <1>4 DEF IInv, WorkerInv
<1> QED
  BY <1>3, <1>5 DEF IInv

LEMMA GoDownKeeps ==
  ASSUME IInv, GoDown
  PROVE  IInv'
<1>1. /\ up' = FALSE /\ worker' = Nobody /\ UNCHANGED <<job, asked>>
      /\ downs < MaxDowns /\ downs' = downs + 1
  BY DEF GoDown
<1>2. downs' \in 0 .. MaxDowns
  <2>1. downs \in 0 .. MaxDowns /\ MaxDowns \in Nat
    BY QueueAssumption DEF IInv, OneJobRuns, QueueTypeOK
  <2> QED
    BY <1>1, <2>1
<1>3. /\ run' \in [Job -> RunStates]
      /\ \A j \in Job : run'[j] = run[j] \/ (job[j] = "running" /\ run'[j] = "succeeded")
  BY DEF GoDown, IInv, OneJobRuns, QueueTypeOK, RunStates, WorkerInv
<1>4. QueueTypeOK'
  BY <1>1, <1>2, <1>3, NobodyTyped DEF IInv, OneJobRuns, QueueTypeOK
<1>5. OneJobRuns'
  BY <1>1, <1>3, <1>4 DEF IInv, OneJobRuns
<1>6. WorkerInv'
  BY <1>1, NobodyTyped DEF WorkerInv
<1> QED
  BY <1>5, <1>6 DEF IInv

LEMMA StartKeeps ==
  ASSUME IInv, Start
  PROVE  IInv'
<1>1. /\ ~up /\ up' = TRUE /\ UNCHANGED <<asked, worker, downs>>
      /\ worker.at = "idle" /\ worker.job = NoJob
      /\ run' \in [Job -> RunStates]
      /\ \A j \in Job : /\ run[j] \in {"none", "succeeded", "failed"} => run'[j] = run[j]
                        /\ run[j] = "running" => run'[j] = "failed"
  BY ReconciledRuns DEF Start, IInv, OneJobRuns, WorkerInv
<1>2. /\ job' \in [Job -> JobStates]
      /\ \A j \in Job : job'[j] = IF job[j] = "running" THEN "failed" ELSE job[j]
  BY DEF Start, JobsReconciled, IInv, OneJobRuns, QueueTypeOK, JobStates
<1>3. QueueTypeOK'
  BY <1>1, <1>2 DEF IInv, OneJobRuns, QueueTypeOK
<1>4. OneJobRuns'
  BY <1>1, <1>2, <1>3 DEF IInv, OneJobRuns
<1>5. WorkerInv'
  BY <1>1 DEF WorkerInv
<1> QED
  BY <1>4, <1>5 DEF IInv

LEMMA QueueNextKeeps ==
  ASSUME IInv, [QueueNext]_queueVars
  PROVE  IInv'
<1>1. ASSUME NEW j \in Job, Submit(j) \/ Cancel(j) PROVE IInv'
  BY <1>1, SubmitKeeps, CancelKeeps
<1>2. CASE CommandLine
  BY <1>2, CommandLineKeeps
<1>3. CASE WorkerStep
  BY <1>3, WorkerStepKeeps
<1>4. CASE UNCHANGED <<queue, worker>>
  <2>1. QueueTypeOK'
    BY <1>4 DEF IInv, OneJobRuns, QueueTypeOK, queue
  <2> QED
    BY <1>4, <2>1 DEF IInv, OneJobRuns, WorkerInv, queue
<1>5. ASSUME NEW s \in Session, CallStep(s) PROVE IInv'
  BY <1>5, FollowsKeeps DEF CallStep
<1>6. ASSUME NEW m \in Model, TaskStep(m) PROVE IInv'
  BY <1>6, FollowsKeeps DEF TaskStep
<1>7. CASE GoDown
  BY <1>7, GoDownKeeps
<1>8. CASE Start
  BY <1>8, StartKeeps
<1> QED
  BY <1>1, <1>2, <1>3, <1>4, <1>5, <1>6, <1>7, <1>8 DEF QueueNext, ClientStep, queueVars
-----------------------------------------------------------------------------
LEMMA AlwaysIInv == QueueSpec => []IInv
<1>1. QueueInit => IInv
  <2> SUFFICES ASSUME QueueInit PROVE IInv
    OBVIOUS
  <2>1. downs \in 0 .. MaxDowns
    BY QueueAssumption DEF QueueInit
  <2>2. QueueTypeOK
    BY <2>1, NobodyTyped DEF QueueInit, QueueTypeOK, JobStates, RunStates
  <2>3. OneJobRuns
    BY <2>2, NobodyTyped DEF QueueInit, OneJobRuns
  <2> QED
    BY <2>3, NobodyTyped DEF QueueInit, IInv, WorkerInv
<1>2. IInv /\ [QueueNext]_queueVars => IInv'
  BY QueueNextKeeps
<1> QED
  BY <1>1, <1>2, PTL DEF QueueSpec

\* One job runs, the worker's, and the tables say of every other how it ended: whatever fails, and
\* wherever in it the service goes down.  No exit of the worker forgets to write one.
THEOREM OneJobAlwaysRuns == QueueSpec => []OneJobRuns
<1>1. IInv => OneJobRuns
  BY DEF IInv
<1> QED
  BY <1>1, AlwaysIInv, PTL
-----------------------------------------------------------------------------
(* What a step may not do to a verdict.                                   *)

\* While the worker has a job, it is the one that runs, and no results of it are published.
LEMMA WorkersJob ==
  ASSUME IInv, up, worker.at # "idle"
  PROVE  /\ worker.job \in Job /\ job[worker.job] = "running"
         /\ run[worker.job] \in {"none", "running", "failed"}
<1>1. worker.job \in Job
  BY QueueTyped DEF IInv, OneJobRuns, WorkerInv
<1>2. job[worker.job] = "running"
  BY <1>1, JobNumbers DEF IInv, OneJobRuns
<1> QED
  BY <1>1, <1>2 DEF IInv, WorkerInv

LEMMA QueueRests ==
  ASSUME QueueTypeOK, UNCHANGED <<job, asked, run>>
  PROVE  Stands
BY DEF Stands, Terminal, QueueTypeOK

LEMMA EndStands ==
  ASSUME IInv, End
  PROVE  Stands
<1>1. /\ worker.job \in Job /\ job[worker.job] = "running"
      /\ run[worker.job] \in {"none", "running", "failed"} /\ UNCHANGED asked
      /\ job \in [Job -> JobStates] /\ run \in [Job -> RunStates]
  BY WorkersJob DEF End, IInv, OneJobRuns, QueueTypeOK
<1> DEFINE j == worker.job
<1>2. ASSUME NEW state \in {"succeeded", "failed"}, run' = [run EXCEPT ![j] = state],
             Finish(j, Verdict(j, state))
      PROVE  Stands
  <2>1. job' = [job EXCEPT ![j] = Verdict(j, state)] /\ (j \in asked => Verdict(j, state) = "cancelled")
    BY <1>2 DEF Finish, Verdict
  <2> QED
    BY <1>1, <1>2, <2>1 DEF Stands, Terminal
<1>3. CASE Finish(j, "failed") /\ UNCHANGED run
  BY <1>1, <1>3 DEF Finish, Stands, Terminal
<1> QED
  BY <1>2, <1>3 DEF End, RunEnds

LEMMA WorkerStepStands ==
  ASSUME IInv, WorkerStep
  PROVE  Stands
<1>1. QueueTypeOK /\ job \in [Job -> JobStates] /\ run \in [Job -> RunStates]
  BY DEF IInv, OneJobRuns, QueueTypeOK
<1>2. ASSUME NEW j \in Job, Claim(j) PROVE Stands
  <2>1. /\ job[j] = "queued" /\ UNCHANGED <<asked, run>>
        /\ \E state \in {"running", "failed"} : job' = [job EXCEPT ![j] = state]
    BY <1>2 DEF Claim, Finish
  <2> QED
    BY <1>1, <2>1 DEF Stands, Terminal
<1>3. CASE FailsBeforeRun
  BY <1>1, <1>3, WorkersJob DEF FailsBeforeRun, Finish, Stands, Terminal
<1>4. CASE StartRun
  BY <1>1, <1>4, WorkersJob DEF StartRun, Stands, Terminal
<1>5. CASE AcquireModel \/ Generate \/ Measured \/ BreaksOff \/ LetGo
  <2>1. UNCHANGED queue
    BY <1>5 DEF AcquireModel, Generate, Measured, BreaksOff, LetGo
  <2> QED
    BY <1>1, <2>1, QueueRests DEF queue
<1>6. CASE End
  BY <1>6, EndStands
<1> QED
  BY <1>2, <1>3, <1>4, <1>5, <1>6 DEF WorkerStep

LEMMA QueueNextStands ==
  ASSUME IInv, [QueueNext]_queueVars
  PROVE  Stands
<1>1. QueueTypeOK /\ job \in [Job -> JobStates] /\ run \in [Job -> RunStates]
  BY DEF IInv, OneJobRuns, QueueTypeOK
<1>2. ASSUME NEW j \in Job, Submit(j) PROVE Stands
  BY <1>1, <1>2 DEF Submit, Finish, Stands, Terminal
<1>3. ASSUME NEW j \in Job, Cancel(j) PROVE Stands
  BY <1>1, <1>3 DEF Cancel, Finish, Stands, Terminal
<1>4. CASE CommandLine
  BY <1>1, <1>4, ReconciledRuns DEF CommandLine, Stands, Terminal
<1>5. CASE WorkerStep
  BY <1>5, WorkerStepStands
<1>6. CASE UNCHANGED queue
  BY <1>1, <1>6, QueueRests DEF queue
<1>7. CASE GoDown
  BY <1>1, <1>7, WorkersJob DEF GoDown, Stands, Terminal
<1>8. CASE Start
  BY <1>1, <1>8, ReconciledRuns DEF Start, JobsReconciled, Stands, Terminal
<1> QED
  BY <1>2, <1>3, <1>4, <1>5, <1>6, <1>7, <1>8
  DEF QueueNext, ClientStep, CallStep, TaskStep, queueVars

\* A verdict stands: a later restart, the command line or a late cancel changes no job that is
\* over, and a job somebody asked to stop is never said to have succeeded.
THEOREM VerdictsAlwaysStand == QueueSpec => VerdictsStand
<1>1. IInv /\ [QueueNext]_queueVars => [Stands]_queueVars
  BY QueueNextStands
<1> QED
  BY <1>1, AlwaysIInv, PTL DEF QueueSpec, VerdictsStand
-----------------------------------------------------------------------------
(* The model a run measures.  What the worker holds follows from where its *)
(* call is; that what it holds is in memory, from the manager's own        *)
(* invariants (ResourceManager_proofs), every step of the queue being one  *)
(* of the manager's, none, or the end of the process.                      *)

\* The worker's acquire is for its job's model, its release drops all it holds, and between the
\* two its session names that model or has lapsed.
WorkersCall ==
    /\ worker.at \in {"idle", "starting", "listing", "measuring", "finally"} =>
         call[Worker] = Idle
    /\ worker.at = "acquiring" => /\ call[Worker].at \notin {"idle", "release"}
                                  /\ call[Worker].model = ModelOf[worker.job]
    /\ worker.at = "ending" => call[Worker] = Idle \/ call[Worker].at = "release"
    /\ worker.at \notin {"measuring", "finally"} => leased[Worker] = {}
    /\ worker.at = "measuring" /\ lease[Worker] # "none" => ModelOf[worker.job] \in leased[Worker]

\* What is held, or has come in and is about to be, is in memory, whoever loaded it.
HeldHere ==
    \A m \in Model : m \in held \/ load[m] \in {"landed", "adopted"} => resident[m] # Absent

LEMMA HeldHereStep ==
  ASSUME ~OutsideActs, Books, MarksAnswered(call, unloading, givingBack), Kept, HeldHere,
         OneOrphanAtATime, [Next]_vars
  PROVE  HeldHere'
<1> USE DEF Books
\* What is gone was marked, and nothing held or coming in is.
<1>1. ASSUME NEW k \in unloading, Answered(k), UNCHANGED load, held' \subseteq held
      PROVE  HeldHere'
  <2>1. \A m \in Model \ {k} : resident'[m] = resident[m]
    BY <1>1, AnsweredLeavesOthers
  <2>2. k \notin held /\ load[k] = "none"
    BY <1>1 DEF Kept, InFlight, TypeOK
  <2> QED
    BY <1>1, <2>1, <2>2 DEF HeldHere
<1>2. ASSUME UNCHANGED resident, held' \subseteq held,
             \A m \in Model : load'[m] \in {"landed", "adopted"} => load'[m] = load[m]
      PROVE  HeldHere'
  BY <1>2 DEF HeldHere
<1>3. ASSUME NEW s \in Session, (\E m \in Model : Acquire(s, m)) \/ Release(s)
      PROVE  HeldHere'
  BY <1>2, <1>3, LoopAsksForOwned DEF Acquire, Release, loads
<1>4. ASSUME NEW s \in Session, UnloadAnswered(s) PROVE HeldHere'
  BY <1>1, <1>4, LoopAsksForOwned DEF UnloadAnswered, MarksAnswered, LoopsOf, loads
<1>5. ASSUME NEW s \in Session, Proceed(s) PROVE HeldHere'
  <2> DEFINE m == call[s].model
             o == Surveyed(s)
  <2>1. m \in Model /\ UNCHANGED resident
    BY <1>5 DEF Proceed, Looks, TypeOK, CallType
  <2>2. \/ Blocked(s, m, o) \/ Share(s, m, o) \/ Join(s, m, o)
        \/ JoinLanded(s, m, o) \/ StartLoad(s, m, o)
        \/ Refuse(s, m, o) \/ Preempt(s, m, o)
    BY <1>5 DEF Proceed
  <2> HIDE DEF m, o
  <2>3. CASE Blocked(s, m, o) \/ Join(s, m, o) \/ Refuse(s, m, o)
    BY <1>2, <2>1, <2>3 DEF Blocked, Join, Refuse, books, loads
  <2>4. CASE Share(s, m, o)
    BY <1>2, <2>1, <2>4 DEF Share, Takes, loads
  <2>5. CASE JoinLanded(s, m, o)
    BY <2>1, <2>5 DEF JoinLanded, Takes, HeldHere, TypeOK
  <2>6. CASE StartLoad(s, m, o) \/ Preempt(s, m, o)
    BY <1>2, <2>1, <2>6 DEF StartLoad, Preempt, books, TypeOK
  <2> QED
    BY <2>2, <2>3, <2>4, <2>5, <2>6
<1>6. ASSUME NEW m \in Model, Task(m) PROVE HeldHere'
  <2>1. CASE AskLoad(m) \/ ForgetLoad(m)
    BY <1>2, <2>1 DEF AskLoad, ForgetLoad, books, TypeOK
  <2>2. CASE Adopt(m) \/ LoadLands(m)
    <3>1. \A k \in Model : resident'[k] = resident[k] \/ resident'[k].here > 0
      BY <2>2, OneMoreAdds DEF Adopt, LoadLands
    <3>2. resident'[m] # Absent
      BY <2>2, OneMoreAdds DEF Adopt, LoadLands, Absent
    <3>3. \A k \in Model \ {m} : load'[k] = load[k] /\ (k \in held' => k \in held)
      BY <2>2 DEF Adopt, LoadLands, Land, TypeOK
    <3> QED
      BY <3>1, <3>2, <3>3 DEF HeldHere, Absent
  <2>3. CASE LoadFails(m)
    <3>1. \A k \in Model : resident'[k] = resident[k] \/ resident'[k].here > 0
      BY <2>3, OneMoreAdds DEF LoadFails
    <3>2. held' = held /\ \A k \in Model : load'[k] = load[k] \/ load'[k] = "none"
      BY <2>3 DEF LoadFails, books, TypeOK
    <3> QED
      BY <3>1, <3>2 DEF HeldHere, Absent
  <2>4. CASE GiveBackAnswered(m)
    BY <1>1, <2>4 DEF GiveBackAnswered, MarksAnswered, books, loads
  <2> QED
    BY <1>6, <2>1, <2>2, <2>3, <2>4 DEF Task
<1>7. ASSUME NEW s \in Session,
             Renew(s) \/ LeaseLapses(s) \/ GiveUp(s) \/ SurveyAnswers(s)
      PROVE  HeldHere'
  BY <1>2, <1>7 DEF Renew, LeaseLapses, GiveUp, SurveyAnswers, books, loads
<1>8. ASSUME NEW m \in Model PROVE ~OutsideLoads(m) /\ ~OutsideUnloads(m)
  BY DEF OutsideLoads, OutsideUnloads
<1>9. CASE UNCHANGED vars
  BY <1>2, <1>9 DEF vars, books, loads
<1> QED
  BY <1>3, <1>4, <1>5, <1>6, <1>7, <1>8, <1>9 DEF Next, Client, Runs
-----------------------------------------------------------------------------
(* One session's call, and what it holds, across a step of the manager.   *)

LEMMA IdleIs ==
  /\ Idle.at = "idle"
  /\ \A at, m : /\ [Idle EXCEPT !.at = at].at = at
                /\ [Idle EXCEPT !.at = at, !.model = m].at = at
                /\ [Idle EXCEPT !.at = at, !.model = m].model = m
  /\ \A at, m, k : /\ [Idle EXCEPT !.at = at, !.model = m, !.busy = k].at = at
                   /\ [Idle EXCEPT !.at = at, !.model = m, !.busy = k].model = m
BY DEF Idle

\* An unload loop changes the call it belongs to alone, which is done or goes on as it was.
LoopGoes(s, c, done) ==
    /\ call'[s] = done \/ (call'[s].at = c[s].at /\ call'[s].model = c[s].model)
    /\ \A x \in Session \ {s} : call'[x] = c[x]

LEMMA LoopsCall ==
  ASSUME NEW s \in Session, NEW c \in [Session -> CallType], NEW done, NEW p,
         call' = [c EXCEPT ![s] = IF p.busy = NoModel THEN done
                                  ELSE [@ EXCEPT !.busy = p.busy, !.todo = p.todo]]
  PROVE  LoopGoes(s, c, done)
<1>1. /\ [c[s] EXCEPT !.busy = p.busy, !.todo = p.todo].at = c[s].at
      /\ [c[s] EXCEPT !.busy = p.busy, !.todo = p.todo].model = c[s].model
  BY DEF CallType
<1> QED
  BY <1>1 DEF LoopGoes

LEMMA AcquiresCall ==
  ASSUME TypeOK, NEW s \in Session, NEW m \in Model, Acquire(s, m)
  PROVE  /\ call'[s].at \in {"expire", "survey"} /\ call'[s].model = m
         /\ \A x \in Session \ {s} : call'[x] = call[x]
<1> DEFINE start(at) == [Idle EXCEPT !.at = at, !.model = m]
           c == [call EXCEPT ![s] = start("expire")]
           lapsed == {x \in Session : lease[x] = "lapsed"}
<1>1. c \in [Session -> CallType]
  BY CallTyped DEF Point, TypeOK
<1>2. c[s] = start("expire") /\ \A x \in Session \ {s} : c[x] = call[x]
  BY DEF TypeOK
<1>3. /\ start("expire").at = "expire" /\ start("expire").model = m
      /\ start("survey").at = "survey" /\ start("survey").model = m
  BY IdleIs
<1> HIDE DEF start, c
<1>4. PICK p \in UnloadPasses(Orphans(lapsed), Dropped(lapsed), unloading) :
        call' = [c EXCEPT ![s] = IF p.busy = NoModel THEN start("survey")
                                 ELSE [@ EXCEPT !.busy = p.busy, !.todo = p.todo]]
  BY DEF Acquire, UnloadAll, c, start
<1>5. LoopGoes(s, c, start("survey"))
  BY <1>1, <1>4, LoopsCall
<1> QED
  BY <1>2, <1>3, <1>5 DEF LoopGoes

LEMMA ReleasesCall ==
  ASSUME TypeOK, NEW s \in Session, Release(s)
  PROVE  /\ call'[s] = Idle \/ call'[s].at = "release"
         /\ \A x \in Session \ {s} : call'[x] = call[x]
         /\ leased' = [leased EXCEPT ![s] = {}]
<1> DEFINE c == [call EXCEPT ![s] = [Idle EXCEPT !.at = "release"]]
<1>1. /\ c \in [Session -> CallType] /\ c[s].at = "release"
      /\ \A x \in Session \ {s} : c[x] = call[x]
  BY IdleIs, ReleaseTyped DEF TypeOK
<1> HIDE DEF c
<1>2. PICK p \in UnloadPasses(Orphans({s}), Dropped({s}), unloading) :
        call' = [c EXCEPT ![s] = IF p.busy = NoModel THEN Idle
                                 ELSE [@ EXCEPT !.busy = p.busy, !.todo = p.todo]]
  BY DEF Release, UnloadAll, c
<1>3. LoopGoes(s, c, Idle)
  BY <1>1, <1>2, LoopsCall
<1> QED
  BY <1>1, <1>3 DEF LoopGoes, Release

LEMMA AnsweredCalls ==
  ASSUME TypeOK, NEW s \in Session, UnloadAnswered(s)
  PROVE  /\ call'[s] = Then(s) \/ (call'[s].at = call[s].at /\ call'[s].model = call[s].model)
         /\ \A x \in Session \ {s} : call'[x] = Woken(call[s].busy)[x]
<1> DEFINE c == Woken(call[s].busy)
<1>1. c \in [Session -> CallType]
  BY WokenTyped
<1>2. c[s] = call[s]
  BY DEF UnloadAnswered, Woken
<1> HIDE DEF c
<1>3. PICK p \in UnloadPasses(call[s].todo, refs, unloading \ {call[s].busy}) :
        call' = [c EXCEPT ![s] = IF p.busy = NoModel THEN Then(s)
                                 ELSE [@ EXCEPT !.busy = p.busy, !.todo = p.todo]]
  BY DEF UnloadAnswered, UnloadAll, c
<1>4. LoopGoes(s, c, Then(s))
  BY <1>1, <1>3, LoopsCall
<1> QED
  BY <1>2, <1>4 DEF LoopGoes, c

\* A step of another client leaves a session's call alone; it can only reclaim its lapsed lease.
LEMMA OthersStep ==
  ASSUME TypeOK, NEW w \in Session, NEW s \in Session \ {w}, Client(s)
  PROVE  /\ call'[w] = call[w]
         /\ (leased'[w] = leased[w] /\ lease'[w] = lease[w]) \/ (leased'[w] = {} /\ lease'[w] = "none")
<1>1. ASSUME NEW m \in Model, Acquire(s, m)
      PROVE  /\ call'[w] = call[w]
             /\ \/ leased'[w] = leased[w] /\ lease'[w] = lease[w]
                \/ leased'[w] = {} /\ lease'[w] = "none"
  BY <1>1, AcquiresCall DEF Acquire
<1>2. CASE Release(s)
  BY <1>2, ReleasesCall DEF Release, TypeOK
<1>3. CASE Renew(s) \/ LeaseLapses(s) \/ GiveUp(s)
  BY <1>3 DEF Renew, LeaseLapses, GiveUp, TypeOK, books
<1> QED
  BY <1>1, <1>2, <1>3 DEF Client

\* A call of w that the runtime's answers, or another call, leave as it was.
CallRests(w) == call'[w] = call[w] /\ leased'[w] = leased[w] /\ lease'[w] = lease[w]

\* An acquire of w goes on, or ends with its model or without.
AcquireMoves(w) ==
    \/ /\ call'[w] = Idle
       /\ leased'[w] = leased[w] \/ leased'[w] = leased[w] \cup {call[w].model}
    \/ /\ call'[w].at \notin {"idle", "release"} /\ call'[w].model = call[w].model
       /\ leased'[w] = leased[w]

LEMMA WokenCall ==
  ASSUME NEW k, NEW w \in Session
  PROVE  /\ call[w].at # "blocked" => Woken(k)[w] = call[w]
         /\ call[w].at \notin {"idle", "release"} =>
              Woken(k)[w].at \notin {"idle", "release"} /\ Woken(k)[w].model = call[w].model
BY IdleIs DEF Woken

LEMMA RestsIdle ==
  ASSUME TypeOK, NEW w \in Session, call[w].at \in {"idle", "release"}, NEW s \in Session \ {w},
         Runs(s)
  PROVE  CallRests(w)
<1>1. CASE SurveyAnswers(s)
  BY <1>1 DEF SurveyAnswers, CallRests, books, TypeOK
<1>2. CASE UnloadAnswered(s)
  BY <1>2, AnsweredCalls, WokenCall DEF UnloadAnswered, CallRests
<1>3. CASE Proceed(s)
  BY <1>3 DEF Proceed, Blocked, Share, Join, JoinLanded, StartLoad, Refuse, Preempt, Takes, Waits,
              CallRests, books, TypeOK
<1> QED
  BY <1>1, <1>2, <1>3 DEF Runs

LEMMA TaskLeavesIdle ==
  ASSUME TypeOK, NEW w \in Session, call[w].at \in {"idle", "release"}, NEW m \in Model, Task(m)
  PROVE  CallRests(w)
<1>1. w \notin Waiting(m)
  BY DEF Waiting
<1>2. CASE AskLoad(m) \/ ForgetLoad(m)
  BY <1>2 DEF AskLoad, ForgetLoad, CallRests, books
<1>3. CASE Adopt(m) \/ LoadLands(m)
  BY <1>1, <1>3 DEF Adopt, LoadLands, Land, CallRests
<1>4. CASE LoadFails(m)
  BY <1>1, <1>4 DEF LoadFails, CallRests, books
<1>5. CASE GiveBackAnswered(m)
  BY <1>5, WokenCall DEF GiveBackAnswered, CallRests, books
<1> QED
  BY <1>2, <1>3, <1>4, <1>5 DEF Task

LEMMA MovesByTask ==
  ASSUME TypeOK, NEW w \in Session, call[w].at \notin {"idle", "release"}, NEW m \in Model, Task(m)
  PROVE  AcquireMoves(w)
<1>1. CASE AskLoad(m) \/ ForgetLoad(m)
  BY <1>1 DEF AskLoad, ForgetLoad, AcquireMoves, books
<1>2. CASE Adopt(m) \/ LoadLands(m)
  BY <1>2 DEF Adopt, LoadLands, Land, Waiting, AcquireMoves
<1>3. CASE LoadFails(m)
  BY <1>3 DEF LoadFails, Waiting, AcquireMoves, books
<1>4. CASE GiveBackAnswered(m)
  BY <1>4, WokenCall DEF GiveBackAnswered, AcquireMoves, books
<1> QED
  BY <1>1, <1>2, <1>3, <1>4 DEF Task

LEMMA MovesByRun ==
  ASSUME TypeOK, NEW w \in Session, call[w].at \notin {"idle", "release"}, NEW s \in Session, Runs(s)
  PROVE  AcquireMoves(w)
<1>1. CASE SurveyAnswers(s)
  <2>1. PICK seen : call' = [call EXCEPT ![s].at = "surveyed", ![s].seen = seen]
    BY <1>1 DEF SurveyAnswers
  <2>2. /\ leased' = leased
        /\ call'[w] = IF w = s THEN [call[s] EXCEPT !.at = "surveyed", !.seen = seen] ELSE call[w]
    BY <1>1, <2>1 DEF SurveyAnswers, books, TypeOK
  <2>3. /\ [call[s] EXCEPT !.at = "surveyed", !.seen = seen].at = "surveyed"
        /\ [call[s] EXCEPT !.at = "surveyed", !.seen = seen].model = call[s].model
    BY DEF TypeOK, CallType
  <2> QED
    BY <2>2, <2>3 DEF AcquireMoves
<1>2. CASE UnloadAnswered(s)
  <2>1. /\ call'[s] = Then(s) \/ (call'[s].at = call[s].at /\ call'[s].model = call[s].model)
        /\ \A x \in Session \ {s} : call'[x] = Woken(call[s].busy)[x]
        /\ leased' = leased /\ call[s].at \in {"expire", "release"}
    BY <1>2, AnsweredCalls DEF UnloadAnswered
  <2>2. call[s].at = "expire" => Then(s).at = "survey" /\ Then(s).model = call[s].model
    BY IdleIs DEF Then
  <2>3. CASE w = s
    BY <2>1, <2>2, <2>3 DEF AcquireMoves
  <2>4. CASE w # s
    BY <2>1, <2>4, WokenCall DEF AcquireMoves
  <2> QED
    BY <2>3, <2>4
<1>3. CASE Proceed(s)
  <2> DEFINE m == call[s].model
             o == Surveyed(s)
  <2>2. \/ Blocked(s, m, o) \/ Share(s, m, o) \/ Join(s, m, o)
        \/ JoinLanded(s, m, o) \/ StartLoad(s, m, o)
        \/ Refuse(s, m, o) \/ Preempt(s, m, o)
    BY <1>3 DEF Proceed
  <2>3. CASE Blocked(s, m, o)
    <3>1. PICK k \in InTheWay(m, o) : call' =
            [call EXCEPT ![s] = [Idle EXCEPT !.at = "blocked", !.model = m, !.busy = k]]
      BY <2>3 DEF Blocked
    <3>2. leased' = leased
      BY <2>3 DEF Blocked, books
    <3> QED
      BY <3>1, <3>2, IdleIs DEF AcquireMoves, TypeOK
  <2>4. CASE Refuse(s, m, o)
    BY <2>4 DEF Refuse, AcquireMoves, books, TypeOK
  <2>5. CASE Takes(s, m)
    BY <2>5 DEF Takes, AcquireMoves, TypeOK
  <2>6. CASE Waits(s, m) /\ UNCHANGED leased
    BY <2>6, IdleIs DEF Waits, AcquireMoves, TypeOK
  <2> QED
    BY <2>2, <2>3, <2>4, <2>5, <2>6 DEF Share, Join, JoinLanded, StartLoad, Preempt, books
<1> QED
  BY <1>1, <1>2, <1>3 DEF Runs


\* A release of w goes on, or is done.
LEMMA ReleaseRuns ==
  ASSUME TypeOK, NEW w \in Session, call[w].at = "release", Runs(w)
  PROVE  /\ call'[w] = Idle \/ call'[w].at = "release"
         /\ leased'[w] = leased[w]
<1>1. UnloadAnswered(w)
  BY DEF Runs, SurveyAnswers, Proceed, Looks
<1>2. Then(w) = Idle
  BY DEF Then
<1> QED
  BY <1>1, <1>2, AnsweredCalls DEF UnloadAnswered

\* The runtime answers, or a call or a task runs on: the worker follows its own acquire.
LEMMA FollowsCall ==
  ASSUME IInv, TypeOK, WorkersCall, Follows,
         (\E s \in Session : Runs(s)) \/ (\E m \in Model : Task(m))
  PROVE  WorkersCall'
<1>0. Worker \in Session /\ QueueTypeOK
  BY QueueAssumption DEF IInv, OneJobRuns
<1>1. CASE worker.at = "acquiring"
  <2>1. call[Worker].at \notin {"idle", "release"} /\ call[Worker].model = ModelOf[worker.job]
        /\ leased[Worker] = {}
    BY <1>1 DEF WorkersCall
  <2>2. AcquireMoves(Worker)
    BY <1>0, <2>1, MovesByRun, MovesByTask
  <2>3. CASE call'[Worker] = Idle
    <3>1. CASE ModelOf[worker.job] \in leased'[Worker]
      <4>1. WorkerGoes("measuring") /\ "measuring" \in Points
        BY <1>1, <2>3, <3>1 DEF Follows, Points
      <4>2. worker'.job = worker.job /\ worker'.at = "measuring"
        BY <1>0, <4>1, GoesOnTyped
      <4> QED
        BY <2>3, <3>1, <4>2 DEF WorkersCall
    <3>2. CASE ModelOf[worker.job] \notin leased'[Worker]
      <4>1. "ending" \in Points /\ \E verdict \in Verdicts : GoesBad("ending", verdict)
        BY <1>1, <2>3, <3>2 DEF Follows, Points, Verdicts
      <4>2. worker'.at = "ending"
        BY <1>0, <4>1, GoesOnTyped
      <4>3. leased'[Worker] = {}
        BY <2>1, <2>2, <2>3, <3>2, IdleIs DEF AcquireMoves
      <4> QED
        BY <2>3, <4>2, <4>3 DEF WorkersCall
    <3> QED
      BY <3>1, <3>2
  <2>4. CASE call'[Worker] # Idle
    <3>1. UNCHANGED worker
      BY <2>4 DEF Follows
    <3> QED
      BY <1>1, <2>1, <2>2, <2>4, <3>1 DEF AcquireMoves, WorkersCall
  <2> QED
    BY <2>3, <2>4
<1>2. CASE worker.at # "acquiring"
  <2>1. UNCHANGED worker
    BY <1>2 DEF Follows
  <2>2. call[Worker] = Idle \/ (call[Worker].at = "release" /\ worker.at = "ending")
    BY <1>0, <1>2, QueueTyped DEF WorkersCall, Points
  <2>3. CASE CallRests(Worker)
    BY <2>1, <2>3 DEF CallRests, WorkersCall
  <2>4. CASE Runs(Worker)
    <3>1. call[Worker].at # "idle"
      BY <2>4 DEF Runs, SurveyAnswers, Proceed, Looks, UnloadAnswered
    <3>2. call[Worker].at = "release" /\ worker.at = "ending"
      BY <2>2, <3>1, IdleIs
    <3>3. /\ call'[Worker] = Idle \/ call'[Worker].at = "release"
          /\ leased'[Worker] = leased[Worker]
      BY <1>0, <2>4, <3>2, ReleaseRuns
    <3> QED
      BY <2>1, <3>2, <3>3 DEF WorkersCall
  <2>5. CallRests(Worker) \/ Runs(Worker)
    BY <1>0, <2>2, IdleIs, RestsIdle, TaskLeavesIdle
  <2> QED
    BY <2>3, <2>4, <2>5
<1> QED
  BY <1>1, <1>2

\* The worker goes on without a step of the manager.
LEMMA WorkerMoves ==
  ASSUME IInv, WorkersCall, UNCHANGED vars, NEW at \in Points,
         WorkerGoes(at) \/ \E verdict \in Verdicts : GoesBad(at, verdict),
         \/ worker.at \in {"starting", "listing"} /\ at \in {"listing", "ending"}
         \/ worker.at = "measuring" /\ at = "finally"
  PROVE  WorkersCall'
<1>1. worker'.job = worker.job /\ worker'.at = at
  BY GoesOnTyped DEF IInv, OneJobRuns
<1>2. call' = call /\ leased' = leased /\ lease' = lease
  BY DEF vars, books
<1> QED
  BY <1>1, <1>2 DEF WorkersCall

LEMMA WorkerStepCall ==
  ASSUME IInv, Books, WorkersCall, WorkerStep
  PROVE  WorkersCall'
<1>0. Worker \in Session /\ QueueTypeOK /\ TypeOK
  BY QueueAssumption DEF IInv, OneJobRuns, Books
<1>1. ASSUME NEW j \in Job, Claim(j) PROVE WorkersCall'
  <2>1. UNCHANGED vars /\ worker.at = "idle"
        /\ (UNCHANGED worker
             \/ worker' = [Nobody EXCEPT !.at = "starting", !.job = j, !.left = Generations])
    BY <1>1 DEF Claim, ManagerRests
  <2>2. worker'.at \in {"idle", "starting"}
    BY <2>1 DEF Nobody
  <2> QED
    BY <2>1, <2>2 DEF WorkersCall, vars, books
<1>2. CASE FailsBeforeRun \/ End
  <2>1. UNCHANGED vars /\ worker'.at = "idle" /\ leased[Worker] = {} /\ call[Worker] = Idle
    BY <1>2, NobodyTyped DEF FailsBeforeRun, End, ManagerRests, WorkersCall
  <2> QED
    BY <2>1 DEF WorkersCall, vars, books
<1>3. CASE StartRun
  BY <1>3, WorkerMoves DEF StartRun, ManagerRests, Points
<1>4. CASE AcquireModel
  <2>1. CASE Acquire(Worker, ModelOf[worker.job]) /\ WorkerGoes("acquiring")
    <3>1. worker'.job = worker.job /\ worker'.at = "acquiring" /\ ModelOf[worker.job] \in Model
      <4>1. worker.job \in Job /\ "acquiring" \in Points
        BY <1>4, QueueTyped, <1>0 DEF IInv, WorkerInv, AcquireModel, Points
      <4> QED
        BY <1>0, <2>1, <4>1, GoesOnTyped, QueueAssumption
    <3>2. call'[Worker].at \in {"expire", "survey"} /\ call'[Worker].model = ModelOf[worker.job]
      BY <1>0, <2>1, <3>1, AcquiresCall
    <3>3. leased'[Worker] = {}
      BY <1>0, <1>4, <2>1 DEF Acquire, AcquireModel, WorkersCall
    <3> QED
      BY <3>1, <3>2, <3>3 DEF WorkersCall
  <2>2. CASE GoesBad("ending", "caught") /\ ManagerRests
    BY <1>4, <2>2, WorkerMoves DEF AcquireModel, ManagerRests, Points, Verdicts
  <2> QED
    BY <1>4, <2>1, <2>2 DEF AcquireModel
<1>5. CASE Generate
  <2>1. worker'.at = worker.at /\ worker'.job = worker.job /\ UNCHANGED vars
    BY <1>0, <1>5, QueueTyped DEF Generate, ManagerRests
  <2> QED
    BY <2>1 DEF WorkersCall, vars, books
<1>6. CASE Measured
  BY <1>6, WorkerMoves DEF Measured, ManagerRests, Points
<1>7. CASE BreaksOff
  <2>1. \E verdict \in Verdicts : GoesBad("finally", verdict)
    BY <1>7 DEF BreaksOff, Verdicts
  <2> QED
    BY <1>7, <2>1, WorkerMoves DEF BreaksOff, ManagerRests, Points
<1>8. CASE LetGo
  <2>1. worker'.at = "ending" /\ call[Worker] = Idle
    BY <1>0, <1>8, GoesOnTyped DEF LetGo, WorkersCall, Points
  <2>2. leased'[Worker] = {} /\ (call'[Worker] = Idle \/ call'[Worker].at = "release")
    <3>1. CASE lease[Worker] = "none"
      BY <1>0, <1>8, <2>1, <3>1 DEF LetGo, ManagerRests, vars, books, Books, LeasesMatchReferences
    <3>2. CASE lease[Worker] # "none"
      BY <1>0, <1>8, <3>2, ReleasesCall DEF LetGo, TypeOK
    <3> QED
      BY <3>1, <3>2
  <2> QED
    BY <2>1, <2>2 DEF WorkersCall
<1> QED
  BY <1>1, <1>2, <1>3, <1>4, <1>5, <1>6, <1>7, <1>8 DEF WorkerStep

LEMMA WorkersCallStep ==
  ASSUME IInv, Books, WorkersCall, [QueueNext]_queueVars
  PROVE  WorkersCall'
<1>0. Worker \in Session /\ TypeOK
  BY QueueAssumption DEF Books
<1>1. ASSUME UNCHANGED <<vars, worker>> PROVE WorkersCall'
  BY <1>1 DEF WorkersCall, vars, books
<1>2. CASE ClientStep
  <2>1. UNCHANGED worker
    BY <1>2 DEF ClientStep
  <2>2. /\ call'[Worker] = call[Worker]
        /\ \/ leased'[Worker] = leased[Worker] /\ (lease'[Worker] # "none" => lease[Worker] # "none")
           \/ leased'[Worker] = {} /\ lease'[Worker] = "none"
    <3>1. ASSUME NEW s \in Session \ {Worker}, Client(s)
          PROVE  /\ call'[Worker] = call[Worker]
                 /\ \/ leased'[Worker] = leased[Worker] /\ lease'[Worker] = lease[Worker]
                    \/ leased'[Worker] = {} /\ lease'[Worker] = "none"
      BY <1>0, <3>1, OthersStep
    <3>2. CASE LeaseLapses(Worker)
      BY <1>0, <3>2 DEF LeaseLapses, TypeOK
    <3>3. ASSUME NEW m \in Model, OutsideLoads(m) \/ OutsideUnloads(m)
          PROVE  call' = call /\ leased' = leased /\ lease' = lease
      BY <3>3 DEF OutsideLoads, OutsideUnloads, books
    <3> QED
      BY <1>2, <3>1, <3>2, <3>3 DEF ClientStep
  <2> QED
    BY <2>1, <2>2 DEF WorkersCall
<1>3. ASSUME NEW s \in Session, CallStep(s) PROVE WorkersCall'
  BY <1>0, <1>3, FollowsCall DEF CallStep
<1>4. ASSUME NEW m \in Model, TaskStep(m) PROVE WorkersCall'
  BY <1>0, <1>4, FollowsCall DEF TaskStep
<1>5. CASE GoDown
  BY <1>0, <1>5, NobodyTyped DEF GoDown, ManagerForgets, WorkersCall
<1>6. CASE WorkerStep
  BY <1>6, WorkerStepCall
<1> QED
  BY <1>1, <1>2, <1>3, <1>4, <1>5, <1>6
  DEF QueueNext, Submit, Cancel, CommandLine, Start, ManagerRests, queueVars

\* A step of the queue is one of the manager's, or the end of the process.
LEMMA ManagersPart ==
  ASSUME IInv, [QueueNext]_queueVars
  PROVE  [Next]_vars \/ ManagerForgets
<1>1. Worker \in Session /\ ModelOf \in [Job -> Model]
  BY QueueAssumption
<1>2. CASE WorkerStep
  <2>1. CASE AcquireModel
    <3>1. worker.job \in Job
      BY <2>1, QueueTyped DEF IInv, OneJobRuns, WorkerInv, AcquireModel
    <3> QED
      BY <1>1, <2>1, <3>1 DEF AcquireModel, ManagerRests, Next, Client
  <2>2. CASE LetGo
    BY <1>1, <2>2 DEF LetGo, ManagerRests, Next, Client
  <2>3. CASE ~AcquireModel /\ ~LetGo
    BY <1>2, <2>3 DEF WorkerStep, Claim, FailsBeforeRun, StartRun, Generate, Measured, BreaksOff,
                      End, ManagerRests
  <2> QED
    BY <2>1, <2>2, <2>3
<1>3. CASE ClientStep
  BY <1>1, <1>3 DEF ClientStep, Next, Client
<1>4. ASSUME NEW s \in Session, CallStep(s) PROVE Next
  BY <1>4 DEF CallStep, Next
<1>5. ASSUME NEW m \in Model, TaskStep(m) PROVE Next
  BY <1>5 DEF TaskStep, Next
<1> QED
  BY <1>2, <1>3, <1>4, <1>5
  DEF QueueNext, Submit, Cancel, CommandLine, Start, GoDown, ManagerRests, queueVars

\* What the manager's theorems rest on, here.
ManagerInv == /\ Books /\ MarksAnswered(call, unloading, givingBack) /\ Kept /\ HeldHere

LEMMA ManagerInvAtFirst == QueueInit => ManagerInv
<1> SUFFICES ASSUME QueueInit PROVE ManagerInv
  OBVIOUS
<1>1. TypeOK
  BY IdleTyped DEF QueueInit, Init, TypeOK, LoadStage, Copies, Absent
<1>2. Books
  BY <1>1 DEF QueueInit, Init, Books, LeasesMatchReferences, TablesDisjoint, InFlight
<1>3. MarksAnswered(call, unloading, givingBack)
  BY IdleIs DEF QueueInit, Init, MarksAnswered, LoopsOf
<1>4. Kept /\ HeldHere
  BY DEF QueueInit, Init, Kept, InFlight, HeldHere
<1> QED
  BY <1>2, <1>3, <1>4 DEF ManagerInv

LEMMA ManagerInvStep ==
  ASSUME ~OutsideActs, IInv, ManagerInv, OneOrphanAtATime, [QueueNext]_queueVars
  PROVE  ManagerInv'
<1>1. CASE [Next]_vars
  <2>1. Books' /\ MarksAnswered(call, unloading, givingBack)'
    BY <1>1, BooksStep, MarksStep DEF ManagerInv, Books
  <2>2. Kept' /\ HeldHere'
    BY <1>1, KeptStep, HeldHereStep DEF ManagerInv
  <2> QED
    BY <2>1, <2>2 DEF ManagerInv
<1>2. CASE ManagerForgets
  <2>0. Absent \in Copies /\ [Absent EXCEPT !.theirs = TRUE] \in Copies
    BY DEF Copies, Absent
  <2>1. resident' \in [Model -> Copies]
    BY <1>2, <2>0 DEF ManagerForgets, LeftBehind
  <2>2. \A s \in Session : call'[s] = Idle
    BY <1>2 DEF ManagerForgets
  <2>3. TypeOK'
    BY <1>2, <2>1, IdleTyped DEF ManagerForgets, TypeOK, LoadStage
  <2>4. Books'
    BY <1>2, <2>3 DEF ManagerForgets, Books, LeasesMatchReferences, TablesDisjoint, InFlight
  <2>5. MarksAnswered(call, unloading, givingBack)'
    BY <1>2, <2>2, IdleIs DEF ManagerForgets, MarksAnswered, LoopsOf
  <2>6. Kept' /\ HeldHere'
    BY <1>2 DEF ManagerForgets, Kept, InFlight, HeldHere
  <2> QED
    BY <2>4, <2>5, <2>6 DEF ManagerInv
<1> QED
  BY <1>1, <1>2, ManagersPart

\* "Everything after the acquire is inside the block that releases it" (BenchmarkHoldsItsModel,
\* engine.py): a run that measures has its model on the books and in memory until its lease
\* lapses, and holds nothing once it has ended; in every behaviour whose unload loops have one
\* orphan at a time, whatever the runtime does wrong, if nobody unloads behind the manager's back.
THEOREM BenchmarkAlwaysHoldsItsModel ==
  ASSUME ~OutsideActs
  PROVE  QueueSpec /\ []OneOrphanAtATime => []BenchmarkHoldsItsModel
<1>1. QueueInit => ManagerInv /\ WorkersCall
  <2>1. QueueInit => WorkersCall
    BY NobodyTyped, QueueAssumption DEF QueueInit, Init, WorkersCall
  <2> QED
    BY <2>1, ManagerInvAtFirst
<1>2. IInv /\ ManagerInv /\ OneOrphanAtATime /\ [QueueNext]_queueVars => ManagerInv'
  BY ManagerInvStep
<1>3. IInv /\ ManagerInv /\ WorkersCall /\ [QueueNext]_queueVars => WorkersCall'
  BY WorkersCallStep DEF ManagerInv
<1>4. IInv /\ ManagerInv /\ WorkersCall => BenchmarkHoldsItsModel
  <2> SUFFICES ASSUME IInv, ManagerInv, WorkersCall PROVE BenchmarkHoldsItsModel
    OBVIOUS
  <2> DEFINE m == ModelOf[worker.job]
  <2>1. Worker \in Session
    BY QueueAssumption
  <2>2. ASSUME worker.at = "measuring", lease[Worker] # "none"
        PROVE  m \in held /\ resident[m] # Absent
    <3>1. m \in leased[Worker] /\ m \in Model
      BY <2>1, <2>2 DEF WorkersCall, ManagerInv, Books, TypeOK
    <3>2. m \in held
      BY <2>1, <3>1 DEF ManagerInv, Books, LeasesMatchReferences
    <3> QED
      BY <3>1, <3>2 DEF ManagerInv, HeldHere
  <2>3. ASSUME worker.at \notin {"acquiring", "measuring", "finally"}
        PROVE  leased[Worker] = {} /\ \A k \in Model : refs[k][Worker] = 0
    <3>1. leased[Worker] = {}
      BY <2>3 DEF WorkersCall
    <3>2. \A k \in Model : refs[k][Worker] \in Nat /\ ~(refs[k][Worker] > 0)
      BY <2>1, <3>1 DEF ManagerInv, Books, TypeOK, LeasesMatchReferences
    <3> QED
      BY <3>1, <3>2
  <2> QED
    BY <2>2, <2>3 DEF BenchmarkHoldsItsModel
<1> QED
  BY <1>1, <1>2, <1>3, <1>4, AlwaysIInv, PTL DEF QueueSpec

\* Until the process ends, sessions of one model each stay so; a new one has none.
LEMMA OneOrphanInTheQueue ==
  ASSUME ~OutsideActs, MaxPerSession = 1, ~LeasesLapse
  PROVE  QueueSpec => []OneOrphanAtATime
<1>1. QueueInit => NamesOne /\ ManagerInv
  <2>1. QueueInit => ManagerInv
    BY ManagerInvAtFirst
  <2> QED
    BY <2>1, NamesOneAtFirst DEF QueueInit
<1>2. IInv /\ ManagerInv /\ NamesOne /\ [QueueNext]_queueVars => ManagerInv' /\ NamesOne'
  <2> SUFFICES ASSUME IInv, ManagerInv, NamesOne, [QueueNext]_queueVars
               PROVE  ManagerInv' /\ NamesOne'
    OBVIOUS
  <2>1. ManagerInv'
    BY ManagerInvStep DEF NamesOne
  <2>2. TypeOK
    BY DEF ManagerInv, Books
  <2>3. CASE [Next]_vars
    <3>1. NamesOne'
      BY <2>2, <2>3, NamesOneStep
    <3> QED
      BY <2>1, <3>1
  <2>4. CASE ManagerForgets
    <3>1. /\ call' = [s \in Session |-> Idle] /\ lease' = [s \in Session |-> "none"]
          /\ leased' = [s \in Session |-> {}]
      BY <2>4 DEF ManagerForgets
    <3>2. Idle.at = "idle" /\ Idle.todo = {}
      BY DEF Idle
    <3>3. \A s \in Session : call'[s].at = "idle" /\ call'[s].todo = {} /\ Naming(s)' = {}
      BY <3>1, <3>2 DEF Naming
    <3>4. NamesOne'
      BY <3>1, <3>3 DEF NamesOne, OneOrphanAtATime
    <3> QED
      BY <2>1, <3>4
  <2> QED
    BY <2>3, <2>4, ManagersPart
<1>3. NamesOne => OneOrphanAtATime
  BY DEF NamesOne
<1> QED
  BY <1>1, <1>2, <1>3, AlwaysIInv, PTL DEF QueueSpec

\* A benchmark's session, and any other that names one model and renews in time, has all it was
\* promised (BenchmarkHoldsItsModel), with no hypothesis on the behaviour left: whatever the
\* runtime gets wrong, wherever the service goes down.
THEOREM BenchmarkWithOneModelPerSession ==
  ASSUME ~OutsideActs, MaxPerSession = 1, ~LeasesLapse
  PROVE  QueueSpec => []BenchmarkHoldsItsModel
BY OneOrphanInTheQueue, BenchmarkAlwaysHoldsItsModel, PTL

=============================================================================
