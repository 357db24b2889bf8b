------------------------- MODULE ResourceManagerStop -------------------------
(***************************************************************************)
(* SIRVIS stopping (ResourceManager.release_on_stop, called by the app's   *)
(* lifespan): every lease is dropped, every model this manager loaded is   *)
(* unloaded, loads still under way are waited for and unloaded when they   *)
(* land, all within one budget of time, and a report names what was not    *)
(* confirmed.                                                              *)
(*                                                                         *)
(* By then the service takes no requests: those in flight after a second   *)
(* were cancelled, and so is the queue.  So a stop cuts off every call,    *)
(* wherever it waits, and only tasks and jobs move after it.  A release or *)
(* an expiry cut off in its unload clears its mark on the way out, while   *)
(* the unload it asked for goes on in its thread, awaited by nobody.       *)
(***************************************************************************)
EXTENDS ResourceManager

VARIABLES
  stop,       \* "no", "running", "done" or "outOfTime"
  jobs,       \* models whose unload a stop job awaits
  awaited,    \* loads under way at the start that may leave something to unload
  ours,       \* held and loaded here when the stop began
  left,       \* adopted holdings, released and left where they were
  handed,     \* give-backs under way at the start, and loads landed since
  confirmed,  \* unloads confirmed to the jobs of ours
  landed,     \* unloads confirmed to the one job that waits for loads
  cut         \* unloads a call cut off had asked for, not yet carried out

stopVars == <<stop, jobs, awaited, ours, left, handed, confirmed, landed, cut>>

StopInit ==
  /\ Init
  /\ stop = "no"
  /\ jobs = {} /\ awaited = {} /\ ours = {} /\ left = {} /\ handed = {}
  /\ confirmed = {} /\ landed = {} /\ cut = {}

\* The unloads that releases and expiries await as they are cut off.
CutOff == {call[s].busy : s \in UnloadLoops}

\* Every lease is dropped and every call is cut off: it stops waiting, and a
\* loop of unloads clears its mark (_finish_unload's finally).  Then one job
\* per holding runs _unload_all on it, and another waits for the loads under
\* way (_unload_landed).
Stop ==
  /\ stop = "no" /\ stop' = "running"
  /\ lease' = [s \in Session |-> "none"]
  /\ leased' = [s \in Session |-> {}]
  /\ refs' = Dropped(Session)
  /\ call' = [s \in Session |-> Idle] /\ waiters' = [m \in Model |-> 0]
  /\ ours' = owned /\ left' = held \ owned
  /\ cut' = CutOff
  /\ LET marks == unloading \ CutOff IN
       /\ held' = held \cap marks /\ owned' = owned \cap marks
       /\ jobs' = owned \ marks
       /\ unloading' = marks \cup owned
  /\ awaited' = {m \in InFlight : load[m] # "adopted"}
  /\ handed' = givingBack \cup {m \in Model : load[m] = "landed"}
  /\ UNCHANGED <<load, givingBack, loadedHere, outside, resident, confirmed, landed>>

\* An unload whose caller was cut off takes effect (or never does).
CutTakesEffect(m) ==
  /\ stop # "no" /\ m \in cut /\ OneGoes(m)
  /\ cut' = cut \ {m}
  /\ UNCHANGED <<books, loads, unloads, outside, call,
                 stop, jobs, awaited, ours, left, handed, confirmed, landed>>

\* A job's unload is answered.
JobAnswered(m) ==
  LET gone == IF m \in loadedHere' THEN {} ELSE {m} IN
  /\ stop = "running" /\ m \in jobs /\ Answered(m)
  /\ jobs' = jobs \ {m}
  /\ unloading' = unloading \ {m}
  /\ IF m \in ours THEN confirmed' = confirmed \cup gone /\ UNCHANGED landed
                   ELSE landed' = landed \cup gone /\ UNCHANGED confirmed
  /\ UNCHANGED <<books, loads, givingBack, outside, call, stop, awaited, ours, left, handed, cut>>

\* Mutant of UnloadLanded: it does not wait for the give-backs.
UnloadLandedAtOnce(m) ==
  /\ stop = "running" /\ InFlight = {}
  /\ m \in (awaited \ held) \cap loadedHere
  /\ awaited' = awaited \ {m}
  /\ jobs' = jobs \cup {m} /\ unloading' = unloading \cup {m}
  /\ UNCHANGED <<books, loads, givingBack, loadedHere, outside, resident, call,
                 stop, ours, left, handed, confirmed, landed, cut>>

\* _unload_landed, having waited for every load and give-back, comes to a
\* load of this manager's own: given back already, or asked once more.
UnloadLanded(m) ==
  /\ stop = "running" /\ InFlight = {} /\ givingBack = {}
  /\ m \in awaited \ held
  /\ awaited' = awaited \ {m}
  /\ IF m \in loadedHere
       THEN /\ jobs' = jobs \cup {m} /\ unloading' = unloading \cup {m}
            /\ UNCHANGED landed
       ELSE landed' = landed \cup {m} /\ UNCHANGED <<jobs, unloading>>
  /\ UNCHANGED <<books, loads, givingBack, loadedHere, outside, resident, call,
                 stop, ours, left, handed, confirmed, cut>>

\* Load tasks and give-backs run on.  A load that fails or adopts leaves
\* nothing to unload; one that lands here is answered for.
TaskWhileStopping(m) ==
  /\ stop = "running" /\ Task(m)
  /\ awaited' = IF load[m] \in Under /\ load'[m] \in {"none", "adopted"}
                  THEN awaited \ {m} ELSE awaited
  /\ handed' = IF load'[m] = "landed" THEN handed \cup {m} ELSE handed
  /\ landed' = IF m \in givingBack \ givingBack' /\ m \notin loadedHere'
                 THEN landed \cup {m} ELSE landed
  /\ UNCHANGED <<stop, jobs, ours, left, confirmed, cut>>

AllSettled == jobs = {} /\ InFlight = {} /\ givingBack = {} /\ awaited \subseteq held

\* _settle: every job is done, or the budget ends first and the jobs left are
\* cancelled, which clears their marks.
Settled ==
  /\ stop = "running" /\ AllSettled
  /\ stop' = "done"
  /\ UNCHANGED <<vars, jobs, awaited, ours, left, handed, confirmed, landed, cut>>

OutOfTime ==
  /\ stop = "running" /\ ~ AllSettled
  /\ stop' = "outOfTime"
  /\ unloading' = unloading \ jobs
  /\ UNCHANGED <<books, loads, givingBack, loadedHere, outside, resident, call,
                 jobs, awaited, ours, left, handed, confirmed, landed, cut>>

ServiceRuns == stop = "no" /\ Next /\ UNCHANGED stopVars

StopNext ==
  \/ ServiceRuns \/ Stop \/ Settled \/ OutOfTime
  \/ \E m \in Model : JobAnswered(m) \/ UnloadLanded(m) \/ TaskWhileStopping(m)
                      \/ CutTakesEffect(m)

allVars == <<vars, stopVars>>

StopSpec == StopInit /\ [][StopNext]_allVars

-----------------------------------------------------------------------------
(* The report, as the code puts it together when the stop ends.           *)

\* Mutant of NotUnloaded: loads that landed during the stop are not named.
NotUnloadedOfOurs == ours \ confirmed

NotUnloaded ==
  (ours \cup handed) \ (confirmed \cup (IF stop = "done" THEN landed ELSE {}))
StillLoading == {m \in awaited : load[m] \in Under}

Over == stop \in {"done", "outOfTime"}

StopTypeOK ==
  /\ TypeOK
  /\ stop \in {"no", "running", "done", "outOfTime"}
  /\ jobs \subseteq Model /\ awaited \subseteq Model
  /\ ours \subseteq Model /\ left \subseteq Model /\ handed \subseteq Model
  /\ confirmed \subseteq ours /\ landed \subseteq Model /\ cut \subseteq Model

\* "The report names what was not confirmed instead of the stop hanging on
\* it" (release_on_stop): whatever this manager loaded that is still in
\* memory is named as not unloaded, and every load that may still land as
\* still loading.  "Stopping unloads what SIRVIS loaded": a stop that had the
\* time leaves none of it in memory.  Both but for an unload that a call had
\* asked for when it was cut off: the report knows nothing of it.
ReportNamesWhatStays ==
  Over => \A m \in Model :
            /\ Here(m) => m \in NotUnloaded \cup cut
            /\ load[m] \in Under => m \in StillLoading
            /\ stop = "done" => (Here(m) => m \in cut) /\ load[m] = "none"

\* "One unload per model, whichever of the two gets there first"
\* (_unload_landed): a landed load's give-back and the stop's own unload of
\* it are never both under way.
OneUnloadPerModel == StopTypeOK /\ jobs \cap givingBack = {}
=============================================================================
